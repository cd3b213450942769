--------------------------- MODULE CommandLineProofs ---------------------------
(***************************************************************************)
(* What CommandLine makes of a line, for every line and whatever follows   *)
(* a body in memory.                                                       *)
(***************************************************************************)
EXTENDS CommandLine, SequenceTheorems, FiniteSetTheorems, Induction, TLAPS

-----------------------------------------------------------------------------
(* Commands.                                                               *)

\* The comparisons of cmdtous find every command and nothing else.
LEMMA CommandsFound ==
  \A w \in Words : cmdtous(w) = IF w \in DOMAIN OpOf THEN OpOf[w] ELSE OP_UNKNOW
<1> SUFFICES ASSUME NEW w \in Words
             PROVE  cmdtous(w) = IF w \in DOMAIN OpOf THEN OpOf[w] ELSE OP_UNKNOW
  OBVIOUS
<1> DEFINE Found == \/ w = conecta
                    \/ w < conecta /\ \E k \in DOMAIN Before :
                         (\A j \in 1..(k - 1) : w < Before[j]) /\ w = Before[k]
                    \/ w > conecta /\ \E k \in DOMAIN After :
                         (\A j \in 1..(k - 1) : w > After[j]) /\ w = After[k]
<1>1. /\ DOMAIN Before = 1..5 /\ DOMAIN After = 1..5
      /\ Before[1] = 10 /\ Before[2] = 8 /\ Before[3] = 6 /\ Before[4] = 4 /\ Before[5] = 2
      /\ After[1] = 14 /\ After[2] = 16 /\ After[3] = 18 /\ After[4] = 20 /\ After[5] = 22
  BY DEF Before, After, commit, cambiaclave, buscar, borra, bloquea, crea, desbloquea, listado, rollback, salir
<1>2. w \in 1..23 /\ conecta = 12
  BY DEF Words, conecta
<1>3. DOMAIN OpOf = {2, 4, 6, 8, 10, 12, 14, 16, 18, 20, 22}
  BY DEF OpOf, bloquea, borra, buscar, cambiaclave, commit, conecta, crea, desbloquea, listado, rollback, salir
<1>4. \A k \in 1..5 : (\A j \in 1..(k - 1) : Before[k] < Before[j])
  BY <1>1
<1>5. \A k \in 1..5 : (\A j \in 1..(k - 1) : After[k] > After[j])
  BY <1>1
<1>6. Found <=> w \in DOMAIN OpOf
  <2>1. ASSUME w \in DOMAIN OpOf PROVE Found
    <3>1. CASE w < 12
      <4>1. \E k \in 1..5 : w = Before[k]
        BY <1>1, <1>3, <2>1, <3>1
      <4> QED  BY <1>1, <1>2, <1>4, <3>1, <4>1
    <3>2. CASE w > 12
      <4>1. \E k \in 1..5 : w = After[k]
        BY <1>1, <1>3, <2>1, <3>2
      <4> QED  BY <1>1, <1>2, <1>5, <3>2, <4>1
    <3> QED  BY <1>2, <3>1, <3>2
  <2>2. ASSUME Found PROVE w \in DOMAIN OpOf
    BY <1>1, <1>2, <1>3, <2>2
  <2> QED  BY <2>1, <2>2
<1>7. cmdtous(w) = IF Found THEN OpOf[w] ELSE OP_UNKNOW
  BY DEF cmdtous
<1> QED  BY <1>6, <1>7

\* There are slots for the parameters of every operation, at least one each.
LEMMA ParametersFit == \A o \in DOMAIN NParams : NParams[o] \in 1..MAX_TOKEN_PARAMS
BY DEF NParams, MAX_TOKEN_PARAMS

\* Three of the characters a line is made of tell words apart.
LEMMA Characters == \A c \in Chars : Separator(c) /\ c # "\t" => c = " "
BY DEF Chars, Separator

-----------------------------------------------------------------------------
(* The loop of requesttoparams.                                            *)

\* What reading the i-th character makes of x.
Turned(x, str, n, i) ==
  IF Len(x.starts) < n /\ Separator(str[i])
  THEN [cuts   |-> x.cuts \cup {i},
        starts |-> x.starts \o (IF i < Len(str) THEN <<i + 1>> ELSE <<>>)]
  ELSE x

Begun == [starts |-> <<1>>, cuts |-> {}]

Looped(f, str, n, m) == f = [i \in 0..m |-> IF i = 0 THEN Begun ELSE Turned(f[i - 1], str, n, i)]

\* The recursion of the loop has a solution.
LEMMA Loops == \A str, n : \A m \in Nat : \E f : Looped(f, str, n, m)
<1> SUFFICES ASSUME NEW str, NEW n PROVE \A m \in Nat : \E f : Looped(f, str, n, m)
  OBVIOUS
<1>1. PICK T : T = {m \in Nat : \E f : Looped(f, str, n, m)}
  OBVIOUS
<1>2. 0 \in T
  <2>1. PICK f : f = [i \in 0..0 |-> Begun]
    OBVIOUS
  <2>2. f = [i \in 0..0 |-> IF i = 0 THEN Begun ELSE Turned(f[i - 1], str, n, i)]
    BY <2>1
  <2> QED  BY <1>1, <2>2 DEF Looped
<1>3. ASSUME NEW m \in Nat, m \in T PROVE m + 1 \in T
  <2>1. PICK f : f = [i \in 0..m |-> IF i = 0 THEN Begun ELSE Turned(f[i - 1], str, n, i)]
    BY <1>1, <1>3 DEF Looped
  <2>2. PICK x : x = Turned(f[m], str, n, m + 1)
    OBVIOUS
  <2>3. PICK g : g = [i \in 0..(m + 1) |-> IF i = m + 1 THEN x ELSE f[i]]
    OBVIOUS
  <2>4. ASSUME NEW i \in 0..(m + 1)
        PROVE  g[i] = IF i = 0 THEN Begun ELSE Turned(g[i - 1], str, n, i)
    <3>1. CASE i \in 0..m
      <4>1. g[i] = f[i]
        BY <2>3, <3>1
      <4>2. i # 0 => g[i - 1] = f[i - 1]
        BY <2>3, <3>1
      <4> QED  BY <2>1, <3>1, <4>1, <4>2
    <3>2. CASE i = m + 1
      <4>1. g[i] = x /\ g[m] = f[m] /\ i - 1 = m /\ i # 0
        BY <2>3, <3>2
      <4> QED  BY <2>2, <3>2, <4>1
    <3> QED  BY <3>1, <3>2
  <2>5. g = [i \in 0..(m + 1) |-> IF i = 0 THEN Begun ELSE Turned(g[i - 1], str, n, i)]
    BY <2>3, <2>4
  <2> QED  BY <1>1, <2>5 DEF Looped
<1>4. \A m \in Nat : m \in T
  BY <1>2, <1>3, InductionOnNat
<1> QED  BY <1>1, <1>4

\* Split is what the loop has found at the end of the string.
LEMMA SplitIsLoop ==
  \A str \in Seq(Chars) : \A n : \E f : Looped(f, str, n, Len(str)) /\ Split(str, n) = f[Len(str)]
<1> SUFFICES ASSUME NEW str \in Seq(Chars), NEW n
             PROVE  \E f : Looped(f, str, n, Len(str)) /\ Split(str, n) = f[Len(str)]
  OBVIOUS
<1> DEFINE Round(f) == [i \in 0..Len(str) |->
        IF i = 0 THEN [starts |-> <<1>>, cuts |-> {}]
        ELSE IF Len(f[i - 1].starts) < n /\ Separator(str[i])
        THEN [cuts   |-> f[i - 1].cuts \cup {i},
              starts |-> f[i - 1].starts \o (IF i < Len(str) THEN <<i + 1>> ELSE <<>>)]
        ELSE f[i - 1]]
<1>1. PICK loop : loop = CHOOSE f : f = Round(f)
  OBVIOUS
<1>2. PICK f : f = Round(f)
  <2> HIDE DEF Round
  <2>0. Len(str) \in Nat
    OBVIOUS
  <2>1. PICK f : Looped(f, str, n, Len(str))
    BY Loops, <2>0, Zenon
  <2> USE DEF Round
  <2>2. f = Round(f)
    BY <2>1, Zenon DEF Looped, Turned, Begun
  <2> QED  BY <2>2
<1>3. loop = Round(loop)
  <2> HIDE DEF Round
  <2> QED  BY <1>1, <1>2, Zenon
<1>4. Looped(loop, str, n, Len(str))
  BY <1>3, Zenon DEF Looped, Turned, Begun
<1>5. Split(str, n) = loop[Len(str)]
  BY <1>1, Zenon DEF Split
<1> QED  BY <1>4, <1>5

\* What the loop has found when it has read i characters: where the parameters
\* start, in order; before each start but the first a separator was cut, and
\* nowhere else but at the end; what was not cut comes after the last start.
Found(s, c, str, n, i) ==
  /\ s \in Seq(Nat) /\ Len(s) \in 1..n /\ s[1] = 1
  /\ \A k \in 1..Len(s) : s[k] \in 1..Len(str) /\ s[k] <= i + 1
  /\ \A j, k \in 1..Len(s) : j < k => s[j] < s[k]
  /\ \A k \in 2..Len(s) : s[k] - 1 \in c
  /\ \A e \in c : /\ e \in 1..i /\ Separator(str[e])
                  /\ e = Len(str) \/ \E k \in 2..Len(s) : e = s[k] - 1
  /\ \A e \in 1..i : Separator(str[e]) => e \in c \/ (Len(s) = n /\ s[n] <= e)

\* t is s with x after it.
Longer(t, s, x) ==
  t \in Seq(Nat) /\ Len(t) = Len(s) + 1 /\ t[Len(s) + 1] = x /\ \A k \in 1..Len(s) : t[k] = s[k]

LEMMA OneLonger == \A s \in Seq(Nat) : \A x \in Nat : Longer(s \o << x >>, s, x)
BY ConcatProperties DEF Longer

LEMMA NoLonger == \A s \in Seq(Nat) : s \o << >> = s
BY ConcatEmptySeq

\* The cases of a round: a separator cut with a word after it.
LEMMA CutsOne ==
  ASSUME NEW s, NEW c, NEW str \in Seq(Chars), NEW n \in Nat, NEW i \in Nat, i # 0, i < Len(str),
         Found(s, c, str, n, i - 1), Len(s) < n, Separator(str[i]), NEW t, Longer(t, s, i + 1)
  PROVE  Found(t, c \cup {i}, str, n, i)
<1> DEFINE d == c \cup {i}
<1>1. PICK m \in Nat : m = Len(s) /\ m >= 1 /\ m < n
  BY DEF Found
<1>2. PICK b \in Nat : b = Len(str) /\ i < b
  OBVIOUS
<1>3. /\ t \in Seq(Nat) /\ Len(t) = m + 1 /\ t[m + 1] = i + 1
      /\ \A k \in 1..m : t[k] = s[k]
  BY <1>1 DEF Longer
<1>4. /\ \A k \in 1..m : s[k] \in 1..b /\ s[k] <= (i - 1) + 1
      /\ \A j, k \in 1..m : j < k => s[j] < s[k]
      /\ \A k \in 2..m : s[k] - 1 \in c
      /\ s[1] = 1
  BY <1>1, <1>2 DEF Found
<1>5. \A e \in c : /\ e \in 1..(i - 1) /\ Separator(str[e])
                   /\ e = b \/ \E k \in 2..m : e = s[k] - 1
  BY <1>1, <1>2, Zenon DEF Found
<1>6. \A e \in 1..(i - 1) : Separator(str[e]) => e \in c
  <2>1. \A e \in 1..(i - 1) : Separator(str[e]) => e \in c \/ (Len(s) = n /\ s[n] <= e)
    BY DEF Found
  <2>2. Len(s) # n
    BY <1>1
  <2> QED  BY <2>1, <2>2, Zenon
<1>7. t \in Seq(Nat) /\ Len(t) \in 1..n /\ t[1] = 1
  BY <1>1, <1>3, <1>4
<1>8. \A k \in 1..(m + 1) : t[k] \in 1..b /\ t[k] <= i + 1
  <2> SUFFICES ASSUME NEW k \in 1..(m + 1) PROVE t[k] \in 1..b /\ t[k] <= i + 1
    OBVIOUS
  <2>1. CASE k = m + 1
    BY <1>2, <1>3, <2>1
  <2>2. CASE k \in 1..m
    <3>1. t[k] = s[k] /\ s[k] \in 1..b /\ s[k] <= (i - 1) + 1
      BY <1>3, <1>4, <2>2, Zenon
    <3>2. s[k] <= i + 1
      BY <3>1
    <3> QED  BY <3>1, <3>2, Zenon
  <2> QED  BY <1>1, <2>1, <2>2
<1>9. \A j, k \in 1..(m + 1) : j < k => t[j] < t[k]
  <2> SUFFICES ASSUME NEW j \in 1..(m + 1), NEW k \in 1..(m + 1), j < k PROVE t[j] < t[k]
    OBVIOUS
  <2>1. j \in 1..m /\ t[j] = s[j]
    BY <1>1, <1>3
  <2>2. CASE k = m + 1
    BY <1>3, <1>4, <2>1, <2>2
  <2>3. CASE k \in 1..m
    BY <1>3, <1>4, <2>1, <2>3
  <2> QED  BY <1>1, <2>2, <2>3
<1>10. \A k \in 2..(m + 1) : t[k] - 1 \in d
  <2> SUFFICES ASSUME NEW k \in 2..(m + 1) PROVE t[k] - 1 \in d
    OBVIOUS
  <2>1. CASE k = m + 1
    <3>1. t[k] - 1 = i
      BY <1>3, <2>1
    <3> QED  BY <3>1
  <2>2. CASE k \in 2..m
    <3>1. t[k] = s[k] /\ s[k] - 1 \in c
      BY <1>3, <1>4, <2>2
    <3> QED  BY <3>1
  <2> QED  BY <1>1, <2>1, <2>2
<1>11. ASSUME NEW e \in d
       PROVE  e \in 1..i /\ Separator(str[e]) /\ (e = b \/ \E k \in 2..(m + 1) : e = t[k] - 1)
  <2>1. CASE e = i
    <3>1. m + 1 \in 2..(m + 1) /\ e = t[m + 1] - 1 /\ e \in 1..i
      BY <1>1, <1>3, <2>1
    <3> QED  BY <2>1, <3>1
  <2>2. CASE e \in c
    <3>1. e \in 1..(i - 1) /\ Separator(str[e]) /\ (e = b \/ \E k \in 2..m : e = s[k] - 1)
      BY <1>5, <2>2, Zenon
    <3>2. \A k \in 2..m : k \in 2..(m + 1) /\ t[k] = s[k]
      BY <1>1, <1>3
    <3>3. e \in 1..i
      BY <3>1
    <3> QED  BY <3>1, <3>2, <3>3
  <2> QED  BY <1>11, <2>1, <2>2
<1>12. \A e \in 1..i : Separator(str[e]) => e \in d
  <2> SUFFICES ASSUME NEW e \in 1..i, Separator(str[e]) PROVE e \in d
    OBVIOUS
  <2>1. CASE e = i
    BY <2>1
  <2>2. CASE e # i
    <3>1. e \in 1..(i - 1)
      BY <2>2
    <3> QED  BY <1>6, <3>1
  <2> QED  BY <2>1, <2>2
<1> QED
  <2> HIDE DEF d
  <2>1. d = c \cup {i}
    BY DEF d
  <2>2. Found(t, d, str, n, i)
    BY <1>2, <1>3, <1>7, <1>8, <1>9, <1>10, <1>11, <1>12, Zenon DEF Found
  <2> QED  BY <2>1, <2>2, Zenon

\* The last character cut.
LEMMA CutsLast ==
  ASSUME NEW s, NEW c, NEW str \in Seq(Chars), NEW n \in Nat, NEW i \in Nat, i # 0, i = Len(str),
         Found(s, c, str, n, i - 1), Separator(str[i])
  PROVE  Found(s, c \cup {i}, str, n, i)
<1> DEFINE d == c \cup {i}
<1>1. /\ s \in Seq(Nat) /\ Len(s) \in 1..n /\ s[1] = 1
      /\ \A k \in 1..Len(s) : s[k] \in 1..Len(str) /\ s[k] <= (i - 1) + 1
      /\ \A j, k \in 1..Len(s) : j < k => s[j] < s[k]
      /\ \A k \in 2..Len(s) : s[k] - 1 \in c
      /\ \A e \in c : /\ e \in 1..(i - 1) /\ Separator(str[e])
                      /\ e = Len(str) \/ \E k \in 2..Len(s) : e = s[k] - 1
      /\ \A e \in 1..(i - 1) : Separator(str[e]) => e \in c \/ (Len(s) = n /\ s[n] <= e)
  BY Zenon DEF Found
<1>2. \A k \in 1..Len(s) : s[k] \in 1..Len(str) /\ s[k] <= i + 1
  BY <1>1
<1>3. \A k \in 2..Len(s) : s[k] - 1 \in d
  BY <1>1
<1>4. ASSUME NEW e \in d
      PROVE  e \in 1..i /\ Separator(str[e]) /\ (e = Len(str) \/ \E k \in 2..Len(s) : e = s[k] - 1)
  <2>1. CASE e = i
    BY <2>1
  <2>2. CASE e \in c
    <3>1. e \in 1..(i - 1) => e \in 1..i
      OBVIOUS
    <3> QED  BY <1>1, <2>2, <3>1, Zenon
  <2> QED  BY <1>4, <2>1, <2>2
<1>5. \A e \in 1..i : Separator(str[e]) => e \in d \/ (Len(s) = n /\ s[n] <= e)
  <2> SUFFICES ASSUME NEW e \in 1..i, Separator(str[e]) PROVE e \in d \/ (Len(s) = n /\ s[n] <= e)
    OBVIOUS
  <2>1. CASE e = i
    BY <2>1
  <2>2. CASE e # i
    <3>1. e \in 1..(i - 1)
      BY <2>2
    <3>2. e \in c => e \in d
      OBVIOUS
    <3> QED  BY <1>1, <3>1, <3>2, Zenon
  <2> QED  BY <2>1, <2>2
<1> QED
  <2> HIDE DEF d
  <2>1. d = c \cup {i}
    BY DEF d
  <2>2. Found(s, d, str, n, i)
    BY <1>1, <1>2, <1>3, <1>4, <1>5, Zenon DEF Found
  <2> QED  BY <2>1, <2>2, Zenon

\* Nothing cut.
LEMMA CutsNone ==
  ASSUME NEW s, NEW c, NEW str \in Seq(Chars), NEW n \in Nat, NEW i \in Nat, i # 0, i <= Len(str),
         Found(s, c, str, n, i - 1), ~(Len(s) < n /\ Separator(str[i]))
  PROVE  Found(s, c, str, n, i)
<1>1. /\ s \in Seq(Nat) /\ Len(s) \in 1..n /\ s[1] = 1
      /\ \A k \in 1..Len(s) : s[k] \in 1..Len(str) /\ s[k] <= (i - 1) + 1
      /\ \A j, k \in 1..Len(s) : j < k => s[j] < s[k]
      /\ \A k \in 2..Len(s) : s[k] - 1 \in c
      /\ \A e \in c : /\ e \in 1..(i - 1) /\ Separator(str[e])
                      /\ e = Len(str) \/ \E k \in 2..Len(s) : e = s[k] - 1
      /\ \A e \in 1..(i - 1) : Separator(str[e]) => e \in c \/ (Len(s) = n /\ s[n] <= e)
  BY Zenon DEF Found
<1>2. \A k \in 1..Len(s) : s[k] \in 1..Len(str) /\ s[k] <= i + 1
  BY <1>1
<1>3. ASSUME NEW e \in c
      PROVE  e \in 1..i /\ Separator(str[e]) /\ (e = Len(str) \/ \E k \in 2..Len(s) : e = s[k] - 1)
  <2>1. e \in 1..(i - 1) => e \in 1..i
    OBVIOUS
  <2> QED  BY <1>1, <2>1, Zenon
<1>4. \A e \in 1..i : Separator(str[e]) => e \in c \/ (Len(s) = n /\ s[n] <= e)
  <2> SUFFICES ASSUME NEW e \in 1..i, Separator(str[e]) PROVE e \in c \/ (Len(s) = n /\ s[n] <= e)
    OBVIOUS
  <2>1. CASE e = i
    <3>1. Len(s) = n
      BY <1>1, <2>1
    <3>2. s[n] <= (i - 1) + 1
      BY <1>1, <3>1
    <3> QED  BY <2>1, <3>1, <3>2
  <2>2. CASE e # i
    <3>1. e \in 1..(i - 1)
      BY <2>2
    <3> QED  BY <1>1, <3>1, Zenon
  <2> QED  BY <2>1, <2>2
<1> QED  BY <1>1, <1>2, <1>3, <1>4, Zenon DEF Found

LEMMA FirstFound ==
  ASSUME NEW str \in Seq(Chars), str # <<>>, NEW n \in Nat, n # 0
  PROVE  Found(<< 1 >>, {}, str, n, 0)
<1>1. PICK s : s = << 1 >>
  OBVIOUS
<1>2. s \in Seq(Nat) /\ Len(s) = 1 /\ s[1] = 1
  BY <1>1
<1>3. Len(str) \in Nat /\ Len(str) # 0
  BY EmptySeq
<1>4. Found(s, {}, str, n, 0)
  BY <1>2, <1>3 DEF Found
<1> QED  BY <1>1, <1>4, Zenon

LEMMA TurnFound ==
  ASSUME NEW x, NEW str \in Seq(Chars), NEW n \in Nat, NEW i \in Nat, i # 0, i <= Len(str),
         Found(x.starts, x.cuts, str, n, i - 1)
  PROVE  Found(Turned(x, str, n, i).starts, Turned(x, str, n, i).cuts, str, n, i)
<1>1. PICK s, c : s = x.starts /\ c = x.cuts
  OBVIOUS
<1>2. Found(s, c, str, n, i - 1) /\ s \in Seq(Nat)
  BY <1>1, Zenon DEF Found
<1>3. CASE ~(Len(s) < n /\ Separator(str[i]))
  <2>1. Found(s, c, str, n, i)
    BY <1>2, <1>3, CutsNone
  <2>2. Turned(x, str, n, i) = x
    BY <1>1, <1>3, Zenon DEF Turned
  <2> QED  BY <1>1, <2>1, <2>2, Zenon
<1>4. CASE Len(s) < n /\ Separator(str[i])
  <2>1. PICK t : t = s \o (IF i < Len(str) THEN << i + 1 >> ELSE << >>)
    OBVIOUS
  <2>2. Turned(x, str, n, i) = [cuts |-> c \cup {i}, starts |-> t]
    BY <1>1, <1>4, <2>1, Zenon DEF Turned
  <2>3. Turned(x, str, n, i).starts = t /\ Turned(x, str, n, i).cuts = c \cup {i}
    BY <2>2
  <2>4. Found(t, c \cup {i}, str, n, i)
    <3>1. CASE i < Len(str)
      <4>1. i + 1 \in Nat
        OBVIOUS
      <4>2. t = s \o << i + 1 >>
        BY <2>1, <3>1, Zenon
      <4>3. Longer(t, s, i + 1)
        BY <1>2, <4>1, <4>2, OneLonger, Zenon
      <4> QED  BY <1>2, <1>4, <3>1, <4>3, CutsOne
    <3>2. CASE ~(i < Len(str))
      <4>1. i = Len(str)
        BY <3>2
      <4>2. t = s
        BY <1>2, <2>1, <3>2, NoLonger, Zenon
      <4>3. Found(s, c \cup {i}, str, n, i)
        BY <1>2, <1>4, <4>1, CutsLast
      <4> QED  BY <4>2, <4>3, Zenon
    <3> QED  BY <3>1, <3>2
  <2> QED  BY <2>3, <2>4, Zenon
<1> QED  BY <1>3, <1>4

\* What the loop has found at the end of the string.
LEMMA SplitFound ==
  \A str \in Seq(Chars) : \A n \in Nat : str # <<>> /\ n # 0 =>
    Found(Split(str, n).starts, Split(str, n).cuts, str, n, Len(str))
<1> SUFFICES ASSUME NEW str \in Seq(Chars), NEW n \in Nat, str # <<>>, n # 0
             PROVE  Found(Split(str, n).starts, Split(str, n).cuts, str, n, Len(str))
  OBVIOUS
<1>1. PICK f : Looped(f, str, n, Len(str)) /\ Split(str, n) = f[Len(str)]
  BY SplitIsLoop
<1>2. Len(str) \in Nat
  OBVIOUS
<1>3. PICK b \in Nat : b = Len(str)
  BY <1>2
<1>4. f = [i \in 0..b |-> IF i = 0 THEN Begun ELSE Turned(f[i - 1], str, n, i)]
  BY <1>1, <1>3, Zenon DEF Looped
<1>5. PICK T : T = {i \in Nat : Found(f[i].starts, f[i].cuts, str, n, i)}
  OBVIOUS
<1>6. 0 \in T
  <2>1. f[0] = Begun
    BY <1>4
  <2>2. f[0].starts = << 1 >> /\ f[0].cuts = {}
    BY <2>1 DEF Begun
  <2>3. Found(<< 1 >>, {}, str, n, 0)
    BY FirstFound
  <2> QED  BY <1>5, <2>2, <2>3
<1>7. ASSUME NEW i \in Nat, i < b, i \in T PROVE i + 1 \in T
  <2>1. i + 1 \in 0..b /\ i + 1 # 0 /\ (i + 1) - 1 = i /\ i + 1 \in Nat /\ i + 1 <= Len(str)
    BY <1>3, <1>7
  <2>2. f[i + 1] = Turned(f[i], str, n, i + 1)
    BY <1>4, <2>1
  <2>3. Found(f[i].starts, f[i].cuts, str, n, (i + 1) - 1)
    BY <1>5, <1>7, <2>1
  <2>4. PICK x : x = f[i]
    OBVIOUS
  <2>5. Found(x.starts, x.cuts, str, n, (i + 1) - 1)
    BY <2>3, <2>4, Zenon
  <2>6. Found(Turned(x, str, n, i + 1).starts, Turned(x, str, n, i + 1).cuts, str, n, i + 1)
    BY <2>1, <2>5, TurnFound
  <2>7. Found(f[i + 1].starts, f[i + 1].cuts, str, n, i + 1)
    BY <2>2, <2>4, <2>6, Zenon
  <2> QED  BY <1>5, <2>1, <2>7
<1>8. \A i \in 0..b : i \in T
  BY <1>6, <1>7, InductionTo
<1>9. b \in T
  BY <1>8
<1> QED  BY <1>1, <1>3, <1>5, <1>9

-----------------------------------------------------------------------------
(* The parameters that it makes.                                           *)

\* Where the k-th parameter ends: the zero after it.
EndOf(s, c, str, k) ==
  IF k < Len(s) THEN s[k + 1] - 1 ELSE IF Len(str) \in c THEN Len(str) ELSE Len(str) + 1

\* The least of a set of integers is the one that CHOOSE finds.
LEMMA LeastIs ==
  ASSUME NEW ends \in SUBSET Int, NEW e \in ends, \A f \in ends : e <= f
  PROVE  (CHOOSE x \in ends : \A f \in ends : x <= f) = e
<1>1. PICK y : y = CHOOSE x \in ends : \A f \in ends : x <= f
  OBVIOUS
<1>2. y \in ends /\ \A f \in ends : y <= f
  BY <1>1
<1>3. y <= e /\ e <= y /\ y \in Int /\ e \in Int
  BY <1>2
<1> QED  BY <1>1, <1>3

LEMMA StringEnds ==
  ASSUME NEW s, NEW c, NEW str \in Seq(Chars), NEW n \in Nat, Found(s, c, str, n, Len(str)), NEW k \in 1..Len(s)
  PROVE  /\ EndOf(s, c, str, k) \in s[k]..(Len(str) + 1)
         /\ StringAt(str, c, s[k]) = SubSeq(str, s[k], EndOf(s, c, str, k) - 1)
<1>1. PICK b \in Nat : b = Len(str)
  OBVIOUS
<1>2. PICK m \in Nat : m = Len(s) /\ k \in 1..m
  BY DEF Found
<1>3. /\ \A j \in 1..m : s[j] \in 1..b
      /\ \A j, l \in 1..m : j < l => s[j] < s[l]
      /\ \A l \in 2..m : s[l] - 1 \in c
      /\ \A e \in c : e \in 1..b
      /\ \A e \in c : e = b \/ \E l \in 2..m : e = s[l] - 1
  BY <1>1, <1>2, Zenon DEF Found
<1>4. PICK e : e = EndOf(s, c, str, k)
  OBVIOUS
<1>5. e = IF k < m THEN s[k + 1] - 1 ELSE IF b \in c THEN b ELSE b + 1
  BY <1>1, <1>2, <1>4, Zenon DEF EndOf
<1>6. e \in s[k]..(b + 1) /\ e \in c \cup {b + 1}
  <2>1. CASE k < m
    <3>1. k + 1 \in 2..m /\ k + 1 \in 1..m /\ k < k + 1
      BY <1>2, <2>1
    <3>2. s[k] < s[k + 1] /\ s[k + 1] - 1 \in c /\ s[k] \in 1..b /\ s[k + 1] \in 1..b
      BY <1>2, <1>3, <3>1
    <3> QED  BY <1>5, <2>1, <3>2
  <2>2. CASE ~(k < m)
    <3>1. s[k] \in 1..b
      BY <1>2, <1>3
    <3> QED  BY <1>5, <2>2, <3>1
  <2> QED  BY <2>1, <2>2
<1>7. PICK ends : ends = {x \in c \cup {b + 1} : x >= s[k]}
  OBVIOUS
<1>8. s[k] \in Int /\ ends \in SUBSET Int /\ e \in ends
  <2>1. s[k] \in 1..b
    BY <1>2, <1>3
  <2>2. \A x \in ends : x \in Int
    BY <1>3, <1>7
  <2>3. e >= s[k] /\ e \in c \cup {b + 1} /\ s[k] \in Int
    BY <1>6, <2>1
  <2> QED  BY <1>7, <2>2, <2>3
<1>9. ASSUME NEW f \in ends PROVE e <= f
  <2>1. f >= s[k] /\ (f = b + 1 \/ f \in c)
    BY <1>7
  <2>2. CASE f = b + 1
    BY <1>6, <1>8, <2>2
  <2>3. CASE f \in c /\ f = b
    <3>1. CASE k < m
      <4>1. k + 1 \in 1..m
        BY <1>2, <3>1
      <4>2. s[k + 1] \in 1..b
        BY <1>3, <4>1
      <4> QED  BY <1>5, <2>3, <3>1, <4>2
    <3>2. CASE ~(k < m)
      BY <1>5, <2>3, <3>2
    <3> QED  BY <3>1, <3>2
  <2>4. CASE f \in c /\ f # b
    <3>1. PICK l \in 2..m : f = s[l] - 1
      BY <1>3, <2>4
    <3>2. l \in 1..m /\ k \in 1..m /\ s[l] \in 1..b /\ s[k] \in 1..b
      BY <1>2, <1>3, <3>1
    <3>3. k < l
      <4>1. SUFFICES ASSUME ~(k < l) PROVE FALSE
        OBVIOUS
      <4>2. l = k \/ l < k
        BY <3>2, <4>1
      <4>3. s[l] <= s[k]
        BY <1>3, <3>2, <4>2
      <4> QED  BY <2>1, <3>1, <3>2, <4>3
    <3>4. k + 1 \in 1..m /\ k < m /\ (l = k + 1 \/ k + 1 < l)
      BY <3>2, <3>3
    <3>5. s[k + 1] \in 1..b /\ s[k + 1] <= s[l]
      BY <1>3, <3>2, <3>4
    <3>6. e = s[k + 1] - 1
      BY <1>5, <3>4
    <3>7. \A x, y \in 1..b : x <= y => x - 1 <= y - 1
      OBVIOUS
    <3>8. s[k + 1] - 1 <= s[l] - 1
      BY <3>2, <3>5, <3>7, Zenon
    <3> QED  BY <3>1, <3>6, <3>8, Zenon
  <2> QED  BY <2>1, <2>2, <2>3, <2>4
<1>10. (CHOOSE x \in ends : \A f \in ends : x <= f) = e
  BY <1>8, <1>9, LeastIs
<1>11. StringAt(str, c, s[k]) = SubSeq(str, s[k], (CHOOSE x \in ends : \A f \in ends : x <= f) - 1)
  BY <1>1, <1>7, Zenon DEF StringAt
<1> QED  BY <1>1, <1>4, <1>6, <1>10, <1>11, Zenon

\* A parameter that is not the last of those asked for is a word.
LEMMA WordBefore ==
  ASSUME NEW s, NEW c, NEW str \in Seq(Chars), NEW n \in Nat, Found(s, c, str, n, Len(str)),
         NEW k \in 1..Len(s), k < n, NEW i \in s[k]..(EndOf(s, c, str, k) - 1)
  PROVE  ~Separator(str[i])
<1>1. PICK b \in Nat : b = Len(str)
  OBVIOUS
<1>2. PICK m \in Nat : m = Len(s) /\ k \in 1..m
  BY DEF Found
<1>3. /\ \A j \in 1..m : s[j] \in 1..b
      /\ \A j, l \in 1..m : j < l => s[j] < s[l]
      /\ \A e \in c : e = b \/ \E l \in 2..m : e = s[l] - 1
      /\ \A e \in 1..b : Separator(str[e]) => e \in c \/ (m = n /\ s[n] <= e)
  BY <1>1, <1>2, Zenon DEF Found
<1>4. PICK e : e = EndOf(s, c, str, k) /\ e \in s[k]..(b + 1)
  BY <1>1, StringEnds
<1>5. e = IF k < m THEN s[k + 1] - 1 ELSE IF b \in c THEN b ELSE b + 1
  BY <1>1, <1>2, <1>4, Zenon DEF EndOf
<1>6. s[k] \in 1..b /\ i \in s[k]..(e - 1) /\ i \in 1..b /\ i < e
  <2>1. s[k] \in 1..b /\ i \in s[k]..(e - 1)
    BY <1>2, <1>3, <1>4
  <2> QED  BY <1>4, <2>1
<1>7. SUFFICES ASSUME Separator(str[i]) PROVE FALSE
  OBVIOUS
<1>8. CASE m = n /\ s[n] <= i
  <2>1. k < m /\ k + 1 \in 1..m /\ n \in 1..m /\ (k + 1 = n \/ k + 1 < n)
    BY <1>2, <1>8
  <2>2. s[k + 1] <= s[n] /\ s[k + 1] \in 1..b /\ s[n] \in 1..b
    BY <1>3, <2>1
  <2> QED  BY <1>5, <1>6, <1>8, <2>1, <2>2
<1>9. CASE i \in c /\ i = b
  <2>1. CASE k < m
    <3>1. k + 1 \in 1..m
      BY <1>2, <2>1
    <3>2. s[k + 1] \in 1..b
      BY <1>3, <3>1
    <3> QED  BY <1>5, <1>6, <1>9, <2>1, <3>2
  <2>2. CASE ~(k < m)
    BY <1>5, <1>6, <1>9, <2>2
  <2> QED  BY <2>1, <2>2
<1>10. CASE i \in c /\ i # b
  <2>1. PICK l \in 2..m : i = s[l] - 1
    BY <1>3, <1>10
  <2>2. l \in 1..m /\ k \in 1..m /\ s[l] \in 1..b
    BY <1>2, <1>3, <2>1
  <2>3. k < l
    <3>1. SUFFICES ASSUME ~(k < l) PROVE FALSE
      OBVIOUS
    <3>2. l = k \/ l < k
      BY <2>2, <3>1
    <3>3. s[l] <= s[k]
      BY <1>3, <2>2, <3>2, <1>6
    <3> QED  BY <1>6, <2>1, <2>2, <3>3
  <2>4. k + 1 \in 1..m /\ k < m /\ (l = k + 1 \/ k + 1 < l)
    BY <2>2, <2>3
  <2>5. s[k + 1] \in 1..b /\ s[k + 1] <= s[l]
    BY <1>3, <2>2, <2>4
  <2>6. e = s[k + 1] - 1
    BY <1>5, <2>4
  <2>7. e <= i
    <3>1. \A x, y \in 1..b : x <= y => x - 1 <= y - 1
      OBVIOUS
    <3>2. s[k + 1] - 1 <= s[l] - 1
      BY <2>2, <2>5, <3>1, Zenon
    <3> QED  BY <2>1, <2>6, <3>2, Zenon
  <2>8. i < e
    BY <1>6
  <2>9. i \in Int
    BY <1>6
  <2>10. e \in Int
    BY <1>4
  <2> QED  BY <2>7, <2>8, <2>9, <2>10
<1> QED  BY <1>3, <1>6, <1>7, <1>8, <1>9, <1>10

-----------------------------------------------------------------------------
(* The parameters put together again.                                      *)

\* What the k-th slot adds to the parameters before it.
Put(a, k) == IF k - 1 \in Texts THEN a \o <<" ">> \o params[k - 1] ELSE a

Joining(f, m) == f = [k \in 0..m |-> IF k = 0 THEN <<>> ELSE Put(f[k - 1], k)]

\* The recursion of Arrived has a solution.
LEMMA Joins == \A m \in Nat : \E f : Joining(f, m)
<1>1. PICK T : T = {m \in Nat : \E f : Joining(f, m)}
  OBVIOUS
<1>2. 0 \in T
  <2>1. PICK f : f = [k \in 0..0 |-> <<>>]
    OBVIOUS
  <2>2. f = [k \in 0..0 |-> IF k = 0 THEN <<>> ELSE Put(f[k - 1], k)]
    BY <2>1
  <2> QED  BY <1>1, <2>2 DEF Joining
<1>3. ASSUME NEW m \in Nat, m \in T PROVE m + 1 \in T
  <2>1. PICK f : f = [k \in 0..m |-> IF k = 0 THEN <<>> ELSE Put(f[k - 1], k)]
    BY <1>1, <1>3 DEF Joining
  <2>2. PICK x : x = Put(f[m], m + 1)
    OBVIOUS
  <2>3. PICK g : g = [k \in 0..(m + 1) |-> IF k = m + 1 THEN x ELSE f[k]]
    OBVIOUS
  <2>4. ASSUME NEW k \in 0..(m + 1) PROVE g[k] = IF k = 0 THEN <<>> ELSE Put(g[k - 1], k)
    <3>1. CASE k \in 0..m
      <4>1. g[k] = f[k]
        BY <2>3, <3>1
      <4>2. k # 0 => g[k - 1] = f[k - 1]
        BY <2>3, <3>1
      <4> QED  BY <2>1, <3>1, <4>1, <4>2
    <3>2. CASE k = m + 1
      <4>1. g[k] = x /\ g[m] = f[m] /\ k - 1 = m /\ k # 0
        BY <2>3, <3>2
      <4> QED  BY <2>2, <3>2, <4>1
    <3> QED  BY <3>1, <3>2
  <2>5. g = [k \in 0..(m + 1) |-> IF k = 0 THEN <<>> ELSE Put(g[k - 1], k)]
    BY <2>3, <2>4
  <2> QED  BY <1>1, <2>5 DEF Joining
<1>4. \A m \in Nat : m \in T
  BY <1>2, <1>3, InductionOnNat
<1> QED  BY <1>1, <1>4

LEMMA ArrivedIsJoined == \E f : Joining(f, MAX_TOKEN_PARAMS) /\ Arrived = f[MAX_TOKEN_PARAMS]
<1> DEFINE Round(f) == [k \in 0..MAX_TOKEN_PARAMS |->
        IF k = 0 THEN <<>>
        ELSE IF k - 1 \in Texts THEN f[k - 1] \o <<" ">> \o params[k - 1]
        ELSE f[k - 1]]
<1>1. PICK joined : joined = CHOOSE f : f = Round(f)
  OBVIOUS
<1>2. PICK f : f = Round(f)
  <2> HIDE DEF Round
  <2>0. MAX_TOKEN_PARAMS \in Nat
    BY DEF MAX_TOKEN_PARAMS
  <2>1. PICK f : Joining(f, MAX_TOKEN_PARAMS)
    BY Joins, <2>0, Zenon
  <2> USE DEF Round
  <2>2. f = Round(f)
    BY <2>1, Zenon DEF Joining, Put
  <2> QED  BY <2>2
<1>3. joined = Round(joined)
  <2> HIDE DEF Round
  <2> QED  BY <1>1, <1>2, Zenon
<1>4. Joining(joined, MAX_TOKEN_PARAMS)
  BY <1>3, Zenon DEF Joining, Put
<1>5. Arrived = joined[MAX_TOKEN_PARAMS]
  BY <1>1, Zenon DEF Arrived
<1> QED  BY <1>4, <1>5

Space == " "

\* t is a, a space and p.
Spaced(t, a, p) ==
  /\ t \in Seq(Chars) /\ Len(t) = Len(a) + 1 + Len(p)
  /\ \A i \in 1..Len(a) : t[i] = a[i]
  /\ t[Len(a) + 1] = Space
  /\ \A i \in 1..Len(p) : t[Len(a) + 1 + i] = p[i]

LEMMA SpaceBetween == \A a, p \in Seq(Chars) : Spaced(a \o <<" ">> \o p, a, p)
<1> SUFFICES ASSUME NEW a \in Seq(Chars), NEW p \in Seq(Chars), NEW x \in Chars, x = Space
             PROVE  Spaced(a \o << x >> \o p, a, p)
  <2>1. " " \in Chars
    BY DEF Chars
  <2> QED  BY <2>1, Zenon DEF Space
<1>1. PICK w : w = << x >>
  OBVIOUS
<1>2. w \in Seq(Chars) /\ Len(w) = 1 /\ w[1] = x
  BY <1>1
<1>3. PICK u : u = a \o w
  OBVIOUS
<1>4. u \in Seq(Chars) /\ Len(u) = Len(a) + 1 /\ (\A i \in 1..Len(a) : u[i] = a[i]) /\ u[Len(a) + 1] = x
  <2>1. /\ u \in Seq(Chars) /\ Len(u) = Len(a) + Len(w)
        /\ \A i \in 1..(Len(a) + Len(w)) : u[i] = IF i <= Len(a) THEN a[i] ELSE w[i - Len(a)]
    <3>1. /\ a \o w \in Seq(Chars) /\ Len(a \o w) = Len(a) + Len(w)
          /\ \A i \in 1..(Len(a) + Len(w)) : (a \o w)[i] = IF i <= Len(a) THEN a[i] ELSE w[i - Len(a)]
      BY <1>2, ConcatProperties, Zenon
    <3> QED  BY <1>3, <3>1, Zenon
  <2>2. PICK k \in Nat : k = Len(a)
    OBVIOUS
  <2>3. /\ Len(u) = k + 1
        /\ \A i \in 1..(k + 1) : u[i] = IF i <= k THEN a[i] ELSE w[i - k]
    BY <1>2, <2>1, <2>2, Zenon
  <2>4. (\A i \in 1..k : u[i] = a[i]) /\ u[k + 1] = x
    BY <1>2, <2>3
  <2> QED  BY <2>1, <2>2, <2>3, <2>4, Zenon
<1>5. PICK t : t = u \o p
  OBVIOUS
<1>6. /\ t \in Seq(Chars) /\ Len(t) = Len(u) + Len(p)
      /\ \A i \in 1..(Len(u) + Len(p)) : t[i] = IF i <= Len(u) THEN u[i] ELSE p[i - Len(u)]
  <2>1. u \in Seq(Chars) /\ p \in Seq(Chars)
    BY <1>4
  <2>2. /\ u \o p \in Seq(Chars) /\ Len(u \o p) = Len(u) + Len(p)
        /\ \A i \in 1..(Len(u) + Len(p)) : (u \o p)[i] = IF i <= Len(u) THEN u[i] ELSE p[i - Len(u)]
    BY <2>1, ConcatProperties, Zenon
  <2> QED  BY <1>5, <2>2, Zenon
<1>7. PICK k, l \in Nat : k = Len(a) /\ l = Len(p)
  OBVIOUS
<1>8. Len(t) = k + 1 + l /\ Len(u) = k + 1
  BY <1>4, <1>6, <1>7
<1>9. \A i \in 1..k : t[i] = a[i]
  BY <1>4, <1>6, <1>7, <1>8
<1>10. t[k + 1] = x
  BY <1>4, <1>6, <1>7, <1>8
<1>11. \A i \in 1..l : t[k + 1 + i] = p[i]
  <2> SUFFICES ASSUME NEW i \in 1..l PROVE t[k + 1 + i] = p[i]
    OBVIOUS
  <2>1. k + 1 + i \in 1..(Len(u) + Len(p)) /\ ~(k + 1 + i <= Len(u)) /\ (k + 1 + i) - Len(u) = i
    BY <1>7, <1>8
  <2>2. t[k + 1 + i] = p[(k + 1 + i) - Len(u)]
    BY <1>6, <2>1, Zenon
  <2> QED  BY <2>1, <2>2, Zenon
<1>12. Spaced(t, a, p)
  BY <1>6, <1>7, <1>8, <1>9, <1>10, <1>11, Zenon DEF Spaced
<1> QED  BY <1>1, <1>3, <1>5, <1>12, Zenon

\* a is the beginning of str after a space, with spaces for some separators.
Like(a, str) ==
  /\ a \in Seq(Chars) /\ Len(a) <= Len(str) + 1
  /\ \A i \in 1..Len(a) : IF i = 1 THEN a[i] = Space
                          ELSE a[i] = str[i - 1] \/ (a[i] = Space /\ Separator(str[i - 1]))

\* p is what str holds from i up to e.
IsPart(p, str, i, e) == p \in Seq(Chars) /\ Len(p) = e - i /\ \A j \in 1..(e - i) : p[j] = str[i + j - 1]

LEMMA PartOf ==
  \A str \in Seq(Chars) : \A i \in 1..Len(str) : \A e \in i..(Len(str) + 1) :
    IsPart(SubSeq(str, i, e - 1), str, i, e)
<1> SUFFICES ASSUME NEW str \in Seq(Chars), NEW i \in 1..Len(str), NEW e \in i..(Len(str) + 1)
             PROVE  IsPart(SubSeq(str, i, e - 1), str, i, e)
  OBVIOUS
<1>1. e - 1 \in Int /\ i \in Int
  OBVIOUS
<1>2. \A j \in i..(e - 1) : str[j] \in Chars
  <2>1. \A j \in i..(e - 1) : j \in 1..Len(str)
    OBVIOUS
  <2> QED  BY <2>1
<1>3. PICK n \in Int : n = e - 1
  BY <1>1
<1>4. /\ SubSeq(str, i, n) \in Seq(Chars)
      /\ Len(SubSeq(str, i, n)) = IF i <= n THEN n - i + 1 ELSE 0
      /\ \A j \in 1..n - i + 1 : SubSeq(str, i, n)[j] = str[i + j - 1]
  <2>1. \A j \in i..n : str[j] \in Chars
    BY <1>2, <1>3
  <2>2. i \in Int
    OBVIOUS
  <2> QED  BY <2>1, <2>2, SubSeqProperties
<1>5. n - i + 1 = e - i /\ (IF i <= n THEN n - i + 1 ELSE 0) = e - i
  BY <1>3
<1>6. IsPart(SubSeq(str, i, n), str, i, e)
  BY <1>4, <1>5, Zenon DEF IsPart
<1> QED  BY <1>3, <1>6, Zenon

LEMMA LikeGrows ==
  ASSUME NEW str \in Seq(Chars), NEW a, Like(a, str), NEW i \in 1..Len(str), i = Len(a) + 1,
         i = 1 \/ Separator(str[i - 1]), NEW e \in i..(Len(str) + 1), NEW p, IsPart(p, str, i, e),
         NEW t, Spaced(t, a, p)
  PROVE  Like(t, str) /\ Len(t) = e
<1>1. PICK b \in Nat : b = Len(str)
  OBVIOUS
<1>3. p \in Seq(Chars) /\ Len(p) = e - i /\ \A j \in 1..(e - i) : p[j] = str[i + j - 1]
  BY Zenon DEF IsPart
<1>4. /\ t \in Seq(Chars) /\ Len(t) = Len(a) + 1 + Len(p)
      /\ \A j \in 1..Len(a) : t[j] = a[j]
      /\ t[Len(a) + 1] = Space
      /\ \A j \in 1..Len(p) : t[Len(a) + 1 + j] = p[j]
  BY Zenon DEF Spaced
<1>5. /\ a \in Seq(Chars)
      /\ \A j \in 1..Len(a) : IF j = 1 THEN a[j] = Space
                              ELSE a[j] = str[j - 1] \/ (a[j] = Space /\ Separator(str[j - 1]))
  BY Zenon DEF Like
<1>6. PICK k \in Nat : k = Len(a) /\ i = k + 1
  BY <1>5
<1>7. PICK l \in Nat : l = Len(p) /\ l = e - i
  <2>1. e - i \in Nat
    OBVIOUS
  <2> QED  BY <1>3, <2>1, Zenon
<1>8. Len(t) = e /\ e <= b + 1
  BY <1>1, <1>4, <1>6, <1>7
<1>9. ASSUME NEW j \in 1..e
      PROVE  IF j = 1 THEN t[j] = Space ELSE t[j] = str[j - 1] \/ (t[j] = Space /\ Separator(str[j - 1]))
  <2>1. CASE j <= k
    <3>1. j \in 1..Len(a)
      BY <1>6, <2>1
    <3>2. t[j] = a[j]
      BY <1>4, <3>1
    <3> QED  BY <1>5, <3>1, <3>2, Zenon
  <2>2. CASE j = i
    <3>1. t[j] = Space
      BY <1>4, <1>6, <2>2
    <3> QED  BY <2>2, <3>1
  <2>3. CASE j > i
    <3>1. PICK q \in 1..l : q = j - i
      <4>1. j - i \in 1..l
        BY <1>1, <1>7, <2>3
      <4> QED  BY <4>1, Zenon
    <3>2. q \in 1..Len(p) /\ q \in 1..(e - i) /\ Len(a) + 1 + q = j /\ i + q - 1 = j - 1 /\ j # 1
      BY <1>6, <1>7, <2>3, <3>1
    <3>3. t[Len(a) + 1 + q] = p[q] /\ p[q] = str[i + q - 1]
      BY <1>3, <1>4, <3>2, Zenon
    <3>4. t[j] = str[j - 1]
      BY <3>2, <3>3, Zenon
    <3> QED  BY <3>2, <3>4, Zenon
  <2> QED  BY <1>6, <2>1, <2>2, <2>3
<1> QED  BY <1>1, <1>4, <1>8, <1>9, Zenon DEF Like

\* The slots hold what Split makes of str, and no other texts.
Served(s, c, str, n) ==
  /\ str \in Seq(Chars) /\ str # <<>> /\ n \in 1..MAX_TOKEN_PARAMS
  /\ Found(s, c, str, n, Len(str))
  /\ Texts = 0..(Len(s) - 1)
  /\ \A k \in 1..Len(s) : params[k - 1] = StringAt(str, c, s[k])

LEMMA TextIsPart ==
  ASSUME NEW s, NEW c, NEW str, NEW n, Served(s, c, str, n), NEW k \in 1..Len(s)
  PROVE  /\ s[k] \in 1..Len(str) /\ EndOf(s, c, str, k) \in s[k]..(Len(str) + 1)
         /\ IsPart(params[k - 1], str, s[k], EndOf(s, c, str, k))
<1>1. str \in Seq(Chars) /\ n \in Nat /\ Found(s, c, str, n, Len(str))
  BY DEF Served
<1>2. s[k] \in 1..Len(str)
  BY <1>1 DEF Found
<1>3. /\ EndOf(s, c, str, k) \in s[k]..(Len(str) + 1)
      /\ StringAt(str, c, s[k]) = SubSeq(str, s[k], EndOf(s, c, str, k) - 1)
  BY <1>1, StringEnds
<1>4. IsPart(SubSeq(str, s[k], EndOf(s, c, str, k) - 1), str, s[k], EndOf(s, c, str, k))
  BY <1>1, <1>2, <1>3, PartOf, Zenon
<1>5. params[k - 1] = StringAt(str, c, s[k])
  BY Zenon DEF Served
<1> QED  BY <1>2, <1>3, <1>4, <1>5, Zenon

\* The parameters put together are the string after a space, but for what
\* follows the last of them: a separator, at most.
LEMMA ArrivedIs ==
  ASSUME NEW s, NEW c, NEW str, NEW n, Served(s, c, str, n)
  PROVE  Like(Arrived, str) /\ Len(Arrived) = EndOf(s, c, str, Len(s))
<1>1. PICK f : Joining(f, MAX_TOKEN_PARAMS) /\ Arrived = f[MAX_TOKEN_PARAMS]
  BY ArrivedIsJoined
<1>2. \A k \in 0..5 : f[k] = IF k = 0 THEN <<>> ELSE Put(f[k - 1], k)
  BY <1>1 DEF Joining, MAX_TOKEN_PARAMS
<1>3. str \in Seq(Chars) /\ n \in 1..5 /\ Found(s, c, str, n, Len(str))
  BY DEF Served, MAX_TOKEN_PARAMS
<1>4. PICK m \in 1..5 : m = Len(s)
  <2>1. Len(s) \in 1..n
    BY <1>3, Zenon DEF Found
  <2>2. \A x \in 1..5 : \A y \in 1..x : y \in 1..5
    OBVIOUS
  <2>3. Len(s) \in 1..5
    BY <1>3, <2>1, <2>2, Zenon
  <2> QED  BY <2>3, Zenon
<1>5. Texts = 0..(m - 1)
  BY <1>4, Zenon DEF Served
<1>6. /\ s[1] = 1
      /\ \A k \in 2..m : s[k] - 1 \in c
      /\ \A e \in c : Separator(str[e])
  BY <1>4, <1>3, Zenon DEF Found
<1>7. \A k \in 1..m : /\ s[k] \in 1..Len(str) /\ EndOf(s, c, str, k) \in s[k]..(Len(str) + 1)
                      /\ IsPart(params[k - 1], str, s[k], EndOf(s, c, str, k))
  BY <1>4, TextIsPart
<1>8. PICK T : T = {k \in Nat : k <= m => /\ Like(f[k], str)
                                          /\ Len(f[k]) = IF k = 0 THEN 0 ELSE EndOf(s, c, str, k)}
  OBVIOUS
<1>9. 0 \in T
  <2>1. f[0] = <<>>
    BY <1>2
  <2>2. PICK a : a = << >>
    OBVIOUS
  <2>3. a \in Seq(Chars) /\ Len(a) = 0
    BY <2>2
  <2>4. Like(a, str)
    BY <1>3, <2>3 DEF Like
  <2> QED  BY <1>8, <2>1, <2>2, <2>3, <2>4
<1>10. ASSUME NEW k \in Nat, k \in T PROVE k + 1 \in T
  <2>1. SUFFICES ASSUME k + 1 <= m
                 PROVE  Like(f[k + 1], str) /\ Len(f[k + 1]) = EndOf(s, c, str, k + 1)
    BY <1>8
  <2>2. /\ k + 1 \in 1..m /\ k + 1 \in 0..5 /\ k + 1 # 0 /\ (k + 1) - 1 = k /\ k \in 0..(m - 1)
        /\ k # 0 => k \in 1..m /\ k < m /\ k + 1 \in 2..m
    BY <1>4, <2>1
  <2>3. PICK a, p, i, e : a = f[k] /\ p = params[k] /\ i = s[k + 1] /\ e = EndOf(s, c, str, k + 1)
    OBVIOUS
  <2>4. i \in 1..Len(str) /\ e \in i..(Len(str) + 1) /\ IsPart(p, str, i, e)
    BY <1>7, <2>2, <2>3, Zenon
  <2>5. Like(a, str) /\ Len(a) = IF k = 0 THEN 0 ELSE EndOf(s, c, str, k)
    <3>1. k <= m
      BY <2>1
    <3> QED  BY <1>8, <1>10, <2>3, <3>1
  <2>6. i = Len(a) + 1 /\ (i = 1 \/ Separator(str[i - 1]))
    <3>1. CASE k = 0
      BY <1>6, <2>3, <2>5, <3>1
    <3>2. CASE k # 0
      <4>1. EndOf(s, c, str, k) = i - 1
        BY <1>4, <2>2, <2>3, <3>2, Zenon DEF EndOf
      <4>2. i - 1 \in c
        BY <1>6, <2>2, <2>3, <3>2, Zenon
      <4>3. Len(a) = i - 1 /\ i \in Int
        BY <2>4, <2>5, <3>2, <4>1
      <4> QED  BY <1>6, <4>2, <4>3
    <3> QED  BY <3>1, <3>2
  <2>7. PICK t : t = a \o <<" ">> \o p
    OBVIOUS
  <2>8. a \in Seq(Chars) /\ p \in Seq(Chars)
    BY <2>4, <2>5, Zenon DEF Like, IsPart
  <2>9. Spaced(t, a, p)
    BY <2>7, <2>8, SpaceBetween, Zenon
  <2>10. Like(t, str) /\ Len(t) = e
    <3> HIDE <2>7
    <3>1. Like(a, str) /\ str \in Seq(Chars)
      BY <1>3, <2>5
    <3> QED  BY <2>4, <2>6, <2>9, <3>1, LikeGrows
  <2>11. f[k + 1] = Put(f[k], k + 1)
    BY <1>2, <2>2, Zenon
  <2>12. f[k + 1] = t
    BY <1>5, <2>2, <2>3, <2>7, <2>11, Zenon DEF Put
  <2> QED  BY <2>3, <2>10, <2>12, Zenon
<1>11. \A k \in Nat : k \in T
  BY <1>9, <1>10, InductionOnNat
<1>12. Like(f[m], str) /\ Len(f[m]) = EndOf(s, c, str, m)
  BY <1>4, <1>8, <1>11
<1>13. PICK U : U = {k \in Nat : m <= k => f[k] = f[m]}
  OBVIOUS
<1>14. 0 \in U
  BY <1>4, <1>13
<1>15. ASSUME NEW k \in Nat, k < 5, k \in U PROVE k + 1 \in U
  <2>1. SUFFICES ASSUME m <= k + 1 PROVE f[k + 1] = f[m]
    BY <1>13
  <2>2. CASE m = k + 1
    BY <2>2
  <2>3. CASE m <= k
    <3>1. k + 1 \in 0..5 /\ k + 1 # 0 /\ (k + 1) - 1 = k /\ k \notin 0..(m - 1)
      BY <1>4, <1>15, <2>3
    <3>2. f[k + 1] = Put(f[k], k + 1)
      BY <1>2, <3>1, Zenon
    <3>3. Put(f[k], k + 1) = f[k]
      BY <1>5, <3>1, Zenon DEF Put
    <3> QED  BY <1>13, <1>15, <2>3, <3>2, <3>3
  <2> QED  BY <1>4, <2>1, <2>2, <2>3
<1>16. \A k \in 0..5 : k \in U
  BY <1>14, <1>15, InductionTo
<1>17. f[5] = f[m]
  BY <1>4, <1>13, <1>16
<1>18. Arrived = f[5]
  BY <1>1 DEF MAX_TOKEN_PARAMS
<1> QED  BY <1>4, <1>12, <1>17, <1>18, Zenon

-----------------------------------------------------------------------------
(* Nothing is lost or added.                                               *)

LEMMA SpaceSeparates == Space \in Chars /\ Separator(Space)
<1>1. " " \in Chars
  BY DEF Chars
<1>2. Separator(" ")
  BY DEF Separator
<1> QED  BY <1>1, <1>2, Zenon DEF Space

LEMMA PlainIs == \A x : Plain(x) = [i \in DOMAIN x |-> IF Separator(x[i]) THEN Space ELSE x[i]]
BY Zenon DEF Plain, Space

LEMMA PlainSequence ==
  \A x \in Seq(Chars) : /\ Plain(x) \in Seq(Chars) /\ Len(Plain(x)) = Len(x)
                        /\ \A i \in 1..Len(x) : Plain(x)[i] = IF Separator(x[i]) THEN Space ELSE x[i]
<1> SUFFICES ASSUME NEW x \in Seq(Chars)
             PROVE  /\ Plain(x) \in Seq(Chars) /\ Len(Plain(x)) = Len(x)
                    /\ \A i \in 1..Len(x) : Plain(x)[i] = IF Separator(x[i]) THEN Space ELSE x[i]
  OBVIOUS
<1>1. PICK y : y = [i \in 1..Len(x) |-> IF Separator(x[i]) THEN Space ELSE x[i]]
  OBVIOUS
<1>2. Plain(x) = y
  <2>1. DOMAIN x = 1..Len(x)
    OBVIOUS
  <2> QED  BY <1>1, <2>1, PlainIs, Zenon
<1>3. y \in Seq(Chars) /\ Len(y) = Len(x)
  <2>1. Len(x) \in Nat
    OBVIOUS
  <2>2. \A i \in 1..Len(x) : x[i] \in Chars
    OBVIOUS
  <2>3. y \in [1..Len(x) -> Chars]
    BY <1>1, <2>2, SpaceSeparates, Zenon
  <2> QED  BY <2>1, <2>3
<1> QED  BY <1>1, <1>2, <1>3, Zenon

LEMMA SpaceBefore ==
  \A str \in Seq(Chars) : \E q \in Seq(Chars) :
    /\ q = <<" ">> \o str /\ Len(q) = Len(str) + 1 /\ q[1] = Space
    /\ \A i \in 2..(Len(str) + 1) : q[i] = str[i - 1]
<1> SUFFICES ASSUME NEW str \in Seq(Chars), NEW x \in Chars, x = Space
             PROVE  \E q \in Seq(Chars) :
                      /\ q = << x >> \o str /\ Len(q) = Len(str) + 1 /\ q[1] = Space
                      /\ \A i \in 2..(Len(str) + 1) : q[i] = str[i - 1]
  <2>1. " " \in Chars
    BY DEF Chars
  <2> QED  BY <2>1, Zenon DEF Space
<1>1. PICK w : w = << x >>
  OBVIOUS
<1>2. w \in Seq(Chars) /\ Len(w) = 1 /\ w[1] = x
  BY <1>1
<1>3. /\ w \o str \in Seq(Chars) /\ Len(w \o str) = Len(w) + Len(str)
      /\ \A i \in 1..(Len(w) + Len(str)) : (w \o str)[i] = IF i <= Len(w) THEN w[i] ELSE str[i - Len(w)]
  BY <1>2, ConcatProperties, Zenon
<1>4. PICK q : q = w \o str
  OBVIOUS
<1>5. PICK b \in Nat : b = Len(str)
  OBVIOUS
<1>6. /\ q \in Seq(Chars) /\ Len(q) = 1 + b
      /\ \A i \in 1..(1 + b) : q[i] = IF i <= 1 THEN w[i] ELSE str[i - 1]
  BY <1>2, <1>3, <1>4, <1>5, Zenon
<1>7. Len(q) = b + 1 /\ q[1] = Space /\ \A i \in 2..(b + 1) : q[i] = str[i - 1]
  BY <1>2, <1>6
<1> QED  BY <1>1, <1>4, <1>5, <1>6, <1>7, Zenon

\* Where the last parameter ends.
LEMMA LastEnds ==
  ASSUME NEW s, NEW c, NEW str, NEW n, Served(s, c, str, n), NEW e, e = EndOf(s, c, str, Len(s))
  PROVE  e = Len(str) + 1 \/ (e = Len(str) /\ Separator(str[Len(str)]))
<1>1. Found(s, c, str, n, Len(str))
  BY DEF Served
<1>2. \A x \in c : Separator(str[x])
  BY <1>1, Zenon DEF Found
<1>3. ~(Len(s) < Len(s))
  <2>1. Len(s) \in 1..n
    BY <1>1 DEF Found
  <2> QED  BY <2>1
<1>4. e = IF Len(str) \in c THEN Len(str) ELSE Len(str) + 1
  BY <1>3, Zenon DEF EndOf
<1> QED  BY <1>2, <1>4, Zenon

\* A string like str and as long as it, with a space before, reads the same.
LEMMA LikeReads ==
  ASSUME NEW str \in Seq(Chars), NEW a, Like(a, str), NEW q \in Seq(Chars), Len(q) = Len(str) + 1,
         q[1] = Space, \A i \in 2..(Len(str) + 1) : q[i] = str[i - 1],
         NEW i \in 1..Len(a)
  PROVE  Plain(a)[i] = Plain(q)[i]
<1>1. a \in Seq(Chars) /\ Len(a) <= Len(str) + 1
  BY Zenon DEF Like
<1>2. i \in 1..Len(q) /\ (i = 1 \/ i \in 2..(Len(str) + 1))
  <2>1. PICK b \in Nat : b = Len(str)
    OBVIOUS
  <2>2. PICK k \in Nat : k = Len(a)
    BY <1>1
  <2>3. i \in 1..k /\ k <= b + 1
    BY <1>1, <2>1, <2>2
  <2>4. i \in 1..(b + 1) /\ (i = 1 \/ i \in 2..(b + 1))
    BY <2>3
  <2> QED  BY <2>1, <2>4, Zenon
<1>3. Plain(a)[i] = IF Separator(a[i]) THEN Space ELSE a[i]
  BY <1>1, PlainSequence, Zenon
<1>4. Plain(q)[i] = IF Separator(q[i]) THEN Space ELSE q[i]
  BY <1>2, PlainSequence, Zenon
<1>5. IF i = 1 THEN a[i] = Space ELSE a[i] = str[i - 1] \/ (a[i] = Space /\ Separator(str[i - 1]))
  BY Zenon DEF Like
<1>6. CASE i = 1
  BY <1>3, <1>4, <1>5, <1>6, Zenon
<1>7. CASE i # 1
  <2>1. q[i] = str[i - 1]
    BY <1>2, <1>7, Zenon
  <2> QED  BY <1>3, <1>4, <1>5, <1>7, <2>1, SpaceSeparates, Zenon
<1> QED  BY <1>6, <1>7

LEMMA ServedReadsSame ==
  ASSUME NEW s, NEW c, NEW str, NEW n, Served(s, c, str, n)
  PROVE  Plain(<<" ">> \o str) \in {Plain(Arrived), Plain(Arrived) \o <<" ">>}
<1>1. str \in Seq(Chars)
  BY DEF Served
<1>2. PICK a : a = Arrived
  OBVIOUS
<1>3. Like(a, str) /\ Len(a) = EndOf(s, c, str, Len(s))
  BY <1>2, ArrivedIs
<1>4. PICK q \in Seq(Chars) : /\ q = <<" ">> \o str /\ Len(q) = Len(str) + 1 /\ q[1] = Space
                              /\ \A i \in 2..(Len(str) + 1) : q[i] = str[i - 1]
  BY <1>1, SpaceBefore, Zenon
<1>5. \A i \in 1..Len(a) : Plain(a)[i] = Plain(q)[i]
  <2>1. /\ Like(a, str) /\ Len(q) = Len(str) + 1 /\ q[1] = Space
        /\ \A i \in 2..(Len(str) + 1) : q[i] = str[i - 1]
    BY <1>3, <1>4, Zenon
  <2> QED  BY <1>1, <2>1, LikeReads
<1>6. a \in Seq(Chars)
  BY <1>3, Zenon DEF Like
<1>7. PICK v, w : v = Plain(a) /\ w = Plain(q)
  OBVIOUS
<1>8. /\ v \in Seq(Chars) /\ Len(v) = Len(a)
      /\ w \in Seq(Chars) /\ Len(w) = Len(q)
      /\ \A i \in 1..Len(q) : w[i] = IF Separator(q[i]) THEN Space ELSE q[i]
  BY <1>4, <1>6, <1>7, PlainSequence, Zenon
<1>9. \A i \in 1..Len(a) : v[i] = w[i]
  BY <1>5, <1>7, Zenon
<1>10. Len(a) = Len(str) + 1 \/ (Len(a) = Len(str) /\ Separator(str[Len(str)]))
  BY <1>3, LastEnds
<1>11. CASE Len(a) = Len(str) + 1
  <2>1. Len(v) = Len(w)
    BY <1>4, <1>8, <1>11, Zenon
  <2>2. \A i \in 1..Len(v) : v[i] = w[i]
    BY <1>8, <1>9, Zenon
  <2>3. v = w
    BY <1>8, <2>1, <2>2, SeqEqual, Zenon
  <2> QED  BY <1>2, <1>4, <1>7, <2>3, Zenon
<1>12. CASE Len(a) = Len(str) /\ Separator(str[Len(str)])
  <2>1. PICK b \in Nat : b = Len(str) /\ b # 0
    <3>1. Len(str) \in Nat /\ str # <<>>
      <4>1. str # <<>>
        BY Zenon DEF Served
      <4> QED  BY <1>1, <4>1
    <3>2. Len(str) # 0
      BY <1>1, <3>1, EmptySeq
    <3> QED  BY <3>1, <3>2, Zenon
  <2>2. /\ v \in Seq(Chars) /\ Len(v) = b /\ w \in Seq(Chars) /\ Len(w) = b + 1
        /\ \A i \in 1..b : v[i] = w[i]
    BY <1>4, <1>8, <1>9, <1>12, <2>1, Zenon
  <2>3. w[b + 1] = Space
    <3>1. b + 1 \in 1..(b + 1) /\ b + 1 \in 2..(b + 1) /\ (b + 1) - 1 = b
      BY <2>1
    <3>2. q[b + 1] = str[b]
      BY <1>4, <2>1, <3>1, Zenon
    <3>3. Separator(q[b + 1])
      BY <1>12, <2>1, <3>2, Zenon
    <3>4. b + 1 \in 1..Len(q)
      BY <1>4, <2>1, <3>1, Zenon
    <3> QED  BY <1>8, <3>3, <3>4, Zenon
  <2>4. PICK x : x = << Space >>
    OBVIOUS
  <2>5. x \in Seq(Chars) /\ Len(x) = 1 /\ x[1] = Space
    <3>1. PICK y \in Chars : y = Space
      BY SpaceSeparates
    <3>2. x = << y >>
      BY <2>4, <3>1
    <3>3. x \in Seq(Chars) /\ Len(x) = 1 /\ x[1] = y
      BY <3>2
    <3> QED  BY <3>1, <3>3
  <2>6. PICK t : t = v \o x
    OBVIOUS
  <2>7. /\ t \in Seq(Chars) /\ Len(t) = b + 1
        /\ \A i \in 1..(b + 1) : t[i] = IF i <= b THEN v[i] ELSE x[i - b]
    <3>1. /\ v \o x \in Seq(Chars) /\ Len(v \o x) = Len(v) + Len(x)
          /\ \A i \in 1..(Len(v) + Len(x)) : (v \o x)[i] = IF i <= Len(v) THEN v[i] ELSE x[i - Len(v)]
      BY <2>2, <2>5, ConcatProperties, Zenon
    <3> QED  BY <2>2, <2>5, <2>6, <3>1, Zenon
  <2>8. \A i \in 1..(b + 1) : t[i] = w[i]
    <3> SUFFICES ASSUME NEW i \in 1..(b + 1) PROVE t[i] = w[i]
      OBVIOUS
    <3>1. CASE i <= b
      <4>1. i \in 1..b
        BY <3>1
      <4> QED  BY <2>2, <2>7, <3>1, <4>1, Zenon
    <3>2. CASE ~(i <= b)
      <4>1. i = b + 1 /\ i - b = 1
        BY <3>2
      <4> QED  BY <2>3, <2>5, <2>7, <3>2, <4>1, Zenon
    <3> QED  BY <3>1, <3>2
  <2>9. t = w
    <3>1. Len(t) = Len(w) /\ \A i \in 1..Len(t) : t[i] = w[i]
      BY <2>2, <2>7, <2>8, Zenon
    <3> QED  BY <2>2, <2>7, <3>1, SeqEqual, Zenon
  <2>10. x = <<" ">>
    BY <2>4, Zenon DEF Space
  <2> QED  BY <1>2, <1>4, <1>7, <2>6, <2>9, <2>10, Zenon
<1> QED  BY <1>10, <1>11, <1>12

LEMMA ServedWords ==
  ASSUME NEW s, NEW c, NEW str, NEW n, Served(s, c, str, n), NEW k \in Texts, k + 1 < n
  PROVE  IsWord(params[k])
<1>1. str \in Seq(Chars) /\ n \in Nat /\ Found(s, c, str, n, Len(str))
  BY DEF Served
<1>2. PICK l : l = k + 1
  OBVIOUS
<1>3. l \in 1..Len(s) /\ k = l - 1 /\ l < n
  <2>1. Texts = 0..(Len(s) - 1)
    BY Zenon DEF Served
  <2>2. Len(s) \in 1..n
    BY <1>1 DEF Found
  <2>3. k \in 0..(Len(s) - 1)
    BY <2>1, Zenon
  <2> QED  BY <1>2, <2>2, <2>3
<1>4. PICK i, e, p : i = s[l] /\ e = EndOf(s, c, str, l) /\ p = params[k]
  OBVIOUS
<1>5. i \in 1..Len(str) /\ e \in i..(Len(str) + 1) /\ IsPart(p, str, i, e)
  BY <1>3, <1>4, TextIsPart, Zenon
<1>6. p \in Seq(Chars) /\ Len(p) = e - i /\ \A j \in 1..(e - i) : p[j] = str[i + j - 1]
  BY <1>5, Zenon DEF IsPart
<1>7. \A j \in i..(e - 1) : ~Separator(str[j])
  BY <1>1, <1>3, <1>4, WordBefore, Zenon
<1>8. ASSUME NEW j \in 1..(e - i) PROVE ~Separator(p[j])
  <2>1. i + j - 1 \in i..(e - 1)
    BY <1>5
  <2> QED  BY <1>6, <1>7, <2>1, Zenon
<1>9. DOMAIN p = 1..(e - i)
  <2>1. DOMAIN p = 1..Len(p)
    BY <1>6
  <2> QED  BY <1>6, <2>1, Zenon
<1>10. IsWord(p)
  BY <1>8, <1>9, Zenon DEF IsWord
<1> QED  BY <1>4, <1>10, Zenon

LEMMA ServedCounts ==
  ASSUME NEW s, NEW c, NEW str, NEW n, Served(s, c, str, n)
  PROVE  \E m \in 1..n : Texts = 0..(m - 1)
<1>1. Len(s) \in 1..n
  BY DEF Served, Found
<1>2. Texts = 0..(Len(s) - 1)
  BY Zenon DEF Served
<1> QED  BY <1>1, <1>2, Zenon

\* tail is a line of words, with one space before each.
Spaces(tail) ==
  /\ tail \in Seq(Chars) /\ Len(tail) > 1 /\ tail[1] = Space /\ ~Separator(tail[Len(tail)])
  /\ \A i \in 1..Len(tail) : Separator(tail[i]) => tail[i] = Space

\* str starts with what follows the first space of tail.
Follows(str, tail) == Len(str) >= Len(tail) - 1 /\ \A i \in 2..Len(tail) : str[i - 1] = tail[i]

LEMMA ServedTail ==
  ASSUME NEW s, NEW c, NEW str, NEW n, Served(s, c, str, n), NEW tail, Spaces(tail), Follows(str, tail)
  PROVE  /\ Len(tail) <= Len(Arrived) /\ \A i \in 1..Len(tail) : Arrived[i] = tail[i]
         /\ Len(str) = Len(tail) - 1 => Arrived = tail
<1>1. str \in Seq(Chars)
  BY DEF Served
<1>2. PICK a : a = Arrived
  OBVIOUS
<1>3. Like(a, str) /\ Len(a) = EndOf(s, c, str, Len(s))
  BY <1>2, ArrivedIs
<1>4. PICK b \in Nat : b = Len(str)
  BY <1>1
<1>5. /\ tail \in Seq(Chars) /\ tail[1] = Space /\ ~Separator(tail[Len(tail)])
      /\ \A i \in 1..Len(tail) : Separator(tail[i]) => tail[i] = Space
  BY Zenon DEF Spaces
<1>6. PICK t \in Nat : t = Len(tail) /\ t > 1
  <2>1. Len(tail) \in Nat /\ Len(tail) > 1
    BY <1>5 DEF Spaces
  <2> QED  BY <2>1, Zenon
<1>7. b >= t - 1 /\ \A i \in 2..t : str[i - 1] = tail[i]
  BY <1>4, <1>6, Zenon DEF Follows
<1>8. Len(a) = b + 1 \/ (Len(a) = b /\ Separator(str[b]))
  BY <1>3, <1>4, LastEnds, Zenon
<1>9. PICK k \in Nat : k = Len(a)
  BY <1>4, <1>8
<1>10. t <= k /\ k <= b + 1
  <2>1. CASE k = b + 1
    BY <1>7, <2>1
  <2>2. CASE k = b /\ Separator(str[b])
    <3>1. CASE b = t - 1
      <4>1. t \in 2..t /\ str[t - 1] = tail[t]
        BY <1>6, <1>7
      <4> QED  BY <1>5, <1>6, <2>2, <3>1, <4>1
    <3>2. CASE b # t - 1
      BY <1>7, <2>2, <3>2
    <3> QED  BY <3>1, <3>2
  <2> QED  BY <1>8, <1>9, <2>1, <2>2
<1>11. \A i \in 1..t : a[i] = tail[i]
  <2> SUFFICES ASSUME NEW i \in 1..t PROVE a[i] = tail[i]
    OBVIOUS
  <2>1. i \in 1..Len(a)
    BY <1>9, <1>10
  <2>2. IF i = 1 THEN a[i] = Space ELSE a[i] = str[i - 1] \/ (a[i] = Space /\ Separator(str[i - 1]))
    BY <1>3, <2>1, Zenon DEF Like
  <2>3. CASE i = 1
    BY <1>5, <2>2, <2>3, Zenon
  <2>4. CASE i # 1
    <3>1. i \in 2..t /\ i \in 1..Len(tail)
      BY <1>6, <2>4
    <3>2. str[i - 1] = tail[i]
      BY <1>7, <3>1
    <3> QED  BY <1>5, <2>2, <2>4, <3>1, <3>2, Zenon
  <2> QED  BY <2>3, <2>4
<1>12. ASSUME b = t - 1 PROVE a = tail
  <2>1. k = t
    BY <1>10, <1>12
  <2>2. Len(a) = Len(tail) /\ \A i \in 1..Len(a) : a[i] = tail[i]
    BY <1>6, <1>9, <1>11, <2>1, Zenon
  <2>3. a \in Seq(Chars)
    BY <1>3, Zenon DEF Like
  <2> QED  BY <1>5, <2>2, <2>3, SeqEqual, Zenon
<1> QED  BY <1>2, <1>4, <1>6, <1>9, <1>10, <1>11, <1>12, Zenon

\* Sequences that agree begin alike.
LEMMA Prefixed ==
  ASSUME NEW x \in Seq(Chars), NEW y \in Seq(Chars), Len(x) <= Len(y), \A i \in 1..Len(x) : y[i] = x[i]
  PROVE  IsPrefix(x, y)
<1>1. PICK n \in Nat : n = Len(x) /\ n <= Len(y)
  OBVIOUS
<1>2. /\ \A i \in 1..n : x[i] \in Chars
      /\ \A i \in 1..n : y[i] \in Chars
  BY <1>1
<1>3. 1 \in Int /\ n \in Int
  OBVIOUS
<1>4. PICK u : u = SubSeq(x, 1, n)
  OBVIOUS
<1>5. PICK v : v = SubSeq(y, 1, n)
  OBVIOUS
<1>6. u \in Seq(Chars) /\ Len(u) = n /\ \A i \in 1..n : u[i] = x[i]
  BY <1>1, <1>2, <1>3, <1>4, SubSeqProperties
<1>7. v \in Seq(Chars) /\ Len(v) = n /\ \A i \in 1..n : v[i] = y[i]
  BY <1>1, <1>2, <1>3, <1>5, SubSeqProperties
<1>8. u = v
  <2>1. Len(u) = Len(v) /\ \A i \in 1..Len(u) : u[i] = v[i]
    BY <1>1, <1>6, <1>7
  <2> QED  BY <1>6, <1>7, <2>1, SeqEqual
<1> QED  BY <1>1, <1>4, <1>5, <1>8 DEF IsPrefix

-----------------------------------------------------------------------------
(* What the client reads.                                                  *)

\* k spaces begin the tail.
Blanks(tail) == {k \in 0..Len(tail) : \A i \in 1..k : tail[i] = Space}

LEMMA SkipsBlanks ==
  \A tail \in Seq(Chars) : \E k \in Blanks(tail) :
    (\A j \in Blanks(tail) : j <= k) /\ Skipped(tail) = SubSeq(tail, k + 1, Len(tail))
<1> SUFFICES ASSUME NEW tail \in Seq(Chars)
             PROVE  \E k \in Blanks(tail) :
                      (\A j \in Blanks(tail) : j <= k) /\ Skipped(tail) = SubSeq(tail, k + 1, Len(tail))
  OBVIOUS
<1>1. PICK b \in Nat : b = Len(tail)
  OBVIOUS
<1>2. PICK S \in SUBSET (0..b) : S = Blanks(tail)
  <2>1. Blanks(tail) \in SUBSET (0..b)
    BY <1>1 DEF Blanks
  <2> QED  BY <2>1, Zenon
<1>3. S # {}
  <2>1. 0 \in Blanks(tail)
    BY <1>1 DEF Blanks
  <2> QED  BY <1>2, <2>1
<1>4. PICK k : k = CHOOSE x \in S : \A j \in S : j <= x
  OBVIOUS
<1>5. k \in S /\ \A j \in S : j <= k
  <2>1. \E x \in S : \A j \in S : j <= x
    BY <1>2, <1>3, GreatestNatural
  <2> QED  BY <1>4, <2>1, Zenon
<1>6. Skipped(tail) = SubSeq(tail, k + 1, Len(tail))
  BY <1>2, <1>4, Zenon DEF Skipped, Blanks, Space
<1> QED  BY <1>2, <1>5, <1>6, Zenon

\* What is left of a sequence from its k-th on.
LEMMA RestOf ==
  \A x \in Seq(Chars) : \A k \in 1..(Len(x) + 1) :
    /\ SubSeq(x, k, Len(x)) \in Seq(Chars) /\ Len(SubSeq(x, k, Len(x))) = Len(x) - k + 1
    /\ \A i \in 1..(Len(x) - k + 1) : SubSeq(x, k, Len(x))[i] = x[k + i - 1]
<1> SUFFICES ASSUME NEW x \in Seq(Chars), NEW k \in 1..(Len(x) + 1)
             PROVE  /\ SubSeq(x, k, Len(x)) \in Seq(Chars) /\ Len(SubSeq(x, k, Len(x))) = Len(x) - k + 1
                    /\ \A i \in 1..(Len(x) - k + 1) : SubSeq(x, k, Len(x))[i] = x[k + i - 1]
  OBVIOUS
<1>1. PICK b \in Nat : b = Len(x)
  OBVIOUS
<1>2. \A i \in k..b : x[i] \in Chars
  BY <1>1
<1>3. k \in Int /\ b \in Int
  BY <1>1
<1>4. /\ SubSeq(x, k, b) \in Seq(Chars)
      /\ Len(SubSeq(x, k, b)) = IF k <= b THEN b - k + 1 ELSE 0
      /\ \A i \in 1..b - k + 1 : SubSeq(x, k, b)[i] = x[k + i - 1]
  BY <1>2, <1>3, SubSeqProperties
<1>5. (IF k <= b THEN b - k + 1 ELSE 0) = b - k + 1
  BY <1>1
<1> QED  BY <1>1, <1>4, <1>5, Zenon

LEMMA SkippedIsText == \A tail \in Seq(Chars) : Skipped(tail) \in Seq(Chars)
<1> SUFFICES ASSUME NEW tail \in Seq(Chars) PROVE Skipped(tail) \in Seq(Chars)
  OBVIOUS
<1>1. PICK k \in Blanks(tail) : Skipped(tail) = SubSeq(tail, k + 1, Len(tail))
  BY SkipsBlanks, Zenon
<1>2. k + 1 \in 1..(Len(tail) + 1)
  BY DEF Blanks
<1> QED  BY <1>1, <1>2, RestOf, Zenon

\* The parameters are NULL or some text.
LEMMA PromptReads ==
  \A l \in Lines : prompt_read_command(l) = NULL \/ prompt_read_command(l) \in Seq(Chars) \ {<<>>}
<1> SUFFICES ASSUME NEW l \in Lines
             PROVE  prompt_read_command(l) = NULL \/ prompt_read_command(l) \in Seq(Chars) \ {<<>>}
  OBVIOUS
<1>1. PICK rest : rest = Skipped(l.tail)
  OBVIOUS
<1>2. rest \in Seq(Chars)
  BY <1>1, LinesAssumption, SkippedIsText
<1>3. prompt_read_command(l) =
        IF Len(rest) = 0 \/ (l.eof /\ Len(rest) = 1) THEN NULL ELSE IF l.eof THEN Front(rest) ELSE rest
  BY <1>1, Zenon DEF prompt_read_command
<1>4. CASE Len(rest) = 0 \/ (l.eof /\ Len(rest) = 1)
  BY <1>3, <1>4, Zenon
<1>5. CASE ~(Len(rest) = 0 \/ (l.eof /\ Len(rest) = 1)) /\ l.eof
  <2>1. PICK b \in Nat : b = Len(rest) /\ b > 1
    <3>1. Len(rest) \in Nat
      BY <1>2
    <3>2. Len(rest) > 1
      BY <1>5, <3>1
    <3> QED  BY <3>1, <3>2, Zenon
  <2>2. \A i \in 1..(b - 1) : rest[i] \in Chars
    BY <1>2, <2>1
  <2>3. 1 \in Int /\ b - 1 \in Int
    BY <2>1
  <2>4. PICK n \in Int : n = b - 1
    BY <2>3
  <2>5. \A i \in 1..n : rest[i] \in Chars
    BY <2>2, <2>4
  <2>6. SubSeq(rest, 1, n) \in Seq(Chars) /\ Len(SubSeq(rest, 1, n)) = IF 1 <= n THEN n - 1 + 1 ELSE 0
    BY <2>3, <2>5, SubSeqProperties
  <2>7. PICK x : x = Front(rest)
    OBVIOUS
  <2>8. x \in Seq(Chars) /\ Len(x) = IF 1 <= n THEN n - 1 + 1 ELSE 0
    BY <2>1, <2>4, <2>6, <2>7, Zenon DEF Front
  <2>9. x # <<>>
    BY <2>1, <2>4, <2>8
  <2> QED  BY <1>3, <1>5, <2>7, <2>8, <2>9, Zenon
<1>6. CASE ~(Len(rest) = 0 \/ (l.eof /\ Len(rest) = 1)) /\ ~l.eof
  <2>1. rest # <<>>
    BY <1>6
  <2> QED  BY <1>2, <1>3, <1>6, <2>1, Zenon
<1> QED  BY <1>4, <1>5, <1>6

\* Of the characters of a line all but tabulators and spaces make words.
LEMMA RegularIs ==
  ASSUME NEW tail \in Seq(Chars), tail # <<>>, Regular(tail)
  PROVE  Spaces(tail) /\ tail[2] # Space
<1>1. /\ Head(tail) = Space /\ Last(tail) # Space
      /\ \A i \in 2..Len(tail) : tail[i] = Space => tail[i - 1] # Space
  BY Zenon DEF Regular, Space
<1>2. \A i \in 1..Len(tail) : Separator(tail[i]) => tail[i] = Space
  <2> SUFFICES ASSUME NEW i \in 1..Len(tail), Separator(tail[i]) PROVE tail[i] = Space
    OBVIOUS
  <2>1. tail[i] \in Chars
    OBVIOUS
  <2>2. DOMAIN tail = 1..Len(tail)
    OBVIOUS
  <2>3. tail[i] # "\t"
    BY <2>2, Zenon DEF Regular
  <2> QED  BY <2>1, <2>3, Characters, Zenon DEF Space
<1>3. PICK b \in Nat : b = Len(tail) /\ b # 0
  <2>1. Len(tail) \in Nat /\ Len(tail) # 0
    BY EmptySeq
  <2> QED  BY <2>1, Zenon
<1>4. tail[1] = Space /\ tail[b] # Space
  <2>1. Head(tail) = tail[1]
    OBVIOUS
  <2>2. Last(tail) = tail[b]
    BY <1>3, Zenon DEF Last
  <2> QED  BY <1>1, <2>1, <2>2, Zenon
<1>5. b > 1
  BY <1>3, <1>4
<1>6. ~Separator(tail[b])
  <2>1. b \in 1..Len(tail)
    BY <1>3
  <2> QED  BY <1>2, <1>4, <2>1, Zenon
<1>7. Spaces(tail)
  BY <1>2, <1>3, <1>4, <1>5, <1>6, Zenon DEF Spaces
<1>8. tail[2] # Space
  <2>1. 2 \in 2..Len(tail) /\ 2 - 1 = 1
    BY <1>3, <1>5
  <2> QED  BY <1>1, <1>4, <2>1, Zenon
<1> QED  BY <1>7, <1>8

\* Of a line of words the first space alone is left out.
LEMMA PromptRegular ==
  ASSUME NEW l \in Lines, Regular(l.tail), l.tail # <<>>, ~l.eof
  PROVE  \E text \in Seq(Chars) :
           /\ prompt_read_command(l) = text /\ Len(text) = Len(l.tail) - 1
           /\ \A i \in 1..(Len(l.tail) - 1) : text[i] = l.tail[i + 1]
<1>1. PICK tail \in Seq(Chars) : tail = l.tail
  BY LinesAssumption
<1>2. Spaces(tail) /\ tail[2] # Space
  BY <1>1, RegularIs
<1>3. PICK b \in Nat : b = Len(tail) /\ b > 1
  <2>1. Len(tail) \in Nat /\ Len(tail) > 1
    BY <1>2 DEF Spaces
  <2> QED  BY <2>1, Zenon
<1>4. PICK k \in Blanks(tail) : /\ \A j \in Blanks(tail) : j <= k
                                /\ Skipped(tail) = SubSeq(tail, k + 1, Len(tail))
  BY SkipsBlanks, Zenon
<1>5. k = 1
  <2>1. 1 \in Blanks(tail)
    <3>1. tail[1] = Space
      BY <1>2, Zenon DEF Spaces
    <3> QED  BY <1>3, <3>1 DEF Blanks
  <2>2. k \in Nat /\ \A i \in 1..k : tail[i] = Space
    BY <1>3 DEF Blanks
  <2>3. ~(k >= 2)
    BY <1>2, <2>2
  <2> QED  BY <1>4, <2>1, <2>2, <2>3
<1>6. PICK text : text = SubSeq(tail, 2, Len(tail))
  OBVIOUS
<1>7. text = Skipped(tail)
  <2>1. k + 1 = 2
    BY <1>5
  <2> QED  BY <1>4, <1>6, <2>1, Zenon
<1>8. /\ text \in Seq(Chars) /\ Len(text) = Len(tail) - 2 + 1
      /\ \A i \in 1..(Len(tail) - 2 + 1) : text[i] = tail[2 + i - 1]
  <2>1. 2 \in 1..(Len(tail) + 1)
    BY <1>3
  <2> QED  BY <1>6, <2>1, RestOf, Zenon
<1>9. /\ Len(text) = Len(tail) - 1 /\ Len(text) # 0
      /\ \A i \in 1..(Len(tail) - 1) : text[i] = tail[i + 1]
  BY <1>3, <1>8
<1>10. prompt_read_command(l) = text
  BY <1>1, <1>7, <1>9, Zenon DEF prompt_read_command
<1> QED  BY <1>1, <1>8, <1>9, <1>10, Zenon

-----------------------------------------------------------------------------
(* The inductive invariant.                                                *)

\* The body of the request is what the client read, and what follows it.
Received ==
  /\ line \in Lines
  /\ IF prompt_read_command(line) = NULL THEN body = NULL
     ELSE \E j \in Junk : body = prompt_read_command(line) \o j

\* The slots hold what Split makes of the body.
Sliced ==
  /\ op \in DOMAIN NParams
  /\ body = NULL => Texts = {}
  /\ body # NULL => Served(Split(body, NParams[op]).starts, Split(body, NParams[op]).cuts, body, NParams[op])

CommandInv ==
  /\ CommandTypeOK
  /\ op = IF line.word \in DOMAIN OpOf THEN OpOf[line.word] ELSE OP_UNKNOW
  /\ pc \in {"received", "serve"} => Received
  /\ pc = "serve" => Sliced
  /\ pc # "serve" => Texts = {}

\* What a text is not.
LEMMA SlotsAreNoTexts == ~IsText(NULL) /\ ~IsText(Uninitialised) /\ ~IsText(Freed)
BY SlotAssumption DEF IsText

LEMMA SlotsOf == 0..(MAX_TOKEN_PARAMS - 1) = 0..4
BY DEF MAX_TOKEN_PARAMS

LEMMA InitInv == Init => CommandInv
<1> SUFFICES ASSUME Init PROVE CommandInv
  OBVIOUS
<1>1. /\ pc = "prompt" /\ line = NoLine /\ op = OP_UNKNOW /\ body = NULL
      /\ params = [k \in 0..(MAX_TOKEN_PARAMS - 1) |-> Uninitialised]
  BY DEF Init
<1>2. CommandTypeOK
  BY <1>1 DEF CommandTypeOK
<1>3. line.word \notin DOMAIN OpOf
  BY <1>1 DEF NoLine, OpOf, bloquea, borra, buscar, cambiaclave, commit, conecta, crea, desbloquea,
              listado, rollback, salir
<1>4. Texts = {}
  BY <1>1, SlotsAreNoTexts DEF Texts
<1> QED  BY <1>1, <1>2, <1>3, <1>4 DEF CommandInv

LEMMA TypesKeeps == CommandInv /\ types => CommandInv'
<1> SUFFICES ASSUME CommandInv, types PROVE CommandInv'
  OBVIOUS
<1>1. CommandTypeOK /\ pc = "prompt" /\ Texts = {} /\ params' = params
  BY DEF CommandInv, types
<1>2. PICK l \in Lines :
        /\ line' = l /\ op' = cmdtous(l.word)
        /\ \/ cmdtous(l.word) = OP_UNKNOW /\ pc' = Prompt(l) /\ UNCHANGED body
           \/ /\ pc' = "received"
              /\ IF prompt_read_command(l) = NULL THEN body' = NULL
                 ELSE \E j \in Junk : body' = prompt_read_command(l) \o j
  BY Zenon DEF types
<1>3. l.word \in Words
  BY LinesAssumption
<1>4. op' = IF line.word' \in DOMAIN OpOf THEN OpOf[line.word'] ELSE OP_UNKNOW
  BY <1>2, <1>3, CommandsFound
<1>5. pc' \in {"prompt", "crashed", "received"}
  BY <1>2 DEF Prompt
<1>6. Texts' = {}
  BY <1>1 DEF Texts
<1>7. pc' = "received" => Received'
  <2>1. Prompt(l) # "received"
    BY DEF Prompt
  <2> QED  BY <1>2, <2>1, Zenon DEF Received
<1>8. body' = NULL \/ body' \in Seq(Chars) \ {<<>>}
  <2>1. CASE UNCHANGED body
    BY <1>1, <2>1, Zenon DEF CommandTypeOK
  <2>2. CASE prompt_read_command(l) # NULL /\ \E j \in Junk : body' = prompt_read_command(l) \o j
    <3>1. PICK j \in Junk : body' = prompt_read_command(l) \o j
      BY <2>2
    <3>2. PICK x \in Seq(Chars) : x = prompt_read_command(l) /\ x # <<>>
      BY <2>2, PromptReads
    <3>3. j \in Seq(Chars)
      BY JunkAssumption
    <3>4. PICK y : y = x \o j
      OBVIOUS
    <3>5. y \in Seq(Chars) /\ Len(y) = Len(x) + Len(j)
      BY <3>3, <3>4, ConcatProperties
    <3>6. Len(x) \in Nat /\ Len(j) \in Nat /\ Len(x) # 0
      BY <3>2, <3>3, EmptySeq
    <3>7. y # <<>>
      BY <3>5, <3>6
    <3> QED  BY <3>1, <3>2, <3>4, <3>5, <3>7, Zenon
  <2> QED  BY <1>2, <2>1, <2>2, Zenon
<1>9. CommandTypeOK'
  <2>1. op' \in {OpOf[w] : w \in DOMAIN OpOf} \cup {OP_UNKNOW}
    BY <1>4, Zenon
  <2>2. line' \in Lines \cup {NoLine}
    BY <1>2
  <2>3. params' \in [0..(MAX_TOKEN_PARAMS - 1) -> Seq(Chars) \cup {NULL, Uninitialised, Freed}]
    BY <1>1, Zenon DEF CommandTypeOK
  <2>4. pc' \in {"prompt", "received", "serve", "serve_plain", "crashed"}
    BY <1>5
  <2> QED  BY <1>8, <2>1, <2>2, <2>3, <2>4, Zenon DEF CommandTypeOK
<1>10. pc' # "serve"
  BY <1>5
<1>11. pc' \in {"received", "serve"} => Received'
  BY <1>7, <1>10
<1> QED  BY <1>4, <1>6, <1>9, <1>10, <1>11, Zenon DEF CommandInv

\* Without parameters to split the slots stay empty of texts.
LEMMA SplitsNothing ==
  ASSUME CommandTypeOK, Texts = {}, NEW n, body = NULL, requesttoparams(body, n)
  PROVE  /\ Texts' = {}
         /\ params' \in [0..(MAX_TOKEN_PARAMS - 1) -> Seq(Chars) \cup {NULL, Uninitialised, Freed}]
<1>1. /\ DOMAIN params = 0..4
      /\ \A k \in 0..4 : params[k] \in {NULL, Uninitialised, Freed}
  <2>1. params \in [0..4 -> Seq(Chars) \cup {NULL, Uninitialised, Freed}]
    BY SlotsOf, Zenon DEF CommandTypeOK
  <2>2. \A k \in DOMAIN params : params[k] \notin Seq(Chars)
    BY DEF Texts, IsText
  <2> QED  BY <2>1, <2>2
<1>2. params' = [k \in 0..4 |-> IF k >= n THEN NULL ELSE params[k]]
  BY <1>1, Zenon DEF requesttoparams
<1>3. \A k \in 0..4 : params'[k] \in {NULL, Uninitialised, Freed}
  BY <1>1, <1>2
<1>4. Texts' = {}
  BY <1>2, <1>3, SlotsAreNoTexts DEF Texts, IsText
<1>5. params' \in [0..4 -> Seq(Chars) \cup {NULL, Uninitialised, Freed}]
  BY <1>2, <1>3
<1> QED  BY <1>4, <1>5, SlotsOf, Zenon

\* A body is cut into the first slots.
LEMMA SplitsSome ==
  ASSUME CommandTypeOK, Texts = {}, NEW n \in 1..MAX_TOKEN_PARAMS, body # NULL, requesttoparams(body, n),
         NEW s, NEW c, s = Split(body, n).starts, c = Split(body, n).cuts
  PROVE  /\ Found(s, c, body, n, Len(body))
         /\ Texts' = 0..(Len(s) - 1)
         /\ \A k \in 1..Len(s) : params'[k - 1] = StringAt(body, c, s[k])
         /\ params' \in [0..(MAX_TOKEN_PARAMS - 1) -> Seq(Chars) \cup {NULL, Uninitialised, Freed}]
<1>1. body \in Seq(Chars) /\ body # <<>>
  BY DEF CommandTypeOK
<1>2. n \in 1..5 /\ n \in Nat /\ n # 0
  BY DEF MAX_TOKEN_PARAMS
<1>3. Found(s, c, body, n, Len(body))
  BY <1>1, <1>2, SplitFound, Zenon
<1>4. PICK m \in 1..5 : m = Len(s) /\ m <= n
  <2>1. Len(s) \in 1..n
    BY <1>3 DEF Found
  <2>2. \A x \in 1..5 : \A y \in 1..x : y \in 1..5 /\ y <= x
    OBVIOUS
  <2>3. Len(s) \in 1..5 /\ Len(s) <= n
    BY <1>2, <2>1, <2>2, Zenon
  <2> QED  BY <2>3, Zenon
<1>5. /\ DOMAIN params = 0..4
      /\ \A k \in 0..4 : params[k] \in {NULL, Uninitialised, Freed}
  <2>1. params \in [0..4 -> Seq(Chars) \cup {NULL, Uninitialised, Freed}]
    BY SlotsOf, Zenon DEF CommandTypeOK
  <2>2. \A k \in DOMAIN params : params[k] \notin Seq(Chars)
    BY DEF Texts, IsText
  <2> QED  BY <2>1, <2>2
<1>6. params' = [k \in 0..4 |-> IF k >= n THEN NULL
                               ELSE IF k < m THEN StringAt(body, c, s[k + 1])
                               ELSE params[k]]
  <2>1. params' = [k \in DOMAIN params |->
          IF k >= n THEN NULL
          ELSE IF body # NULL /\ k < Len(Split(body, n).starts)
          THEN StringAt(body, Split(body, n).cuts, Split(body, n).starts[k + 1])
          ELSE params[k]]
    BY Zenon DEF requesttoparams
  <2>2. Len(Split(body, n).starts) = m
    BY <1>4
  <2>3. params' = [k \in 0..4 |->
          IF k >= n THEN NULL
          ELSE IF body # NULL /\ k < m
          THEN StringAt(body, Split(body, n).cuts, Split(body, n).starts[k + 1])
          ELSE params[k]]
    BY <1>5, <2>1, <2>2, Zenon
  <2> QED  BY <2>3, Zenon
<1>7. \A k \in 1..m : StringAt(body, c, s[k]) \in Seq(Chars)
  <2> SUFFICES ASSUME NEW k \in 1..m PROVE StringAt(body, c, s[k]) \in Seq(Chars)
    OBVIOUS
  <2>1. k \in 1..Len(s)
    BY <1>4
  <2>2. s[k] \in 1..Len(body)
    BY <1>3, <2>1, Zenon DEF Found
  <2>3. /\ EndOf(s, c, body, k) \in s[k]..(Len(body) + 1)
        /\ StringAt(body, c, s[k]) = SubSeq(body, s[k], EndOf(s, c, body, k) - 1)
    BY <1>1, <1>2, <1>3, <2>1, StringEnds
  <2>4. IsPart(SubSeq(body, s[k], EndOf(s, c, body, k) - 1), body, s[k], EndOf(s, c, body, k))
    BY <1>1, <2>2, <2>3, PartOf, Zenon
  <2> QED  BY <2>3, <2>4, Zenon DEF IsPart
<1>8. \A k \in 0..(m - 1) : params'[k] = StringAt(body, c, s[k + 1]) /\ params'[k] \in Seq(Chars)
  <2> SUFFICES ASSUME NEW k \in 0..(m - 1)
               PROVE  params'[k] = StringAt(body, c, s[k + 1]) /\ params'[k] \in Seq(Chars)
    OBVIOUS
  <2>1. k \in 0..4 /\ ~(k >= n) /\ k < m /\ k + 1 \in 1..m
    BY <1>2, <1>4
  <2>2. params'[k] = StringAt(body, c, s[k + 1])
    BY <1>6, <2>1, Zenon
  <2> QED  BY <1>7, <2>1, <2>2, Zenon
<1>9. \A k \in 0..4 : k \notin 0..(m - 1) => params'[k] \in {NULL, Uninitialised, Freed}
  <2> SUFFICES ASSUME NEW k \in 0..4, k \notin 0..(m - 1) PROVE params'[k] \in {NULL, Uninitialised, Freed}
    OBVIOUS
  <2>1. ~(k < m)
    BY <1>4
  <2>2. params'[k] = IF k >= n THEN NULL ELSE params[k]
    BY <1>6, <2>1, Zenon
  <2> QED  BY <1>5, <2>2, Zenon
<1>10. DOMAIN params' = 0..4
  BY <1>6, Zenon
<1>11. \A k \in 0..(m - 1) : k \in 0..4
  <2>1. \A x \in 1..5 : \A k \in 0..(x - 1) : k \in 0..4
    OBVIOUS
  <2> QED  BY <2>1, Zenon
<1>12. Texts' = 0..(m - 1)
  <2>1. \A k \in 0..4 : k \notin 0..(m - 1) => params'[k] \notin Seq(Chars)
    BY <1>9, SlotsAreNoTexts, Zenon DEF IsText
  <2>2. Texts' = {k \in 0..4 : params'[k] \in Seq(Chars)}
    BY <1>10, Zenon DEF Texts, IsText
  <2> QED  BY <1>8, <1>11, <2>1, <2>2, Zenon
<1>13. params' \in [0..(MAX_TOKEN_PARAMS - 1) -> Seq(Chars) \cup {NULL, Uninitialised, Freed}]
  <2>1. \A k \in 0..4 : params'[k] \in Seq(Chars) \cup {NULL, Uninitialised, Freed}
    BY <1>8, <1>9, Zenon
  <2>2. params' = [k \in 0..4 |-> params'[k]]
    BY <1>6, Zenon
  <2>3. params' \in [0..4 -> Seq(Chars) \cup {NULL, Uninitialised, Freed}]
    BY <2>1, <2>2, Zenon
  <2> QED  BY <2>3, SlotsOf, Zenon
<1>14. \A k \in 1..Len(s) : params'[k - 1] = StringAt(body, c, s[k])
  <2> SUFFICES ASSUME NEW k \in 1..m PROVE params'[k - 1] = StringAt(body, c, s[k])
    BY <1>4, Zenon
  <2>1. k - 1 \in 0..(m - 1) /\ (k - 1) + 1 = k
    BY <1>4
  <2> QED  BY <1>8, <2>1, Zenon
<1>15. Texts' = 0..(Len(s) - 1)
  BY <1>4, <1>12, Zenon
<1> QED  BY <1>3, <1>13, <1>14, <1>15, Zenon

LEMMA SplitsKeeps == CommandInv /\ splits => CommandInv'
<1> SUFFICES ASSUME CommandInv, splits PROVE CommandInv'
  OBVIOUS
<1>1. CommandTypeOK /\ pc = "received" /\ Texts = {} /\ Received
  BY DEF CommandInv, splits
<1>2. /\ op \in DOMAIN NParams /\ requesttoparams(body, NParams[op])
      /\ pc' = "serve" /\ line' = line /\ op' = op /\ body' = body
  BY Zenon DEF splits
<1>3. op' = IF line.word' \in DOMAIN OpOf THEN OpOf[line.word'] ELSE OP_UNKNOW
  BY <1>2, Zenon DEF CommandInv
<1>4. Received'
  BY <1>1, <1>2, Zenon DEF Received
<1>5. PICK n \in 1..MAX_TOKEN_PARAMS : n = NParams[op]
  BY <1>2, ParametersFit
<1>6. Sliced' /\ params' \in [0..(MAX_TOKEN_PARAMS - 1) -> Seq(Chars) \cup {NULL, Uninitialised, Freed}]
  <2>1. CASE body = NULL
    <3>1. /\ Texts' = {}
          /\ params' \in [0..(MAX_TOKEN_PARAMS - 1) -> Seq(Chars) \cup {NULL, Uninitialised, Freed}]
      BY <1>1, <1>2, <2>1, SplitsNothing
    <3> QED  BY <1>2, <2>1, <3>1, Zenon DEF Sliced
  <2>2. CASE body # NULL
    <3>1. PICK s, c : s = Split(body, n).starts /\ c = Split(body, n).cuts
      OBVIOUS
    <3>2. requesttoparams(body, n)
      BY <1>2, <1>5, Zenon
    <3>3. /\ Found(s, c, body, n, Len(body))
          /\ Texts' = 0..(Len(s) - 1)
          /\ \A k \in 1..Len(s) : params'[k - 1] = StringAt(body, c, s[k])
          /\ params' \in [0..(MAX_TOKEN_PARAMS - 1) -> Seq(Chars) \cup {NULL, Uninitialised, Freed}]
      BY <1>1, <2>2, <3>1, <3>2, SplitsSome
    <3>4. body \in Seq(Chars) /\ body # <<>>
      BY <1>1, <2>2 DEF CommandTypeOK
    <3>5. Served(s, c, body, n)'
      BY <1>2, <3>3, <3>4, Zenon DEF Served
    <3>6. s = Split(body', NParams[op']).starts /\ c = Split(body', NParams[op']).cuts /\ n = NParams[op']
      BY <1>2, <1>5, <3>1, Zenon
    <3>7. Served(Split(body, NParams[op]).starts, Split(body, NParams[op]).cuts, body, NParams[op])'
      BY <1>2, <3>5, <3>6, Zenon
    <3> QED  BY <1>2, <2>2, <3>3, <3>7, Zenon DEF Sliced
  <2> QED  BY <2>1, <2>2
<1>7. CommandTypeOK'
  <2>1. pc' \in {"prompt", "received", "serve", "serve_plain", "crashed"}
    BY <1>2
  <2> QED  BY <1>1, <1>2, <1>6, <2>1, Zenon DEF CommandTypeOK
<1> QED  BY <1>2, <1>3, <1>4, <1>6, <1>7, Zenon DEF CommandInv

LEMMA PassesKeeps == CommandInv /\ passes => CommandInv'
<1> SUFFICES ASSUME CommandInv, passes PROVE CommandInv'
  OBVIOUS
<1>1. CommandTypeOK /\ pc = "received" /\ Texts = {}
  BY DEF CommandInv, passes
<1>2. pc' = "serve_plain" /\ line' = line /\ op' = op /\ body' = body /\ params' = params
  BY DEF passes
<1>3. CommandTypeOK'
  <2>1. pc' \in {"prompt", "received", "serve", "serve_plain", "crashed"}
    BY <1>2
  <2> QED  BY <1>1, <1>2, <2>1, Zenon DEF CommandTypeOK
<1>4. Texts' = {}
  BY <1>1, <1>2 DEF Texts
<1>5. pc' \notin {"received", "serve"}
  BY <1>2
<1> QED  BY <1>2, <1>3, <1>4, <1>5, Zenon DEF CommandInv

\* No slot holds a text once the body is freed.
LEMMA AnswersKeeps == CommandInv /\ answers => CommandInv'
<1> SUFFICES ASSUME CommandInv, answers PROVE CommandInv'
  OBVIOUS
<1>1. CommandTypeOK
  BY DEF CommandInv
<1>2. /\ pc' \in {"crashed", "prompt"}
      /\ params' = [k \in DOMAIN params |-> IF params[k] \in {NULL, Uninitialised} THEN params[k] ELSE Freed]
      /\ body' = NULL /\ line' = NoLine /\ op' = OP_UNKNOW
  BY DEF answers, Prompt
<1>3. DOMAIN params = 0..(MAX_TOKEN_PARAMS - 1)
  BY <1>1 DEF CommandTypeOK
<1>4. \A k \in DOMAIN params : params'[k] \in {NULL, Uninitialised, Freed}
  BY <1>2
<1>5. params' \in [0..(MAX_TOKEN_PARAMS - 1) -> Seq(Chars) \cup {NULL, Uninitialised, Freed}]
  BY <1>2, <1>3
<1>6. Texts' = {}
  BY <1>2, <1>4, SlotsAreNoTexts DEF Texts, IsText
<1>7. CommandTypeOK'
  BY <1>2, <1>5 DEF CommandTypeOK
<1>8. line.word' \notin DOMAIN OpOf
  BY <1>2 DEF NoLine, OpOf, bloquea, borra, buscar, cambiaclave, commit, conecta, crea, desbloquea,
              listado, rollback, salir
<1>9. pc' \notin {"received", "serve"}
  BY <1>2
<1> QED  BY <1>2, <1>6, <1>7, <1>8, <1>9, Zenon DEF CommandInv

LEMMA NextInv == CommandInv /\ [Next]_vars => CommandInv'
<1> SUFFICES ASSUME CommandInv, [Next]_vars PROVE CommandInv'
  OBVIOUS
<1>1. CASE types
  BY <1>1, TypesKeeps
<1>2. CASE splits
  BY <1>2, SplitsKeeps
<1>3. CASE passes
  BY <1>3, PassesKeeps
<1>4. CASE answers
  BY <1>4, AnswersKeeps
<1>5. CASE UNCHANGED vars
  <2>1. pc' = pc /\ line' = line /\ op' = op /\ body' = body /\ params' = params
    BY <1>5 DEF vars
  <2> QED  BY <2>1, Zenon DEF CommandInv, CommandTypeOK, Received, Sliced, Served, Texts
<1> QED  BY <1>1, <1>2, <1>3, <1>4, <1>5 DEF Next

\* The invariant of a line's way from the prompt to the slots of procesar: a
\* body is what the client read and what follows it, slots hold texts only
\* while a request is served, and then those that Split makes of its body.
THEOREM CommandInvariant == Spec => []CommandInv
<1>1. Init => CommandInv
  BY InitInv
<1>2. CommandInv /\ [Next]_vars => CommandInv'
  BY NextInv
<1> QED  BY <1>1, <1>2, PTL DEF Spec

\* The variables of the command line keep their types; a body that is there is
\* never the empty string, and a slot holds a text or one of its three marks.
THEOREM CommandTypeCorrect == Spec => []CommandTypeOK
<1>1. CommandInv => CommandTypeOK
  BY DEF CommandInv
<1> QED  BY <1>1, CommandInvariant, PTL

LEMMA InvSplits == CommandInv => SplitIsExact
<1> SUFFICES ASSUME CommandInv, pc = "serve", body # NULL
             PROVE  /\ \E n \in 1..NParams[op] : Texts = 0..(n - 1)
                    /\ Plain(<<" ">> \o body) \in {Plain(Arrived), Plain(Arrived) \o <<" ">>}
                    /\ \A k \in Texts : k + 1 < NParams[op] => IsWord(params[k])
  BY Zenon DEF SplitIsExact
<1>1. PICK s, c, n : n = NParams[op] /\ Served(s, c, body, n)
  BY DEF CommandInv, Sliced
<1>2. \E m \in 1..n : Texts = 0..(m - 1)
  BY <1>1, ServedCounts
<1>3. Plain(<<" ">> \o body) \in {Plain(Arrived), Plain(Arrived) \o <<" ">>}
  BY <1>1, ServedReadsSame, Zenon
<1>4. \A k \in Texts : k + 1 < n => IsWord(params[k])
  BY <1>1, ServedWords
<1> QED  BY <1>1, <1>2, <1>3, <1>4, Zenon

\* What requesttoparams hands to an operation is the body cut at its first
\* separators, whatever the body: no character is lost but a separator at the
\* end, and only the last parameter of as many as were asked for has separators.
THEOREM SplitAlwaysExact == Spec => []SplitIsExact
<1>1. CommandInv => SplitIsExact
  BY InvSplits
<1> QED  BY <1>1, CommandInvariant, PTL

LEMMA InvArrives == CommandInv => TypedWordsArrive
<1> SUFFICES ASSUME CommandInv PROVE TypedWordsArrive
  OBVIOUS
<1>1. op = IF line.word \in DOMAIN OpOf THEN OpOf[line.word] ELSE OP_UNKNOW
  BY Zenon DEF CommandInv
<1>2. ASSUME pc = "serve", Regular(line.tail), line.tail # <<>>, ~line.eof
      PROVE  IsPrefix(line.tail, Arrived) /\ (body = Tail(line.tail) => Arrived = line.tail)
  <2>1. line \in Lines /\ Received /\ Sliced
    BY <1>2 DEF CommandInv, Received
  <2>2. PICK tail \in Seq(Chars) : tail = line.tail /\ tail # <<>>
    BY <1>2, <2>1, LinesAssumption
  <2>3. PICK b \in Nat : b = Len(tail) /\ b # 0
    <3>1. Len(tail) \in Nat /\ Len(tail) # 0
      BY <2>2, EmptySeq
    <3> QED  BY <3>1, Zenon
  <2>4. PICK text \in Seq(Chars) :
          /\ prompt_read_command(line) = text /\ Len(text) = b - 1
          /\ \A i \in 1..(b - 1) : text[i] = tail[i + 1]
    BY <1>2, <2>1, <2>2, <2>3, PromptRegular, Zenon
  <2>5. text # NULL
    BY SlotAssumption
  <2>6. PICK j \in Junk : body = text \o j
    BY <2>1, <2>4, <2>5, Zenon DEF Received
  <2>7. j \in Seq(Chars)
    BY JunkAssumption
  <2>8. PICK y : y = text \o j
    OBVIOUS
  <2>9. /\ y \in Seq(Chars) /\ Len(y) = b - 1 + Len(j)
        /\ \A i \in 1..(b - 1) : y[i] = tail[i + 1]
    <3>1. /\ text \o j \in Seq(Chars) /\ Len(text \o j) = Len(text) + Len(j)
          /\ \A i \in 1..(Len(text) + Len(j)) :
               (text \o j)[i] = IF i <= Len(text) THEN text[i] ELSE j[i - Len(text)]
      BY <2>7, ConcatProperties, Zenon
    <3>2. /\ y \in Seq(Chars) /\ Len(y) = (b - 1) + Len(j)
          /\ \A i \in 1..((b - 1) + Len(j)) : y[i] = IF i <= b - 1 THEN text[i] ELSE j[i - (b - 1)]
      BY <2>4, <2>8, <3>1, Zenon
    <3>3. Len(j) \in Nat
      BY <2>7
    <3>4. \A i \in 1..(b - 1) : i \in 1..((b - 1) + Len(j)) /\ i <= b - 1
      BY <2>3, <3>3
    <3> QED  BY <2>4, <3>2, <3>4, Zenon
  <2>10. body = y /\ body # NULL
    <3>1. y # NULL
      BY <2>9, SlotAssumption
    <3> QED  BY <2>6, <2>8, <3>1, Zenon
  <2>11. PICK s, c, n : Served(s, c, body, n)
    BY <2>1, <2>10 DEF Sliced
  <2>12. Spaces(tail)
    BY <1>2, <2>2, RegularIs, Zenon
  <2>13. Follows(body, tail)
    <3>1. Len(y) >= b - 1
      BY <2>3, <2>7, <2>9
    <3>2. ASSUME NEW i \in 2..b PROVE y[i - 1] = tail[i]
      <4>1. i - 1 \in 1..(b - 1) /\ (i - 1) + 1 = i
        BY <2>3
      <4> QED  BY <2>9, <4>1, Zenon
    <3> QED  BY <2>3, <2>10, <3>1, <3>2, Zenon DEF Follows
  <2>14. /\ Len(tail) <= Len(Arrived) /\ \A i \in 1..Len(tail) : Arrived[i] = tail[i]
         /\ Len(body) = Len(tail) - 1 => Arrived = tail
    BY <2>11, <2>12, <2>13, ServedTail
  <2>15. Arrived \in Seq(Chars)
    BY <2>11, ArrivedIs, Zenon DEF Like
  <2>16. IsPrefix(tail, Arrived)
    BY <2>14, <2>15, Prefixed
  <2>17. body = Tail(tail) => Len(body) = Len(tail) - 1
    BY <2>2, HeadTailProperties
  <2> QED  BY <2>2, <2>14, <2>16, <2>17, Zenon
<1> QED  BY <1>1, <1>2, Zenon DEF TypedWordsArrive

\* What the user types reaches the database: cmdtous finds every command, and
\* the words of a line with one space before each are the parameters, in
\* order, however many they are and whatever follows the body in memory.
THEOREM TypedWordsAlwaysArrive == Spec => []TypedWordsArrive
<1>1. CommandInv => TypedWordsArrive
  BY InvArrives
<1> QED  BY <1>1, CommandInvariant, PTL
=============================================================================
