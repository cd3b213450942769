--------------------------- MODULE UserTableProofs ---------------------------
(***************************************************************************)
(* Proofs about UserTable for every set of entries, every initial file and *)
(* every bound: its type invariant, the order of the uids, the row         *)
(* counter, and the lemmas DbsProofs needs about rows that stay, rows read *)
(* back from the file and users of one name.                               *)
(***************************************************************************)
EXTENDS UserTable, SequenceTheorems, FiniteSetTheorems, Induction, TLAPS

-----------------------------------------------------------------------------
(* Sequences with a segment cut out, or replaced by one element: what      *)
(* delete and update make of the list.                                     *)

Cut(s, p, k)       == SubSeq(s, 1, p) \o SubSeq(s, k + 1, Len(s))
Splice(s, p, x, k) == SubSeq(s, 1, p) \o <<x>> \o SubSeq(s, k + 1, Len(s))

\* The two ends that are kept.
LEMMA Ends ==
  ASSUME NEW S, NEW s \in Seq(S), NEW p \in 0..Len(s), NEW k \in p..Len(s)
  PROVE  /\ SubSeq(s, 1, p) \in Seq(S) /\ Len(SubSeq(s, 1, p)) = p
         /\ \A i \in 1..p : SubSeq(s, 1, p)[i] = s[i]
         /\ SubSeq(s, k + 1, Len(s)) \in Seq(S) /\ Len(SubSeq(s, k + 1, Len(s))) = Len(s) - k
         /\ \A i \in 1..(Len(s) - k) : SubSeq(s, k + 1, Len(s))[i] = s[k + i]
<1>1. \A i \in 1..p : s[i] \in S
  BY ElementOfSeq
<1>2. \A i \in (k + 1)..Len(s) : s[i] \in S
  BY ElementOfSeq
<1>3. /\ SubSeq(s, 1, p) \in Seq(S) /\ Len(SubSeq(s, 1, p)) = p
      /\ \A i \in 1..p : SubSeq(s, 1, p)[i] = s[i]
  BY <1>1, SubSeqProperties, LenProperties
<1>4. /\ SubSeq(s, k + 1, Len(s)) \in Seq(S) /\ Len(SubSeq(s, k + 1, Len(s))) = Len(s) - k
      /\ \A i \in 1..(Len(s) - k) : SubSeq(s, k + 1, Len(s))[i] = s[k + i]
  BY <1>2, SubSeqProperties, LenProperties
<1> QED  BY <1>3, <1>4

\* The elements of s with those at p + 1 .. k taken out.
LEMMA CutSeq ==
  ASSUME NEW S, NEW s \in Seq(S), NEW p \in 0..Len(s), NEW k \in p..Len(s)
  PROVE  /\ Cut(s, p, k) \in Seq(S) /\ Len(Cut(s, p, k)) = Len(s) - (k - p)
         /\ \A i \in 1..p : Cut(s, p, k)[i] = s[i]
         /\ \A i \in (p + 1)..Len(Cut(s, p, k)) : Cut(s, p, k)[i] = s[i + (k - p)]
<1> DEFINE a == SubSeq(s, 1, p)
           b == SubSeq(s, k + 1, Len(s))
           c == Cut(s, p, k)
<1>1. a \in Seq(S) /\ Len(a) = p /\ \A i \in 1..p : a[i] = s[i]
  BY Ends
<1>2. b \in Seq(S) /\ Len(b) = Len(s) - k /\ \A i \in 1..(Len(s) - k) : b[i] = s[k + i]
  BY Ends
<1>3. c = a \o b
  BY Zenon DEF Cut
<1> HIDE DEF a, b, c
<1>4. Len(s) \in Nat /\ p \in Nat /\ k \in Nat
  BY LenProperties
<1>5. c \in Seq(S) /\ Len(c) = Len(a) + Len(b)
  BY <1>1, <1>2, <1>3, ConcatProperties
<1>6. Len(c) = Len(s) - (k - p)
  <2>1. p + (Len(s) - k) = Len(s) - (k - p)
    BY <1>4
  <2> QED  BY <1>1, <1>2, <1>5, <2>1
<1>7. ASSUME NEW i \in 1..p PROVE c[i] = s[i]
  <2>1. c[i] = a[i]
    BY <1>1, <1>2, <1>3, <1>4, <1>5
  <2> QED  BY <1>1, <2>1
<1>8. ASSUME NEW i \in (p + 1)..Len(c) PROVE c[i] = s[i + (k - p)]
  <2>1. c[i] = b[i - p]
    BY <1>1, <1>2, <1>3, <1>4, <1>5
  <2>2. i - p \in 1..(Len(s) - k)
    BY <1>4, <1>6
  <2>3. b[i - p] = s[k + (i - p)]
    BY <1>2, <2>2
  <2>4. k + (i - p) = i + (k - p)
    BY <1>4, <1>6
  <2> QED  BY <2>1, <2>3, <2>4
<1> QED  BY <1>5, <1>6, <1>7, <1>8 DEF c

\* The same with x in the place of them.
LEMMA SpliceSeq ==
  ASSUME NEW S, NEW s \in Seq(S), NEW p \in 0..Len(s), NEW k \in p..Len(s), NEW x \in S
  PROVE  /\ Splice(s, p, x, k) \in Seq(S) /\ Len(Splice(s, p, x, k)) = Len(s) - (k - p) + 1
         /\ \A i \in 1..p : Splice(s, p, x, k)[i] = s[i]
         /\ Splice(s, p, x, k)[p + 1] = x
         /\ \A i \in (p + 2)..Len(Splice(s, p, x, k)) : Splice(s, p, x, k)[i] = s[i + (k - p) - 1]
<1> DEFINE a == SubSeq(s, 1, p)
           b == SubSeq(s, k + 1, Len(s))
           d == a \o <<x>>
           e == Splice(s, p, x, k)
<1>1. /\ a \in Seq(S) /\ Len(a) = p /\ \A i \in 1..p : a[i] = s[i]
      /\ b \in Seq(S) /\ Len(b) = Len(s) - k /\ \A i \in 1..(Len(s) - k) : b[i] = s[k + i]
  BY Ends
<1>2. e = d \o b
  BY Zenon DEF Splice
<1>3. d = a \o <<x>>
  OBVIOUS
<1> HIDE DEF a, b, d, e
<1>4. <<x>> \in Seq(S) /\ Len(<<x>>) = 1 /\ <<x>>[1] = x
  OBVIOUS
<1>5. Len(s) \in Nat /\ p \in Nat /\ k \in Nat
  BY LenProperties
<1>6. d \in Seq(S) /\ Len(d) = p + 1
  BY <1>1, <1>3, <1>4, ConcatProperties
<1>7. \A i \in 1..p : d[i] = s[i]
  BY <1>1, <1>3, <1>4, <1>5
<1>8. d[p + 1] = x
  BY <1>1, <1>3, <1>4, <1>5
<1>9. e \in Seq(S) /\ Len(e) = Len(d) + Len(b)
  BY <1>1, <1>2, <1>6, ConcatProperties
<1>10. Len(e) = Len(s) - (k - p) + 1
  <2>1. (p + 1) + (Len(s) - k) = Len(s) - (k - p) + 1
    BY <1>5
  <2> QED  BY <1>1, <1>6, <1>9, <2>1
<1>11. ASSUME NEW i \in 1..(p + 1) PROVE e[i] = d[i]
  BY <1>1, <1>2, <1>5, <1>6, <1>9
<1>12. ASSUME NEW i \in (p + 2)..Len(e) PROVE e[i] = s[i + (k - p) - 1]
  <2>1. e[i] = b[i - (p + 1)]
    <3>1. i \in 1..Len(d) + Len(b) /\ ~(i <= Len(d)) /\ i - Len(d) = i - (p + 1)
      BY <1>1, <1>5, <1>6, <1>9
    <3> QED  BY <1>1, <1>2, <1>6, <3>1, ConcatProperties
  <2>2. i - (p + 1) \in 1..(Len(s) - k)
    BY <1>5, <1>10
  <2>3. b[i - (p + 1)] = s[k + (i - (p + 1))]
    BY <1>1, <2>2
  <2>4. k + (i - (p + 1)) = i + (k - p) - 1
    BY <1>5, <1>10
  <2> QED  BY <2>1, <2>3, <2>4
<1>13. \A i \in 1..p : e[i] = s[i]
  BY <1>5, <1>7, <1>11
<1>14. e[p + 1] = x
  BY <1>5, <1>8, <1>11
<1> QED  BY <1>9, <1>10, <1>12, <1>13, <1>14 DEF e

LEMMA SpliceAt ==
  ASSUME NEW S, NEW s, NEW p, NEW x, NEW k,
         s \in Seq(S) /\ x \in S /\ k \in p..Len(s), p \in 0..Len(s)
  PROVE  Splice(s, p, x, k)[p + 1] = x
BY SpliceSeq

\* What is left when at most the k-th element is cut out.
LEMMA CutRange ==
  ASSUME NEW S, NEW s \in Seq(S), NEW p \in 0..Len(s), NEW k \in p..Len(s), k - p \in {0, 1}
  PROVE  /\ \A i \in DOMAIN Cut(s, p, k) : \E j \in DOMAIN s : Cut(s, p, k)[i] = s[j]
         /\ \A j \in DOMAIN s : j # k => \E i \in DOMAIN Cut(s, p, k) : Cut(s, p, k)[i] = s[j]
<1> DEFINE c == Cut(s, p, k)
<1>1. /\ c \in Seq(S) /\ Len(c) = Len(s) - (k - p)
      /\ \A i \in 1..p : c[i] = s[i]
      /\ \A i \in (p + 1)..Len(c) : c[i] = s[i + (k - p)]
  BY CutSeq
<1> HIDE DEF c
<1>2. Len(s) \in Nat /\ p \in Nat /\ k \in Nat /\ DOMAIN s = 1..Len(s) /\ DOMAIN c = 1..Len(c)
  BY <1>1, LenProperties
<1>3. ASSUME NEW i \in DOMAIN c PROVE \E j \in DOMAIN s : c[i] = s[j]
  <2>1. CASE i <= p
    <3>1. i \in DOMAIN s /\ c[i] = s[i]
      BY <1>1, <1>2, <2>1
    <3> QED  BY <3>1
  <2>2. CASE i > p
    <3>1. i \in (p + 1)..Len(c) /\ i + (k - p) \in DOMAIN s
      BY <1>1, <1>2, <2>2
    <3>2. c[i] = s[i + (k - p)]
      BY <1>1, <3>1
    <3> QED  BY <3>1, <3>2
  <2> QED  BY <1>2, <2>1, <2>2
<1>4. ASSUME NEW j \in DOMAIN s, j # k PROVE \E i \in DOMAIN c : c[i] = s[j]
  <2>1. CASE j <= p
    <3>1. j \in DOMAIN c /\ c[j] = s[j]
      BY <1>1, <1>2, <2>1
    <3> QED  BY <3>1
  <2>2. CASE j > p
    <3> DEFINE i == j - (k - p)
    <3>1. i \in (p + 1)..Len(c) /\ i + (k - p) = j
      <4>1. Len(c) = Len(s) - (k - p) /\ j \in Nat /\ j <= Len(s) /\ j # k /\ j > p
        BY <1>1, <1>2, <1>4, <2>2
      <4>2. k = p \/ k = p + 1
        BY <1>2
      <4> QED  BY <1>2, <4>1, <4>2
    <3>2. i \in DOMAIN c
      BY <1>2, <3>1
    <3> HIDE DEF i
    <3>3. c[i] = s[i + (k - p)]
      BY <1>1, <3>1
    <3> QED  BY <3>1, <3>2, <3>3
  <2> QED  BY <1>2, <2>1, <2>2
<1> QED  BY <1>3, <1>4 DEF c

\* The same with x in its place.
LEMMA SpliceRange ==
  ASSUME NEW S, NEW s \in Seq(S), NEW p \in 0..Len(s), NEW k \in p..Len(s), k - p \in {0, 1}, NEW x \in S
  PROVE  /\ \A i \in DOMAIN Splice(s, p, x, k) :
              Splice(s, p, x, k)[i] = x \/ \E j \in DOMAIN s : Splice(s, p, x, k)[i] = s[j]
         /\ \E i \in DOMAIN Splice(s, p, x, k) : Splice(s, p, x, k)[i] = x
         /\ \A j \in DOMAIN s : j # k =>
              \E i \in DOMAIN Splice(s, p, x, k) : Splice(s, p, x, k)[i] = s[j]
<1> DEFINE c == Splice(s, p, x, k)
<1> HIDE DEF c
<1>1. /\ c \in Seq(S) /\ Len(c) = Len(s) - (k - p) + 1
      /\ \A i \in 1..p : c[i] = s[i]
      /\ \A i \in (p + 2)..Len(c) : c[i] = s[i + (k - p) - 1]
  <2>1. Splice(s, p, x, k) \in Seq(S)
    BY SpliceSeq
  <2>2. Len(Splice(s, p, x, k)) = Len(s) - (k - p) + 1
    BY SpliceSeq
  <2>3. \A i \in 1..p : Splice(s, p, x, k)[i] = s[i]
    BY SpliceSeq
  <2>4. \A i \in (p + 2)..Len(Splice(s, p, x, k)) : Splice(s, p, x, k)[i] = s[i + (k - p) - 1]
    BY SpliceSeq
  <2> QED  BY <2>1, <2>2, <2>3, <2>4 DEF c
<1>2. c[p + 1] = x
  BY SpliceAt DEF c
<1>3. Len(s) \in Nat /\ p \in Nat /\ k \in Nat /\ DOMAIN s = 1..Len(s) /\ DOMAIN c = 1..Len(c)
  BY <1>1, LenProperties
<1>4. ASSUME NEW i \in DOMAIN c PROVE c[i] = x \/ \E j \in DOMAIN s : c[i] = s[j]
  <2>1. CASE i <= p
    <3>1. i \in DOMAIN s /\ c[i] = s[i]
      BY <1>1, <1>3, <2>1
    <3> QED  BY <3>1
  <2>2. CASE i = p + 1
    BY <1>2, <2>2
  <2>3. CASE i > p + 1
    <3>1. i \in (p + 2)..Len(c) /\ i + (k - p) - 1 \in DOMAIN s
      BY <1>1, <1>3, <2>3
    <3>2. c[i] = s[i + (k - p) - 1]
      BY <1>1, <3>1
    <3> QED  BY <3>1, <3>2
  <2> QED  BY <1>3, <2>1, <2>2, <2>3
<1>5. p + 1 \in DOMAIN c
  BY <1>1, <1>3
<1>6. ASSUME NEW j \in DOMAIN s, j # k PROVE \E i \in DOMAIN c : c[i] = s[j]
  <2>1. CASE j <= p
    <3>1. j \in DOMAIN c /\ c[j] = s[j]
      BY <1>1, <1>3, <2>1
    <3> QED  BY <3>1
  <2>2. CASE j > p
    <3> DEFINE i == j - (k - p) + 1
    <3>1. i \in (p + 2)..Len(c) /\ i + (k - p) - 1 = j
      BY <1>1, <1>3, <1>6, <2>2
    <3>2. i \in DOMAIN c
      BY <1>3, <3>1
    <3> HIDE DEF i
    <3>3. c[i] = s[i + (k - p) - 1]
      BY <1>1, <3>1
    <3> QED  BY <3>1, <3>2, <3>3
  <2> QED  BY <1>3, <2>1, <2>2
<1> QED  BY <1>2, <1>4, <1>5, <1>6 DEF c

-----------------------------------------------------------------------------
(* Rows, lines and the file.                                               *)

LEMMA RowOfEntry == ASSUME NEW e \in Entry, NEW u \in Nat PROVE WithUid(e, u) \in Row
BY DEF WithUid, Entry, Row

\* A row prints as a line.
LEMMA LineOfRow == ASSUME NEW r \in Row PROVE LineOf(r) \in Line
<1>1. /\ r.uid \in Nat /\ r.login \in Seq(STRING) /\ r.email \in Seq(STRING)
      /\ r.pass \in Seq(STRING) /\ r.type \in Seq(STRING)
  BY DEF Row, Text
<1>2. r.login \o r.email \in Seq(STRING)
  BY <1>1, ConcatProperties
<1>3. (r.login \o r.email) \o r.pass \in Seq(STRING)
  BY <1>1, <1>2, ConcatProperties
<1>4. ((r.login \o r.email) \o r.pass) \o r.type \in Seq(STRING)
  BY <1>1, <1>3, ConcatProperties
<1> QED  BY <1>1, <1>4 DEF LineOf, Line, Text

\* A line that parses reads as a row.
LEMMA RowOfLine == ASSUME NEW l \in Line, Parses(l) PROVE RowOf(l) \in Row
<1>1. l.uid \in Nat /\ l.pieces \in Seq(STRING)
  BY DEF Line, Text
<1>2. ASSUME NEW k \in 1..4 PROVE Column(l, k) \in Seq(STRING)
  <2> DEFINE i == CHOOSE j \in DOMAIN l.pieces : WordAt(l, k, j)
  <2>1. \E j \in DOMAIN l.pieces : WordAt(l, k, j)
    BY DEF Parses
  <2>2. i \in DOMAIN l.pieces
    BY <2>1
  <2> HIDE DEF i
  <2>3. l.pieces[i] \in STRING
    BY <1>1, <2>2
  <2>4. <<l.pieces[i]>> \in Seq(STRING)
    BY <2>3
  <2> QED  BY <2>4 DEF Column, i
<1>3. /\ Column(l, 1) \in Text /\ Column(l, 2) \in Text
      /\ Column(l, 3) \in Text /\ Column(l, 4) \in Text
  BY <1>2 DEF Text
<1> QED  BY <1>1, <1>3 DEF RowOf, Row

\* What commit writes are lines.
LEMMA Written ==
  ASSUME TypeOK, NEW n \in 0..Len(chain)
  PROVE  /\ [i \in 1..n |-> LineOf(heap[chain[i]])] \in Seq(Line)
         /\ Len([i \in 1..n |-> LineOf(heap[chain[i]])]) = n
         /\ \A j \in 1..n : [i \in 1..n |-> LineOf(heap[chain[i]])][j].uid = heap[chain[j]].uid
<1> DEFINE w == [i \in 1..n |-> LineOf(heap[chain[i]])]
<1>1. n \in Nat /\ Len(chain) \in Nat
  BY LenProperties DEF TypeOK
<1>2. ASSUME NEW i \in 1..n PROVE LineOf(heap[chain[i]]) \in Line
  <2>1. i \in 1..Len(chain)
    BY <1>1
  <2>2. chain[i] \in DOMAIN heap
    BY <2>1, ElementOfSeq DEF TypeOK
  <2>3. heap[chain[i]] \in Row
    BY <2>2 DEF TypeOK
  <2> QED  BY <2>3, LineOfRow
<1>3. w \in Seq(Line)
  BY <1>1, <1>2, IsASeq
<1>4. DOMAIN w = 1..n
  OBVIOUS
<1>5. ASSUME NEW j \in 1..n PROVE w[j].uid = heap[chain[j]].uid
  BY DEF LineOf
<1> HIDE DEF w
<1>6. Len(w) = n
  BY <1>1, <1>3, <1>4, LenProperties
<1> QED  BY <1>3, <1>5, <1>6 DEF w

\* _load_table, whatever the list was: well-typed rows, linked in order.
LEMMA Loaded ==
  ASSUME TypeOK, NEW h \in Seq(Row), load_table(h)
  PROVE  /\ heap' \in Seq(Row) /\ Len(heap') = Len(h) + Len(file)
         /\ \A n \in DOMAIN h : n \in DOMAIN heap' /\ heap'[n] = h[n]
         /\ chain' \in Seq(DOMAIN heap') /\ Len(chain') = Len(file) /\ Len(file) > 0
         /\ rows' \in Nat /\ lastUid' \in Nat
         /\ \A i \in 1..Len(file) : /\ chain'[i] = Len(h) + i
                                   /\ heap'[chain'[i]].uid = file[i].uid
<1> DEFINE t == [i \in DOMAIN file |-> RowOf(file[i])]
<1>1. /\ file \in Seq(Line) /\ Len(file) \in Nat /\ Len(file) # 0 /\ DOMAIN file = 1..Len(file)
      /\ Len(h) \in Nat
  BY LenProperties, EmptySeq DEF TypeOK, load_table
<1>2. ASSUME NEW i \in 1..Len(file) PROVE RowOf(file[i]) \in Row /\ RowOf(file[i]).uid = file[i].uid
  <2>1. file[i] \in Line /\ Parses(file[i])
    BY <1>1, ElementOfSeq DEF load_table
  <2> QED  BY <2>1, RowOfLine DEF RowOf
<1>3. t \in Seq(Row) /\ Len(t) = Len(file) /\ \A i \in 1..Len(file) : t[i].uid = file[i].uid
  <2>1. t = [i \in 1..Len(file) |-> RowOf(file[i])]
    BY <1>1
  <2>2. t \in Seq(Row)
    BY <1>1, <1>2, <2>1, IsASeq
  <2>3. DOMAIN t = 1..Len(file)
    BY <2>1
  <2>4. Len(t) = Len(file)
    BY <1>1, <2>2, <2>3, LenProperties
  <2> QED  BY <1>2, <2>1, <2>2, <2>4
<1>4. heap' = h \o t
  BY DEF load_table
<1> HIDE DEF t
<1>5. heap' \in Seq(Row) /\ Len(heap') = Len(h) + Len(file)
  <2>1. t \in Seq(Row)
    BY <1>3
  <2>2. h \o t \in Seq(Row) /\ Len(h \o t) = Len(h) + Len(t)
    BY <2>1, ConcatProperties, Zenon
  <2> QED  BY <1>3, <1>4, <2>2, Zenon
<1>6. chain' = [i \in 1..Len(file) |-> Len(h) + i] /\ rows' = Len(file) /\ lastUid' = file[Len(file)].uid
  BY <1>1 DEF load_table
<1>7. \A i \in 1..Len(file) : Len(h) + i \in DOMAIN heap'
  <2>1. DOMAIN heap' = 1..(Len(h) + Len(file))
    BY <1>5, LenProperties
  <2> QED  BY <1>1, <2>1
<1>8. chain' \in Seq(DOMAIN heap')
  BY <1>1, <1>6, <1>7, IsASeq
<1>9. Len(chain') = Len(file)
  <2>1. DOMAIN chain' = 1..Len(file)
    BY <1>6
  <2> QED  BY <1>1, <1>8, <2>1, LenProperties
<1>10. lastUid' \in Nat
  <2>1. file[Len(file)] \in Line
    BY <1>1, ElementOfSeq
  <2> QED  BY <1>6, <2>1 DEF Line
<1>11. ASSUME NEW i \in 1..Len(file)
       PROVE  chain'[i] = Len(h) + i /\ heap'[chain'[i]].uid = file[i].uid
  <2>1. chain'[i] = Len(h) + i
    BY <1>6
  <2>2. (h \o t)[Len(h) + i] = t[i]
    <3>1. /\ Len(h) + i \in 1..(Len(h) + Len(t)) /\ ~(Len(h) + i <= Len(h))
          /\ (Len(h) + i) - Len(h) = i
      BY <1>1, <1>3
    <3>2. \A j \in 1..(Len(h) + Len(t)) : (h \o t)[j] = IF j <= Len(h) THEN h[j] ELSE t[j - Len(h)]
      BY <1>3, ConcatProperties
    <3>3. (h \o t)[Len(h) + i] = IF Len(h) + i <= Len(h) THEN h[Len(h) + i] ELSE t[(Len(h) + i) - Len(h)]
      BY <3>1, <3>2, Zenon
    <3>4. (h \o t)[Len(h) + i] = t[(Len(h) + i) - Len(h)]
      BY <3>1, <3>3, Zenon
    <3> QED  BY <3>1, <3>4, Zenon
  <2> QED  BY <1>3, <1>4, <2>1, <2>2
<1>12. ASSUME NEW n \in DOMAIN h PROVE n \in DOMAIN heap' /\ heap'[n] = h[n]
  <2>1. n \in 1..Len(h) /\ n \in 1..(Len(h) + Len(t)) /\ n <= Len(h)
    BY <1>1, <1>3, LenProperties
  <2>2. \A j \in 1..(Len(h) + Len(t)) : (h \o t)[j] = IF j <= Len(h) THEN h[j] ELSE t[j - Len(h)]
    BY <1>3, ConcatProperties
  <2>3. (h \o t)[n] = h[n]
    BY <2>1, <2>2, Zenon
  <2>4. n \in DOMAIN heap'
    BY <1>3, <1>5, <2>1, LenProperties
  <2> QED  BY <1>4, <2>3, <2>4
<1> QED  BY <1>1, <1>5, <1>6, <1>8, <1>9, <1>10, <1>11, <1>12

-----------------------------------------------------------------------------
(* What the changing operations make of the heap and of the list.          *)

\* malloc: the rows there were stay where they were.
LEMMA Grown ==
  ASSUME TypeOK, NEW r \in Row, heap' = Append(heap, r)
  PROVE  /\ heap' \in Seq(Row) /\ Len(heap) \in Nat /\ Len(heap') = Len(heap) + 1
         /\ DOMAIN heap' = 1..(Len(heap) + 1) /\ DOMAIN heap = 1..Len(heap)
         /\ \A n \in DOMAIN heap : heap'[n] = heap[n]
         /\ heap'[Len(heap) + 1] = r
         /\ freed \subseteq DOMAIN heap' /\ Len(heap) + 1 \notin freed
         /\ chain \in Seq(DOMAIN heap')
<1>1. heap \in Seq(Row) /\ Len(heap) \in Nat /\ DOMAIN heap = 1..Len(heap)
  BY LenProperties DEF TypeOK
<1>2. /\ Append(heap, r) \in Seq(Row) /\ Len(Append(heap, r)) = Len(heap) + 1
      /\ \A n \in 1..Len(heap) : Append(heap, r)[n] = heap[n]
      /\ Append(heap, r)[Len(heap) + 1] = r
  BY <1>1, AppendProperties
<1>3. DOMAIN Append(heap, r) = 1..(Len(heap) + 1)
  BY <1>2, LenProperties
<1>4. DOMAIN heap \subseteq DOMAIN heap' /\ Len(heap) + 1 \notin DOMAIN heap
  BY <1>1, <1>3
<1>5. chain \in Seq(DOMAIN heap')
  BY <1>4, SeqMonotonic DEF TypeOK
<1> QED  BY <1>1, <1>2, <1>3, <1>4, <1>5 DEF TypeOK

\* insert appends the new row, or starts the list with it.
LEMMA Inserted ==
  ASSUME TypeOK, NEW e \in Entry, user_table_insert(e, Len(heap) + 1)
  PROVE  /\ WithUid(e, lastUid + 1) \in Row
         /\ chain' \in Seq(DOMAIN heap')
         /\ rows = 0 => Len(chain') = 1 /\ chain'[1] = Len(heap) + 1
         /\ rows # 0 => /\ Len(chain') = Len(chain) + 1
                        /\ \A i \in 1..Len(chain) : chain'[i] = chain[i]
                        /\ chain'[Len(chain) + 1] = Len(heap) + 1
<1>1. WithUid(e, lastUid + 1) \in Row
  BY RowOfEntry DEF TypeOK
<1>2. Len(heap) + 1 \in DOMAIN heap' /\ chain \in Seq(DOMAIN heap')
  <2>1. heap' = Append(heap, WithUid(e, lastUid + 1))
    BY DEF user_table_insert
  <2> QED  BY <1>1, <2>1, Grown
<1>3. /\ rows = 0 => chain' = <<Len(heap) + 1>>
      /\ rows # 0 => chain' = Append(chain, Len(heap) + 1)
  BY DEF user_table_insert
<1>4. CASE rows = 0
  <2> DEFINE n == Len(heap) + 1
  <2>1. n \in DOMAIN heap' /\ chain' = <<n>>
    BY <1>2, <1>3, <1>4
  <2> HIDE DEF n
  <2>2. <<n>> \in Seq(DOMAIN heap') /\ Len(<<n>>) = 1 /\ <<n>>[1] = n
    BY <2>1
  <2> QED  BY <1>1, <1>4, <2>1, <2>2 DEF n
<1>5. CASE rows # 0
  <2>1. /\ Append(chain, Len(heap) + 1) \in Seq(DOMAIN heap')
        /\ Len(Append(chain, Len(heap) + 1)) = Len(chain) + 1
        /\ \A i \in 1..Len(chain) : Append(chain, Len(heap) + 1)[i] = chain[i]
        /\ Append(chain, Len(heap) + 1)[Len(chain) + 1] = Len(heap) + 1
    BY <1>2, AppendProperties
  <2> QED  BY <1>1, <1>3, <1>5, <2>1
<1> QED  BY <1>4, <1>5

\* The row delete and update find is linked and allocated, and ptrant is at or
\* before it.
LEMMA Found ==
  ASSUME TypeOK, NEW uid, NEW k \in 1..rows, FoundByUid(uid, k), Sound(VisitedByUid(uid))
  PROVE  /\ k \in 1..Len(chain) /\ Live(k) /\ heap[chain[k]].uid = uid
         /\ ptrant(k) \in 1..Len(chain) /\ k \in ptrant(k)..Len(chain)
         /\ ptrant(k) = k \/ (k = 2 /\ ptrant(k) = 1)
<1>1. k \in DOMAIN chain /\ heap[chain[k]].uid = uid /\ k \in Visited("uid", uid, 2)
  <2>1. Match("uid", uid, 1, k) \/ Match("uid", uid, 2, k)
    BY DEF FoundByUid
  <2>2. CASE Match("uid", uid, 2, k)
    BY <2>2 DEF Match
  <2>3. CASE Match("uid", uid, 1, k)
    <3>1. k \in DOMAIN chain /\ heap[chain[k]].uid = uid /\ k \in Visited("uid", uid, 1)
      BY <2>3 DEF Match
    <3>2. Visited("uid", uid, 1) \subseteq Visited("uid", uid, 2)
      BY DEF Visited
    <3> QED  BY <3>1, <3>2
  <2> QED  BY <2>1, <2>2, <2>3
<1>2. Live(k)
  BY <1>1 DEF Sound, VisitedByUid
<1>3. DOMAIN chain = 1..Len(chain) /\ Len(chain) \in Nat
  BY LenProperties DEF TypeOK
<1> QED  BY <1>1, <1>2, <1>3 DEF ptrant

-----------------------------------------------------------------------------
(* The type invariant.                                                     *)

LEMMA TypeInit == Init => TypeOK
<1> SUFFICES ASSUME Init PROVE TypeOK
  OBVIOUS
<1>1. heap = <<>> /\ chain = <<>> /\ freed = {} /\ rows = 0 /\ lastUid = 0
  BY DEF Init
<1>2. heap \in Seq(Row) /\ chain \in Seq(DOMAIN heap)
  BY <1>1, EmptySeq
<1>3. file = Missing \/ file \in Seq(Line)
  BY FileAssumption DEF Init
<1>4. mode \in {"down", "up", "undefined"} /\ freed \subseteq DOMAIN heap /\ saving \in BOOLEAN
  BY <1>1 DEF Init
<1>5. rows \in Nat /\ lastUid \in Nat
  BY <1>1
<1> QED  BY <1>2, <1>3, <1>4, <1>5, Zenon DEF TypeOK

\* A process that ends takes its memory with it.
LEMMA TypeForget ==
  ASSUME Forget, mode' \in {"down", "up", "undefined"}, file' = Missing \/ file' \in Seq(Line)
  PROVE  TypeOK'
<1>1. heap' = <<>> /\ chain' = <<>> /\ freed' = {} /\ rows' = 0 /\ lastUid' = 0 /\ saving' = FALSE
  BY DEF Forget
<1>2. heap' \in Seq(Row) /\ chain' \in Seq(DOMAIN heap')
  BY <1>1, EmptySeq
<1> QED  BY <1>1, <1>2 DEF TypeOK

\* A start, by the three contents a file can have.
LEMMA Started ==
  ASSUME TypeOK, user_table_init
  PROVE  /\ mode' \in {"up", "undefined"} /\ freed' = {} /\ saving' = FALSE /\ file' = file
         /\ \/ /\ mode' = "up"
               /\ heap' = <<WithUid(admin, 1001)>> /\ chain' = <<1>> /\ rows' = 1 /\ lastUid' = 1001
            \/ /\ file = <<>>
               /\ heap' = <<>> /\ chain' = <<>> /\ rows' = 0 /\ lastUid' = 1000
            \/ load_table(<<>>)
BY DEF user_table_init

LEMMA TypeStart == ASSUME TypeOK, user_table_init PROVE TypeOK'
<1>1. mode' \in {"down", "up", "undefined"} /\ freed' = {} /\ saving' = FALSE /\ file' = file
  BY Started, Zenon
<1>2. /\ heap' \in Seq(Row) /\ chain' \in Seq(DOMAIN heap')
      /\ rows' \in Nat /\ lastUid' \in Nat
  <2>1. CASE heap' = <<WithUid(admin, 1001)>> /\ chain' = <<1>> /\ rows' = 1 /\ lastUid' = 1001
    <3> DEFINE r == WithUid(admin, 1001)
    <3>1. r \in Row /\ heap' = <<r>>
      BY <2>1, AdminAssumption, RowOfEntry
    <3> HIDE DEF r
    <3>2. heap' \in Seq(Row) /\ DOMAIN heap' = 1..1
      BY <3>1
    <3> QED  BY <2>1, <3>2
  <2>2. CASE heap' = <<>> /\ chain' = <<>> /\ rows' = 0 /\ lastUid' = 1000
    BY <2>2, EmptySeq
  <2>3. CASE load_table(<<>>)
    <3>1. <<>> \in Seq(Row)
      BY EmptySeq
    <3> QED  BY <2>3, <3>1, Loaded
  <2> QED  BY <2>1, <2>2, <2>3, Started
<1>3. freed' \subseteq DOMAIN heap' /\ saving' \in BOOLEAN
  BY <1>1
<1>4. file' = Missing \/ file' \in Seq(Line)
  BY <1>1 DEF TypeOK
<1> QED  BY <1>1, <1>2, <1>3, <1>4, Zenon DEF TypeOK

LEMMA TypeInsert == ASSUME TypeOK, Insert PROVE TypeOK'
<1>1. PICK e \in Entries : user_table_insert(e, Len(heap) + 1)
  BY DEF Insert
<1>2. e \in Entry
  BY EntriesAssumption
<1>3. WithUid(e, lastUid + 1) \in Row /\ chain' \in Seq(DOMAIN heap')
  BY <1>1, <1>2, Inserted
<1>4. heap' = Append(heap, WithUid(e, lastUid + 1))
  BY <1>1 DEF user_table_insert
<1>5. heap' \in Seq(Row) /\ freed \subseteq DOMAIN heap'
  BY <1>3, <1>4, Grown
<1> QED  BY <1>1, <1>3, <1>5 DEF TypeOK, user_table_insert

LEMMA TypeDelete == ASSUME TypeOK, Delete PROVE TypeOK'
<1>1. PICK uid \in KnownUids, ret \in {0, 1} : user_table_delete(uid, ret)
  BY DEF Delete
<1>2. UNCHANGED <<mode, heap, lastUid, file, saving>>
  BY <1>1 DEF user_table_delete
<1>3. freed' \subseteq DOMAIN heap /\ chain' \in Seq(DOMAIN heap) /\ rows' \in Nat
  <2>1. CASE UNCHANGED <<freed, chain, rows>>
    BY <2>1 DEF TypeOK
  <2>2. CASE /\ rows = 1 /\ FoundByUid(uid, 1)
             /\ freed' = freed \cup {chain[1]} /\ chain' = <<>> /\ UNCHANGED rows
    <3>1. 1 \in 1..Len(chain)
      BY <1>1, <2>2, Found DEF user_table_delete
    <3>2. chain[1] \in DOMAIN heap
      BY <3>1, ElementOfSeq DEF TypeOK
    <3>3. chain' \in Seq(DOMAIN heap)
      BY <2>2, EmptySeq
    <3> QED  BY <2>2, <3>2, <3>3 DEF TypeOK
  <2>3. CASE \E k \in 2..rows : /\ FoundByUid(uid, k)
                               /\ freed' = freed \cup {chain[k]}
                               /\ chain' = Cut(chain, ptrant(k), k)
                               /\ rows' = rows - 1
    <3>1. PICK k \in 2..rows : /\ FoundByUid(uid, k)
                               /\ freed' = freed \cup {chain[k]}
                               /\ chain' = Cut(chain, ptrant(k), k)
                               /\ rows' = rows - 1
      BY <2>3
    <3>2. k \in 1..rows /\ rows - 1 \in Nat
      BY DEF TypeOK
    <3>3. k \in 1..Len(chain) /\ ptrant(k) \in 1..Len(chain) /\ k \in ptrant(k)..Len(chain)
      BY <1>1, <3>1, <3>2, Found DEF user_table_delete
    <3>4. chain[k] \in DOMAIN heap
      BY <3>3, ElementOfSeq DEF TypeOK
    <3>5. chain \in Seq(DOMAIN heap) /\ ptrant(k) \in 0..Len(chain)
      BY <3>3 DEF TypeOK
    <3>6. Cut(chain, ptrant(k), k) \in Seq(DOMAIN heap)
      BY <3>3, <3>5, CutSeq
    <3> QED  BY <3>1, <3>2, <3>4, <3>6 DEF TypeOK
  <2> QED  BY <1>1, <2>1, <2>2, <2>3 DEF user_table_delete, Cut
<1> QED  BY <1>2, <1>3 DEF TypeOK

LEMMA DraftIsRow ==
  ASSUME TypeOK, NEW r \in Drafts
  PROVE  r \in Row /\ \E n \in DOMAIN heap : r.uid = heap[n].uid
<1>1. PICK n \in DOMAIN heap, p \in Passwords : r = [heap[n] EXCEPT !.pass = p]
  BY DEF Drafts
<1>2. heap[n] \in Row /\ p \in Text
  BY PasswordsAssumption DEF TypeOK
<1> QED  BY <1>1, <1>2 DEF Row

\* The three outcomes of update.
LEMMA Updated ==
  ASSUME TypeOK, NEW r, NEW ret, user_table_update(r, ret)
  PROVE  /\ heap' = Append(heap, r) /\ UNCHANGED <<mode, rows, lastUid, file, saving>>
         /\ \/ UNCHANGED <<freed, chain>>
            \/ /\ rows = 1 /\ FoundByUid(r.uid, 1)
               /\ freed' = freed \cup {chain[1]} /\ chain' = <<Len(heap) + 1>>
            \/ \E k \in 2..rows : /\ FoundByUid(r.uid, k)
                                 /\ freed' = freed \cup {chain[k]}
                                 /\ chain' = Splice(chain, ptrant(k), Len(heap) + 1, k)
BY DEF user_table_update, Splice

LEMMA TypeUpdate == ASSUME TypeOK, Update PROVE TypeOK'
<1>1. PICK r \in Drafts, ret \in {0, 1} : user_table_update(r, ret)
  BY DEF Update
<1>2. r \in Row /\ Sound(VisitedByUid(r.uid))
  BY <1>1, DraftIsRow DEF user_table_update
<1>3. heap' = Append(heap, r) /\ UNCHANGED <<mode, rows, lastUid, file, saving>>
  BY <1>1, Updated
<1>4. /\ heap' \in Seq(Row) /\ freed \subseteq DOMAIN heap' /\ chain \in Seq(DOMAIN heap')
      /\ Len(heap) + 1 \in DOMAIN heap'
  BY <1>2, <1>3, Grown
<1>5. freed' \subseteq DOMAIN heap' /\ chain' \in Seq(DOMAIN heap')
  <2>1. CASE UNCHANGED <<freed, chain>>
    BY <1>4, <2>1
  <2>2. CASE /\ rows = 1 /\ FoundByUid(r.uid, 1)
             /\ freed' = freed \cup {chain[1]} /\ chain' = <<Len(heap) + 1>>
    <3>1. 1 \in 1..Len(chain)
      BY <1>2, <2>2, Found
    <3>2. chain[1] \in DOMAIN heap'
      BY <1>4, <3>1, ElementOfSeq
    <3> DEFINE n == Len(heap) + 1
    <3>3. n \in DOMAIN heap' /\ chain' = <<n>>
      BY <1>4, <2>2
    <3> HIDE DEF n
    <3>4. chain' \in Seq(DOMAIN heap')
      BY <3>3
    <3> QED  BY <1>4, <2>2, <3>2, <3>4
  <2>3. CASE \E k \in 2..rows : /\ FoundByUid(r.uid, k)
                               /\ freed' = freed \cup {chain[k]}
                               /\ chain' = Splice(chain, ptrant(k), Len(heap) + 1, k)
    <3>1. PICK k \in 2..rows : /\ FoundByUid(r.uid, k)
                               /\ freed' = freed \cup {chain[k]}
                               /\ chain' = Splice(chain, ptrant(k), Len(heap) + 1, k)
      BY <2>3
    <3>2. k \in 1..rows
      BY DEF TypeOK
    <3>3. k \in 1..Len(chain) /\ ptrant(k) \in 1..Len(chain) /\ k \in ptrant(k)..Len(chain)
      BY <1>2, <3>1, <3>2, Found
    <3>4. chain[k] \in DOMAIN heap'
      BY <1>4, <3>3, ElementOfSeq
    <3>5. ptrant(k) \in 0..Len(chain)
      BY <3>3
    <3>6. Splice(chain, ptrant(k), Len(heap) + 1, k) \in Seq(DOMAIN heap')
      BY <1>4, <3>3, <3>5, SpliceSeq
    <3> QED  BY <1>4, <3>1, <3>4, <3>6
  <2> QED  BY <1>1, <2>1, <2>2, <2>3, Updated
<1> QED  BY <1>3, <1>4, <1>5 DEF TypeOK

\* What commit writes, and what a crash leaves of it.
LEMMA TypeSave == ASSUME TypeOK, save_opens \/ save_closes PROVE TypeOK'
<1>1. UNCHANGED <<mode, heap, freed, chain, rows, lastUid>> /\ saving' \in BOOLEAN
  BY DEF save_opens, save_closes
<1>2. file' \in Seq(Line)
  <2>1. CASE save_opens
    BY <2>1, EmptySeq DEF save_opens
  <2>2. CASE save_closes
    <3>1. Len(chain) \in 0..Len(chain) /\ DOMAIN chain = 1..Len(chain)
      BY LenProperties DEF TypeOK
    <3>2. file' = [i \in 1..Len(chain) |-> LineOf(heap[chain[i]])]
      BY <2>2, <3>1 DEF save_closes
    <3> QED  BY <3>1, <3>2, Written
  <2> QED  BY <2>1, <2>2
<1> QED  BY <1>1, <1>2 DEF TypeOK

LEMMA CutIsLine ==
  ASSUME NEW l \in Line, NEW cut \in Cuts(l)
  PROVE  cut \in Line /\ cut.uid = l.uid
<1>1. l.pieces \in Seq(STRING) /\ l.uid \in Nat /\ Len(l.pieces) \in Nat
  BY LenProperties DEF Line, Text
<1>2. PICK j \in 0..(Len(l.pieces) - 1), tail \in {<<>>, <<Torn>>} :
        cut = [l EXCEPT !.pieces = SubSeq(@, 1, j) \o tail]
  BY DEF Cuts
<1>3. SubSeq(l.pieces, 1, j) \in Seq(STRING)
  <2>1. j \in Int /\ \A i \in 1..j : i \in 1..Len(l.pieces)
    BY <1>1
  <2>2. \A i \in 1..j : l.pieces[i] \in STRING
    BY <1>1, <2>1, ElementOfSeq
  <2> QED  BY <2>1, <2>2, SubSeqProperties
<1>4. tail \in Seq(STRING)
  <2>1. <<>> \in Seq(STRING)
    BY EmptySeq
  <2>2. <<Torn>> \in Seq(STRING)
    BY TornAssumption
  <2> QED  BY <2>1, <2>2
<1>5. SubSeq(l.pieces, 1, j) \o tail \in Seq(STRING)
  BY <1>3, <1>4, ConcatProperties
<1> QED  BY <1>1, <1>2, <1>5 DEF Line, Text

\* What is left of the line of a row: all of it, or what a crash cut.
Remains(l, r) == l = LineOf(r) \/ l \in Cuts(LineOf(r))

\* A killed process leaves the file as it was, or the lines of some first rows
\* of the list, none of them freed.
LEMMA Killed ==
  ASSUME TypeOK, Kill
  PROVE  \/ file' = file
         \/ /\ file' \in Seq(Line)
            /\ \E m \in 1..Len(chain) :
                 /\ Sound(1..m)
                 /\ Len(file') = m /\ \A i \in 1..m : file'[i].uid = heap[chain[i]].uid
                 /\ \A i \in 1..m : Remains(file'[i], heap[chain[i]])
                 /\ \A i \in 1..(m - 1) : file'[i] = LineOf(heap[chain[i]])
<1> DEFINE whole(n) == [i \in 1..n |-> LineOf(heap[chain[i]])]
<1>1. SUFFICES ASSUME NEW m \in 1..Len(chain), Sound(1..m),
                      \/ file' = whole(m)
                      \/ \E cut \in Cuts(LineOf(heap[chain[m]])) : file' = Append(whole(m - 1), cut)
               PROVE  /\ file' \in Seq(Line) /\ Len(file') = m
                      /\ \A i \in 1..m : file'[i].uid = heap[chain[i]].uid
                      /\ \A i \in 1..m : Remains(file'[i], heap[chain[i]])
                      /\ \A i \in 1..(m - 1) : file'[i] = LineOf(heap[chain[i]])
  <2>1. \/ file' = file
        \/ \E m \in DOMAIN chain :
             /\ Sound(1..m)
             /\ \/ file' = whole(m)
                \/ \E cut \in Cuts(LineOf(heap[chain[m]])) : file' = Append(whole(m - 1), cut)
    BY DEF Kill
  <2>2. DOMAIN chain = 1..Len(chain)
    BY LenProperties DEF TypeOK
  <2> QED  BY <1>1, <2>1, <2>2
<1>2. Len(chain) \in Nat /\ m \in Nat /\ m \in 0..Len(chain) /\ m - 1 \in 0..Len(chain)
  BY LenProperties DEF TypeOK
<1>3. ASSUME NEW n \in 0..Len(chain)
      PROVE  /\ whole(n) \in Seq(Line) /\ Len(whole(n)) = n
             /\ \A i \in 1..n : whole(n)[i].uid = heap[chain[i]].uid
             /\ \A i \in 1..n : Remains(whole(n)[i], heap[chain[i]])
             /\ \A i \in 1..n : whole(n)[i] = LineOf(heap[chain[i]])
  <2>1. \A i \in 1..n : whole(n)[i] = LineOf(heap[chain[i]])
    OBVIOUS
  <2>2. \A i \in 1..n : Remains(whole(n)[i], heap[chain[i]])
    BY <2>1 DEF Remains
  <2> QED  BY <2>1, <2>2, Written
<1>4. CASE file' = whole(m)
  <2>1. \A i \in 1..(m - 1) : i \in 1..m
    BY <1>2
  <2> QED  BY <1>2, <1>3, <1>4, <2>1
<1>5. CASE \E cut \in Cuts(LineOf(heap[chain[m]])) : file' = Append(whole(m - 1), cut)
  <2>1. PICK cut \in Cuts(LineOf(heap[chain[m]])) : file' = Append(whole(m - 1), cut)
    BY <1>5
  <2>2. heap[chain[m]] \in Row
    <3>1. chain[m] \in DOMAIN heap
      BY ElementOfSeq DEF TypeOK
    <3> QED  BY <3>1 DEF TypeOK
  <2>3. cut \in Line /\ cut.uid = heap[chain[m]].uid /\ Remains(cut, heap[chain[m]])
    BY <2>2, LineOfRow, CutIsLine DEF LineOf, Remains
  <2> DEFINE w == whole(m - 1)
  <2>4. /\ w \in Seq(Line) /\ Len(w) = m - 1 /\ \A i \in 1..(m - 1) : w[i].uid = heap[chain[i]].uid
        /\ \A i \in 1..(m - 1) : Remains(w[i], heap[chain[i]])
        /\ \A i \in 1..(m - 1) : w[i] = LineOf(heap[chain[i]])
    BY <1>2, <1>3
  <2>5. file' = Append(w, cut)
    BY <2>1
  <2> HIDE DEF w, whole
  <2>6. /\ Append(w, cut) \in Seq(Line) /\ Len(Append(w, cut)) = Len(w) + 1
        /\ \A i \in 1..Len(w) : Append(w, cut)[i] = w[i]
        /\ Append(w, cut)[Len(w) + 1] = cut
    BY <2>3, <2>4, AppendProperties
  <2>7. (m - 1) + 1 = m /\ \A i \in 1..m : i = m \/ i \in 1..(m - 1)
    BY <1>2
  <2>8. \A i \in 1..m : file'[i].uid = heap[chain[i]].uid
    BY <2>3, <2>4, <2>5, <2>6, <2>7
  <2>9. \A i \in 1..m : Remains(file'[i], heap[chain[i]])
    BY <2>3, <2>4, <2>5, <2>6, <2>7
  <2>10. file' \in Seq(Line) /\ Len(file') = m
    BY <2>4, <2>5, <2>6, <2>7, Zenon
  <2>11. \A i \in 1..(m - 1) : file'[i] = LineOf(heap[chain[i]])
    BY <2>4, <2>5, <2>6
  <2> QED  BY <2>8, <2>9, <2>10, <2>11
<1> HIDE DEF whole
<1> QED  BY <1>1, <1>4, <1>5

LEMMA TypeKill == ASSUME TypeOK, Kill PROVE TypeOK'
<1>1. file' = Missing \/ file' \in Seq(Line)
  BY Killed DEF TypeOK
<1> QED  BY <1>1, TypeForget DEF Kill

\* What a rollback that succeeds or fails does to the state.
LEMMA RolledBack ==
  ASSUME Rollback
  PROVE  /\ UNCHANGED <<mode, freed, file, saving>>
         /\ UNCHANGED <<heap, chain, rows, lastUid>> \/ load_table(heap)
BY DEF Rollback, user_table_rollback

LEMMA TypeRollback == ASSUME TypeOK, Rollback PROVE TypeOK'
<1>1. UNCHANGED <<mode, freed, file, saving>>
  BY RolledBack
<1>2. CASE UNCHANGED <<heap, chain, rows, lastUid>>
  BY <1>1, <1>2 DEF TypeOK
<1>3. CASE load_table(heap)
  <2>1. heap \in Seq(Row) /\ Len(heap) \in Nat /\ Len(file) \in Nat
    <3>1. file \in Seq(Line)
      BY <1>3 DEF TypeOK, load_table
    <3> QED  BY <3>1, LenProperties DEF TypeOK
  <2>2. /\ heap' \in Seq(Row) /\ Len(heap') = Len(heap) + Len(file)
        /\ chain' \in Seq(DOMAIN heap') /\ rows' \in Nat /\ lastUid' \in Nat
    BY <1>3, <2>1, Loaded
  <2>3. freed' \subseteq DOMAIN heap'
    <3>1. DOMAIN heap = 1..Len(heap) /\ DOMAIN heap' = 1..Len(heap')
      BY <2>1, <2>2, LenProperties
    <3> QED  BY <1>1, <2>1, <2>2, <3>1 DEF TypeOK
  <2> QED  BY <1>1, <2>2, <2>3 DEF TypeOK
<1> QED  BY <1>2, <1>3, RolledBack

\* Every fault loses the memory and spares the file.
LEMMA Faulty ==
  ASSUME Faults
  PROVE  Forget /\ mode' \in {"down", "undefined"} /\ file' = file
<1>1. ASSUME NEW p, Fault(p) PROVE Crash \/ Undefined
  BY <1>1 DEF Fault
<1>2. Crash \/ Undefined
  BY <1>1 DEF Faults, read_faults, insert_faults, write_faults, save_faults,
              rollback_faults, caller_fault
<1> QED  BY <1>2 DEF Crash, Undefined

LEMMA TypeNext == TypeOK /\ [Next]_vars => TypeOK'
<1> SUFFICES ASSUME TypeOK, [Next]_vars PROVE TypeOK'
  OBVIOUS
<1>1. CASE user_table_init
  BY <1>1, TypeStart
<1>2. CASE Kill
  BY <1>2, TypeKill
<1>3. CASE Insert
  BY <1>3, TypeInsert
<1>4. CASE Delete
  BY <1>4, TypeDelete
<1>5. CASE Update
  BY <1>5, TypeUpdate
<1>6. CASE save_opens \/ save_closes
  BY <1>6, TypeSave
<1>7. CASE Rollback
  BY <1>7, TypeRollback
<1>8. CASE Faults
  <2>1. Forget /\ mode' \in {"down", "up", "undefined"} /\ file' = file
    BY <1>8, Faulty
  <2> QED  BY <2>1, TypeForget DEF TypeOK
<1>9. CASE UNCHANGED vars
  BY <1>9 DEF vars, TypeOK
<1> QED  BY <1>1, <1>2, <1>3, <1>4, <1>5, <1>6, <1>7, <1>8, <1>9 DEF Next

\* The table is well-typed in every state: whatever is inserted, deleted,
\* updated, saved, reloaded or cut by a crash, the list links rows that were
\* allocated and every line of the file is one the program wrote.
THEOREM TypeCorrect == Spec => []TypeOK
<1>1. Init => TypeOK
  BY TypeInit
<1>2. TypeOK /\ [Next]_vars => TypeOK'
  BY TypeNext
<1> QED  BY <1>1, <1>2, PTL DEF Spec

-----------------------------------------------------------------------------
(* The order of the uids.                                                  *)

UidsInv == TypeOK /\ UidsIncrease

\* When each live row of the new list stands for an earlier live row with its
\* uid, in the same order, the uids still increase.
LEMMA Rewired ==
  ASSUME UidsInv, file' = file, lastUid' = lastUid, NEW g,
         \A i \in DOMAIN chain' : Live(i)' =>
            /\ g[i] \in DOMAIN chain /\ Live(g[i])
            /\ heap'[chain'[i]].uid = heap[chain[g[i]]].uid,
         \A i, j \in DOMAIN chain' : i < j /\ Live(i)' /\ Live(j)' => g[i] < g[j]
  PROVE  UidsIncrease'
<1>1. ASSUME NEW i \in DOMAIN chain', NEW j \in DOMAIN chain', i < j, Live(i)', Live(j)'
      PROVE  heap'[chain'[i]].uid < heap'[chain'[j]].uid
  <2>1. g[i] \in DOMAIN chain /\ g[j] \in DOMAIN chain /\ g[i] < g[j] /\ Live(g[i]) /\ Live(g[j])
    BY <1>1
  <2>2. heap[chain[g[i]]].uid < heap[chain[g[j]]].uid
    BY <2>1 DEF UidsInv, UidsIncrease
  <2> QED  BY <1>1, <2>2
<1>2. ASSUME NEW i \in DOMAIN chain', Live(i)' PROVE heap'[chain'[i]].uid <= lastUid'
  <2>1. g[i] \in DOMAIN chain /\ Live(g[i]) /\ heap'[chain'[i]].uid = heap[chain[g[i]]].uid
    BY <1>2
  <2> QED  BY <2>1 DEF UidsInv, UidsIncrease
<1>3. file' # Missing => Increasing(file')
  BY DEF UidsInv, UidsIncrease
<1> QED  BY <1>1, <1>2, <1>3 DEF UidsIncrease

\* The lines of the first rows of a list that is all live increase.
LEMMA SavedInOrder ==
  ASSUME UidsInv, NEW f \in Seq(Line), NEW m \in 0..Len(chain), Sound(1..m),
         Len(f) = m, \A i \in 1..m : f[i].uid = heap[chain[i]].uid
  PROVE  Increasing(f)
<1>1. DOMAIN chain = 1..Len(chain) /\ DOMAIN f = 1..m /\ Len(chain) \in Nat
  BY LenProperties DEF UidsInv, TypeOK
<1>2. ASSUME NEW i \in DOMAIN f, NEW j \in DOMAIN f, i < j PROVE f[i].uid < f[j].uid
  <2>1. i \in 1..m /\ j \in 1..m /\ i \in DOMAIN chain /\ j \in DOMAIN chain
    BY <1>1
  <2>2. Live(i) /\ Live(j)
    BY <2>1 DEF Sound
  <2>3. heap[chain[i]].uid < heap[chain[j]].uid
    BY <1>2, <2>1, <2>2 DEF UidsInv, UidsIncrease
  <2> QED  BY <2>1, <2>3
<1> QED  BY <1>2 DEF Increasing

\* A list just loaded has the order of its file.
LEMMA LoadedInOrder ==
  ASSUME UidsInv, NEW h \in Seq(Row), load_table(h), file' = file
  PROVE  UidsIncrease'
<1>1. /\ chain' \in Seq(DOMAIN heap') /\ Len(chain') = Len(file) /\ Len(file) > 0
      /\ \A i \in 1..Len(file) : heap'[chain'[i]].uid = file[i].uid
  BY Loaded DEF UidsInv
<1>2. /\ file \in Seq(Line) /\ Len(file) \in Nat /\ DOMAIN file = 1..Len(file)
      /\ Increasing(file)
  <2>1. file \in Seq(Line) /\ Increasing(file)
    BY DEF UidsInv, TypeOK, UidsIncrease, load_table
  <2> QED  BY <2>1, LenProperties
<1>3. DOMAIN chain' = 1..Len(file)
  BY <1>1, LenProperties
<1>4. lastUid' = file[Len(file)].uid
  BY DEF load_table
<1>5. ASSUME NEW i \in 1..Len(file) PROVE file[i].uid <= file[Len(file)].uid
  <2>1. file[i].uid \in Nat
    <3>1. file[i] \in Line
      BY <1>2, ElementOfSeq
    <3> QED  BY <3>1 DEF Line
  <2>2. CASE i = Len(file)
    BY <2>1, <2>2
  <2>3. CASE i # Len(file)
    <3>1. i < Len(file) /\ Len(file) \in 1..Len(file)
      BY <1>1, <1>2, <2>3
    <3>2. file[Len(file)] \in Line
      BY <1>2, <3>1, ElementOfSeq
    <3>3. file[i].uid < file[Len(file)].uid
      BY <1>2, <3>1 DEF Increasing
    <3> QED  BY <2>1, <3>2, <3>3 DEF Line
  <2> QED  BY <2>2, <2>3
<1>6. \A i \in DOMAIN chain' : heap'[chain'[i]].uid <= lastUid'
  BY <1>1, <1>3, <1>4, <1>5
<1>7. ASSUME NEW i \in DOMAIN chain', NEW j \in DOMAIN chain', i < j
      PROVE  heap'[chain'[i]].uid < heap'[chain'[j]].uid
  <2>1. file[i].uid < file[j].uid
    BY <1>2, <1>3, <1>7 DEF Increasing
  <2> QED  BY <1>1, <1>3, <2>1
<1>8. file' # Missing => Increasing(file')
  BY <1>2
<1> QED  BY <1>6, <1>7, <1>8 DEF UidsIncrease

\* A process that ended leaves an empty list.
LEMMA ForgottenInOrder ==
  ASSUME Forget, file' # Missing => Increasing(file') PROVE UidsIncrease'
BY DEF Forget, UidsIncrease

LEMMA Uids == ASSUME TypeOK, NEW i \in DOMAIN chain
              PROVE  chain[i] \in DOMAIN heap /\ heap[chain[i]].uid \in Nat
<1>1. DOMAIN chain = 1..Len(chain)
  BY LenProperties DEF TypeOK
<1>2. chain[i] \in DOMAIN heap
  BY <1>1, ElementOfSeq DEF TypeOK
<1>3. heap[chain[i]] \in Row
  BY <1>2 DEF TypeOK
<1> QED  BY <1>2, <1>3 DEF Row

LEMMA UidsInsert == ASSUME UidsInv, Insert PROVE UidsIncrease'
<1>1. PICK e \in Entries : user_table_insert(e, Len(heap) + 1)
  BY DEF Insert
<1> DEFINE r == WithUid(e, lastUid + 1)
<1>2. /\ heap' = Append(heap, r) /\ freed' = freed /\ file' = file /\ lastUid' = lastUid + 1
      /\ r.uid = lastUid + 1 /\ TypeOK /\ lastUid \in Nat
  BY <1>1 DEF user_table_insert, UidsInv, TypeOK, WithUid
<1>3. e \in Entry
  BY EntriesAssumption
<1>4. /\ r \in Row /\ chain' \in Seq(DOMAIN heap')
      /\ rows = 0 => Len(chain') = 1 /\ chain'[1] = Len(heap) + 1
      /\ rows # 0 => /\ Len(chain') = Len(chain) + 1
                     /\ \A i \in 1..Len(chain) : chain'[i] = chain[i]
                     /\ chain'[Len(chain) + 1] = Len(heap) + 1
  BY <1>1, <1>2, <1>3, Inserted
<1> HIDE DEF r
<1>5. heap'[Len(heap) + 1] = r /\ \A n \in DOMAIN heap : heap'[n] = heap[n]
  BY <1>2, <1>4, Grown
<1>6. /\ DOMAIN chain' = 1..Len(chain') /\ DOMAIN chain = 1..Len(chain)
      /\ Len(chain) \in Nat /\ Len(chain') \in Nat
  BY <1>2, <1>4, LenProperties DEF TypeOK
<1>7. ASSUME NEW i \in DOMAIN chain, rows # 0, Live(i)'
      PROVE  /\ heap'[chain'[i]].uid = heap[chain[i]].uid /\ Live(i)
             /\ heap[chain[i]].uid \in Nat /\ heap[chain[i]].uid <= lastUid
  <2>1. chain'[i] = chain[i] /\ chain[i] \in DOMAIN heap /\ heap[chain[i]].uid \in Nat
    BY <1>2, <1>4, <1>6, <1>7, Uids
  <2>2. Live(i)
    BY <1>2, <1>7, <2>1 DEF Live
  <2> QED  BY <1>5, <2>1, <2>2 DEF UidsInv, UidsIncrease
<1>8. ASSUME NEW i \in DOMAIN chain', rows = 0 \/ i \notin DOMAIN chain
      PROVE  i = Len(chain') /\ heap'[chain'[i]].uid = lastUid + 1
  <2>1. i = Len(chain') /\ chain'[i] = Len(heap) + 1
    <3>1. CASE rows = 0
      BY <1>4, <1>6, <3>1
    <3>2. CASE rows # 0
      <4>1. Len(chain') = Len(chain) + 1 /\ chain'[Len(chain) + 1] = Len(heap) + 1
        BY <1>4, <3>2
      <4>2. i = Len(chain) + 1
        BY <1>6, <1>8, <3>2, <4>1
      <4> QED  BY <4>1, <4>2
    <3> QED  BY <3>1, <3>2
  <2> QED  BY <1>2, <1>5, <2>1, Zenon
<1>9. lastUid \in Nat /\ lastUid' = lastUid + 1
  BY <1>2
<1>10. ASSUME NEW i \in DOMAIN chain', Live(i)' PROVE heap'[chain'[i]].uid <= lastUid'
  <2>1. CASE rows # 0 /\ i \in DOMAIN chain
    BY <1>7, <1>10, <1>9, <2>1
  <2>2. CASE rows = 0 \/ i \notin DOMAIN chain
    BY <1>8, <1>9, <2>2
  <2> QED  BY <2>1, <2>2
<1>11. ASSUME NEW i \in DOMAIN chain', NEW j \in DOMAIN chain', i < j, Live(i)', Live(j)'
       PROVE  heap'[chain'[i]].uid < heap'[chain'[j]].uid
  <2>1. rows # 0 /\ i \in DOMAIN chain
    BY <1>6, <1>8, <1>11
  <2>2. CASE j \in DOMAIN chain
    <3>1. heap[chain[i]].uid < heap[chain[j]].uid
      BY <1>7, <1>11, <2>1, <2>2 DEF UidsInv, UidsIncrease
    <3> QED  BY <1>7, <1>11, <2>1, <2>2, <3>1
  <2>3. CASE j \notin DOMAIN chain
    BY <1>7, <1>8, <1>11, <1>9, <2>1, <2>3
  <2> QED  BY <2>2, <2>3
<1>12. file' # Missing => Increasing(file')
  BY <1>2 DEF UidsInv, UidsIncrease
<1> QED  BY <1>10, <1>11, <1>12 DEF UidsIncrease

LEMMA UidsDelete == ASSUME UidsInv, Delete PROVE UidsIncrease'
<1>1. PICK uid \in KnownUids, ret \in {0, 1} : user_table_delete(uid, ret)
  BY DEF Delete
<1>2. heap' = heap /\ lastUid' = lastUid /\ file' = file /\ Sound(VisitedByUid(uid)) /\ TypeOK
  BY <1>1 DEF user_table_delete, UidsInv
<1>3. CASE UNCHANGED <<freed, chain, rows>>
  BY <1>2, <1>3 DEF UidsInv, UidsIncrease, Live
<1>4. CASE chain' = <<>>
  BY <1>2, <1>4 DEF UidsInv, UidsIncrease
<1>5. CASE \E k \in 2..rows : /\ FoundByUid(uid, k)
                             /\ freed' = freed \cup {chain[k]}
                             /\ chain' = Cut(chain, ptrant(k), k)
  <2>1. PICK k \in 2..rows : /\ FoundByUid(uid, k)
                             /\ freed' = freed \cup {chain[k]}
                             /\ chain' = Cut(chain, ptrant(k), k)
    BY <1>5
  <2>2. k \in 1..rows
    BY <1>2 DEF TypeOK
  <2> DEFINE p == ptrant(k)
             g == [i \in DOMAIN chain' |-> IF i <= p THEN i ELSE i + (k - p)]
  <2>3. k \in 1..Len(chain) /\ p \in 1..Len(chain) /\ k \in p..Len(chain)
    BY <1>2, <2>1, <2>2, Found
  <2> HIDE DEF p
  <2>4. chain \in Seq(DOMAIN heap) /\ p \in 0..Len(chain)
    BY <1>2, <2>3 DEF TypeOK
  <2>5. /\ Cut(chain, p, k) \in Seq(DOMAIN heap) /\ Len(Cut(chain, p, k)) = Len(chain) - (k - p)
        /\ \A i \in 1..p : Cut(chain, p, k)[i] = chain[i]
        /\ \A i \in (p + 1)..Len(Cut(chain, p, k)) : Cut(chain, p, k)[i] = chain[i + (k - p)]
    BY <2>3, <2>4, CutSeq
  <2>6. chain' = Cut(chain, p, k)
    BY <2>1 DEF p
  <2>7. /\ DOMAIN chain' = 1..Len(chain') /\ Len(chain') = Len(chain) - (k - p)
        /\ DOMAIN chain = 1..Len(chain) /\ Len(chain) \in Nat /\ p \in Nat /\ k \in Nat /\ p <= k
    BY <2>3, <2>4, <2>5, <2>6, LenProperties
  <2>8. ASSUME NEW i \in DOMAIN chain' PROVE g[i] \in DOMAIN chain /\ chain'[i] = chain[g[i]]
    <3>1. CASE i <= p
      BY <2>3, <2>5, <2>6, <2>7, <3>1
    <3>2. CASE ~(i <= p)
      <4>1. i \in (p + 1)..Len(chain') /\ i + (k - p) \in 1..Len(chain)
        BY <2>7, <3>2
      <4>2. g[i] = i + (k - p)
        BY <3>2
      <4> QED  BY <2>5, <2>6, <2>7, <4>1, <4>2
    <3> QED  BY <3>1, <3>2
  <2>9. ASSUME NEW i \in DOMAIN chain', NEW j \in DOMAIN chain', i < j PROVE g[i] < g[j]
    BY <2>7, <2>9
  <2> HIDE DEF g
  <2>10. ASSUME NEW i \in DOMAIN chain', Live(i)'
         PROVE  /\ g[i] \in DOMAIN chain /\ Live(g[i])
                /\ heap'[chain'[i]].uid = heap[chain[g[i]]].uid
    BY <1>2, <2>1, <2>8, <2>10 DEF Live
  <2> QED  BY <1>2, <2>9, <2>10, Rewired
<1> QED  BY <1>1, <1>3, <1>4, <1>5 DEF user_table_delete, Cut

LEMMA UidsUpdate == ASSUME UidsInv, Update PROVE UidsIncrease'
<1>1. PICK r \in Drafts, ret \in {0, 1} : user_table_update(r, ret)
  BY DEF Update
<1>2. /\ TypeOK /\ r \in Row /\ Sound(VisitedByUid(r.uid))
      /\ heap' = Append(heap, r) /\ UNCHANGED <<mode, rows, lastUid, file, saving>>
  BY <1>1, DraftIsRow, Updated DEF user_table_update, UidsInv
<1>3. /\ \A n \in DOMAIN heap : heap'[n] = heap[n]
      /\ heap'[Len(heap) + 1] = r
      /\ chain \in Seq(DOMAIN heap') /\ Len(heap) + 1 \in DOMAIN heap'
  BY <1>2, Grown
<1>4. \A i \in DOMAIN chain : heap'[chain[i]].uid = heap[chain[i]].uid
  BY <1>2, <1>3, Uids
<1>5. CASE UNCHANGED <<freed, chain>>
  <2>1. \A i \in DOMAIN chain : Live(i)' <=> Live(i)
    BY <1>5 DEF Live
  <2>2. \A i \in DOMAIN chain' : heap'[chain'[i]].uid = heap[chain[i]].uid
    BY <1>4, <1>5
  <2> QED  BY <1>2, <1>5, <2>1, <2>2 DEF UidsInv, UidsIncrease
<1>6. CASE /\ rows = 1 /\ FoundByUid(r.uid, 1)
           /\ freed' = freed \cup {chain[1]} /\ chain' = <<Len(heap) + 1>>
  <2>1. 1 \in 1..Len(chain) /\ Live(1) /\ heap[chain[1]].uid = r.uid
    BY <1>2, <1>6, Found
  <2>2. DOMAIN chain = 1..Len(chain) /\ DOMAIN chain' = {1} /\ chain'[1] = Len(heap) + 1
    <3> DEFINE n == Len(heap) + 1
    <3>1. chain' = <<n>>
      BY <1>6
    <3> HIDE DEF n
    <3>2. DOMAIN <<n>> = {1} /\ <<n>>[1] = n
      OBVIOUS
    <3>3. DOMAIN chain = 1..Len(chain)
      BY <1>2, LenProperties DEF TypeOK
    <3> QED  BY <3>1, <3>2, <3>3 DEF n
  <2> DEFINE g == [i \in {1} |-> 1]
  <2>3. g[1] = 1
    OBVIOUS
  <2> HIDE DEF g
  <2>4. ASSUME NEW i \in DOMAIN chain', Live(i)'
        PROVE  /\ g[i] \in DOMAIN chain /\ Live(g[i])
               /\ heap'[chain'[i]].uid = heap[chain[g[i]]].uid
    BY <1>3, <2>1, <2>2, <2>3
  <2>5. \A i, j \in DOMAIN chain' : i < j => FALSE
    BY <2>2
  <2> QED  BY <1>2, <2>4, <2>5, Rewired
<1>7. CASE \E k \in 2..rows : /\ FoundByUid(r.uid, k)
                             /\ freed' = freed \cup {chain[k]}
                             /\ chain' = Splice(chain, ptrant(k), Len(heap) + 1, k)
  <2>1. PICK k \in 2..rows : /\ FoundByUid(r.uid, k)
                             /\ freed' = freed \cup {chain[k]}
                             /\ chain' = Splice(chain, ptrant(k), Len(heap) + 1, k)
    BY <1>7
  <2>2. k \in 1..rows
    BY <1>2 DEF TypeOK
  <2> DEFINE p == ptrant(k)
             n == Len(heap) + 1
             g == [i \in DOMAIN chain' |-> IF i <= p THEN i ELSE IF i = p + 1 THEN k ELSE i + (k - p) - 1]
  <2>3. /\ k \in 1..Len(chain) /\ p \in 1..Len(chain) /\ k \in p..Len(chain)
        /\ Live(k) /\ heap[chain[k]].uid = r.uid
    BY <1>2, <2>1, <2>2, Found
  <2>4. n \in DOMAIN heap' /\ heap'[n] = r /\ chain' = Splice(chain, p, n, k)
    BY <1>3, <2>1
  <2> HIDE DEF p, n
  <2>5. p \in 0..Len(chain)
    BY <2>3
  <2>6. /\ Splice(chain, p, n, k) \in Seq(DOMAIN heap') /\ Len(Splice(chain, p, n, k)) = Len(chain) - (k - p) + 1
        /\ \A i \in 1..p : Splice(chain, p, n, k)[i] = chain[i]
        /\ Splice(chain, p, n, k)[p + 1] = n
        /\ \A i \in (p + 2)..Len(Splice(chain, p, n, k)) : Splice(chain, p, n, k)[i] = chain[i + (k - p) - 1]
    <3> DEFINE S == DOMAIN heap'
    <3>1. chain \in Seq(S) /\ n \in S /\ k \in p..Len(chain)
      BY <1>3, <2>3, <2>4
    <3> HIDE DEF S
    <3>2. p \in 0..Len(chain)
      BY <2>5
    <3>3. Splice(chain, p, n, k) \in Seq(S)
      BY <3>1, <3>2, SpliceSeq
    <3>4. Len(Splice(chain, p, n, k)) = Len(chain) - (k - p) + 1
      BY <3>1, <3>2, SpliceSeq
    <3>5. \A i \in 1..p : Splice(chain, p, n, k)[i] = chain[i]
      BY <3>1, <3>2, SpliceSeq
    <3>6. Splice(chain, p, n, k)[p + 1] = n
      BY <3>1, <3>2, SpliceAt, Zenon
    <3>7. \A i \in (p + 2)..Len(Splice(chain, p, n, k)) : Splice(chain, p, n, k)[i] = chain[i + (k - p) - 1]
      BY <3>1, <3>2, SpliceSeq
    <3> QED  BY <3>3, <3>4, <3>5, <3>6, <3>7 DEF S
  <2>7. /\ DOMAIN chain' = 1..Len(chain') /\ Len(chain') = Len(chain) - (k - p) + 1
        /\ DOMAIN chain = 1..Len(chain) /\ Len(chain) \in Nat /\ p \in Nat /\ k \in Nat /\ p <= k
        /\ Len(chain') \in Nat
    BY <1>3, <2>3, <2>4, <2>6, LenProperties
  <2>8. ASSUME NEW i \in DOMAIN chain'
        PROVE  /\ g[i] \in DOMAIN chain
               /\ i = p + 1 => g[i] = k /\ chain'[i] = n
               /\ i # p + 1 => chain'[i] = chain[g[i]]
    <3>1. CASE i <= p
      <4>1. g[i] = i /\ i \in 1..p /\ i # p + 1
        BY <2>7, <3>1
      <4> QED  BY <2>4, <2>6, <2>3, <2>7, <4>1
    <3>2. CASE i = p + 1
      <4>1. g[i] = k
        BY <2>7, <3>2
      <4> QED  BY <2>3, <2>4, <2>6, <2>7, <3>2, <4>1
    <3>3. CASE i > p + 1
      <4>1. i \in (p + 2)..Len(chain') /\ i + (k - p) - 1 \in 1..Len(chain)
        BY <2>7, <3>3
      <4>2. g[i] = i + (k - p) - 1 /\ i # p + 1
        BY <2>7, <3>3
      <4> QED  BY <2>4, <2>6, <2>7, <4>1, <4>2
    <3> QED  BY <2>7, <3>1, <3>2, <3>3
  <2>9. ASSUME NEW i \in DOMAIN chain', NEW j \in DOMAIN chain', i < j
        PROVE  g[i] < g[j] \/ (i = p /\ p = k)
    <3>1. i \in Nat /\ j \in Nat /\ i < j /\ p \in Nat /\ k \in Nat /\ p <= k
      BY <2>7, <2>9
    <3>2. /\ g[i] = IF i <= p THEN i ELSE IF i = p + 1 THEN k ELSE i + (k - p) - 1
          /\ g[j] = IF j <= p THEN j ELSE IF j = p + 1 THEN k ELSE j + (k - p) - 1
      OBVIOUS
    <3> HIDE DEF g
    <3>3. CASE j <= p
      BY <3>1, <3>2, <3>3
    <3>4. CASE j = p + 1
      <4>1. i <= p /\ g[i] = i /\ g[j] = k
        BY <3>1, <3>2, <3>4
      <4> QED  BY <3>1, <4>1
    <3>5. CASE j > p + 1
      <4>1. g[j] = j + (k - p) - 1
        BY <3>1, <3>2, <3>5
      <4>2. CASE i <= p
        BY <3>1, <3>2, <3>5, <4>1, <4>2
      <4>3. CASE i = p + 1
        BY <3>1, <3>2, <3>5, <4>1, <4>3
      <4>4. CASE i > p + 1
        BY <3>1, <3>2, <3>5, <4>1, <4>4
      <4> QED  BY <3>1, <4>2, <4>3, <4>4
    <3> QED  BY <3>1, <3>3, <3>4, <3>5
  <2>10. p \in DOMAIN chain' => chain'[p] = chain[p]
    BY <2>4, <2>6, <2>7
  <2> HIDE DEF g
  <2>11. ASSUME NEW i \in DOMAIN chain', NEW j \in DOMAIN chain', i < j, Live(i)', Live(j)'
         PROVE  g[i] < g[j]
    BY <2>1, <2>9, <2>10, <2>11 DEF Live
  <2>12. ASSUME NEW i \in DOMAIN chain', Live(i)'
         PROVE  /\ g[i] \in DOMAIN chain /\ Live(g[i])
                /\ heap'[chain'[i]].uid = heap[chain[g[i]]].uid
    <3>1. CASE i = p + 1
      BY <2>3, <2>4, <2>8, <3>1
    <3>2. CASE i # p + 1
      <4>1. g[i] \in DOMAIN chain /\ chain'[i] = chain[g[i]] /\ chain'[i] \notin freed
        BY <2>1, <2>8, <2>12, <3>2 DEF Live
      <4> QED  BY <1>4, <4>1 DEF Live
    <3> QED  BY <3>1, <3>2
  <2> QED  BY <1>2, <2>11, <2>12, Rewired
<1> QED  BY <1>1, <1>2, <1>5, <1>6, <1>7, Updated

LEMMA UidsNext == UidsInv /\ [Next]_vars => UidsInv'
<1> SUFFICES ASSUME UidsInv, [Next]_vars PROVE UidsInv'
  OBVIOUS
<1>1. TypeOK' /\ TypeOK /\ UidsIncrease /\ (file # Missing => Increasing(file))
  BY TypeNext DEF UidsInv, UidsIncrease
<1>2. CASE user_table_init
  <2>1. CASE heap' = <<WithUid(admin, 1001)>> /\ chain' = <<1>> /\ lastUid' = 1001 /\ file' = file
    <3> DEFINE r == WithUid(admin, 1001)
    <3>1. r.uid = 1001
      BY DEF WithUid
    <3> HIDE DEF r
    <3>2. heap'[1].uid = 1001 /\ DOMAIN chain' = {1} /\ chain'[1] = 1
      BY <2>1, <3>1 DEF r
    <3> QED  BY <1>1, <2>1, <3>2 DEF UidsInv, UidsIncrease
  <2>2. CASE chain' = <<>> /\ file' = file
    BY <1>1, <2>2 DEF UidsInv, UidsIncrease
  <2>3. CASE load_table(<<>>) /\ file' = file
    <3>1. <<>> \in Seq(Row)
      BY EmptySeq
    <3> QED  BY <1>1, <2>3, <3>1, LoadedInOrder DEF UidsInv
  <2> QED  BY <1>1, <1>2, <2>1, <2>2, <2>3, Started
<1>3. CASE Kill
  <2>1. CASE file' = file
    BY <1>1, <1>3, <2>1, ForgottenInOrder DEF Kill, UidsInv
  <2>2. CASE file' # file
    <3>1. file' \in Seq(Line)
      BY <1>1, <1>3, <2>2, Killed
    <3>2. PICK m \in 1..Len(chain) :
            Sound(1..m) /\ Len(file') = m /\ \A i \in 1..m : file'[i].uid = heap[chain[i]].uid
      BY <1>1, <1>3, <2>2, Killed
    <3>3. m \in 0..Len(chain)
      BY <3>2
    <3>4. Increasing(file')
      BY <3>1, <3>2, <3>3, SavedInOrder
    <3> QED  BY <1>1, <1>3, <3>4, ForgottenInOrder DEF Kill, UidsInv
  <2> QED  BY <2>1, <2>2
<1>4. CASE Insert
  BY <1>1, <1>4, UidsInsert DEF UidsInv
<1>5. CASE Delete
  BY <1>1, <1>5, UidsDelete DEF UidsInv
<1>6. CASE Update
  BY <1>1, <1>6, UidsUpdate DEF UidsInv
<1>7. CASE save_opens
  BY <1>1, <1>7 DEF save_opens, UidsInv, UidsIncrease, Increasing, Live
<1>8. CASE save_closes
  <2>1. Len(chain) \in 0..Len(chain) /\ DOMAIN chain = 1..Len(chain)
    BY <1>1, LenProperties DEF TypeOK
  <2>2. file' = [i \in 1..Len(chain) |-> LineOf(heap[chain[i]])] /\ Sound(DOMAIN chain)
    BY <1>8, <2>1 DEF save_closes
  <2>3. /\ file' \in Seq(Line) /\ Len(file') = Len(chain)
        /\ \A i \in 1..Len(chain) : file'[i].uid = heap[chain[i]].uid
    BY <1>1, <2>1, <2>2, Written
  <2>4. Increasing(file')
    BY <2>1, <2>2, <2>3, SavedInOrder
  <2> QED  BY <1>1, <1>8, <2>4 DEF save_closes, UidsInv, UidsIncrease, Live
<1>9. CASE Rollback
  <2>1. CASE UNCHANGED <<heap, chain, rows, lastUid>>
    BY <1>1, <1>9, <2>1, RolledBack DEF UidsInv, UidsIncrease, Live
  <2>2. CASE load_table(heap)
    <3>1. heap \in Seq(Row)
      BY <1>1 DEF TypeOK
    <3> QED  BY <1>1, <1>9, <2>2, <3>1, RolledBack, LoadedInOrder DEF UidsInv
  <2> QED  BY <1>9, <2>1, <2>2, RolledBack
<1>10. CASE Faults
  BY <1>1, <1>10, Faulty, ForgottenInOrder DEF UidsInv
<1>11. CASE UNCHANGED vars
  BY <1>1, <1>11 DEF vars, UidsInv, UidsIncrease, Live
<1> QED  BY <1>2, <1>3, <1>4, <1>5, <1>6, <1>7, <1>8, <1>9, <1>10, <1>11 DEF Next

LEMMA UidsInit == Init => UidsInv
<1>1. Init => UidsIncrease
  BY FileAssumption DEF Init, UidsIncrease, Increasing
<1> QED  BY <1>1, TypeInit DEF UidsInv

\* No uid is given out twice within one table and no two live rows share one,
\* in memory and on disk, whatever is deleted, replaced, rolled back or torn.
THEOREM UidsAlwaysIncrease == Spec => []UidsIncrease
<1>1. Init => UidsInv
  BY UidsInit
<1>2. UidsInv /\ [Next]_vars => UidsInv'
  BY UidsNext
<1>3. UidsInv => UidsIncrease
  BY DEF UidsInv
<1> QED  BY <1>1, <1>2, <1>3, PTL DEF Spec

-----------------------------------------------------------------------------
(* The row counter.                                                        *)

CountInv == TypeOK /\ RowsCountLive

LEMMA LinkedFinite == ASSUME TypeOK PROVE IsFiniteSet(LinkedRows) /\ LinkedRows \subseteq DOMAIN heap
<1>1. DOMAIN heap = 1..Len(heap) /\ Len(heap) \in Nat
  BY LenProperties DEF TypeOK
<1>2. IsFiniteSet(DOMAIN heap)
  BY <1>1, FS_Interval
<1>3. LinkedRows \subseteq DOMAIN heap
  BY Uids DEF LinkedRows
<1> QED  BY <1>2, <1>3, FS_Subset

LEMMA CountInsert == ASSUME CountInv, Insert PROVE RowsCountLive'
<1>1. PICK e \in Entries : user_table_insert(e, Len(heap) + 1)
  BY DEF Insert
<1> DEFINE n == Len(heap) + 1
<1>2. /\ TypeOK /\ e \in Entry /\ Idle /\ (rows # 0 => Live(Len(chain)))
      /\ freed' = freed /\ rows' = rows + 1 /\ rows \in Nat
  BY <1>1, EntriesAssumption DEF CountInv, TypeOK, user_table_insert
<1>3. /\ chain' \in Seq(DOMAIN heap')
      /\ rows = 0 => Len(chain') = 1 /\ chain'[1] = n
      /\ rows # 0 => /\ Len(chain') = Len(chain) + 1
                     /\ \A i \in 1..Len(chain) : chain'[i] = chain[i]
                     /\ chain'[Len(chain) + 1] = n
  BY <1>1, <1>2, Inserted
<1>4. n \notin DOMAIN heap /\ n \notin freed
  <2>1. DOMAIN heap = 1..Len(heap) /\ Len(heap) \in Nat
    BY <1>2, LenProperties DEF TypeOK
  <2> QED  BY <1>2, <2>1 DEF TypeOK
<1> HIDE DEF n
<1>5. /\ DOMAIN chain' = 1..Len(chain') /\ DOMAIN chain = 1..Len(chain)
      /\ Len(chain) \in Nat /\ Len(chain') \in Nat
  BY <1>2, <1>3, LenProperties DEF TypeOK
<1>6. CASE rows = 0
  <2>1. DOMAIN chain' = {1} /\ chain'[1] = n
    BY <1>3, <1>5, <1>6
  <2>2. LinkedRows' = {n}
    BY <1>2, <1>4, <2>1 DEF LinkedRows
  <2>3. Cardinality(LinkedRows') = 1
    BY <2>2, FS_Singleton
  <2> QED  BY <1>2, <1>6, <2>3 DEF RowsCountLive
<1>7. CASE rows # 0
  <2>1. rows = Cardinality(LinkedRows)
    BY <1>2, <1>5, <1>7 DEF CountInv, RowsCountLive, Idle, Live
  <2>2. DOMAIN chain' = DOMAIN chain \cup {Len(chain) + 1}
    BY <1>3, <1>5, <1>7
  <2>3. \A i \in DOMAIN chain : chain'[i] = chain[i]
    BY <1>3, <1>5, <1>7
  <2>4. chain'[Len(chain) + 1] = n
    BY <1>3, <1>7
  <2>5. {chain'[i] : i \in DOMAIN chain'} = {chain[i] : i \in DOMAIN chain} \cup {n}
    BY <2>2, <2>3, <2>4
  <2>6. LinkedRows' = LinkedRows \cup {n} /\ n \notin LinkedRows
    BY <1>2, <1>4, <2>5, LinkedFinite DEF LinkedRows
  <2>7. Cardinality(LinkedRows') = Cardinality(LinkedRows) + 1
    BY <1>2, <2>6, LinkedFinite, FS_AddElement
  <2> QED  BY <1>2, <2>1, <2>7 DEF RowsCountLive
<1> QED  BY <1>6, <1>7

LEMMA CountDelete == ASSUME CountInv, Delete PROVE RowsCountLive'
<1>1. PICK uid \in KnownUids, ret \in {0, 1} : user_table_delete(uid, ret)
  BY DEF Delete
<1>2. /\ TypeOK /\ Sound(VisitedByUid(uid)) /\ mode = "up" /\ mode' = mode /\ rows \in Nat
      /\ rows = Cardinality(LinkedRows) \/ (rows = 1 /\ chain = <<>>)
  BY <1>1 DEF user_table_delete, CountInv, Idle, TypeOK, RowsCountLive
<1>3. CASE UNCHANGED <<freed, chain, rows>>
  BY <1>2, <1>3 DEF RowsCountLive, LinkedRows
<1>4. CASE rows = 1 /\ chain' = <<>> /\ UNCHANGED rows
  BY <1>4 DEF RowsCountLive
<1>5. CASE \E k \in 2..rows : /\ FoundByUid(uid, k)
                             /\ freed' = freed \cup {chain[k]}
                             /\ chain' = Cut(chain, ptrant(k), k)
                             /\ rows' = rows - 1
  <2>1. PICK k \in 2..rows : /\ FoundByUid(uid, k)
                             /\ freed' = freed \cup {chain[k]}
                             /\ chain' = Cut(chain, ptrant(k), k)
                             /\ rows' = rows - 1
    BY <1>5
  <2>2. k \in 1..rows /\ rows >= 2
    BY <1>2
  <2> DEFINE p == ptrant(k)
  <2>3. /\ k \in 1..Len(chain) /\ p \in 1..Len(chain) /\ k \in p..Len(chain)
        /\ Live(k) /\ (p = k \/ (k = 2 /\ p = 1))
    BY <1>2, <2>1, <2>2, Found
  <2>4. chain' = Cut(chain, p, k)
    BY <2>1
  <2> HIDE DEF p
  <2>5. chain \in Seq(DOMAIN heap) /\ p \in 0..Len(chain) /\ k \in p..Len(chain) /\ k - p \in {0, 1}
    BY <1>2, <2>3 DEF TypeOK
  <2>6. /\ \A i \in DOMAIN chain' : \E j \in DOMAIN chain : chain'[i] = chain[j]
        /\ \A j \in DOMAIN chain : j # k => \E i \in DOMAIN chain' : chain'[i] = chain[j]
    BY <2>4, <2>5, CutRange
  <2>7. k \in DOMAIN chain /\ chain[k] \in LinkedRows
    BY <2>3 DEF Live, LinkedRows
  <2>8. LinkedRows' = LinkedRows \ {chain[k]}
    BY <2>1, <2>6, <2>7 DEF LinkedRows
  <2>9. Cardinality(LinkedRows') = Cardinality(LinkedRows) - 1
    BY <1>2, <2>7, <2>8, LinkedFinite, FS_RemoveElement
  <2>10. rows = Cardinality(LinkedRows)
    BY <1>2, <2>2
  <2> QED  BY <2>1, <2>9, <2>10 DEF RowsCountLive
<1> QED  BY <1>1, <1>3, <1>4, <1>5 DEF user_table_delete, Cut

\* One row freed, one malloc'd, both linked at their time.
LEMMA Exchange ==
  ASSUME CountInv, NEW old \in LinkedRows, NEW n, n \notin DOMAIN heap, n \notin freed,
         {chain'[i] : i \in DOMAIN chain'} \cup {old} = {chain[i] : i \in DOMAIN chain} \cup {n, old},
         freed' = freed \cup {old}
  PROVE  Cardinality(LinkedRows') = Cardinality(LinkedRows)
<1>1. IsFiniteSet(LinkedRows) /\ LinkedRows \subseteq DOMAIN heap
  BY LinkedFinite DEF CountInv
<1>2. LinkedRows' = (LinkedRows \ {old}) \cup {n}
  BY <1>1 DEF LinkedRows
<1>3. IsFiniteSet(LinkedRows \ {old}) /\ Cardinality(LinkedRows \ {old}) = Cardinality(LinkedRows) - 1
  BY <1>1, FS_RemoveElement
<1>4. n \notin LinkedRows \ {old}
  BY <1>1
<1>5. Cardinality(LinkedRows') = Cardinality(LinkedRows \ {old}) + 1
  BY <1>2, <1>3, <1>4, FS_AddElement
<1>6. Cardinality(LinkedRows) \in Nat
  BY <1>1, FS_CardinalityType
<1> QED  BY <1>3, <1>5, <1>6

LEMMA CountUpdate == ASSUME CountInv, Update PROVE RowsCountLive'
<1>1. PICK r \in Drafts, ret \in {0, 1} : user_table_update(r, ret)
  BY DEF Update
<1>2. /\ TypeOK /\ r \in Row /\ Sound(VisitedByUid(r.uid)) /\ mode = "up" /\ rows \in Nat
      /\ rows = Cardinality(LinkedRows) \/ (rows = 1 /\ chain = <<>>)
  BY <1>1, DraftIsRow DEF user_table_update, CountInv, Idle, TypeOK, RowsCountLive
<1>3. heap' = Append(heap, r) /\ UNCHANGED <<mode, rows, lastUid, file, saving>>
  BY <1>1, <1>2, Updated
<1> DEFINE n == Len(heap) + 1
<1>4. /\ n \notin freed /\ n \in DOMAIN heap' /\ chain \in Seq(DOMAIN heap')
      /\ n \notin DOMAIN heap
  BY <1>2, <1>3, Grown
<1> HIDE DEF n
<1>5. DOMAIN chain = 1..Len(chain)
  BY <1>2, LenProperties DEF TypeOK
<1>6. CASE UNCHANGED <<freed, chain>>
  BY <1>2, <1>3, <1>6 DEF RowsCountLive, LinkedRows
<1>7. CASE /\ rows = 1 /\ FoundByUid(r.uid, 1)
           /\ freed' = freed \cup {chain[1]} /\ chain' = <<n>>
  <2>1. 1 \in 1..Len(chain) /\ Live(1)
    BY <1>2, <1>7, Found
  <2>2. chain # <<>> /\ chain[1] \in LinkedRows
    BY <1>5, <2>1 DEF LinkedRows, Live
  <2>3. n # chain[1]
    BY <1>2, <1>4, <2>2, LinkedFinite
  <2>4. DOMAIN chain' = {1} /\ chain'[1] = n
    <3>1. DOMAIN <<n>> = {1} /\ <<n>>[1] = n
      OBVIOUS
    <3> QED  BY <1>7, <3>1
  <2>5. LinkedRows' = {n}
    BY <1>4, <1>7, <2>3, <2>4 DEF LinkedRows
  <2>6. Cardinality(LinkedRows') = 1
    BY <2>5, FS_Singleton
  <2> QED  BY <1>3, <1>7, <2>6 DEF RowsCountLive
<1>8. CASE \E k \in 2..rows : /\ FoundByUid(r.uid, k)
                             /\ freed' = freed \cup {chain[k]}
                             /\ chain' = Splice(chain, ptrant(k), n, k)
  <2>1. PICK k \in 2..rows : /\ FoundByUid(r.uid, k)
                             /\ freed' = freed \cup {chain[k]}
                             /\ chain' = Splice(chain, ptrant(k), n, k)
    BY <1>8
  <2>2. k \in 1..rows /\ rows >= 2
    BY <1>2
  <2> DEFINE p == ptrant(k)
             S == DOMAIN heap'
             c == Splice(chain, p, n, k)
  <2>3. /\ k \in 1..Len(chain) /\ p \in 1..Len(chain) /\ k \in p..Len(chain)
        /\ Live(k) /\ (p = k \/ (k = 2 /\ p = 1))
    BY <1>2, <2>1, <2>2, Found
  <2>4. chain' = c /\ chain \in Seq(S) /\ n \in S
    BY <1>4, <2>1
  <2> HIDE DEF p, S
  <2>5. p \in 0..Len(chain) /\ k \in p..Len(chain) /\ k - p \in {0, 1}
    BY <2>3
  <2>6. \A i \in DOMAIN c : c[i] = n \/ \E j \in DOMAIN chain : c[i] = chain[j]
    BY <2>4, <2>5, SpliceRange
  <2>7. \E i \in DOMAIN c : c[i] = n
    BY <2>4, <2>5, SpliceRange
  <2>8. \A j \in DOMAIN chain : j # k => \E i \in DOMAIN c : c[i] = chain[j]
    BY <2>4, <2>5, SpliceRange
  <2>9. k \in DOMAIN chain /\ chain[k] \in LinkedRows
    BY <2>3 DEF Live, LinkedRows
  <2> HIDE DEF c
  <2>10. {c[i] : i \in DOMAIN c} \cup {chain[k]} = {chain[i] : i \in DOMAIN chain} \cup {n, chain[k]}
    BY <2>6, <2>7, <2>8, <2>9
  <2>11. Cardinality(LinkedRows') = Cardinality(LinkedRows)
    <3>1. {chain'[i] : i \in DOMAIN chain'} \cup {chain[k]} = {chain[i] : i \in DOMAIN chain} \cup {n, chain[k]}
      BY <2>4, <2>10
    <3> QED  BY <1>4, <2>1, <2>9, <3>1, Exchange
  <2> QED  BY <1>2, <1>3, <2>2, <2>11 DEF RowsCountLive
<1> QED  BY <1>1, <1>2, <1>6, <1>7, <1>8, Updated DEF n

LEMMA CountLoad ==
  ASSUME TypeOK, NEW h \in Seq(Row), load_table(h), freed' \subseteq DOMAIN h PROVE RowsCountLive'
<1>1. /\ chain' \in Seq(DOMAIN heap') /\ Len(chain') = Len(file)
      /\ \A i \in 1..Len(file) : chain'[i] = Len(h) + i
  BY Loaded
<1>2. DOMAIN chain' = 1..Len(file) /\ Len(file) \in Nat /\ Len(h) \in Nat /\ DOMAIN h = 1..Len(h)
  BY <1>1, LenProperties
<1> DEFINE a == Len(h)
           b == Len(file)
<1>3. {chain'[i] : i \in DOMAIN chain'} = {a + i : i \in 1..b}
  BY <1>1, <1>2
<1>4. a \in Nat /\ b \in Nat /\ freed' \subseteq 1..a
  BY <1>2
<1> HIDE DEF a, b
<1>5. {a + i : i \in 1..b} = (a + 1)..(a + b)
  <2>1. ASSUME NEW x \in (a + 1)..(a + b) PROVE \E i \in 1..b : x = a + i
    <3>1. x - a \in 1..b /\ x = a + (x - a)
      BY <1>4
    <3> QED  BY <3>1
  <2>2. ASSUME NEW i \in 1..b PROVE a + i \in (a + 1)..(a + b)
    BY <1>4
  <2> QED  BY <2>1, <2>2
<1>6. LinkedRows' = (a + 1)..(a + b)
  <2>1. \A n \in (a + 1)..(a + b) : n \notin freed'
    BY <1>4
  <2>2. LinkedRows' = ((a + 1)..(a + b)) \ freed'
    BY <1>3, <1>5 DEF LinkedRows
  <2> QED  BY <2>1, <2>2
<1>7. Cardinality((a + 1)..(a + b)) = b
  <2>1. a + 1 \in Int /\ a + b \in Int
    BY <1>4
  <2>2. Cardinality((a + 1)..(a + b)) = IF a + 1 > a + b THEN 0 ELSE (a + b) - (a + 1) + 1
    BY <2>1, FS_Interval
  <2> QED  BY <1>4, <2>2
<1>8. rows' = b
  BY DEF load_table, b
<1> QED  BY <1>6, <1>7, <1>8 DEF RowsCountLive

LEMMA CountNext == CountInv /\ [Next]_vars => CountInv'
<1> SUFFICES ASSUME CountInv, [Next]_vars PROVE CountInv'
  OBVIOUS
<1>1. TypeOK' /\ TypeOK
  BY TypeNext DEF CountInv
<1>2. CASE user_table_init
  <2>1. CASE heap' = <<WithUid(admin, 1001)>> /\ chain' = <<1>> /\ rows' = 1 /\ freed' = {}
    <3>1. LinkedRows' = {1}
      <4>1. DOMAIN chain' = {1} /\ chain'[1] = 1
        BY <2>1
      <4> QED  BY <2>1, <4>1 DEF LinkedRows
    <3> QED  BY <1>1, <2>1, <3>1, FS_Singleton DEF CountInv, RowsCountLive
  <2>2. CASE chain' = <<>> /\ rows' = 0
    <3>1. LinkedRows' = {}
      BY <2>2 DEF LinkedRows
    <3> QED  BY <1>1, <2>2, <3>1, FS_EmptySet DEF CountInv, RowsCountLive
  <2>3. CASE load_table(<<>>) /\ freed' = {}
    <3>1. <<>> \in Seq(Row) /\ freed' \subseteq DOMAIN <<>>
      BY <2>3, EmptySeq
    <3> QED  BY <1>1, <2>3, <3>1, CountLoad DEF CountInv
  <2> QED  BY <1>1, <1>2, <2>1, <2>2, <2>3, Started
<1>3. CASE Kill
  BY <1>1, <1>3 DEF Kill, CountInv, RowsCountLive
<1>4. CASE Insert
  BY <1>1, <1>4, CountInsert DEF CountInv
<1>5. CASE Delete
  BY <1>1, <1>5, CountDelete DEF CountInv
<1>6. CASE Update
  BY <1>1, <1>6, CountUpdate DEF CountInv
<1>7. CASE save_opens \/ save_closes
  BY <1>1, <1>7 DEF save_opens, save_closes, CountInv, RowsCountLive, LinkedRows
<1>8. CASE Rollback
  <2>1. CASE UNCHANGED <<heap, chain, rows, lastUid>>
    BY <1>1, <1>8, <2>1, RolledBack DEF CountInv, RowsCountLive, LinkedRows
  <2>2. CASE load_table(heap)
    <3>1. heap \in Seq(Row) /\ freed' \subseteq DOMAIN heap
      BY <1>1, <1>8, RolledBack DEF TypeOK
    <3> QED  BY <1>1, <2>2, <3>1, CountLoad DEF CountInv
  <2> QED  BY <1>8, <2>1, <2>2, RolledBack
<1>9. CASE Faults
  BY <1>1, <1>9, Faulty DEF CountInv, RowsCountLive
<1>10. CASE UNCHANGED vars
  BY <1>1, <1>10 DEF vars, CountInv, RowsCountLive, LinkedRows
<1> QED  BY <1>2, <1>3, <1>4, <1>5, <1>6, <1>7, <1>8, <1>9, <1>10 DEF Next

\* While the process runs, user_table.rows counts the rows linked and still
\* allocated, or the only one was deleted and rows stayed 1.
THEOREM RowsAlwaysCountLive == Spec => []RowsCountLive
<1>1. Init => CountInv
  <2>1. Init => RowsCountLive
    BY DEF Init, RowsCountLive
  <2> QED  BY <2>1, TypeInit DEF CountInv
<1>2. CountInv /\ [Next]_vars => CountInv'
  BY CountNext
<1>3. CountInv => RowsCountLive
  BY DEF CountInv
<1> QED  BY <1>1, <1>2, <1>3, PTL DEF Spec

-----------------------------------------------------------------------------
(* Rows never change.                                                      *)

\* As long as the process runs a pointer keeps denoting the row it was given
\* for, freed or not.
LEMMA RowsStay ==
  ASSUME TypeOK, [Next]_vars, mode' = "up", mode = "up"
  PROVE  \A n \in DOMAIN heap : n \in DOMAIN heap' /\ heap'[n] = heap[n]
<1>1. CASE Insert
  <2>1. PICK e \in Entries : user_table_insert(e, Len(heap) + 1)
    BY <1>1 DEF Insert
  <2>2. WithUid(e, lastUid + 1) \in Row
    BY <2>1, EntriesAssumption, Inserted
  <2>3. heap' = Append(heap, WithUid(e, lastUid + 1))
    BY <2>1 DEF user_table_insert
  <2> QED  BY <2>2, <2>3, Grown
<1>2. CASE Update
  <2>1. PICK r \in Drafts, ret \in {0, 1} : user_table_update(r, ret)
    BY <1>2 DEF Update
  <2>2. r \in Row /\ heap' = Append(heap, r)
    BY <2>1, DraftIsRow DEF user_table_update
  <2> QED  BY <2>2, Grown
<1>3. CASE Rollback
  <2>1. CASE load_table(heap)
    <3>1. heap \in Seq(Row)
      BY DEF TypeOK
    <3> QED  BY <2>1, <3>1, Loaded
  <2> QED  BY <1>3, <2>1, RolledBack
<1>4. CASE Delete \/ save_opens \/ save_closes \/ UNCHANGED vars
  BY <1>4 DEF Delete, user_table_delete, save_opens, save_closes, vars
<1>5. CASE user_table_init \/ Kill \/ Faults
  BY <1>5, Faulty DEF user_table_init, Kill
<1> QED  BY <1>1, <1>2, <1>3, <1>4, <1>5 DEF Next


-----------------------------------------------------------------------------
(* The lines of rows whose texts have no separator in them.                *)

\* Every text of the row is one word, or the empty text.
OneWord(r) == Len(r.login) = 1 /\ Len(r.email) = 1 /\ Len(r.pass) = 1 /\ Len(r.type) = 1

Blank == ""

\* Where the first i pieces of a line have words.
Filled(l, i) == {j \in 1..i : l.pieces[j] # Blank}

LEMMA FirstOnes == \A n \in Nat : IsFiniteSet(1..n) /\ Cardinality(1..n) = n
<1> SUFFICES ASSUME NEW n \in Nat PROVE IsFiniteSet(1..n) /\ Cardinality(1..n) = n
  OBVIOUS
<1>1. 1 \in Int /\ n \in Int
  OBVIOUS
<1>2. IsFiniteSet(1..n) /\ Cardinality(1..n) = IF 1 > n THEN 0 ELSE n - 1 + 1
  BY <1>1, FS_Interval
<1> QED  BY <1>2

\* A line of at most four pieces parses only if each is a column.
LEMMA FullLine ==
  ASSUME NEW l \in Line, Len(l.pieces) <= 4, Parses(l)
  PROVE  Len(l.pieces) = 4 /\ \A k \in 1..4 : Column(l, k) = <<l.pieces[k]>>
<1>1. Len(l.pieces) \in Nat /\ DOMAIN l.pieces = 1..Len(l.pieces)
  BY LenProperties DEF Line, Text
<1>0. 4 <= Len(l.pieces) => Len(l.pieces) = 4
  <2>1. \A n \in Nat : n <= 4 /\ 4 <= n => n = 4
    OBVIOUS
  <2> QED  BY <1>1, <2>1, Zenon
<1>2. \A k, i : WordAt(l, k, i) <=> l.pieces[i] # Blank /\ Cardinality(Filled(l, i)) = k
  BY Zenon DEF WordAt, Filled, Blank
<1>3. PICK m \in DOMAIN l.pieces : WordAt(l, 4, m)
  BY DEF Parses
<1>4. m \in 1..4 /\ m <= Len(l.pieces) /\ Cardinality(Filled(l, m)) = 4
  BY <1>1, <1>2, <1>3
<1>5. \A i \in 1..4 : IsFiniteSet(1..i) /\ Cardinality(1..i) = i
  BY FirstOnes
<1>6. Filled(l, m) \in SUBSET (1..m)
  BY DEF Filled
<1>7. Cardinality(Filled(l, m)) <= m /\ (m = Cardinality(Filled(l, m)) => 1..m = Filled(l, m))
  <2>1. IsFiniteSet(1..m) /\ Cardinality(1..m) = m
    BY <1>4, <1>5
  <2> QED  BY <1>6, <2>1, FS_Subset
<1>8. m = 4 /\ Len(l.pieces) = 4 /\ Filled(l, 4) = 1..4
  <2>1. m = 4
    BY <1>4, <1>7
  <2>2. Len(l.pieces) = 4
    BY <1>0, <1>4, <2>1, Zenon
  <2>3. Filled(l, 4) = 1..4
    BY <1>4, <1>7, <2>1, Zenon
  <2> QED  BY <2>1, <2>2, <2>3
<1>9. \A j \in 1..4 : l.pieces[j] # Blank
  BY <1>8 DEF Filled
<1>10. ASSUME NEW i \in 1..4 PROVE Cardinality(Filled(l, i)) = i
  <2>1. Filled(l, i) = 1..i
    BY <1>9 DEF Filled
  <2> QED  BY <1>5, <2>1
<1>11. ASSUME NEW k \in 1..4 PROVE Column(l, k) = <<l.pieces[k]>>
  <2>1. \A i \in 1..4 : WordAt(l, k, i) <=> i = k
    BY <1>2, <1>9, <1>10
  <2>2. DOMAIN l.pieces = 1..4
    BY <1>1, <1>8
  <2>3. (CHOOSE i \in DOMAIN l.pieces : WordAt(l, k, i)) = k
    BY <2>1, <2>2
  <2> QED  BY <2>3 DEF Column
<1> QED  BY <1>8, <1>11

\* A sequence of one element after another.
Longer(S, a, b) == /\ a \o b \in Seq(S) /\ Len(a \o b) = Len(a) + 1
                   /\ \A i \in 1..Len(a) : (a \o b)[i] = a[i]
                   /\ (a \o b)[Len(a) + 1] = b[1]

LEMMA Joined == ASSUME NEW S, NEW a \in Seq(S), NEW b \in Seq(S), Len(b) = 1 PROVE Longer(S, a, b)
<1>1. /\ a \o b \in Seq(S) /\ Len(a \o b) = Len(a) + Len(b)
      /\ \A i \in 1..Len(a) + Len(b) :
           (a \o b)[i] = IF i <= Len(a) THEN a[i] ELSE b[i - Len(a)]
  BY ConcatProperties
<1>2. Len(a) \in Nat
  BY LenProperties
<1> QED  BY <1>1, <1>2 DEF Longer

WordFour(a, b, c, d) == /\ Len(a \o b \o c \o d) = 4
                        /\ (a \o b \o c \o d)[1] = a[1] /\ (a \o b \o c \o d)[2] = b[1]
                        /\ (a \o b \o c \o d)[3] = c[1] /\ (a \o b \o c \o d)[4] = d[1]

LEMMA FourJoined ==
  ASSUME NEW S, NEW a \in Seq(S), NEW b \in Seq(S), NEW c \in Seq(S), NEW d \in Seq(S),
         Len(a) = 1, Len(b) = 1, Len(c) = 1, Len(d) = 1
  PROVE  WordFour(a, b, c, d)
<1>1. PICK x : x = a \o b
  OBVIOUS
<1>2. PICK y : y = x \o c
  OBVIOUS
<1>3. PICK z : z = y \o d
  OBVIOUS
<1>4. x \in Seq(S) /\ Len(x) = 2 /\ x[1] = a[1] /\ x[2] = b[1]
  <2>1. Longer(S, a, b)
    BY Joined
  <2> QED  BY <1>1, <2>1 DEF Longer
<1>5. y \in Seq(S) /\ Len(y) = 3 /\ y[1] = x[1] /\ y[2] = x[2] /\ y[3] = c[1]
  <2>1. Longer(S, x, c)
    BY <1>4, Joined
  <2> QED  BY <1>2, <1>4, <2>1 DEF Longer
<1>6. Len(z) = 4 /\ z[1] = y[1] /\ z[2] = y[2] /\ z[3] = y[3] /\ z[4] = d[1]
  <2>1. Longer(S, y, d)
    BY <1>5, Joined
  <2>2. 1 \in 1..Len(y) /\ 2 \in 1..Len(y) /\ 3 \in 1..Len(y) /\ Len(y) + 1 = 4
    BY <1>5
  <2> QED  BY <1>3, <2>1, <2>2, Zenon DEF Longer
<1> QED  BY <1>1, <1>2, <1>3, <1>4, <1>5, <1>6 DEF WordFour

LEMMA OneWordLine ==
  ASSUME NEW r \in Row, OneWord(r)
  PROVE  /\ LineOf(r) \in Line /\ Len(LineOf(r).pieces) = 4
         /\ <<LineOf(r).pieces[1]>> = r.login /\ <<LineOf(r).pieces[2]>> = r.email
         /\ <<LineOf(r).pieces[3]>> = r.pass /\ <<LineOf(r).pieces[4]>> = r.type
<1>1. /\ r.login \in Seq(STRING) /\ r.email \in Seq(STRING)
      /\ r.pass \in Seq(STRING) /\ r.type \in Seq(STRING)
  BY DEF Row, Text
<1>2. Len(r.login) = 1 /\ Len(r.email) = 1 /\ Len(r.pass) = 1 /\ Len(r.type) = 1
  BY DEF OneWord
<1>3. PICK c : c = r.login \o r.email \o r.pass \o r.type
  OBVIOUS
<1>4. Len(c) = 4 /\ c[1] = r.login[1] /\ c[2] = r.email[1] /\ c[3] = r.pass[1] /\ c[4] = r.type[1]
  <2>1. WordFour(r.login, r.email, r.pass, r.type)
    BY <1>1, <1>2, FourJoined
  <2> QED  BY <1>3, <2>1, Zenon DEF WordFour
<1>5. LineOf(r).pieces = c
  BY <1>3 DEF LineOf
<1>6. <<r.login[1]>> = r.login /\ <<r.email[1]>> = r.email /\ <<r.pass[1]>> = r.pass /\ <<r.type[1]>> = r.type
  BY <1>1, <1>2
<1>7. LineOf(r) \in Line
  BY LineOfRow
<1> QED  BY <1>4, <1>5, <1>6, <1>7

\* A line of four pieces that a crash has cut is as long only if the last was cut.
LEMMA CutOfFour ==
  ASSUME NEW l \in Line, Len(l.pieces) = 4, NEW cut \in Cuts(l)
  PROVE  /\ Len(cut.pieces) <= 4
         /\ Len(cut.pieces) = 4 => /\ cut.pieces[1] = l.pieces[1] /\ cut.pieces[2] = l.pieces[2]
                                   /\ cut.pieces[3] = l.pieces[3]
<1>1. l.pieces \in Seq(STRING)
  BY DEF Line, Text
<1>2. PICK j \in 0..(Len(l.pieces) - 1), tail \in {<<>>, <<Torn>>} :
        cut = [l EXCEPT !.pieces = SubSeq(@, 1, j) \o tail]
  BY DEF Cuts
<1>3. j \in 0..3 /\ \A i \in 1..j : i \in 1..Len(l.pieces)
  BY <1>2
<1>4. PICK head : head = SubSeq(l.pieces, 1, j)
  OBVIOUS
<1>5. head \in Seq(STRING) /\ Len(head) = j /\ \A i \in 1..j : head[i] = l.pieces[i]
  <2>1. \A i \in 1..j : l.pieces[i] \in STRING
    BY <1>1, <1>3, ElementOfSeq
  <2>2. /\ SubSeq(l.pieces, 1, j) \in Seq(STRING)
        /\ Len(SubSeq(l.pieces, 1, j)) = j
        /\ \A i \in 1..j : SubSeq(l.pieces, 1, j)[i] = l.pieces[i]
    BY <1>3, <2>1, SubSeqProperties
  <2> QED  BY <1>4, <2>2
<1>6. cut.pieces = head \o tail
  BY <1>2, <1>4 DEF Line
<1>7. CASE tail = <<>>
  <2>1. head \o tail = head
    BY <1>5, <1>7, ConcatEmptySeq
  <2> QED  BY <1>3, <1>5, <1>6, <2>1
<1>8. CASE tail = <<Torn>>
  <2>1. <<Torn>> \in Seq(STRING) /\ Len(<<Torn>>) = 1
    BY TornAssumption
  <2>2. Len(head \o tail) = Len(head) + 1 /\ \A i \in 1..Len(head) : (head \o tail)[i] = head[i]
    BY <1>5, <1>8, <2>1, Joined DEF Longer
  <2> QED  BY <1>3, <1>5, <1>6, <2>2
<1> QED  BY <1>2, <1>7, <1>8

\* A line of such a row, or what a crash leaves of it, reads as a row of the
\* same user, if it reads at all.
LEMMA SameNames ==
  ASSUME NEW r \in Row, OneWord(r), NEW l, Remains(l, r), Parses(l)
  PROVE  RowOf(l).login = r.login /\ RowOf(l).email = r.email
<1>1. PICK w : w = LineOf(r)
  OBVIOUS
<1>2. /\ w \in Line /\ Len(w.pieces) = 4
      /\ <<w.pieces[1]>> = r.login /\ <<w.pieces[2]>> = r.email
  BY <1>1, OneWordLine
<1>3. /\ l \in Line /\ Len(l.pieces) <= 4
      /\ Len(l.pieces) = 4 => l.pieces[1] = w.pieces[1] /\ l.pieces[2] = w.pieces[2]
  <2>1. CASE l = w
    <3>1. l.pieces = w.pieces /\ Len(l.pieces) = 4
      BY <1>2, <2>1, Zenon
    <3>2. Len(l.pieces) <= 4
      BY <3>1
    <3> QED  BY <1>2, <2>1, <3>1, <3>2, Zenon
  <2>2. CASE l \in Cuts(w)
    BY <1>2, <2>2, CutOfFour, CutIsLine
  <2> QED  BY <1>1, <2>1, <2>2 DEF Remains
<1>4. Column(l, 1) = <<w.pieces[1]>> /\ Column(l, 2) = <<w.pieces[2]>>
  BY <1>3, FullLine
<1> QED  BY <1>2, <1>4 DEF RowOf

\* What a line reads as has no separator in it.
LEMMA ReadsOneWord == \A l : OneWord(RowOf(l))
BY DEF OneWord, RowOf, Column

-----------------------------------------------------------------------------
(* Which rows a change leaves in the list.                                 *)

LEMMA LinkedInsert ==
  ASSUME TypeOK, NEW e \in Entry, user_table_insert(e, Len(heap) + 1)
  PROVE  LinkedRows' \subseteq LinkedRows \cup {Len(heap) + 1}
<1>1. /\ freed' = freed /\ chain' \in Seq(DOMAIN heap')
      /\ rows = 0 => Len(chain') = 1 /\ chain'[1] = Len(heap) + 1
      /\ rows # 0 => /\ Len(chain') = Len(chain) + 1
                     /\ \A i \in 1..Len(chain) : chain'[i] = chain[i]
                     /\ chain'[Len(chain) + 1] = Len(heap) + 1
  BY Inserted DEF user_table_insert
<1>2. DOMAIN chain' = 1..Len(chain') /\ DOMAIN chain = 1..Len(chain) /\ Len(chain) \in Nat
  BY <1>1, LenProperties DEF TypeOK
<1>3. ASSUME NEW i \in DOMAIN chain'
      PROVE  chain'[i] = Len(heap) + 1 \/ \E j \in DOMAIN chain : chain'[i] = chain[j]
  <2>1. CASE rows = 0
    <3>1. Len(chain') = 1 /\ chain'[1] = Len(heap) + 1
      BY <1>1, <2>1
    <3>2. i = 1
      BY <1>2, <1>3, <3>1
    <3> QED  BY <3>1, <3>2
  <2>2. CASE rows # 0
    <3>1. /\ Len(chain') = Len(chain) + 1 /\ chain'[Len(chain) + 1] = Len(heap) + 1
          /\ \A j \in 1..Len(chain) : chain'[j] = chain[j]
      BY <1>1, <2>2
    <3>2. i = Len(chain) + 1 \/ i \in 1..Len(chain)
      BY <1>2, <1>3, <3>1
    <3> QED  BY <1>2, <3>1, <3>2
  <2> QED  BY <2>1, <2>2
<1> QED  BY <1>1, <1>3 DEF LinkedRows

LEMMA LinkedDelete ==
  ASSUME TypeOK, NEW uid, NEW ret, user_table_delete(uid, ret)
  PROVE  LinkedRows' \subseteq LinkedRows /\ heap' = heap
<1>1. Sound(VisitedByUid(uid)) /\ heap' = heap /\ rows \in Nat
  BY DEF user_table_delete, TypeOK
<1>2. CASE UNCHANGED <<freed, chain>>
  BY <1>1, <1>2 DEF LinkedRows
<1>3. CASE chain' = <<>>
  <2>1. DOMAIN chain' = {}
    BY <1>3
  <2> QED  BY <1>1, <2>1 DEF LinkedRows
<1>4. CASE \E k \in 2..rows : /\ FoundByUid(uid, k)
                             /\ freed' = freed \cup {chain[k]}
                             /\ chain' = Cut(chain, ptrant(k), k)
  <2>1. PICK k \in 2..rows : /\ FoundByUid(uid, k)
                             /\ freed' = freed \cup {chain[k]}
                             /\ chain' = Cut(chain, ptrant(k), k)
    BY <1>4
  <2>2. k \in 1..rows
    BY <1>1
  <2> DEFINE p == ptrant(k)
  <2>3. k \in 1..Len(chain) /\ p \in 1..Len(chain) /\ k \in p..Len(chain) /\ (p = k \/ (k = 2 /\ p = 1))
    BY <1>1, <2>1, <2>2, Found
  <2>4. chain' = Cut(chain, p, k)
    BY <2>1
  <2> HIDE DEF p
  <2>5. chain \in Seq(DOMAIN heap) /\ p \in 0..Len(chain) /\ k \in p..Len(chain) /\ k - p \in {0, 1}
    BY <2>3 DEF TypeOK
  <2>6. \A i \in DOMAIN chain' : \E j \in DOMAIN chain : chain'[i] = chain[j]
    BY <2>4, <2>5, CutRange
  <2> QED  BY <1>1, <2>1, <2>6 DEF LinkedRows
<1> QED  BY <1>2, <1>3, <1>4 DEF user_table_delete, Cut

\* A row is replaced only by one of its uid.
LEMMA LinkedUpdate ==
  ASSUME TypeOK, NEW r \in Row, NEW ret, user_table_update(r, ret)
  PROVE  \/ LinkedRows' = LinkedRows
         \/ \E old \in LinkedRows : /\ heap[old].uid = r.uid
                                   /\ LinkedRows' \subseteq (LinkedRows \ {old}) \cup {Len(heap) + 1}
<1>1. Sound(VisitedByUid(r.uid)) /\ heap' = Append(heap, r) /\ rows \in Nat
  BY DEF user_table_update, TypeOK
<1> DEFINE n == Len(heap) + 1
<1>2. n \in DOMAIN heap' /\ chain \in Seq(DOMAIN heap')
  BY <1>1, Grown
<1> HIDE DEF n
<1>3. CASE UNCHANGED <<freed, chain>>
  BY <1>3 DEF LinkedRows
<1>4. CASE /\ rows = 1 /\ FoundByUid(r.uid, 1)
           /\ freed' = freed \cup {chain[1]} /\ chain' = <<n>>
  <2>1. 1 \in 1..Len(chain) /\ Live(1) /\ heap[chain[1]].uid = r.uid
    BY <1>1, <1>4, Found
  <2>2. chain[1] \in LinkedRows
    BY <2>1 DEF LinkedRows, Live
  <2>3. \A i \in DOMAIN chain' : chain'[i] = n
    BY <1>4
  <2>4. LinkedRows' \subseteq {n}
    BY <2>3 DEF LinkedRows
  <2> QED  BY <2>1, <2>2, <2>4 DEF n
<1>5. CASE \E k \in 2..rows : /\ FoundByUid(r.uid, k)
                             /\ freed' = freed \cup {chain[k]}
                             /\ chain' = Splice(chain, ptrant(k), n, k)
  <2>1. PICK k \in 2..rows : /\ FoundByUid(r.uid, k)
                             /\ freed' = freed \cup {chain[k]}
                             /\ chain' = Splice(chain, ptrant(k), n, k)
    BY <1>5
  <2>2. k \in 1..rows
    BY <1>1
  <2> DEFINE p == ptrant(k)
             S == DOMAIN heap'
             c == Splice(chain, p, n, k)
  <2>3. /\ k \in 1..Len(chain) /\ p \in 1..Len(chain) /\ k \in p..Len(chain)
        /\ Live(k) /\ heap[chain[k]].uid = r.uid /\ (p = k \/ (k = 2 /\ p = 1))
    BY <1>1, <2>1, <2>2, Found
  <2>4. chain' = c /\ chain \in Seq(S) /\ n \in S
    BY <1>2, <2>1
  <2> HIDE DEF p, S
  <2>5. p \in 0..Len(chain) /\ k \in p..Len(chain) /\ k - p \in {0, 1}
    BY <2>3
  <2>6. \A i \in DOMAIN c : c[i] = n \/ \E j \in DOMAIN chain : c[i] = chain[j]
    BY <2>4, <2>5, SpliceRange
  <2>7. chain[k] \in LinkedRows
    BY <2>3 DEF Live, LinkedRows
  <2> HIDE DEF c
  <2>8. LinkedRows' \subseteq (LinkedRows \ {chain[k]}) \cup {n}
    BY <2>1, <2>4, <2>6 DEF LinkedRows
  <2> QED  BY <2>3, <2>7, <2>8 DEF n
<1> QED  BY <1>1, <1>3, <1>4, <1>5 DEF n, user_table_update, Splice

-----------------------------------------------------------------------------
(* No two users of one name.                                               *)

NamesDiffer(r, q) == r.login # q.login /\ r.email # q.email

UniqueRows == \A m, n \in LinkedRows : m # n => NamesDiffer(heap[m], heap[n])

UniqueLines(f) ==
  \A i, j \in DOMAIN f : i # j /\ Parses(f[i]) /\ Parses(f[j]) => NamesDiffer(RowOf(f[i]), RowOf(f[j]))

RowsOneWord == \A n \in DOMAIN heap : OneWord(heap[n])

\* Different live places of the list hold different rows, of different uids.
LEMMA PlacesDiffer ==
  ASSUME UidsInv, NEW i \in DOMAIN chain, NEW j \in DOMAIN chain, Live(i), Live(j), i # j
  PROVE  chain[i] # chain[j] /\ heap[chain[i]].uid # heap[chain[j]].uid
<1>1. DOMAIN chain = 1..Len(chain) /\ Len(chain) \in Nat
  BY LenProperties DEF UidsInv, TypeOK
<1>2. heap[chain[i]].uid \in Nat /\ heap[chain[j]].uid \in Nat
  BY Uids DEF UidsInv
<1>3. i < j \/ j < i
  BY <1>1
<1>4. heap[chain[i]].uid # heap[chain[j]].uid
  BY <1>2, <1>3 DEF UidsInv, UidsIncrease
<1> QED  BY <1>4

LEMMA UidsDiffer ==
  ASSUME UidsInv, NEW m \in LinkedRows, NEW n \in LinkedRows, heap[m].uid = heap[n].uid
  PROVE  m = n
<1>1. PICK i \in DOMAIN chain : m = chain[i] /\ Live(i)
  BY DEF LinkedRows, Live
<1>2. PICK j \in DOMAIN chain : n = chain[j] /\ Live(j)
  BY DEF LinkedRows, Live
<1> QED  BY <1>1, <1>2, PlacesDiffer

LEMMA UniqueInsert ==
  ASSUME TypeOK, UniqueRows, NEW e \in Entry, user_table_insert(e, Len(heap) + 1),
         \A n \in LinkedRows : NamesDiffer(heap[n], e)
  PROVE  UniqueRows'
<1>1. PICK r : r = WithUid(e, lastUid + 1)
  OBVIOUS
<1>2. r \in Row /\ r.login = e.login /\ r.email = e.email /\ heap' = Append(heap, r)
  BY <1>1, Inserted DEF user_table_insert, WithUid
<1>3. heap'[Len(heap) + 1] = r /\ \A n \in DOMAIN heap : heap'[n] = heap[n]
  BY <1>2, Grown
<1>4. LinkedRows' \subseteq LinkedRows \cup {Len(heap) + 1} /\ LinkedRows \subseteq DOMAIN heap
  BY LinkedInsert, LinkedFinite
<1> QED  BY <1>2, <1>3, <1>4 DEF UniqueRows, NamesDiffer

LEMMA UniqueDelete ==
  ASSUME TypeOK, UniqueRows, NEW uid, NEW ret, user_table_delete(uid, ret)
  PROVE  UniqueRows'
BY LinkedDelete DEF UniqueRows

\* A change of password keeps the names: the row replaced is the one copied.
LEMMA UniqueUpdate ==
  ASSUME UidsInv, UniqueRows, NEW r \in Row, NEW ret, user_table_update(r, ret),
         NEW n \in LinkedRows, r.uid = heap[n].uid, r.login = heap[n].login, r.email = heap[n].email
  PROVE  UniqueRows'
<1>1. TypeOK /\ heap' = Append(heap, r)
  BY DEF UidsInv, user_table_update
<1>2. heap'[Len(heap) + 1] = r /\ \A m \in DOMAIN heap : heap'[m] = heap[m]
  BY <1>1, Grown
<1>3. LinkedRows \subseteq DOMAIN heap
  BY <1>1, LinkedFinite
<1>4. CASE LinkedRows' = LinkedRows
  BY <1>2, <1>3, <1>4 DEF UniqueRows
<1>5. CASE \E old \in LinkedRows : /\ heap[old].uid = r.uid
                                  /\ LinkedRows' \subseteq (LinkedRows \ {old}) \cup {Len(heap) + 1}
  <2>1. LinkedRows' \subseteq (LinkedRows \ {n}) \cup {Len(heap) + 1}
    BY <1>5, UidsDiffer
  <2>2. \A m \in LinkedRows \ {n} : NamesDiffer(heap[m], r) /\ NamesDiffer(r, heap[m])
    BY DEF UniqueRows, NamesDiffer
  <2>3. \A m, q \in LinkedRows \ {n} : m # q => NamesDiffer(heap'[m], heap'[q])
    BY <1>2, <1>3 DEF UniqueRows
  <2> QED  BY <1>2, <1>3, <2>1, <2>2, <2>3 DEF UniqueRows
<1> QED  BY <1>1, <1>4, <1>5, LinkedUpdate

\* What is written of a list without namesakes has none.
LEMMA SavedNames ==
  ASSUME UidsInv, UniqueRows, RowsOneWord,
         NEW f \in Seq(Line), NEW m \in 0..Len(chain), Sound(1..m), Len(f) = m,
         \A i \in 1..m : Remains(f[i], heap[chain[i]])
  PROVE  UniqueLines(f)
<1>1. /\ DOMAIN f = 1..m /\ DOMAIN chain = 1..Len(chain) /\ Len(chain) \in Nat
      /\ TypeOK
  BY LenProperties DEF UidsInv, TypeOK
<1> SUFFICES ASSUME NEW i \in DOMAIN f, NEW j \in DOMAIN f, i # j, Parses(f[i]), Parses(f[j])
             PROVE  NamesDiffer(RowOf(f[i]), RowOf(f[j]))
  BY DEF UniqueLines
<1>2. i \in 1..m /\ j \in 1..m /\ i \in DOMAIN chain /\ j \in DOMAIN chain
  BY <1>1
<1>3. Live(i) /\ Live(j)
  BY <1>2 DEF Sound
<1>4. chain[i] # chain[j] /\ chain[i] \in LinkedRows /\ chain[j] \in LinkedRows
  BY <1>2, <1>3, PlacesDiffer DEF LinkedRows, Live
<1>5. NamesDiffer(heap[chain[i]], heap[chain[j]])
  BY <1>4 DEF UniqueRows
<1>6. ASSUME NEW k \in 1..m, k \in DOMAIN chain, Parses(f[k])
      PROVE  RowOf(f[k]).login = heap[chain[k]].login /\ RowOf(f[k]).email = heap[chain[k]].email
  <2>1. chain[k] \in DOMAIN heap
    BY <1>1, <1>6, Uids
  <2>2. heap[chain[k]] \in Row /\ OneWord(heap[chain[k]])
    BY <1>1, <2>1 DEF TypeOK, RowsOneWord
  <2> QED  BY <1>6, <2>2, SameNames
<1>7. /\ RowOf(f[i]).login = heap[chain[i]].login /\ RowOf(f[i]).email = heap[chain[i]].email
      /\ RowOf(f[j]).login = heap[chain[j]].login /\ RowOf(f[j]).email = heap[chain[j]].email
  BY <1>2, <1>6
<1> QED  BY <1>5, <1>7 DEF NamesDiffer

\* A list just loaded has the users of its file.
LEMMA UniqueLoad ==
  ASSUME TypeOK, NEW h \in Seq(Row), load_table(h), UniqueLines(file)
  PROVE  UniqueRows'
<1>1. PICK t : t = [i \in DOMAIN file |-> RowOf(file[i])]
  OBVIOUS
<1>2. /\ file \in Seq(Line) /\ DOMAIN file = 1..Len(file) /\ Len(file) \in Nat /\ heap' = h \o t
      /\ \A i \in DOMAIN file : Parses(file[i])
  BY <1>1, LenProperties DEF load_table, TypeOK
<1>3. chain' \in Seq(DOMAIN heap') /\ Len(chain') = Len(file) /\ \A i \in 1..Len(file) : chain'[i] = Len(h) + i
  BY Loaded
<1>4. DOMAIN chain' = 1..Len(file)
  BY <1>3, LenProperties
<1>5. \A i \in 1..Len(file) : heap'[chain'[i]] = RowOf(file[i])
  <2>1. ASSUME NEW i \in 1..Len(file) PROVE RowOf(file[i]) \in Row
    <3>1. file[i] \in Line
      BY <1>2, <2>1, ElementOfSeq
    <3> QED  BY <1>2, <2>1, <3>1, RowOfLine
  <2>2. t \in Seq(Row) /\ Len(t) = Len(file)
    <3>1. t = [i \in 1..Len(file) |-> RowOf(file[i])]
      BY <1>1, <1>2
    <3>2. t \in Seq(Row)
      BY <1>2, <2>1, <3>1, IsASeq
    <3>3. DOMAIN t = 1..Len(file)
      BY <3>1
    <3> QED  BY <1>2, <3>2, <3>3, LenProperties
  <2>3. \A i \in 1..Len(h) + Len(t) : (h \o t)[i] = IF i <= Len(h) THEN h[i] ELSE t[i - Len(h)]
    BY <2>2, ConcatProperties
  <2>4. Len(h) \in Nat
    BY LenProperties
  <2>5. ASSUME NEW i \in 1..Len(file) PROVE (h \o t)[Len(h) + i] = t[i]
    <3>1. /\ Len(h) + i \in 1..Len(h) + Len(t) /\ ~(Len(h) + i <= Len(h))
          /\ (Len(h) + i) - Len(h) = i
      BY <1>2, <2>2, <2>4
    <3> QED  BY <2>3, <3>1
  <2> QED  BY <1>1, <1>2, <1>3, <2>5
<1>6. ASSUME NEW m \in LinkedRows' PROVE \E i \in 1..Len(file) : m = chain'[i]
  BY <1>4, <1>6 DEF LinkedRows
<1> SUFFICES ASSUME NEW m \in LinkedRows', NEW n \in LinkedRows', m # n
             PROVE  NamesDiffer(heap'[m], heap'[n])
  BY DEF UniqueRows
<1>7. PICK i \in 1..Len(file) : m = chain'[i]
  BY <1>6
<1>8. PICK j \in 1..Len(file) : n = chain'[j]
  BY <1>6
<1>9. i # j /\ heap'[m] = RowOf(file[i]) /\ heap'[n] = RowOf(file[j])
  BY <1>5, <1>7, <1>8
<1> QED  BY <1>2, <1>9 DEF UniqueLines

\* A search that finds nothing has passed every row linked: rows counts them.
LEMMA Unfound ==
  ASSUME UidsInv, RowsCountLive, NEW key, NEW v, getby(key, v, 0)
  PROVE  \A n \in LinkedRows : heap[n][key] # v
<1>1. /\ TypeOK /\ Sound(Visited(key, v, 1)) /\ mode = "up" /\ rows \in Nat
      /\ DOMAIN chain = 1..Len(chain) /\ Len(chain) \in Nat
  BY LenProperties DEF UidsInv, TypeOK, getby, Idle
<1>2. \A k \in 1..rows : ~Match(key, v, 1, k)
  <2>1. ASSUME NEW k \in 1..rows, Match(key, v, 1, k) PROVE chain[k] # 0
    <3>1. chain[k] \in DOMAIN heap
      BY <1>1, <2>1, Uids DEF Match
    <3>2. DOMAIN heap = 1..Len(heap)
      BY <1>1, LenProperties DEF TypeOK
    <3> QED  BY <3>1, <3>2
  <2> QED  BY <2>1 DEF getby
<1> SUFFICES ASSUME NEW m \in DOMAIN chain, Live(m), heap[chain[m]][key] = v PROVE FALSE
  BY DEF LinkedRows, Live
<1>3. PICK k \in {i \in DOMAIN chain : heap[chain[i]][key] = v} :
        \A i \in {i \in DOMAIN chain : heap[chain[i]][key] = v} : k <= i
  <2>1. PICK T : T = {i \in DOMAIN chain : heap[chain[i]][key] = v}
    OBVIOUS
  <2>2. T \in SUBSET Nat /\ T # {}
    BY <1>1, <2>1
  <2> QED  BY <2>1, <2>2, LeastNatural
<1>4. k \in DOMAIN chain /\ heap[chain[k]][key] = v /\ k <= m
  BY <1>3
<1>5. \A j \in 1..(k - 1) : j \in DOMAIN chain => heap[chain[j]][key] # v
  BY <1>1, <1>3
<1>6. k > rows
  <2>1. SUFFICES ASSUME k \in 1..rows PROVE FALSE
    BY <1>1, <1>4
  <2>2. k \in Visited(key, v, 1)
    BY <1>5, <2>1 DEF Visited
  <2> QED  BY <1>1, <1>2, <1>4, <2>1, <2>2 DEF Match
<1>7. \A i \in 1..rows : Live(i)
  <2>1. ASSUME NEW i \in 1..rows PROVE i \in Visited(key, v, 1)
    <3>1. \A j \in 1..(i - 1) : j \in 1..(k - 1)
      BY <1>1, <1>4, <1>6
    <3> QED  BY <1>5, <3>1 DEF Visited
  <2> QED  BY <1>1, <2>1 DEF Sound
<1>8. PICK f : f = [i \in 1..(rows + 1) |-> IF i <= rows THEN chain[i] ELSE chain[m]]
  OBVIOUS
<1>9. PICK g : g = [i \in 1..(rows + 1) |-> IF i <= rows THEN i ELSE m]
  OBVIOUS
<1>10. \A i \in 1..(rows + 1) : g[i] \in DOMAIN chain /\ Live(g[i]) /\ f[i] = chain[g[i]]
  BY <1>1, <1>7, <1>8, <1>9 DEF Live
<1>11. \A i, j \in 1..(rows + 1) : i # j => g[i] # g[j]
  BY <1>1, <1>4, <1>6, <1>9
<1>12. f \in Injection(1..(rows + 1), LinkedRows)
  <2>1. f \in [1..(rows + 1) -> LinkedRows]
    BY <1>8, <1>10 DEF LinkedRows, Live
  <2>2. \A i, j \in 1..(rows + 1) : i # j => f[i] # f[j]
    BY <1>10, <1>11, PlacesDiffer
  <2> QED  BY <2>1, <2>2 DEF Injection, IsInjective
<1>13. rows + 1 <= Cardinality(LinkedRows)
  <2>1. Cardinality(1..(rows + 1)) = rows + 1
    BY <1>1, FirstOnes
  <2>2. Cardinality(1..(rows + 1)) <= Cardinality(LinkedRows)
    BY <1>1, <1>12, LinkedFinite, FS_Injection
  <2> QED  BY <2>1, <2>2
<1>14. Cardinality(LinkedRows) \in Nat /\ chain # <<>>
  BY <1>1, LinkedFinite, FS_CardinalityType
<1> QED  BY <1>1, <1>13, <1>14 DEF RowsCountLive

UniqueFile == file # Missing => UniqueLines(file)

\* Nobody has a namesake, in memory or in the file.
Names == RowsOneWord /\ UniqueRows /\ UniqueFile

LEMMA OneWordGrown ==
  ASSUME TypeOK, RowsOneWord, NEW r \in Row, OneWord(r), heap' = Append(heap, r)
  PROVE  RowsOneWord'
<1>1. /\ DOMAIN heap' = 1..(Len(heap) + 1) /\ DOMAIN heap = 1..Len(heap) /\ Len(heap) \in Nat
      /\ heap'[Len(heap) + 1] = r /\ \A n \in DOMAIN heap : heap'[n] = heap[n]
  BY Grown
<1>2. \A n \in DOMAIN heap' : n = Len(heap) + 1 \/ n \in DOMAIN heap
  BY <1>1
<1> QED  BY <1>1, <1>2 DEF RowsOneWord

LEMMA NamesInsert ==
  ASSUME TypeOK, Names, NEW e \in Entry, OneWord(e), user_table_insert(e, Len(heap) + 1),
         \A n \in LinkedRows : NamesDiffer(heap[n], e)
  PROVE  Names'
<1>1. PICK r : r = WithUid(e, lastUid + 1)
  OBVIOUS
<1>2. /\ r \in Row /\ heap' = Append(heap, r) /\ file' = file
  BY <1>1, Inserted DEF user_table_insert
<1>3. OneWord(r)
  BY <1>1 DEF WithUid, OneWord
<1> QED  BY <1>2, <1>3, OneWordGrown, UniqueInsert DEF Names, UniqueFile

LEMMA NamesDelete ==
  ASSUME TypeOK, Names, NEW uid, NEW ret, user_table_delete(uid, ret) PROVE Names'
<1>1. heap' = heap /\ file' = file
  BY DEF user_table_delete
<1> QED  BY <1>1, UniqueDelete DEF Names, UniqueFile, RowsOneWord

LEMMA NamesUpdate ==
  ASSUME UidsInv, Names, NEW r \in Row, OneWord(r), NEW ret, user_table_update(r, ret),
         NEW n \in LinkedRows, r.uid = heap[n].uid, r.login = heap[n].login, r.email = heap[n].email
  PROVE  Names'
<1>1. heap' = Append(heap, r) /\ file' = file /\ TypeOK
  BY DEF user_table_update, UidsInv
<1> QED  BY <1>1, OneWordGrown, UniqueUpdate DEF Names, UniqueFile

LEMMA EmptyUnique == \A f : f = <<>> => UniqueLines(f)
BY DEF UniqueLines

LEMMA NamesSave == ASSUME UidsInv, Names, save_opens \/ save_closes PROVE Names'
<1>1. heap' = heap /\ chain' = chain /\ freed' = freed
  BY DEF save_opens, save_closes
<1>2. RowsOneWord' /\ UniqueRows'
  BY <1>1 DEF Names, RowsOneWord, UniqueRows, LinkedRows
<1>3. CASE save_opens
  <2>1. UniqueLines(file')
    BY <1>3, EmptyUnique DEF save_opens
  <2> QED  BY <1>2, <2>1 DEF Names, UniqueFile
<1>4. CASE save_closes
  <2>1. PICK f : f = [i \in DOMAIN chain |-> LineOf(heap[chain[i]])]
    OBVIOUS
  <2>2. file' = f /\ Sound(DOMAIN chain) /\ TypeOK
    BY <1>4, <2>1 DEF save_closes, UidsInv
  <2>3. DOMAIN chain = 1..Len(chain) /\ Len(chain) \in Nat
    BY <2>2, LenProperties DEF TypeOK
  <2>4. f \in Seq(Line) /\ Len(f) = Len(chain)
    <3>1. Len(chain) \in 0..Len(chain) /\ f = [i \in 1..Len(chain) |-> LineOf(heap[chain[i]])]
      BY <2>1, <2>3
    <3> QED  BY <2>2, <3>1, Written
  <2>5. \A i \in 1..Len(chain) : Remains(f[i], heap[chain[i]])
    BY <2>1, <2>3 DEF Remains
  <2>6. UniqueLines(f)
    <3>1. Len(chain) \in 0..Len(chain)
      BY <2>3
    <3> QED  BY <2>2, <2>4, <2>5, <3>1, SavedNames DEF Names
  <2> QED  BY <1>2, <2>2, <2>6 DEF Names, UniqueFile
<1> QED  BY <1>3, <1>4

LEMMA NamesLoad ==
  ASSUME TypeOK, Names, NEW h \in Seq(Row), \A n \in DOMAIN h : OneWord(h[n]), load_table(h), file' = file
  PROVE  Names'
<1>1. PICK t : t = [i \in DOMAIN file |-> RowOf(file[i])]
  OBVIOUS
<1>2. heap' = h \o t /\ file # Missing /\ file \in Seq(Line) /\ \A i \in DOMAIN file : Parses(file[i])
  BY <1>1 DEF load_table, TypeOK
<1>3. t \in Seq(Row) /\ Len(t) = Len(file) /\ DOMAIN t = DOMAIN file
  <2>1. DOMAIN file = 1..Len(file) /\ Len(file) \in Nat
    BY <1>2, LenProperties
  <2>2. ASSUME NEW i \in 1..Len(file) PROVE RowOf(file[i]) \in Row
    <3>1. file[i] \in Line
      BY <1>2, <2>1, <2>2, ElementOfSeq
    <3> QED  BY <1>2, <2>1, <2>2, <3>1, RowOfLine
  <2>3. t = [i \in 1..Len(file) |-> RowOf(file[i])] /\ DOMAIN t = 1..Len(file)
    BY <1>1, <2>1
  <2>4. t \in Seq(Row)
    BY <2>1, <2>2, <2>3, IsASeq
  <2> QED  BY <2>1, <2>3, <2>4, LenProperties
<1>4. /\ Len(h \o t) = Len(h) + Len(t) /\ h \o t \in Seq(Row)
      /\ \A i \in 1..Len(h) + Len(t) : (h \o t)[i] = IF i <= Len(h) THEN h[i] ELSE t[i - Len(h)]
  BY <1>3, ConcatProperties
<1>5. /\ DOMAIN h = 1..Len(h) /\ Len(h) \in Nat /\ DOMAIN t = 1..Len(t) /\ Len(t) \in Nat
      /\ DOMAIN (h \o t) = 1..Len(h \o t)
  BY <1>3, <1>4, LenProperties
<1>6. ASSUME NEW i \in DOMAIN (h \o t) PROVE OneWord((h \o t)[i])
  <2>1. i \in 1..Len(h) + Len(t)
    BY <1>4, <1>5
  <2>2. CASE i <= Len(h)
    <3>1. i \in DOMAIN h /\ (h \o t)[i] = h[i]
      BY <1>4, <1>5, <2>1, <2>2
    <3> QED  BY <3>1
  <2>3. CASE ~(i <= Len(h))
    <3>1. i - Len(h) \in DOMAIN t /\ (h \o t)[i] = t[i - Len(h)]
      BY <1>4, <1>5, <2>1, <2>3
    <3>2. t[i - Len(h)] = RowOf(file[i - Len(h)])
      BY <1>1, <1>3, <3>1
    <3> QED  BY <3>1, <3>2, ReadsOneWord
  <2> QED  BY <2>2, <2>3
<1>7. RowsOneWord'
  BY <1>2, <1>6 DEF RowsOneWord
<1>8. UniqueRows'
  BY <1>2, UniqueLoad DEF Names, UniqueFile
<1> QED  BY <1>7, <1>8 DEF Names, UniqueFile

LEMMA NamesForget ==
  ASSUME Forget, UniqueFile' PROVE Names'
<1>1. DOMAIN heap' = {} /\ DOMAIN chain' = {}
  BY DEF Forget
<1>2. LinkedRows' = {}
  BY <1>1 DEF LinkedRows
<1> QED  BY <1>1, <1>2 DEF Names, RowsOneWord, UniqueRows

LEMMA NamesKill == ASSUME UidsInv, Names, Kill PROVE Names'
<1>1. Forget /\ TypeOK
  BY DEF Kill, UidsInv
<1>2. CASE file' = file
  BY <1>1, <1>2, NamesForget DEF Names, UniqueFile
<1>3. CASE /\ file' \in Seq(Line)
           /\ \E m \in 1..Len(chain) :
                /\ Sound(1..m) /\ Len(file') = m
                /\ \A i \in 1..m : Remains(file'[i], heap[chain[i]])
  <2>1. PICK m \in 1..Len(chain) :
           /\ Sound(1..m) /\ Len(file') = m
           /\ \A i \in 1..m : Remains(file'[i], heap[chain[i]])
    BY <1>3
  <2>2. PICK f : f = file'
    OBVIOUS
  <2>3. m \in 0..Len(chain)
    OBVIOUS
  <2>4. UniqueLines(f)
    BY <1>3, <2>1, <2>2, <2>3, SavedNames DEF Names
  <2> QED  BY <1>1, <2>2, <2>4, NamesForget DEF UniqueFile
<1> QED  BY <1>1, <1>2, <1>3, Killed

LEMMA NamesStart == ASSUME TypeOK, Names, user_table_init PROVE Names'
<1>1. file' = file
  BY DEF user_table_init
<1>2. CASE heap' = <<WithUid(admin, 1001)>> /\ chain' = <<1>>
  <2>1. /\ heap' = <<WithUid(admin, 1001)>> /\ chain' = <<1>> /\ freed' = {}
    BY <1>2 DEF user_table_init
  <2>2. DOMAIN heap' = {1} /\ heap'[1] = WithUid(admin, 1001)
    BY <2>1
  <2>3. OneWord(heap'[1])
    BY <2>2 DEF WithUid, admin, OneWord
  <2>4. LinkedRows' \subseteq {1}
    BY <2>1 DEF LinkedRows
  <2> QED  BY <1>1, <2>2, <2>3, <2>4 DEF Names, RowsOneWord, UniqueRows, UniqueFile
<1>3. CASE heap' = <<>> /\ chain' = <<>>
  <2>1. heap' = <<>> /\ chain' = <<>>
    BY <1>3
  <2>2. DOMAIN heap' = {} /\ DOMAIN chain' = {}
    BY <2>1
  <2>3. LinkedRows' = {}
    BY <2>2 DEF LinkedRows
  <2> QED  BY <1>1, <2>2, <2>3 DEF Names, RowsOneWord, UniqueRows, UniqueFile
<1>4. CASE load_table(<<>>)
  <2>1. <<>> \in Seq(Row) /\ \A n \in DOMAIN <<>> : OneWord(<<>>[n])
    BY EmptySeq
  <2> QED  BY <1>1, <1>4, <2>1, NamesLoad
<1> QED  BY <1>2, <1>3, <1>4 DEF user_table_init

LEMMA NamesRollback == ASSUME TypeOK, Names, NEW ret, user_table_rollback(ret) PROVE Names'
<1>1. UNCHANGED <<freed, file>>
  BY DEF user_table_rollback
<1>2. CASE UNCHANGED <<heap, chain>>
  BY <1>1, <1>2 DEF Names, RowsOneWord, UniqueRows, LinkedRows, UniqueFile
<1>3. CASE load_table(heap)
  <2>1. heap \in Seq(Row) /\ \A n \in DOMAIN heap : OneWord(heap[n])
    BY DEF TypeOK, Names, RowsOneWord
  <2> QED  BY <1>1, <1>3, <2>1, NamesLoad
<1> QED  BY <1>2, <1>3 DEF user_table_rollback
=============================================================================
