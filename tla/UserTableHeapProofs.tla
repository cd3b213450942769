-------------------------- MODULE UserTableHeapProofs --------------------------
(***************************************************************************)
(* Proofs about UserTableHeap: the pointers always make up one list that   *)
(* ends, last is its last row, and every operation on them is the          *)
(* operation of UserTable on the sequence that a walk finds.               *)
(***************************************************************************)
EXTENDS UserTableHeap, SequenceTheorems, Induction

\* What is proved of UserTable holds of the table as a walk finds it.
Proved == INSTANCE UserTableProofs WITH chain <- Chain

-----------------------------------------------------------------------------
(* Following pointers.                                                     *)

After(p) == IF p = NULL THEN NULL ELSE next[p]

Walked(f, p, k) ==
  f = [j \in 0..k |-> IF j = 0 THEN p ELSE IF f[j - 1] = NULL THEN NULL ELSE next[f[j - 1]]]

\* The recursion by which Follow goes on has a solution.
LEMMA Walks == \A p : \A k \in Nat : \E f : Walked(f, p, k)
<1> SUFFICES ASSUME NEW p PROVE \A k \in Nat : \E f : Walked(f, p, k)
  OBVIOUS
<1>1. PICK T : T = {k \in Nat : \E f : Walked(f, p, k)}
  OBVIOUS
<1>2. 0 \in T
  <2>1. PICK f : f = [j \in 0..0 |-> p]
    OBVIOUS
  <2>2. f = [j \in 0..0 |-> IF j = 0 THEN p ELSE IF f[j - 1] = NULL THEN NULL ELSE next[f[j - 1]]]
    BY <2>1
  <2> QED  BY <1>1, <2>2 DEF Walked
<1>3. ASSUME NEW k \in Nat, k \in T PROVE k + 1 \in T
  <2>1. PICK f : f = [j \in 0..k |-> IF j = 0 THEN p ELSE IF f[j - 1] = NULL THEN NULL ELSE next[f[j - 1]]]
    BY <1>1, <1>3 DEF Walked
  <2>2. PICK x : x = IF f[k] = NULL THEN NULL ELSE next[f[k]]
    OBVIOUS
  <2>3. PICK g : g = [j \in 0..(k + 1) |-> IF j = k + 1 THEN x ELSE f[j]]
    OBVIOUS
  <2>4. ASSUME NEW j \in 0..(k + 1)
        PROVE  g[j] = IF j = 0 THEN p ELSE IF g[j - 1] = NULL THEN NULL ELSE next[g[j - 1]]
    <3>1. CASE j \in 0..k
      <4>1. g[j] = f[j]
        BY <2>3, <3>1
      <4>2. j # 0 => g[j - 1] = f[j - 1]
        BY <2>3, <3>1
      <4> QED  BY <2>1, <3>1, <4>1, <4>2
    <3>2. CASE j = k + 1
      <4>1. g[j] = x /\ g[k] = f[k] /\ j - 1 = k /\ j # 0
        BY <2>3, <3>2
      <4> QED  BY <2>2, <4>1
    <3> QED  BY <3>1, <3>2
  <2>5. g = [j \in 0..(k + 1) |-> IF j = 0 THEN p ELSE IF g[j - 1] = NULL THEN NULL ELSE next[g[j - 1]]]
    BY <2>3, <2>4
  <2> QED  BY <1>1, <2>5 DEF Walked
<1>4. \A k \in Nat : k \in T
  BY <1>2, <1>3, InductionOnNat
<1> QED  BY <1>1, <1>4

\* All of them agree.
LEMMA OneWalk ==
  \A p : \A k \in Nat : \A m \in Nat : \A f, g : Walked(f, p, k) /\ Walked(g, p, m) =>
    \A j \in Nat : j <= k /\ j <= m => f[j] = g[j]
<1> SUFFICES ASSUME NEW p, NEW k \in Nat, NEW m \in Nat, NEW f, NEW g, Walked(f, p, k), Walked(g, p, m)
             PROVE  \A j \in Nat : j <= k /\ j <= m => f[j] = g[j]
  OBVIOUS
<1>1. /\ \A j \in 0..k : f[j] = IF j = 0 THEN p ELSE IF f[j - 1] = NULL THEN NULL ELSE next[f[j - 1]]
      /\ \A j \in 0..m : g[j] = IF j = 0 THEN p ELSE IF g[j - 1] = NULL THEN NULL ELSE next[g[j - 1]]
  BY DEF Walked
<1>2. PICK T : T = {j \in Nat : j <= k /\ j <= m => f[j] = g[j]}
  OBVIOUS
<1>3. 0 \in T
  BY <1>1, <1>2
<1>4. ASSUME NEW j \in Nat, j \in T PROVE j + 1 \in T
  <2>1. SUFFICES ASSUME j + 1 <= k, j + 1 <= m PROVE f[j + 1] = g[j + 1]
    BY <1>2
  <2>2. f[j] = g[j] /\ j + 1 \in 0..k /\ j + 1 \in 0..m /\ (j + 1) - 1 = j /\ j + 1 # 0
    BY <1>2, <1>4, <2>1
  <2> QED  BY <1>1, <2>2
<1>5. \A j \in Nat : j \in T
  BY <1>3, <1>4, InductionOnNat
<1> QED  BY <1>2, <1>5

LEMMA FollowStep ==
  \A p : /\ Follow(p, 0) = p
         /\ \A k \in Nat : Follow(p, k + 1) = After(Follow(p, k))
<1> SUFFICES ASSUME NEW p
             PROVE  /\ Follow(p, 0) = p
                    /\ \A k \in Nat : Follow(p, k + 1) = After(Follow(p, k))
  OBVIOUS
<1>1. \A k \in Nat : \E f : Walked(f, p, k) /\ Follow(p, k) = f[k]
  <2> SUFFICES ASSUME NEW k \in Nat PROVE \E f : Walked(f, p, k) /\ Follow(p, k) = f[k]
    OBVIOUS
  <2>1. PICK at : at = CHOOSE f : f = [j \in 0..k |-> IF j = 0 THEN p
                                       ELSE IF f[j - 1] = NULL THEN NULL ELSE next[f[j - 1]]]
    OBVIOUS
  <2>2. \E f : f = [j \in 0..k |-> IF j = 0 THEN p ELSE IF f[j - 1] = NULL THEN NULL ELSE next[f[j - 1]]]
    <3>1. PICK f : Walked(f, p, k)
      BY Walks
    <3> QED  BY <3>1 DEF Walked
  <2>3. at = [j \in 0..k |-> IF j = 0 THEN p ELSE IF at[j - 1] = NULL THEN NULL ELSE next[at[j - 1]]]
    BY <2>1, <2>2
  <2>4. Follow(p, k) = at[k]
    BY <2>1 DEF Follow
  <2> QED  BY <2>3, <2>4 DEF Walked
<1>2. Follow(p, 0) = p
  <2>1. PICK f : Walked(f, p, 0) /\ Follow(p, 0) = f[0]
    BY <1>1
  <2> QED  BY <2>1 DEF Walked
<1>3. ASSUME NEW k \in Nat PROVE Follow(p, k + 1) = After(Follow(p, k))
  <2>1. PICK f : Walked(f, p, k) /\ Follow(p, k) = f[k]
    BY <1>1
  <2>2. PICK g : Walked(g, p, k + 1) /\ Follow(p, k + 1) = g[k + 1]
    BY <1>1
  <2>3. f[k] = g[k]
    BY <2>1, <2>2, OneWalk
  <2>4. g[k + 1] = After(g[k])
    BY <2>2 DEF Walked, After
  <2> QED  BY <2>1, <2>2, <2>3, <2>4
<1> QED  BY <1>2, <1>3

-----------------------------------------------------------------------------
(* The list that the pointers make up.                                     *)

\* c is the list: it begins at first, each row's next is the row after it, and
\* it ends.
Linked(c) ==
  /\ c \in Seq(1..Len(heap)) /\ Len(c) <= Len(heap)
  /\ first = IF c = <<>> THEN NULL ELSE c[1]
  /\ \A i \in DOMAIN c : next[c[i]] = IF i < Len(c) THEN c[i + 1] ELSE NULL
  /\ \A i, j \in DOMAIN c : c[i] = c[j] => i = j

\* The k-th row of c, or NULL after its end.
Place(c, k) == IF k <= Len(c) THEN c[k] ELSE NULL

LEMMA FollowPlace ==
  ASSUME NEW c, Linked(c), heap \in Seq(Table!Row)
  PROVE  \A k \in Nat : Follow(first, k) = Place(c, k + 1)
<1>1. /\ Len(c) \in Nat /\ DOMAIN c = 1..Len(c) /\ \A i \in 1..Len(c) : c[i] \in 1..Len(heap)
      /\ Len(heap) \in Nat
  BY LenProperties, ElementOfSeq DEF Linked
<1>2. \A i \in 1..Len(c) : c[i] # NULL
  BY <1>1 DEF NULL
<1>3. PICK T : T = {k \in Nat : Follow(first, k) = Place(c, k + 1)}
  OBVIOUS
<1>4. 0 \in T
  <2>1. Follow(first, 0) = first
    BY FollowStep
  <2>2. first = Place(c, 1)
    <3>1. CASE c = <<>>
      BY <3>1 DEF Linked, Place
    <3>2. CASE c # <<>>
      <4>1. Len(c) # 0
        BY <3>2, EmptySeq DEF Linked
      <4> QED  BY <1>1, <3>2, <4>1 DEF Linked, Place
    <3> QED  BY <3>1, <3>2
  <2> QED  BY <1>3, <2>1, <2>2
<1>5. ASSUME NEW k \in Nat, k \in T PROVE k + 1 \in T
  <2>1. Follow(first, k + 1) = After(Place(c, k + 1))
    BY <1>3, <1>5, FollowStep
  <2>2. After(Place(c, k + 1)) = Place(c, k + 2)
    <3>1. CASE k + 1 <= Len(c)
      <4>1. k + 1 \in DOMAIN c /\ k + 1 \in 1..Len(c) /\ (k + 1) + 1 = k + 2
        BY <1>1, <3>1
      <4>2. next[c[k + 1]] = IF k + 1 < Len(c) THEN c[k + 2] ELSE NULL
        BY <4>1 DEF Linked
      <4>3. After(c[k + 1]) = IF k + 1 < Len(c) THEN c[k + 2] ELSE NULL
        BY <1>2, <4>1, <4>2 DEF After
      <4>4. k + 1 < Len(c) <=> k + 2 <= Len(c)
        BY <1>1
      <4> QED  BY <3>1, <4>3, <4>4 DEF Place
    <3>2. CASE ~(k + 1 <= Len(c))
      <4>1. ~(k + 2 <= Len(c))
        BY <1>1, <3>2
      <4> QED  BY <3>2, <4>1 DEF Place, After
    <3> QED  BY <3>1, <3>2
  <2>3. (k + 1) + 1 = k + 2
    OBVIOUS
  <2> QED  BY <1>3, <2>1, <2>2, <2>3
<1>6. \A k \in Nat : k \in T
  BY <1>4, <1>5, InductionOnNat
<1> QED  BY <1>3, <1>6

LEMMA CountFromZero == \A n \in Nat : Cardinality(0..(n - 1)) = n
<1>1. \A b \in Int : b >= -1 => Cardinality(0..b) = b + 1
  <2> SUFFICES ASSUME NEW b \in Int, b >= -1 PROVE Cardinality(0..b) = b + 1
    OBVIOUS
  <2> QED  BY FS_Interval
<1>2. \A n \in Nat : n - 1 \in Int /\ n - 1 >= -1 /\ (n - 1) + 1 = n
  OBVIOUS
<1> QED  BY <1>1, <1>2

\* A walk finds the list.
LEMMA ChainIs == \A c : Linked(c) /\ heap \in Seq(Table!Row) => Chain = c
<1> SUFFICES ASSUME NEW c, Linked(c), heap \in Seq(Table!Row) PROVE Chain = c
  OBVIOUS
<1>1. /\ Len(c) \in Nat /\ DOMAIN c = 1..Len(c) /\ \A i \in 1..Len(c) : c[i] \in 1..Len(heap)
      /\ Len(heap) \in Nat /\ Len(c) <= Len(heap)
  BY LenProperties, ElementOfSeq DEF Linked
<1>2. \A j \in 0..Len(heap) : Follow(first, j) # NULL <=> j < Len(c)
  <2> SUFFICES ASSUME NEW j \in 0..Len(heap) PROVE Follow(first, j) # NULL <=> j < Len(c)
    OBVIOUS
  <2>1. Follow(first, j) = Place(c, j + 1)
    BY FollowPlace
  <2>2. j < Len(c) <=> j + 1 <= Len(c)
    BY <1>1
  <2>3. j + 1 <= Len(c) => c[j + 1] # 0
    BY <1>1
  <2> QED  BY <2>1, <2>2, <2>3 DEF Place, NULL
<1>3. {j \in 0..Len(heap) : Follow(first, j) # NULL} = 0..(Len(c) - 1)
  BY <1>1, <1>2
<1>4. Cardinality({j \in 0..Len(heap) : Follow(first, j) # NULL}) = Len(c)
  <2>1. Cardinality(0..(Len(c) - 1)) = Len(c)
    BY <1>1, CountFromZero, Zenon
  <2> QED  BY <1>3, <2>1, Zenon
<1>5. Chain = [k \in 1..Len(c) |-> Follow(first, k - 1)]
  BY <1>4 DEF Chain
<1>6. \A k \in 1..Len(c) : Follow(first, k - 1) = c[k]
  <2> SUFFICES ASSUME NEW k \in 1..Len(c) PROVE Follow(first, k - 1) = c[k]
    OBVIOUS
  <2>1. k - 1 \in Nat /\ (k - 1) + 1 = k /\ k <= Len(c)
    BY <1>1
  <2> QED  BY <2>1, FollowPlace DEF Place
<1>7. Chain = [k \in 1..Len(c) |-> c[k]]
  BY <1>5, <1>6
<1> QED  BY <1>1, <1>7, LenProperties DEF Linked

\* And so it does after a step.
LEMMA ChainBecomes == \A c : Linked(c)' /\ heap' \in Seq(Table!Row) => Chain' = c
<1>1. (\A c : Linked(c) /\ heap \in Seq(Table!Row) => Chain = c)'
  BY ChainIs, PTL
<1> QED  BY <1>1


-----------------------------------------------------------------------------
(* What UserTableProofs shows.                                             *)

\* The two instances of UserTable are one.
LEMMA SameTable ==
  /\ Table!TypeOK <=> Proved!TypeOK
  /\ Table!UidsIncrease <=> Proved!UidsIncrease
  /\ Table!Next <=> Proved!Next
  /\ Table!vars = Proved!vars
  /\ Table!Row = Proved!Row /\ \A h : Table!load_table(h) <=> Proved!load_table(h)
<1>1. \A S : Table!Cardinality(S) = Proved!Cardinality(S)
  BY DEF Table!Cardinality, Proved!Cardinality, Table!IsFiniteSet, Proved!IsFiniteSet
<1>2. /\ Table!Text = Proved!Text
      /\ Table!Entry = Proved!Entry
      /\ Table!Row = Proved!Row
      /\ Table!Line = Proved!Line
      /\ \A lines : Table!Increasing(lines) <=> Proved!Increasing(lines)
      /\ Table!vars = Proved!vars
  BY DEF Table!Text, Proved!Text, Table!Entry, Proved!Entry, Table!Row, Proved!Row,
         Table!Line, Proved!Line, Table!Increasing, Proved!Increasing, Table!vars, Proved!vars
<1>3. /\ Table!admin = Proved!admin
      /\ \A e, u : Table!WithUid(e, u) = Proved!WithUid(e, u)
      /\ \A r : Table!LineOf(r) = Proved!LineOf(r)
      /\ \A line : Table!Cuts(line) = Proved!Cuts(line)
  BY DEF Table!admin, Proved!admin, Table!WithUid, Proved!WithUid, Table!LineOf, Proved!LineOf,
         Table!Cuts, Proved!Cuts
<1>4. /\ \A line, k, i : Table!WordAt(line, k, i) <=> Proved!WordAt(line, k, i)
      /\ \A line : Table!Parses(line) <=> Proved!Parses(line)
  BY <1>1 DEF Table!WordAt, Proved!WordAt, Table!Parses, Proved!Parses
<1>5. /\ \A line, k : Table!Column(line, k) = Proved!Column(line, k)
      /\ \A line : Table!RowOf(line) = Proved!RowOf(line)
  BY <1>4 DEF Table!Column, Proved!Column, Table!RowOf, Proved!RowOf
<1>6. /\ \A i : Table!Live(i) <=> Proved!Live(i)
      /\ \A positions : Table!Sound(positions) <=> Proved!Sound(positions)
  BY DEF Table!Live, Proved!Live, Table!Sound, Proved!Sound
<1>7. /\ \A key, v, lo : Table!Visited(key, v, lo) = Proved!Visited(key, v, lo)
      /\ \A key, v, lo, k : Table!Match(key, v, lo, k) <=> Proved!Match(key, v, lo, k)
  BY DEF Table!Visited, Proved!Visited, Table!Match, Proved!Match
<1>8. /\ \A uid, k : Table!FoundByUid(uid, k) <=> Proved!FoundByUid(uid, k)
      /\ \A k : Table!ptrant(k) = Proved!ptrant(k)
  BY <1>7 DEF Table!FoundByUid, Proved!FoundByUid, Table!ptrant, Proved!ptrant
<1>9. \A uid : Table!VisitedByUid(uid) = Proved!VisitedByUid(uid)
  BY <1>7, <1>8 DEF Table!VisitedByUid, Proved!VisitedByUid
<1>10. /\ Table!Idle <=> Proved!Idle
       /\ Table!Forget <=> Proved!Forget
  BY DEF Table!Idle, Proved!Idle, Table!Forget, Proved!Forget
<1>11. /\ Table!Crash <=> Proved!Crash
       /\ Table!Undefined <=> Proved!Undefined
  BY <1>10 DEF Table!Crash, Proved!Crash, Table!Undefined, Proved!Undefined
<1>12. \A positions : Table!Fault(positions) <=> Proved!Fault(positions)
  BY <1>6, <1>11 DEF Table!Fault, Proved!Fault
<1>13. /\ \A e, n : Table!user_table_insert(e, n) <=> Proved!user_table_insert(e, n)
       /\ \A uid, ret : Table!user_table_delete(uid, ret) <=> Proved!user_table_delete(uid, ret)
  BY <1>3, <1>6, <1>8, <1>9, <1>10 DEF Table!user_table_insert, Proved!user_table_insert,
         Table!user_table_delete, Proved!user_table_delete
<1>14. \A r, ret : Table!user_table_update(r, ret) <=> Proved!user_table_update(r, ret)
  BY <1>6, <1>8, <1>9, <1>10 DEF Table!user_table_update, Proved!user_table_update
<1>15. /\ Table!save_opens <=> Proved!save_opens
       /\ Table!save_closes <=> Proved!save_closes
  BY <1>3, <1>6, <1>10 DEF Table!save_opens, Proved!save_opens,
         Table!save_closes, Proved!save_closes
<1>16. /\ \A h : Table!load_table(h) <=> Proved!load_table(h)
       /\ Table!user_table_init <=> Proved!user_table_init
  <2>1. \A h : Table!load_table(h) <=> Proved!load_table(h)
    BY <1>4, <1>5 DEF Table!load_table, Proved!load_table
  <2>2. Table!user_table_init <=> Proved!user_table_init
    BY <1>3, <2>1 DEF Table!user_table_init, Proved!user_table_init
  <2> QED  BY <2>1, <2>2
<1>17. /\ \A ret : Table!user_table_rollback(ret) <=> Proved!user_table_rollback(ret)
       /\ Table!rollback_faults <=> Proved!rollback_faults
  BY <1>4, <1>10, <1>11, <1>16 DEF Table!user_table_rollback, Proved!user_table_rollback,
         Table!rollback_faults, Proved!rollback_faults
<1>18. Table!Kill <=> Proved!Kill
  BY <1>3, <1>6, <1>10 DEF Table!Kill, Proved!Kill
<1>19. /\ Table!KnownUids = Proved!KnownUids
       /\ Table!Drafts = Proved!Drafts
  BY DEF Table!KnownUids, Proved!KnownUids, Table!Drafts, Proved!Drafts
<1>20. /\ Table!Insert <=> Proved!Insert
       /\ Table!Delete <=> Proved!Delete
       /\ Table!Update <=> Proved!Update
  BY <1>13, <1>14, <1>19 DEF Table!Insert, Proved!Insert, Table!Delete, Proved!Delete,
         Table!Update, Proved!Update
<1>21. /\ Table!insert_faults <=> Proved!insert_faults
       /\ Table!save_faults <=> Proved!save_faults
       /\ Table!read_faults <=> Proved!read_faults
       /\ Table!write_faults <=> Proved!write_faults
       /\ Table!caller_fault <=> Proved!caller_fault
  BY <1>9, <1>10, <1>11, <1>12, <1>19 DEF Table!insert_faults, Proved!insert_faults,
         Table!save_faults, Proved!save_faults, Table!read_faults, Proved!read_faults,
         Table!write_faults, Proved!write_faults, Table!caller_fault, Proved!caller_fault
<1>22. /\ Table!Rollback <=> Proved!Rollback
       /\ Table!Faults <=> Proved!Faults
       /\ Table!Next <=> Proved!Next
  BY <1>15, <1>16, <1>17, <1>18, <1>20, <1>21 DEF Table!Rollback, Proved!Rollback,
         Table!Faults, Proved!Faults, Table!Next, Proved!Next
<1>23. /\ Table!TypeOK <=> Proved!TypeOK
       /\ Table!UidsIncrease <=> Proved!UidsIncrease
  BY <1>2, <1>6 DEF Table!TypeOK, Proved!TypeOK, Table!UidsIncrease, Proved!UidsIncrease
<1> QED  BY <1>2, <1>16, <1>22, <1>23

\* The assumptions of UserTable hold of this module's constants.
LEMMA Assumed ==
  /\ Proved!admin \in Proved!Entry
  /\ InitialFile = Missing \/ (InitialFile \in Seq(Proved!Line) /\ Proved!Increasing(InitialFile))
  /\ Missing \notin Seq(Proved!Line)
  /\ Torn \in STRING
  /\ MaxNodes \in Nat /\ MaxUid \in Nat /\ MAX_ROWS \in Nat
  /\ Passwords \subseteq Proved!Text
  /\ Entries \subseteq Proved!Entry
<1>1. /\ Table!Text = Proved!Text /\ Table!Entry = Proved!Entry /\ Table!Line = Proved!Line
      /\ \A f : Table!Increasing(f) <=> Proved!Increasing(f)
      /\ Table!admin = Proved!admin
  BY DEF Table!Text, Proved!Text, Table!Entry, Proved!Entry, Table!Line, Proved!Line,
         Table!Increasing, Proved!Increasing, Table!admin, Proved!admin
<1> QED  BY <1>1, TextsAssumption, BoundsAssumption, FileAssumption

\* The table keeps its types and the order of its uids.
LEMMA TableKept ==
  Table!TypeOK /\ Table!UidsIncrease /\ [Table!Next]_(Table!vars)
    => (Table!TypeOK /\ Table!UidsIncrease)'
<1>1. (Table!TypeOK <=> Proved!TypeOK) /\ (Table!UidsIncrease <=> Proved!UidsIncrease)
  BY SameTable
<1>2. ((Table!TypeOK <=> Proved!TypeOK) /\ (Table!UidsIncrease <=> Proved!UidsIncrease))'
  BY <1>1, PTL
<1>3. [Table!Next]_(Table!vars) => [Proved!Next]_(Proved!vars)
  BY SameTable DEF Table!vars, Proved!vars
<1>4. Proved!UidsInv /\ [Proved!Next]_(Proved!vars) => Proved!UidsInv'
  BY Assumed, Proved!UidsNext
<1> QED  BY <1>1, <1>2, <1>3, <1>4 DEF Proved!UidsInv

-----------------------------------------------------------------------------
(* The invariant.                                                          *)

NextOK == next \in Seq(Nat) /\ HeapTypeOK

ListInv == Table!TypeOK /\ NextOK /\ Linked(Chain) /\ LastIsTail

HeapInv == Table!UidsIncrease /\ ListInv

\* What a list is, in terms of its places.
LEMMA Places ==
  ASSUME NEW c, Linked(c), heap \in Seq(Table!Row)
  PROVE  /\ Len(c) \in Nat /\ DOMAIN c = 1..Len(c) /\ Len(heap) \in Nat /\ DOMAIN heap = 1..Len(heap)
         /\ \A i \in 1..Len(c) : c[i] \in 1..Len(heap) /\ c[i] # NULL
         /\ c = <<>> <=> Len(c) = 0
         /\ \A k \in Nat : Follow(first, k) = Place(c, k + 1)
<1>1. Len(c) \in Nat /\ DOMAIN c = 1..Len(c) /\ Len(heap) \in Nat /\ DOMAIN heap = 1..Len(heap)
  BY LenProperties DEF Linked
<1>2. \A i \in 1..Len(c) : c[i] \in 1..Len(heap)
  BY <1>1, ElementOfSeq DEF Linked
<1>3. \A i \in 1..Len(c) : c[i] # NULL
  BY <1>1, <1>2 DEF NULL
<1>4. c = <<>> <=> Len(c) = 0
  BY EmptySeq DEF Linked
<1> QED  BY <1>1, <1>2, <1>3, <1>4, FollowPlace

\* A process that loses its memory has no list.
LEMMA LostIsEmpty ==
  ASSUME heap' = <<>>, Lost
  PROVE  Linked(<<>>)' /\ Chain' = <<>> /\ NextOK' /\ LastIsTail'
<1>1. /\ heap' = <<>> /\ next' = <<>> /\ first' = 0 /\ last' = 0
  BY DEF Lost, NULL
<1>2. <<>> \in Seq(1..Len(heap')) /\ <<>> \in Seq(Table!Row) /\ Len(<<>>) = 0 /\ DOMAIN <<>> = {}
      /\ <<>> \in Seq(Nat)
  OBVIOUS
<1>3. Linked(<<>>)'
  BY <1>1, <1>2 DEF Linked, NULL
<1>4. Chain' = <<>>
  BY <1>1, <1>2, <1>3, ChainBecomes
<1>5. NextOK'
  BY <1>1, <1>2 DEF NextOK, HeapTypeOK
<1> QED  BY <1>1, <1>3, <1>4, <1>5 DEF LastIsTail, NULL

\* One more row.
LEMMA Grown ==
  ASSUME heap \in Seq(Table!Row), NEW r \in Table!Row, heap' = Append(heap, r)
  PROVE  /\ Len(heap) \in Nat /\ DOMAIN heap = 1..Len(heap)
         /\ heap' \in Seq(Table!Row) /\ Len(heap') = Len(heap) + 1
         /\ \A n \in 1..Len(heap) : heap'[n] = heap[n]
BY LenProperties, AppendProperties

\* One more pointer.
LEMMA Pointed ==
  ASSUME NEW s \in Seq(Nat), NEW q \in Nat, NEW t, t = Append(s, q)
  PROVE  /\ t \in Seq(Nat) /\ Len(s) \in Nat /\ Len(t) = Len(s) + 1 /\ t[Len(s) + 1] = q
         /\ \A m \in 1..Len(s) : t[m] = s[m]
BY AppendProperties, LenProperties

\* Another pointer in a place.
IsTurned(t, s, p, v) == t = [s EXCEPT ![p] = v]

TurnedTo(t, s, p, v) == /\ t \in Seq(Nat) /\ Len(t) = Len(s)
                        /\ \A m \in 1..Len(s) : t[m] = IF m = p THEN v ELSE s[m]

LEMMA Turned ==
  \A s \in Seq(Nat) : \A p \in 1..Len(s) : \A v \in Nat : \A t :
    IsTurned(t, s, p, v) => TurnedTo(t, s, p, v)
BY ExceptSeq DEF IsTurned, TurnedTo

\* Pointers behind others.
IsJoined(w, t, q) == w = t \o q

JoinedTo(w, t, q) == /\ w \in Seq(Nat) /\ Len(w) = Len(t) + Len(q)
                     /\ \A m \in 1..Len(t) : w[m] = t[m]
                     /\ \A i \in 1..Len(q) : w[Len(t) + i] = q[i]

LEMMA TwoParts == \A t, q \in Seq(Nat) : \A w : IsJoined(w, t, q) => JoinedTo(w, t, q)
<1> SUFFICES ASSUME NEW t \in Seq(Nat), NEW q \in Seq(Nat) PROVE JoinedTo(t \o q, t, q)
  BY Zenon DEF IsJoined
<1>1. /\ t \o q \in Seq(Nat) /\ Len(t \o q) = Len(t) + Len(q)
      /\ \A i \in 1..Len(t) + Len(q) : (t \o q)[i] = IF i <= Len(t) THEN t[i] ELSE q[i - Len(t)]
  BY ConcatProperties
<1>2. Len(t) \in Nat /\ Len(q) \in Nat
  BY LenProperties
<1>3. ASSUME NEW i \in 1..Len(q) PROVE (t \o q)[Len(t) + i] = q[i]
  <2>1. /\ Len(t) + i \in 1..Len(t) + Len(q) /\ ~(Len(t) + i <= Len(t))
        /\ (Len(t) + i) - Len(t) = i
    BY <1>2
  <2> QED  BY <1>1, <2>1
<1>4. ASSUME NEW m \in 1..Len(t) PROVE (t \o q)[m] = t[m]
  <2>1. m \in 1..Len(t) + Len(q) /\ m <= Len(t)
    BY <1>2
  <2> QED  BY <1>1, <2>1
<1> QED  BY <1>1, <1>3, <1>4 DEF JoinedTo

LEMMA NextIs ==
  ASSUME NextOK
  PROVE  /\ next \in Seq(Nat) /\ Len(next) = Len(heap) /\ DOMAIN next = 1..Len(heap)
         /\ \A p \in 1..Len(heap) : next[p] \in 0..Len(heap)
BY LenProperties DEF NextOK, HeapTypeOK

LEMMA RowOfEntry == ASSUME NEW e \in Table!Entry, NEW u \in Nat PROVE Table!WithUid(e, u) \in Table!Row
BY DEF Table!WithUid, Table!Entry, Table!Row

\* insert links the new row after the last one, or starts the list with it.
LEMMA Inserted ==
  ASSUME HeapInv, NEW e \in Entries, user_table_insert(e)
  PROVE  Table!Insert /\ NextOK' /\ Linked(Chain)' /\ LastIsTail'
<1>1. PICK c : c = Chain
  OBVIOUS
<1>2. PICK u : u = Len(heap) + 1
  OBVIOUS
<1>3. PICK r : r = Table!WithUid(e, lastUid + 1)
  OBVIOUS
<1>4. heap \in Seq(Table!Row) /\ lastUid \in Nat /\ Linked(c) /\ LastIsTail /\ NextOK
  BY <1>1 DEF HeapInv, ListInv, Table!TypeOK
<1>5. r \in Table!Row
  BY <1>3, <1>4, RowOfEntry, TextsAssumption
<1>6. heap' = Append(heap, r) /\ last' = u
  BY <1>2, <1>3 DEF user_table_insert
<1>7. /\ Len(heap) \in Nat /\ heap' \in Seq(Table!Row) /\ Len(heap') = Len(heap) + 1 /\ u \in Nat
  BY <1>2, <1>4, <1>5, <1>6, Grown
<1>8. /\ Len(c) \in Nat /\ DOMAIN c = 1..Len(c) /\ Len(c) <= Len(heap)
      /\ \A i \in 1..Len(c) : c[i] \in 1..Len(heap) /\ c[i] # NULL
      /\ c = <<>> <=> Len(c) = 0
  BY <1>4, Places DEF Linked
<1>9. /\ next \in Seq(Nat) /\ Len(next) = Len(heap)
      /\ \A p \in 1..Len(heap) : next[p] \in 0..Len(heap)
  BY <1>4, NextIs
<1>10. PICK d : d = IF rows = 0 THEN <<u>> ELSE Append(c, u)
  OBVIOUS
<1>11. Linked(d)' /\ NextOK' /\ last' = d[Len(d)] /\ d # <<>> /\ (rows # 0 => Table!Live(Len(c)))
  <2>1. CASE rows = 0
    <3>1. d = <<u>> /\ first' = u /\ next' = Append(next, 0)
      BY <1>2, <1>10, <2>1 DEF user_table_insert, NULL
    <3>2. /\ next' \in Seq(Nat) /\ Len(next') = Len(heap) + 1 /\ next'[Len(heap) + 1] = 0
          /\ \A m \in 1..Len(heap) : next'[m] = next[m]
      BY <1>9, <3>1, Pointed
    <3>3. HeapTypeOK'
      <4>1. \A p \in 1..(Len(heap) + 1) : next'[p] \in 0..(Len(heap) + 1)
        <5>1. \A p \in 1..(Len(heap) + 1) : p = Len(heap) + 1 \/ p \in 1..Len(heap)
          BY <1>9
        <5> QED  BY <1>7, <1>9, <3>2, <5>1
      <4>2. DOMAIN next' = 1..(Len(heap) + 1)
        BY <3>2, LenProperties
      <4> QED  BY <1>2, <1>6, <1>7, <3>1, <3>2, <4>1, <4>2 DEF HeapTypeOK
    <3>4. d \in Seq(1..Len(heap')) /\ Len(d) = 1 /\ DOMAIN d = {1} /\ d[1] = u
      BY <1>2, <1>7, <3>1
    <3>5. Linked(d)'
      BY <1>2, <1>7, <3>1, <3>2, <3>4 DEF Linked, NULL
    <3>6. d # <<>> /\ last' = d[Len(d)]
      BY <1>6, <3>1, <3>4
    <3>7. NextOK'
      BY <3>2, <3>3 DEF NextOK
    <3> QED  BY <2>1, <3>5, <3>6, <3>7
  <2>2. CASE rows # 0
    <3>1. /\ d = Append(c, u) /\ first' = first /\ Valid(last)
          /\ next' = Append([next EXCEPT ![last] = u], 0)
      BY <1>2, <1>10, <2>2 DEF user_table_insert, NULL
    <3>2. c # <<>> /\ last = c[Len(c)] /\ Len(c) \in 1..Len(c) /\ last \in 1..Len(heap) /\ last \notin freed
      BY <1>1, <1>4, <1>8, <3>1 DEF LastIsTail, Valid
    <3>3. Table!Live(Len(c))
      BY <1>1, <1>8, <3>2 DEF Table!Live
    <3>4. PICK t : t = [next EXCEPT ![last] = u]
      OBVIOUS
    <3>5. /\ t \in Seq(Nat) /\ Len(t) = Len(heap)
          /\ \A m \in 1..Len(heap) : t[m] = IF m = last THEN u ELSE next[m]
      <4>1. next \in Seq(Nat) /\ Len(next) = Len(heap) /\ last \in 1..Len(next) /\ u \in Nat
        BY <1>7, <1>9, <3>2
      <4>2. IsTurned(t, next, last, u)
        BY <3>4, Zenon DEF IsTurned
      <4>3. TurnedTo(t, next, last, u)
        BY <4>1, <4>2, Turned, Zenon
      <4> QED  BY <4>1, <4>3, Zenon DEF TurnedTo
    <3>6. /\ next' \in Seq(Nat) /\ Len(next') = Len(heap) + 1 /\ next'[Len(heap) + 1] = 0
          /\ \A m \in 1..Len(heap) : next'[m] = t[m]
      <4>1. next' = Append(t, 0)
        BY <3>1, <3>4
      <4>2. t \in Seq(Nat) /\ Len(t) = Len(heap) /\ 0 \in Nat
        BY <3>5
      <4> QED  BY <4>1, <4>2, Pointed
    <3>7. \A m \in 1..Len(heap) : next'[m] = IF m = last THEN u ELSE next[m]
      BY <3>5, <3>6
    <3>8. HeapTypeOK'
      <4>1. \A p \in 1..(Len(heap) + 1) : next'[p] \in 0..(Len(heap) + 1)
        <5>1. /\ \A p \in 1..(Len(heap) + 1) : p \in 1..Len(heap) \/ p = Len(heap) + 1
              /\ \A q \in 0..Len(heap) : q \in 0..(Len(heap) + 1)
              /\ u \in 0..(Len(heap) + 1) /\ 0 \in 0..(Len(heap) + 1)
          BY <1>2, <1>7
        <5>2. \A p \in 1..Len(heap) : next'[p] \in 0..(Len(heap) + 1)
          BY <1>9, <3>7, <5>1, Zenon
        <5> QED  BY <3>6, <5>1, <5>2, Zenon
      <4>2. DOMAIN next' = 1..(Len(heap) + 1)
        BY <3>6, LenProperties
      <4>3. first \in 0..Len(heap)
        BY <1>4 DEF NextOK, HeapTypeOK
      <4> QED  BY <1>2, <1>6, <1>7, <3>1, <3>6, <4>1, <4>2, <4>3 DEF HeapTypeOK
    <3>9. /\ d \in Seq(1..Len(heap')) /\ Len(d) = Len(c) + 1 /\ d[Len(c) + 1] = u
          /\ \A i \in 1..Len(c) : d[i] = c[i]
      <4>1. c \in Seq(1..(Len(heap) + 1)) /\ u \in 1..(Len(heap) + 1)
        <5>1. 1..Len(heap) \subseteq 1..(Len(heap) + 1)
          BY <1>7
        <5> QED  BY <1>2, <1>4, <1>7, <5>1, SeqMonotonic DEF Linked
      <4> QED  BY <1>7, <3>1, <4>1, AppendProperties
    <3>10. Linked(d)'
      <4>1. DOMAIN d = 1..(Len(c) + 1)
        BY <3>9, LenProperties
      <4>2. Len(d) <= Len(heap')
        BY <1>7, <1>8, <3>9
      <4>3. first' = IF d = <<>> THEN NULL ELSE d[1]
        <5>1. first = c[1] /\ 1 \in 1..Len(c)
          BY <1>4, <1>8, <3>2 DEF Linked
        <5>2. d # <<>>
          BY <3>1, <1>7, <1>4, AppendProperties DEF Linked
        <5> QED  BY <3>1, <3>9, <5>1, <5>2
      <4>4. \A i \in DOMAIN d : next'[d[i]] = IF i < Len(d) THEN d[i + 1] ELSE NULL
        <5> SUFFICES ASSUME NEW i \in 1..(Len(c) + 1)
                     PROVE  next'[d[i]] = IF i < Len(c) + 1 THEN d[i + 1] ELSE NULL
          BY <3>9, <4>1
        <5>0. Len(c) \in Nat
          BY <1>8
        <5>1. CASE i < Len(c)
          <6>1. i \in 1..Len(c) /\ i + 1 \in 1..Len(c)
            BY <1>8, <5>1
          <6>2. c[i] # last
            <7>1. c[i] = c[Len(c)] => i = Len(c)
              BY <1>4, <1>8, <3>2, <6>1 DEF Linked
            <7>2. i # Len(c)
              BY <5>0, <5>1
            <7> QED  BY <3>2, <7>1, <7>2, Zenon
          <6>3. next'[c[i]] = next[c[i]] /\ next[c[i]] = c[i + 1]
            BY <1>4, <1>8, <3>7, <5>1, <6>1, <6>2 DEF Linked
          <6> QED  BY <3>9, <5>1, <6>1, <6>3, <1>8
        <5>2. CASE i = Len(c)
          BY <1>8, <3>2, <3>7, <3>9, <5>2
        <5>3. CASE i = Len(c) + 1
          BY <1>2, <1>8, <3>6, <3>9, <5>3 DEF NULL
        <5>4. i < Len(c) \/ i = Len(c) \/ i = Len(c) + 1
          BY <5>0
        <5> QED  BY <5>1, <5>2, <5>3, <5>4, Zenon
      <4>5. \A i, j \in DOMAIN d : d[i] = d[j] => i = j
        <5>1. \A i \in 1..Len(c) : d[i] # u
          BY <1>2, <1>7, <1>8, <3>9
        <5>2. \A i \in 1..(Len(c) + 1) : i = Len(c) + 1 \/ i \in 1..Len(c)
          BY <1>8
        <5>3. \A i, j \in 1..Len(c) : d[i] = d[j] => i = j
          BY <1>4, <1>8, <3>9 DEF Linked
        <5> QED  BY <3>9, <4>1, <5>1, <5>2, <5>3
      <4> QED  BY <3>9, <4>2, <4>3, <4>4, <4>5 DEF Linked
    <3>11. d # <<>>
      BY <3>1, <1>7, <1>4, AppendProperties DEF Linked
    <3> QED  BY <1>6, <3>3, <3>6, <3>8, <3>9, <3>10, <3>11 DEF NextOK
  <2> QED  BY <2>1, <2>2
<1>12. Chain' = d
  BY <1>7, <1>11, ChainBecomes
<1>13. Table!user_table_insert(e, Len(heap) + 1)
  BY <1>1, <1>2, <1>3, <1>6, <1>10, <1>11, <1>12 DEF user_table_insert, Table!user_table_insert
<1>14. LastIsTail'
  BY <1>11, <1>12 DEF LastIsTail
<1> QED  BY <1>11, <1>12, <1>13, <1>14 DEF Table!Insert

-----------------------------------------------------------------------------
(* The search of delete and update.                                        *)

\* ptr and ptrant in round i.
Turn(i) == IF i = 1 THEN [ptr |-> Follow(first, 1), ptrant |-> first]
           ELSE [ptr |-> Follow(first, i), ptrant |-> Follow(first, i)]

\* The loop advances ptr by one row a round, and ptrant with it after the first.
LEMMA Rounded == \A i \in Nat : i # 0 => round(i) = Turn(i)
<1> SUFFICES ASSUME NEW i \in Nat, i # 0 PROVE round(i) = Turn(i)
  OBVIOUS
<1>1. \A j \in Nat : j # 0 => Turn(j + 1) = [ptr    |-> Follow(Turn(j).ptr, 1),
                                             ptrant |-> Follow(Turn(j).ptr, 1)]
  <2> SUFFICES ASSUME NEW j \in Nat, j # 0
               PROVE  Turn(j + 1) = [ptr    |-> Follow(Turn(j).ptr, 1),
                                     ptrant |-> Follow(Turn(j).ptr, 1)]
    OBVIOUS
  <2>1. Turn(j).ptr = Follow(first, j)
    BY DEF Turn
  <2>2. \A p : Follow(p, 1) = After(p)
    <3>1. \A p : Follow(p, 0 + 1) = After(Follow(p, 0)) /\ Follow(p, 0) = p
      BY FollowStep
    <3>2. 0 + 1 = 1
      OBVIOUS
    <3> QED  BY <3>1, <3>2, Zenon
  <2>3. Follow(first, j + 1) = Follow(Follow(first, j), 1)
    BY <2>2, FollowStep
  <2>4. j + 1 # 1
    OBVIOUS
  <2> QED  BY <2>1, <2>3, <2>4 DEF Turn
<1>2. PICK loop : loop = CHOOSE f : f = [j \in 1..i |->
        IF j = 1 THEN [ptr |-> Follow(first, 1), ptrant |-> first]
        ELSE [ptr |-> Follow(f[j - 1].ptr, 1), ptrant |-> Follow(f[j - 1].ptr, 1)]]
  OBVIOUS
<1>3. PICK f : f = [j \in 1..i |-> Turn(j)]
  OBVIOUS
<1>4. \A j \in 1..i : f[j] = IF j = 1 THEN [ptr |-> Follow(first, 1), ptrant |-> first]
                             ELSE [ptr |-> Follow(f[j - 1].ptr, 1), ptrant |-> Follow(f[j - 1].ptr, 1)]
  <2> SUFFICES ASSUME NEW j \in 1..i
               PROVE  f[j] = IF j = 1 THEN [ptr |-> Follow(first, 1), ptrant |-> first]
                             ELSE [ptr |-> Follow(f[j - 1].ptr, 1), ptrant |-> Follow(f[j - 1].ptr, 1)]
    OBVIOUS
  <2>1. f[j] = Turn(j)
    BY <1>3
  <2>2. CASE j = 1
    BY <2>1, <2>2 DEF Turn
  <2>3. CASE j # 1
    <3>1. j - 1 \in 1..i /\ j - 1 \in Nat /\ j - 1 # 0 /\ (j - 1) + 1 = j
      BY <2>3
    <3>2. f[j - 1] = Turn(j - 1)
      BY <1>3, <3>1
    <3> QED  BY <1>1, <2>1, <2>3, <3>1, <3>2
  <2> QED  BY <2>2, <2>3
<1>5. f = [j \in 1..i |->
        IF j = 1 THEN [ptr |-> Follow(first, 1), ptrant |-> first]
        ELSE [ptr |-> Follow(f[j - 1].ptr, 1), ptrant |-> Follow(f[j - 1].ptr, 1)]]
  BY <1>3, <1>4
<1>6. loop = [j \in 1..i |->
        IF j = 1 THEN [ptr |-> Follow(first, 1), ptrant |-> first]
        ELSE [ptr |-> Follow(loop[j - 1].ptr, 1), ptrant |-> Follow(loop[j - 1].ptr, 1)]]
  BY <1>2, <1>5
<1>7. PICK T : T = {j \in Nat : j < i => loop[j + 1] = Turn(j + 1)}
  OBVIOUS
<1>8. 0 \in T
  BY <1>6, <1>7 DEF Turn
<1>9. ASSUME NEW j \in Nat, j \in T PROVE j + 1 \in T
  <2>1. SUFFICES ASSUME j + 1 < i PROVE loop[(j + 1) + 1] = Turn((j + 1) + 1)
    BY <1>7
  <2>2. (j + 1) + 1 \in 1..i /\ (j + 1) + 1 # 1 /\ ((j + 1) + 1) - 1 = j + 1
    BY <2>1
  <2>3. loop[j + 1] = Turn(j + 1)
    BY <1>7, <1>9, <2>1
  <2>4. loop[(j + 1) + 1] = [ptr |-> Follow(loop[j + 1].ptr, 1), ptrant |-> Follow(loop[j + 1].ptr, 1)]
    BY <1>6, <2>2
  <2>5. j + 1 \in Nat /\ j + 1 # 0
    OBVIOUS
  <2> QED  BY <1>1, <2>3, <2>4, <2>5
<1>10. \A j \in Nat : j \in T
  BY <1>8, <1>9, InductionOnNat
<1>11. loop[i] = Turn(i)
  <2>1. i - 1 \in T /\ i - 1 < i /\ (i - 1) + 1 = i
    BY <1>10
  <2> QED  BY <1>7, <2>1
<1>12. round(i) = loop[i]
  BY <1>2 DEF round
<1> QED  BY <1>11, <1>12

\* The k-th row has the uid.
Hit(c, uid, k) == k \in 1..Len(c) /\ heap[c[k]].uid = uid

\* Round i looks at the row after the i-th; ptrant is that row too, but for
\* the first round.
LEMMA RoundPlace ==
  ASSUME NEW c, Linked(c), heap \in Seq(Table!Row), NEW i \in Nat, i # 0
  PROVE  /\ round(i).ptr = Place(c, i + 1)
         /\ round(i).ptrant = IF i = 1 THEN Place(c, 1) ELSE Place(c, i + 1)
<1>1. round(i) = Turn(i)
  BY Rounded
<1>2. Follow(first, 1) = Place(c, 2) /\ Follow(first, i) = Place(c, i + 1) /\ first = Place(c, 1)
  <2>1. \A k \in Nat : Follow(first, k) = Place(c, k + 1)
    BY Places
  <2>2. 0 + 1 = 1 /\ 1 + 1 = 2 /\ 0 \in Nat /\ 1 \in Nat /\ Follow(first, 0) = first
    BY FollowStep
  <2> QED  BY <2>1, <2>2, Zenon
<1>3. CASE i = 1
  <2>1. 1 + 1 = 2
    OBVIOUS
  <2> QED  BY <1>1, <1>2, <1>3, <2>1 DEF Turn
<1>4. CASE i # 1
  BY <1>1, <1>2, <1>4 DEF Turn
<1> QED  BY <1>3, <1>4

LEMMA RoundHits ==
  ASSUME NEW c, Linked(c), heap \in Seq(Table!Row), NEW i \in Nat, i # 0, NEW uid
  PROVE  round(i).ptr # NULL /\ heap[round(i).ptr].uid = uid <=> Hit(c, uid, i + 1)
<1>1. round(i).ptr = Place(c, i + 1)
  BY RoundPlace
<1>2. Len(c) \in Nat /\ \A k \in 1..Len(c) : c[k] # NULL
  BY Places
<1>3. i + 1 <= Len(c) <=> i + 1 \in 1..Len(c)
  BY <1>2
<1> QED  BY <1>1, <1>2, <1>3 DEF Place, Hit

\* The search ends with the first row that has the uid, from the second on, or
\* with the last of `rows' rows.
LEMMA SearchEnds ==
  ASSUME NEW c, Linked(c), heap \in Seq(Table!Row), rows \in Nat, rows > 1, NEW uid
  PROVE  /\ Rounds(uid) \in 1..(rows - 1)
         /\ \A k \in 2..Rounds(uid) : ~Hit(c, uid, k)
         /\ Finds(uid) <=> Hit(c, uid, Rounds(uid) + 1)
         /\ ~Finds(uid) => Rounds(uid) = rows - 1
<1>1. PICK found : found = {i \in 1..(rows - 1) : round(i).ptr # NULL /\ heap[round(i).ptr].uid = uid}
  OBVIOUS
<1>2. \A i \in 1..(rows - 1) : i \in Nat /\ i # 0 /\ (i \in found <=> Hit(c, uid, i + 1))
  BY <1>1, RoundHits
<1>3. found \subseteq Nat /\ found \subseteq 1..(rows - 1)
  BY <1>1
<1>4. Rounds(uid) = IF found = {} THEN rows - 1 ELSE CHOOSE i \in found : \A j \in found : i <= j
  BY <1>1 DEF Rounds
<1>5. PICK R : R = Rounds(uid)
  OBVIOUS
<1>6. R \in 1..(rows - 1) /\ (\A j \in found : R <= j) /\ (R \in found \/ (found = {} /\ R = rows - 1))
  <2>1. CASE found = {}
    BY <1>4, <1>5, <2>1
  <2>2. CASE found # {}
    <3>1. \E i \in found : \A j \in found : i <= j
      BY <1>3, <2>2, LeastNatural
    <3>2. R \in found /\ \A j \in found : R <= j
      BY <1>4, <1>5, <2>2, <3>1
    <3> QED  BY <1>3, <3>2
  <2> QED  BY <2>1, <2>2
<1>7. \A k \in 2..R : ~Hit(c, uid, k)
  <2> SUFFICES ASSUME NEW k \in 2..R, Hit(c, uid, k) PROVE FALSE
    OBVIOUS
  <2>1. k - 1 \in 1..(rows - 1) /\ (k - 1) + 1 = k /\ ~(R <= k - 1)
    BY <1>6
  <2> QED  BY <1>2, <1>6, <2>1
<1>8. Finds(uid) <=> Hit(c, uid, R + 1)
  BY <1>5, <1>6, RoundHits DEF Finds
<1>9. ~Hit(c, uid, R + 1) => R = rows - 1
  BY <1>2, <1>6
<1> QED  BY <1>5, <1>6, <1>7, <1>8, <1>9

\* It is the search of UserTable.
LEMMA SameSearch ==
  ASSUME ListInv, NEW c, c = Chain, rows > 1, NEW uid
  PROVE  /\ Table!Visited("uid", uid, 2) = 1..(Rounds(uid) + 1)
         /\ \A k : Table!FoundByUid(uid, k) <=> (Finds(uid) /\ k = Rounds(uid) + 1)
<1>1. Linked(c) /\ heap \in Seq(Table!Row) /\ rows \in Nat
  BY DEF ListInv, Table!TypeOK
<1>2. PICK R : R = Rounds(uid)
  OBVIOUS
<1>3. /\ R \in 1..(rows - 1) /\ (\A k \in 2..R : ~Hit(c, uid, k))
      /\ Finds(uid) <=> Hit(c, uid, R + 1)
      /\ ~Finds(uid) => R = rows - 1
  BY <1>1, <1>2, SearchEnds
<1>4. DOMAIN c = 1..Len(c) /\ Len(c) \in Nat
  BY <1>1, Places
<1>5. ASSUME NEW i \in 1..rows
      PROVE  (\A j \in 2..(i - 1) : j \in DOMAIN Chain => heap[Chain[j]].uid # uid) <=> i \in 1..(R + 1)
  <2>1. CASE i \in 1..(R + 1)
    <3>1. \A j \in 2..(i - 1) : j \in 2..R
      BY <1>3, <2>1
    <3> QED  BY <1>3, <1>4, <2>1, <3>1 DEF Hit
  <2>2. CASE i \notin 1..(R + 1)
    <3>1. R + 1 \in 2..(i - 1) /\ R # rows - 1
      BY <1>1, <1>3, <2>2
    <3> QED  BY <1>3, <1>4, <2>2, <3>1 DEF Hit
  <2> QED  BY <2>1, <2>2
<1>6. Table!Visited("uid", uid, 2) = 1..(R + 1)
  <2>1. 1..(R + 1) \subseteq 1..rows
    BY <1>1, <1>3
  <2> QED  BY <1>5, <2>1 DEF Table!Visited
<1>7. ASSUME NEW k PROVE Table!FoundByUid(uid, k) <=> (Finds(uid) /\ k = R + 1)
  <2>1. Table!FoundByUid(uid, k) <=> Table!Match("uid", uid, 2, k)
    BY <1>1 DEF Table!FoundByUid
  <2>2. Table!Match("uid", uid, 2, k) <=> k \in 1..(R + 1) /\ k >= 2 /\ Hit(c, uid, k)
    BY <1>4, <1>6 DEF Table!Match, Hit
  <2>3. k \in 1..(R + 1) /\ k >= 2 <=> k \in 2..R \/ k = R + 1
    BY <1>3
  <2> QED  BY <1>3, <2>1, <2>2, <2>3
<1> QED  BY <1>2, <1>6, <1>7

Joined(ps, a, b, e) == ps = a \o b \o e

Parts(ps, a, b, e) ==
  /\ ps \in Seq(Nat)
  /\ Len(ps) = 1 + Len(b) + Len(e) /\ ps[1] = a[1]
  /\ \A m \in 2..(Len(b) + 1) : ps[m] = b[m - 1]
  /\ Len(e) # 0 => ps[Len(b) + 2] = e[1]

LEMMA ThreeParts ==
  \A a, b, e \in Seq(Nat) : \A ps : Joined(ps, a, b, e) /\ Len(a) = 1 => Parts(ps, a, b, e)
<1> SUFFICES ASSUME NEW a \in Seq(Nat), NEW b \in Seq(Nat), NEW e \in Seq(Nat), NEW ps,
                    Joined(ps, a, b, e), Len(a) = 1
             PROVE  Parts(ps, a, b, e)
  OBVIOUS
<1>1. PICK ab : ab = a \o b
  OBVIOUS
<1>2. Len(a) \in Nat /\ Len(b) \in Nat /\ Len(e) \in Nat
  BY LenProperties
<1>3. ab \in Seq(Nat) /\ Len(ab) = Len(a) + Len(b)
  BY <1>1, ConcatProperties
<1>4. ps = ab \o e
  BY <1>1 DEF Joined
<1>5. ps \in Seq(Nat) /\ Len(ps) = Len(ab) + Len(e)
  BY <1>3, <1>4, ConcatProperties
<1>6. ASSUME NEW m \in 1..(Len(b) + 1) PROVE ps[m] = ab[m]
  BY <1>2, <1>3, <1>4, <1>5
<1>7. ps[1] = a[1]
  <2>1. ab[1] = a[1]
    BY <1>1, <1>2, <1>3
  <2>2. 1 \in 1..(Len(b) + 1)
    BY <1>2
  <2> QED  BY <1>6, <2>1, <2>2
<1>8. ASSUME NEW m \in 2..(Len(b) + 1) PROVE ps[m] = b[m - 1]
  <2>1. ab[m] = b[m - 1]
    BY <1>1, <1>2, <1>3
  <2>2. m \in 1..(Len(b) + 1)
    BY <1>2
  <2> QED  BY <1>6, <2>1, <2>2
<1>9. ASSUME Len(e) # 0 PROVE ps[Len(b) + 2] = e[1]
  <2>1. Len(ab) + 1 = Len(b) + 2 /\ Len(ab) + 1 \in 1..(Len(ab) + Len(e))
    BY <1>2, <1>3, <1>9
  <2>2. ps[Len(ab) + 1] = e[1]
    BY <1>2, <1>3, <1>4, <1>5, <1>9
  <2> QED  BY <2>1, <2>2
<1>10. Len(ps) = 1 + Len(b) + Len(e)
  BY <1>2, <1>3, <1>5
<1> QED  BY <1>5, <1>7, <1>8, <1>9, <1>10 DEF Parts

\* What the search reads: one place after the other, then the last if it found.
LEMMA ReadsPlaces ==
  ASSUME ListInv, NEW c, c = Chain, rows > 1, NEW uid, NEW R, R = Rounds(uid), NEW ps, ps = Reads(uid)
  PROVE  /\ DOMAIN ps = 1..(IF Finds(uid) THEN R + 2 ELSE R + 1)
         /\ \A m \in 1..(R + 1) : ps[m] = Place(c, m)
         /\ Finds(uid) => ps[R + 2] = last
<1>1. Linked(c) /\ heap \in Seq(Table!Row) /\ rows \in Nat
  BY DEF ListInv, Table!TypeOK
<1>2. R \in Nat /\ R >= 1
  BY <1>1, SearchEnds
<1>3. /\ Len(c) \in Nat /\ Len(heap) \in Nat
      /\ \A i \in 1..Len(c) : c[i] \in 1..Len(heap)
  BY <1>1, Places
<1>4. first \in Nat /\ last \in Nat /\ first = Place(c, 1)
  <2>1. first \in Nat /\ last \in Nat
    BY <1>3 DEF ListInv, NextOK, HeapTypeOK
  <2>2. Follow(first, 0) = Place(c, 0 + 1) /\ Follow(first, 0) = first
    BY <1>1, Places, FollowStep
  <2>3. 0 + 1 = 1
    OBVIOUS
  <2> QED  BY <2>1, <2>2, <2>3
<1>5. \A m \in Nat : m # 0 => Place(c, m) \in Nat
  BY <1>3 DEF Place, NULL
<1>6. ASSUME NEW i \in 1..R PROVE round(i).ptr = Place(c, i + 1)
  <2>1. i \in Nat /\ i # 0
    BY <1>2
  <2> QED  BY <1>1, <2>1, RoundPlace
<1>7. PICK b : b = [i \in 1..R |-> round(i).ptr]
  OBVIOUS
<1>8. b \in Seq(Nat) /\ Len(b) = R /\ \A i \in 1..R : b[i] = Place(c, i + 1)
  <2>1. \A i \in 1..R : b[i] = Place(c, i + 1) /\ b[i] \in Nat
    BY <1>2, <1>5, <1>6, <1>7
  <2> QED  BY <1>2, <1>7, <2>1, IsASeq, LenProperties
<1>9. PICK a : a = <<first>>
  OBVIOUS
<1>10. a \in Seq(Nat) /\ Len(a) = 1 /\ a[1] = first
  BY <1>4, <1>9
<1>11. PICK e : e = IF Finds(uid) THEN <<last>> ELSE <<>>
  OBVIOUS
<1>12. e \in Seq(Nat) /\ Len(e) = (IF Finds(uid) THEN 1 ELSE 0) /\ (Finds(uid) => e[1] = last)
  BY <1>4, <1>11
<1>13. Joined(ps, a, b, e)
  <2>1. rows # 0 /\ rows # 1
    BY <1>1
  <2>2. Reads(uid) = <<first>> \o [i \in 1..Rounds(uid) |-> round(i).ptr]
                     \o IF Finds(uid) THEN <<last>> ELSE <<>>
    BY <2>1, Zenon DEF Reads
  <2> QED  BY <1>7, <1>9, <1>11, <2>2, Zenon DEF Joined
<1>14. /\ ps \in Seq(Nat) /\ Len(ps) = 1 + R + Len(e) /\ ps[1] = first
       /\ \A m \in 2..(R + 1) : ps[m] = b[m - 1]
       /\ Len(e) # 0 => ps[R + 2] = e[1]
  <2>1. Len(b) = R /\ a[1] = first
    BY <1>8, <1>10
  <2>2. a \in Seq(Nat) /\ b \in Seq(Nat) /\ e \in Seq(Nat) /\ Len(a) = 1
    BY <1>8, <1>10, <1>12
  <2>3. Parts(ps, a, b, e)
    BY <1>13, <2>2, ThreeParts
  <2> QED  BY <2>1, <2>3, Zenon DEF Parts
<1>15. DOMAIN ps = 1..(IF Finds(uid) THEN R + 2 ELSE R + 1)
  <2>1. DOMAIN ps = 1..(1 + R + Len(e))
    BY <1>14, LenProperties
  <2> QED  BY <1>2, <1>12, <2>1
<1>16. \A m \in 1..(R + 1) : ps[m] = Place(c, m)
  <2> SUFFICES ASSUME NEW m \in 1..(R + 1) PROVE ps[m] = Place(c, m)
    OBVIOUS
  <2>1. CASE m = 1
    BY <1>4, <1>14, <2>1
  <2>2. CASE m # 1
    <3>1. m \in 2..(R + 1) /\ m - 1 \in 1..R /\ (m - 1) + 1 = m
      BY <1>2, <2>2
    <3> QED  BY <1>8, <1>14, <3>1
  <2> QED  BY <2>1, <2>2
<1> QED  BY <1>12, <1>14, <1>15, <1>16

\* A place can be read where the row of UserTable's list is live.
LEMMA PlaceValid ==
  ASSUME ListInv, NEW c, c = Chain, NEW m \in Nat, m # 0
  PROVE  /\ Valid(Place(c, m)) <=> Table!Live(m)
         /\ Place(c, m) = NULL <=> m \notin DOMAIN c
<1>1. Linked(c) /\ heap \in Seq(Table!Row)
  BY DEF ListInv, Table!TypeOK
<1>2. DOMAIN c = 1..Len(c) /\ Len(c) \in Nat /\ \A i \in 1..Len(c) : c[i] # NULL
  BY <1>1, Places
<1>3. m <= Len(c) <=> m \in DOMAIN c
  BY <1>2
<1>4. Place(c, m) = NULL <=> m \notin DOMAIN c
  BY <1>2, <1>3 DEF Place
<1>5. m \in DOMAIN c => Place(c, m) = c[m]
  BY <1>3 DEF Place
<1>6. Table!Live(m) <=> (m \in DOMAIN c /\ c[m] \notin freed)
  BY DEF Table!Live
<1> QED  BY <1>4, <1>5, <1>6 DEF Valid

\* What can be read through the pointers is sound in UserTable.
LEMMA SoundReads ==
  ASSUME ListInv, NEW c, c = Chain, NEW uid, Sound(Reads(uid))
  PROVE  /\ Table!Sound(Table!VisitedByUid(uid))
         /\ rows = 1 => Table!Live(1)
         /\ rows > 1 => \A m \in 1..(Rounds(uid) + 1) : Table!Live(m)
         /\ Finds(uid) => Valid(last)
<1>1. Linked(c) /\ heap \in Seq(Table!Row) /\ rows \in Nat
  BY DEF ListInv, Table!TypeOK
<1>2. /\ Len(c) \in Nat /\ DOMAIN c = 1..Len(c) /\ Follow(first, 0) = Place(c, 0 + 1)
      /\ Follow(first, 0) = first
  BY <1>1, Places, FollowStep
<1>3. 0 + 1 = 1
  OBVIOUS
<1>4. first = Place(c, 1)
  BY <1>2, <1>3
<1>5. CASE rows = 0
  <2>1. Table!VisitedByUid(uid) = {}
    <3>1. 1..rows = {} /\ ~(rows > 1)
      BY <1>5
    <3> QED  BY <3>1 DEF Table!VisitedByUid, Table!Visited
  <2> QED  BY <1>5, <2>1 DEF Table!Sound, Finds
<1>6. CASE rows = 1
  <2>1. Reads(uid) = <<first>>
    BY <1>6 DEF Reads
  <2>2. Valid(first)
    BY <2>1 DEF Sound
  <2>3. Table!Live(1)
    BY <1>4, <2>2, PlaceValid
  <2>4. Table!VisitedByUid(uid) \subseteq {1}
    <3>1. 1..rows = {1} /\ ~(rows > 1)
      BY <1>6
    <3> QED  BY <3>1 DEF Table!VisitedByUid, Table!Visited
  <2> QED  BY <1>6, <2>3, <2>4 DEF Table!Sound, Finds
<1>7. CASE rows > 1
  <2>1. PICK R : R = Rounds(uid)
    OBVIOUS
  <2>2. PICK ps : ps = Reads(uid)
    OBVIOUS
  <2>3. /\ DOMAIN ps = 1..(IF Finds(uid) THEN R + 2 ELSE R + 1)
        /\ \A m \in 1..(R + 1) : ps[m] = Place(c, m)
        /\ Finds(uid) => ps[R + 2] = last
    BY <1>7, <2>1, <2>2, ReadsPlaces
  <2>4. R \in Nat
    BY <1>1, <1>7, <2>1, SearchEnds
  <2>5. \A m \in 1..(R + 1) : Table!Live(m)
    <3> SUFFICES ASSUME NEW m \in 1..(R + 1) PROVE Table!Live(m)
      OBVIOUS
    <3>1. m \in DOMAIN ps /\ m \in Nat /\ m # 0
      BY <2>3, <2>4
    <3>2. Valid(Place(c, m))
      BY <2>2, <2>3, <3>1 DEF Sound
    <3> QED  BY <3>1, <3>2, PlaceValid
  <2>6. Finds(uid) => Valid(last)
    <3> SUFFICES ASSUME Finds(uid) PROVE Valid(last)
      OBVIOUS
    <3>1. R + 2 \in DOMAIN ps
      BY <2>3, <2>4
    <3> QED  BY <2>2, <2>3, <3>1 DEF Sound
  <2>7. ASSUME NEW i \in Table!VisitedByUid(uid) PROVE Table!Live(i)
    <3>1. CASE i \in Table!Visited("uid", uid, 2)
      BY <1>7, <2>1, <2>5, <3>1, SameSearch
    <3>2. CASE i \notin Table!Visited("uid", uid, 2)
      <4>1. i = Len(c) /\ \E k \in 2..rows : Table!FoundByUid(uid, k)
        BY <3>2 DEF Table!VisitedByUid
      <4>2. Finds(uid)
        BY <1>7, <4>1, SameSearch
      <4>3. Valid(last)
        BY <2>6, <4>2
      <4>4. last = IF c = <<>> THEN NULL ELSE c[Len(c)]
        BY DEF ListInv, LastIsTail
      <4>5. c # <<>> /\ last = c[Len(c)] /\ c[Len(c)] \notin freed
        BY <4>3, <4>4 DEF Valid
      <4>6. Len(c) \in 1..Len(c)
        <5>1. Len(c) # 0
          BY <1>1, <4>5, Places
        <5> QED  BY <1>2, <5>1
      <4> QED  BY <1>2, <4>1, <4>5, <4>6 DEF Table!Live
    <3> QED  BY <3>1, <3>2
  <2> QED  BY <1>7, <2>1, <2>5, <2>6, <2>7 DEF Table!Sound
<1> QED  BY <1>1, <1>5, <1>6, <1>7

-----------------------------------------------------------------------------
(* What delete and update make of the list.                                *)

\* d is s without what is between p and k, in the first case k included.
IsCut(d, s, p, k) ==
  /\ Len(d) = Len(s) - (k - p)
  /\ \A i \in 1..p : d[i] = s[i]
  /\ \A i \in (p + 1)..Len(d) : d[i] = s[i + (k - p)]

\* The same with x in its place.
IsSplice(d, s, p, x, k) ==
  /\ Len(d) = Len(s) - (k - p) + 1
  /\ \A i \in 1..p : d[i] = s[i]
  /\ d[p + 1] = x
  /\ \A i \in (p + 2)..Len(d) : d[i] = s[i + (k - p) - 1]

LEMMA CutAt ==
  \A S : \A s \in Seq(S) : \A p \in 0..Len(s) : \A k \in p..Len(s) :
    Proved!Cut(s, p, k) \in Seq(S) /\ IsCut(Proved!Cut(s, p, k), s, p, k)
<1> SUFFICES ASSUME NEW S, NEW s \in Seq(S), NEW p \in 0..Len(s), NEW k \in p..Len(s)
             PROVE  Proved!Cut(s, p, k) \in Seq(S) /\ IsCut(Proved!Cut(s, p, k), s, p, k)
  OBVIOUS
<1> QED  BY Assumed, Proved!CutSeq DEF IsCut

LEMMA SplicedAt ==
  \A S : \A s \in Seq(S) : \A p \in 0..Len(s) : \A k \in p..Len(s) : \A x \in S :
    Proved!Splice(s, p, x, k) \in Seq(S) /\ IsSplice(Proved!Splice(s, p, x, k), s, p, x, k)
<1> SUFFICES ASSUME NEW S, NEW s \in Seq(S), NEW p \in 0..Len(s), NEW k \in p..Len(s), NEW x \in S
             PROVE  Proved!Splice(s, p, x, k) \in Seq(S) /\ IsSplice(Proved!Splice(s, p, x, k), s, p, x, k)
  OBVIOUS
<1>1. Proved!Splice(s, p, x, k) \in Seq(S)
  BY Assumed, Proved!SpliceSeq
<1>2. Len(Proved!Splice(s, p, x, k)) = Len(s) - (k - p) + 1
  BY Assumed, Proved!SpliceSeq
<1>3. \A i \in 1..p : Proved!Splice(s, p, x, k)[i] = s[i]
  BY Assumed, Proved!SpliceSeq
<1>4. Proved!Splice(s, p, x, k)[p + 1] = x
  BY Assumed, Proved!SpliceAt
<1>5. \A i \in (p + 2)..Len(Proved!Splice(s, p, x, k)) :
        Proved!Splice(s, p, x, k)[i] = s[i + (k - p) - 1]
  BY Assumed, Proved!SpliceSeq
<1> QED  BY <1>1, <1>2, <1>3, <1>4, <1>5, Zenon DEF IsSplice

\* d is the list after the step, x its last row and n the size of the heap.
Becomes(d, x, n) ==
  /\ Linked(d)' /\ d # <<>> /\ d[Len(d)] = x
  /\ next' \in Seq(Nat) /\ Len(next') = n
  /\ \A m \in 1..n : next'[m] \in 0..n

\* The pointer of the p-th row moved to what follows the k-th.
Skips(c, p, k) ==
  heap' = heap /\ first' = first /\ next' = [next EXCEPT ![c[p]] = next[c[k]]]

LEMMA Unlinks ==
  \A c : Linked(c) /\ NextOK /\ heap \in Seq(Table!Row) =>
    \A k \in 1..Len(c) : \A p \in 1..k : Skips(c, p, k) =>
      Becomes(Proved!Cut(c, p, k), IF k = Len(c) THEN c[p] ELSE c[Len(c)], Len(heap))
<1> SUFFICES ASSUME NEW c, Linked(c), NextOK, heap \in Seq(Table!Row), NEW k \in 1..Len(c), NEW p \in 1..k,
                    Skips(c, p, k), NEW d, d = Proved!Cut(c, p, k)
             PROVE  Becomes(d, IF k = Len(c) THEN c[p] ELSE c[Len(c)], Len(heap))
  BY Zenon
<1>0. heap' = heap /\ first' = first
  BY DEF Skips
<1>1. /\ Len(c) \in Nat /\ DOMAIN c = 1..Len(c) /\ Len(c) <= Len(heap) /\ Len(heap) \in Nat
      /\ \A i \in 1..Len(c) : c[i] \in 1..Len(heap)
      /\ c \in Seq(1..Len(heap))
  BY Places DEF Linked
<1>2. k \in Nat /\ p \in Nat /\ p \in 1..Len(c) /\ p \in 0..Len(c) /\ k \in p..Len(c)
  BY <1>1
<1>3. /\ d \in Seq(1..Len(heap)) /\ Len(d) = Len(c) - (k - p)
      /\ \A i \in 1..p : d[i] = c[i]
      /\ \A i \in (p + 1)..Len(d) : d[i] = c[i + (k - p)]
  <2>1. d \in Seq(1..Len(heap)) /\ IsCut(d, c, p, k)
    BY <1>1, <1>2, CutAt
  <2> QED  BY <2>1 DEF IsCut
<1>4. /\ next \in Seq(Nat) /\ Len(next) = Len(heap)
      /\ \A m \in 1..Len(heap) : next[m] \in 0..Len(heap)
  BY NextIs
<1>5. PICK v : v = next[c[k]]
  OBVIOUS
<1>6. v = (IF k < Len(c) THEN c[k + 1] ELSE NULL) /\ v \in Nat /\ v \in 0..Len(heap)
  <2>1. k \in DOMAIN c
    BY <1>1
  <2>2. \A i \in DOMAIN c : next[c[i]] = IF i < Len(c) THEN c[i + 1] ELSE NULL
    BY DEF Linked
  <2>3. v = IF k < Len(c) THEN c[k + 1] ELSE NULL
    BY <1>5, <2>1, <2>2
  <2>4. v \in 0..Len(heap)
    BY <1>1, <1>4, <1>5
  <2>5. v \in Nat
    BY <1>1, <2>4
  <2> QED  BY <2>3, <2>4, <2>5
<1>7. /\ next' \in Seq(Nat) /\ Len(next') = Len(heap)
      /\ \A m \in 1..Len(heap) : next'[m] = IF m = c[p] THEN v ELSE next[m]
  <2>1. c[p] \in 1..Len(next)
    BY <1>1, <1>2, <1>4
  <2>2. IsTurned(next', next, c[p], v)
    BY <1>5, Zenon DEF Skips, IsTurned
  <2>3. TurnedTo(next', next, c[p], v)
    BY <1>4, <1>6, <2>1, <2>2, Turned, Zenon
  <2> QED  BY <1>4, <2>3, Zenon DEF TurnedTo
<1>8. \A m \in 1..Len(heap) : next'[m] \in 0..Len(heap)
  BY <1>4, <1>6, <1>7
<1>9. DOMAIN d = 1..Len(d) /\ Len(d) \in Nat /\ Len(d) >= p /\ Len(d) <= Len(c)
  BY <1>1, <1>2, <1>3, LenProperties
<1>10. PICK s : s = k - p
  OBVIOUS
<1>11. s \in Nat /\ Len(d) = Len(c) - s /\ k = p + s
  <2>1. k \in Nat /\ p \in Nat /\ p <= k
    BY <1>2
  <2>2. s \in Nat /\ k = p + s
    BY <1>10, <2>1
  <2> QED  BY <1>3, <1>10, <2>2, Zenon
\* Where the elements of d were.
<1>12. PICK f : f = [i \in 1..Len(d) |-> IF i <= p THEN i ELSE i + s]
  OBVIOUS
<1>13. \A i \in 1..Len(d) : f[i] \in 1..Len(c) /\ d[i] = c[f[i]]
  <2> SUFFICES ASSUME NEW i \in 1..Len(d) PROVE f[i] \in 1..Len(c) /\ d[i] = c[f[i]]
    OBVIOUS
  <2>1. CASE i <= p
    BY <1>2, <1>3, <1>9, <1>12, <2>1
  <2>2. CASE ~(i <= p)
    <3>1. i \in (p + 1)..Len(d) /\ i + s \in 1..Len(c)
      BY <1>1, <1>2, <1>9, <1>11, <2>2
    <3> QED  BY <1>3, <1>10, <1>12, <2>2, <3>1
  <2> QED  BY <2>1, <2>2
<1>14. \A i, j \in 1..Len(d) : f[i] = f[j] => i = j
  BY <1>2, <1>9, <1>11, <1>12
<1>15. \A i, j \in DOMAIN d : d[i] = d[j] => i = j
  <2>1. \A i, j \in 1..Len(c) : c[i] = c[j] => i = j
    BY <1>1 DEF Linked
  <2> QED  BY <1>9, <1>13, <1>14, <2>1
<1>16. \A i \in DOMAIN d : next'[d[i]] = IF i < Len(d) THEN d[i + 1] ELSE NULL
  <2> SUFFICES ASSUME NEW i \in 1..Len(d) PROVE next'[d[i]] = IF i < Len(d) THEN d[i + 1] ELSE NULL
    BY <1>9
  <2>1. next'[d[i]] = IF d[i] = c[p] THEN v ELSE next[d[i]]
    BY <1>1, <1>7, <1>13
  <2>2. d[i] = c[p] <=> f[i] = p
    <3>1. d[i] = c[f[i]] /\ f[i] \in 1..Len(c)
      BY <1>13
    <3>2. c[f[i]] = c[p] => f[i] = p
      BY <1>1, <1>2, <3>1 DEF Linked
    <3> QED  BY <3>1, <3>2
  <2>3. i < Len(d) => i + 1 \in 1..Len(d)
    BY <1>9
  <2>4. CASE i = p
    <3>1. f[i] = p
      BY <1>12, <2>4
    <3>2. k < Len(c) <=> p < Len(d)
      BY <1>1, <1>2, <1>11
    <3>3. p < Len(d) => d[p + 1] = c[k + 1]
      <4> SUFFICES ASSUME p < Len(d) PROVE d[p + 1] = c[k + 1]
        OBVIOUS
      <4>1. p + 1 \in (p + 1)..Len(d) /\ (p + 1) + (k - p) = k + 1
        BY <1>2, <1>9
      <4> QED  BY <1>3, <4>1
    <3> QED  BY <1>6, <2>1, <2>2, <2>4, <3>1, <3>2, <3>3
  <2>5. CASE i # p
    <3>1. f[i] # p
      BY <1>2, <1>11, <1>12, <2>5
    <3>2. next'[d[i]] = IF f[i] < Len(c) THEN c[f[i] + 1] ELSE NULL
      <4>1. next[c[f[i]]] = IF f[i] < Len(c) THEN c[f[i] + 1] ELSE NULL
        BY <1>1, <1>13 DEF Linked
      <4>2. d[i] = c[f[i]]
        BY <1>13
      <4> QED  BY <2>1, <2>2, <3>1, <4>1, <4>2
    <3>3. f[i] < Len(c) <=> i < Len(d)
      <4>1. f[i] = IF i <= p THEN i ELSE i + s
        BY <1>12
      <4>2. /\ i \in Nat /\ p \in Nat /\ s \in Nat /\ Len(c) \in Nat /\ Len(d) \in Nat
            /\ Len(c) = Len(d) + s /\ p <= Len(d)
        BY <1>1, <1>2, <1>9, <1>11
      <4>3. CASE i <= p
        <5>1. i < Len(c) /\ i < Len(d)
          BY <2>5, <4>2, <4>3
        <5> QED  BY <4>1, <4>3, <5>1, Zenon
      <4>4. CASE ~(i <= p)
        <5>1. i + s < Len(c) <=> i < Len(d)
          BY <4>2
        <5> QED  BY <4>1, <4>4, <5>1, Zenon
      <4> QED  BY <4>3, <4>4, Zenon
    <3>4. i < Len(d) => f[i + 1] = f[i] + 1
      <4> SUFFICES ASSUME i < Len(d) PROVE f[i + 1] = f[i] + 1
        OBVIOUS
      <4>1. f[i + 1] = IF i + 1 <= p THEN i + 1 ELSE (i + 1) + s
        BY <1>12, <2>3
      <4>2. f[i] = IF i <= p THEN i ELSE i + s
        BY <1>12
      <4>3. i \in Nat /\ p \in Nat /\ s \in Nat
        BY <1>2, <1>9, <1>11
      <4>4. CASE i < p
        <5>1. i + 1 <= p /\ i <= p
          BY <4>3, <4>4
        <5> QED  BY <4>1, <4>2, <5>1
      <4>5. CASE ~(i < p)
        <5>1. ~(i + 1 <= p) /\ ~(i <= p) /\ (i + 1) + s = (i + s) + 1
          BY <2>5, <4>3, <4>5
        <5> QED  BY <4>1, <4>2, <5>1
      <4> QED  BY <4>4, <4>5
    <3> QED  BY <1>13, <2>3, <3>2, <3>3, <3>4
  <2> QED  BY <2>4, <2>5
<1>17. 1 \in 1..Len(d) /\ d[1] = c[1] /\ d # <<>>
  <2>1. 1 \in 1..p /\ 1 \in 1..Len(d)
    BY <1>2, <1>9
  <2>2. d # <<>>
    BY <1>3, <1>9, <2>1, EmptySeq
  <2> QED  BY <1>3, <2>1, <2>2
<1>18. first' = IF d = <<>> THEN NULL ELSE d[1]
  <2>1. c # <<>>
    BY <1>1, EmptySeq
  <2> QED  BY <1>0, <1>17, <2>1 DEF Linked
<1>19. Linked(d)'
  <2>1. d \in Seq(1..Len(heap)) /\ Len(d) <= Len(heap)
    <3>1. Len(d) \in Nat /\ Len(c) \in Nat /\ Len(heap) \in Nat
      BY <1>1, <1>9
    <3> QED  BY <1>1, <1>3, <1>9, <3>1
  <2> QED  BY <1>0, <1>15, <1>16, <1>18, <2>1, Zenon DEF Linked
<1>20. d[Len(d)] = IF k = Len(c) THEN c[p] ELSE c[Len(c)]
  <2>1. CASE k = Len(c)
    <3>1. Len(d) = p /\ p \in 1..p
      BY <1>1, <1>2, <1>3, <2>1
    <3> QED  BY <1>3, <2>1, <3>1
  <2>2. CASE k # Len(c)
    <3>1. Len(c) \in Nat /\ Len(d) \in Nat /\ p \in Nat /\ k \in Nat /\ k <= Len(c) /\ Len(d) = Len(c) - (k - p)
      BY <1>1, <1>2, <1>3, <1>9
    <3>2. Len(d) + (k - p) = Len(c) /\ p < Len(d)
      BY <2>2, <3>1
    <3>3. Len(d) \in (p + 1)..Len(d)
      BY <3>1, <3>2
    <3>4. d[Len(d)] = c[Len(d) + (k - p)]
      BY <1>3, <3>3, Zenon
    <3> QED  BY <2>2, <3>2, <3>4, Zenon
  <2> QED  BY <2>1, <2>2, Zenon
<1> QED  BY <1>7, <1>8, <1>17, <1>19, <1>20, Zenon DEF Becomes

\* The new row n put after the p-th, followed by what follows the k-th.
Joins(c, p, n, k) ==
  first' = first /\ next' = [Append(next, next[c[k]]) EXCEPT ![c[p]] = n]

LEMMA Relinks ==
  \A c : Linked(c) /\ NextOK /\ heap \in Seq(Table!Row) =>
    \A r \in Table!Row : \A n : heap' = Append(heap, r) /\ n = Len(heap) + 1 =>
      \A k \in 1..Len(c) : \A p \in 1..k : Joins(c, p, n, k) =>
        Becomes(Proved!Splice(c, p, n, k), IF k = Len(c) THEN n ELSE c[Len(c)], n)
<1> SUFFICES ASSUME NEW c, Linked(c), NextOK, heap \in Seq(Table!Row),
                    NEW r \in Table!Row, heap' = Append(heap, r), NEW n, n = Len(heap) + 1,
                    NEW k \in 1..Len(c), NEW p \in 1..k,
                    first' = first, next' = [Append(next, next[c[k]]) EXCEPT ![c[p]] = n],
                    NEW d, d = Proved!Splice(c, p, n, k)
             PROVE  Becomes(d, IF k = Len(c) THEN n ELSE c[Len(c)], n)
  BY DEF Joins
<1>1. /\ Len(c) \in Nat /\ DOMAIN c = 1..Len(c) /\ Len(c) <= Len(heap) /\ Len(heap) \in Nat
      /\ \A i \in 1..Len(c) : c[i] \in 1..Len(heap)
      /\ c \in Seq(1..Len(heap))
  BY Places DEF Linked
<1>2. k \in Nat /\ p \in Nat /\ p \in 1..Len(c) /\ p \in 0..Len(c) /\ k \in p..Len(c)
  BY <1>1
<1>3. n \in Nat /\ n \in 1..n /\ 1..Len(heap) \subseteq 1..n /\ Len(heap') = n /\ n \notin 1..Len(heap)
  <2>1. Len(heap') = Len(heap) + 1
    BY Grown
  <2> QED  BY <1>1, <2>1
<1>4. PICK s : s = k - p
  OBVIOUS
<1>5. s \in Nat /\ k = p + s
  BY <1>2, <1>4
<1>6. d \in Seq(1..n) /\ IsSplice(d, c, p, n, k)
  <2>1. c \in Seq(1..n)
    BY <1>1, <1>3, SeqMonotonic
  <2> QED  BY <1>2, <1>3, <2>1, SplicedAt
<1>7. /\ Len(d) = Len(c) - s + 1
      /\ \A i \in 1..p : d[i] = c[i]
      /\ d[p + 1] = n
      /\ \A i \in (p + 2)..Len(d) : d[i] = c[i + s - 1]
  BY <1>4, <1>6 DEF IsSplice
<1>8. DOMAIN d = 1..Len(d) /\ Len(d) \in Nat /\ Len(d) >= p + 1 /\ Len(d) <= n
  <2>1. DOMAIN d = 1..Len(d) /\ Len(d) \in Nat
    BY <1>6, LenProperties
  <2>2. /\ Len(c) \in Nat /\ p \in Nat /\ k \in Nat /\ s \in Nat /\ k = p + s /\ k <= Len(c)
        /\ Len(d) = Len(c) - s + 1 /\ n = Len(heap) + 1 /\ Len(heap) \in Nat /\ Len(c) <= Len(heap)
    BY <1>1, <1>2, <1>3, <1>5, <1>7
  <2>3. Len(d) >= p + 1 /\ Len(d) <= n
    BY <2>1, <2>2
  <2> QED  BY <2>1, <2>3
<1>9. /\ next \in Seq(Nat) /\ Len(next) = Len(heap)
      /\ \A m \in 1..Len(heap) : next[m] \in 0..Len(heap)
  BY NextIs
<1>10. PICK v : v = next[c[k]]
  OBVIOUS
<1>11. v = (IF k < Len(c) THEN c[k + 1] ELSE NULL) /\ v \in Nat /\ v \in 0..Len(heap)
  <2>1. k \in DOMAIN c
    BY <1>1
  <2>2. \A i \in DOMAIN c : next[c[i]] = IF i < Len(c) THEN c[i + 1] ELSE NULL
    BY DEF Linked
  <2>3. v = IF k < Len(c) THEN c[k + 1] ELSE NULL
    BY <1>10, <2>1, <2>2
  <2>4. v \in 0..Len(heap)
    BY <1>1, <1>9, <1>10
  <2>5. v \in Nat
    BY <1>1, <2>4
  <2> QED  BY <2>3, <2>4, <2>5
<1>12. PICK t : t = Append(next, v)
  OBVIOUS
<1>13. /\ t \in Seq(Nat) /\ Len(t) = n /\ t[n] = v
       /\ \A m \in 1..Len(heap) : t[m] = next[m]
  <2>1. /\ t \in Seq(Nat) /\ Len(t) = Len(next) + 1 /\ t[Len(next) + 1] = v
        /\ \A m \in 1..Len(next) : t[m] = next[m]
    BY <1>9, <1>11, <1>12, Pointed
  <2> QED  BY <1>9, <2>1
<1>14. /\ next' \in Seq(Nat) /\ Len(next') = n
       /\ \A m \in 1..n : next'[m] = IF m = c[p] THEN n ELSE t[m]
  <2>1. PICK q : q = c[p]
    OBVIOUS
  <2>2. PICK w : w = next'
    OBVIOUS
  <2>3. q \in 1..Len(t) /\ t \in Seq(Nat) /\ Len(t) = n
    BY <1>1, <1>2, <1>3, <1>13, <2>1
  <2>4. IsTurned(w, t, q, n)
    BY <1>10, <1>12, <2>1, <2>2 DEF IsTurned
  <2>5. /\ w \in Seq(Nat) /\ Len(w) = Len(t)
        /\ \A m \in 1..Len(t) : w[m] = IF m = q THEN n ELSE t[m]
    <3>1. TurnedTo(w, t, q, n)
      BY <1>3, <2>3, <2>4, Turned, Zenon
    <3> QED  BY <3>1, Zenon DEF TurnedTo
  <2> QED  BY <2>1, <2>2, <2>3, <2>5
<1>15. \A m \in 1..n : m = n \/ m \in 1..Len(heap)
  BY <1>1
<1>16. \A m \in 1..n : next'[m] \in 0..n
  <2>1. 0..Len(heap) \subseteq 0..n /\ n \in 0..n
    BY <1>1
  <2> QED  BY <1>9, <1>11, <1>13, <1>14, <1>15, <2>1
<1>17. next'[n] = v /\ \A m \in 1..Len(heap) : next'[m] = IF m = c[p] THEN n ELSE next[m]
  <2>1. n # c[p]
    BY <1>1, <1>2, <1>3
  <2> QED  BY <1>3, <1>13, <1>14, <2>1
\* Where the other elements of d were.
<1>18. PICK f : f = [i \in 1..Len(d) |-> IF i <= p THEN i ELSE IF i = p + 1 THEN 0 ELSE i + s - 1]
  OBVIOUS
<1>19. \A i \in 1..Len(d) : i # p + 1 => f[i] \in 1..Len(c) /\ d[i] = c[f[i]] /\ d[i] \in 1..Len(heap)
  <2> SUFFICES ASSUME NEW i \in 1..Len(d), i # p + 1
               PROVE  f[i] \in 1..Len(c) /\ d[i] = c[f[i]]
    BY <1>1
  <2>1. CASE i <= p
    BY <1>2, <1>7, <1>8, <1>18, <2>1
  <2>2. CASE ~(i <= p)
    <3>1. i \in (p + 2)..Len(d) /\ i + s - 1 \in 1..Len(c)
      BY <1>1, <1>2, <1>5, <1>7, <1>8, <2>2
    <3> QED  BY <1>7, <1>18, <2>2, <3>1
  <2> QED  BY <2>1, <2>2
<1>20. \A i, j \in 1..Len(d) : i # p + 1 /\ j # p + 1 /\ f[i] = f[j] => i = j
  <2> SUFFICES ASSUME NEW i \in 1..Len(d), NEW j \in 1..Len(d), i # p + 1, j # p + 1, f[i] = f[j]
               PROVE  i = j
    OBVIOUS
  <2>1. f[i] = (IF i <= p THEN i ELSE i + s - 1) /\ f[j] = IF j <= p THEN j ELSE j + s - 1
    BY <1>18
  <2>2. i \in Nat /\ j \in Nat /\ p \in Nat /\ s \in Nat
    BY <1>2, <1>5, <1>8
  <2>3. CASE i <= p /\ j <= p
    BY <2>1, <2>3
  <2>4. CASE i <= p /\ ~(j <= p)
    <3>1. i = j + s - 1
      BY <2>1, <2>4
    <3>2. j >= p + 2
      BY <2>2, <2>4
    <3> QED  BY <2>2, <2>4, <3>1, <3>2
  <2>5. CASE ~(i <= p) /\ j <= p
    <3>1. j = i + s - 1
      BY <2>1, <2>5
    <3>2. i >= p + 2
      BY <2>2, <2>5
    <3> QED  BY <2>2, <2>5, <3>1, <3>2
  <2>6. CASE ~(i <= p) /\ ~(j <= p)
    <3>1. i + s - 1 = j + s - 1
      BY <2>1, <2>6
    <3> QED  BY <2>2, <3>1
  <2> QED  BY <2>3, <2>4, <2>5, <2>6
<1>21. \A i, j \in DOMAIN d : d[i] = d[j] => i = j
  <2>1. \A i, j \in 1..Len(c) : c[i] = c[j] => i = j
    BY <1>1 DEF Linked
  <2>2. \A i \in 1..Len(d) : d[i] = n => i = p + 1
    BY <1>3, <1>19
  <2>3. d[p + 1] = n
    BY <1>7
  <2> SUFFICES ASSUME NEW i \in 1..Len(d), NEW j \in 1..Len(d), d[i] = d[j] PROVE i = j
    BY <1>8
  <2>4. CASE i = p + 1 \/ j = p + 1
    BY <2>2, <2>3, <2>4
  <2>5. CASE i # p + 1 /\ j # p + 1
    <3>1. f[i] \in 1..Len(c) /\ f[j] \in 1..Len(c) /\ c[f[i]] = c[f[j]]
      BY <1>19, <2>5
    <3>2. f[i] = f[j]
      BY <2>1, <3>1
    <3> QED  BY <1>20, <2>5, <3>2
  <2> QED  BY <2>4, <2>5
<1>22. \A i \in DOMAIN d : next'[d[i]] = IF i < Len(d) THEN d[i + 1] ELSE NULL
  <2> SUFFICES ASSUME NEW i \in 1..Len(d) PROVE next'[d[i]] = IF i < Len(d) THEN d[i + 1] ELSE NULL
    BY <1>8
  <2>0. i \in Nat /\ p \in Nat /\ s \in Nat /\ Len(d) \in Nat /\ Len(c) \in Nat
    BY <1>1, <1>2, <1>5, <1>8
  <2>1. i < Len(d) => i + 1 \in 1..Len(d)
    BY <1>8
  <2>2. CASE i = p
    <3>1. d[i] = c[p] /\ c[p] \in 1..Len(heap)
      <4>1. p \in 1..p /\ p \in 1..Len(c)
        BY <1>2
      <4> QED  BY <1>1, <1>7, <2>2, <4>1, Zenon
    <3>2. next'[d[i]] = n
      BY <1>17, <3>1
    <3>3. i < Len(d)
      BY <1>8, <2>0, <2>2
    <3> QED  BY <1>7, <2>2, <3>2, <3>3
  <2>3. CASE i = p + 1
    <3>1. next'[d[i]] = v
      BY <1>7, <1>17, <2>3
    <3>2. k < Len(c) <=> p + 1 < Len(d)
      BY <1>2, <1>5, <1>7, <2>0
    <3>3. p + 1 < Len(d) => d[p + 2] = c[k + 1]
      <4> SUFFICES ASSUME p + 1 < Len(d) PROVE d[p + 2] = c[k + 1]
        OBVIOUS
      <4>1. p + 2 \in (p + 2)..Len(d) /\ (p + 2) + s - 1 = k + 1
        BY <1>5, <2>0
      <4> QED  BY <1>7, <4>1
    <3>4. i + 1 = p + 2
      BY <2>0, <2>3
    <3> QED  BY <1>11, <2>3, <3>1, <3>2, <3>3, <3>4
  <2>4. CASE i # p /\ i # p + 1
    <3>1. f[i] \in 1..Len(c) /\ d[i] = c[f[i]] /\ d[i] \in 1..Len(heap)
      BY <1>19, <2>4
    <3>2. f[i] = IF i <= p THEN i ELSE i + s - 1
      BY <1>18, <2>4
    <3>3. f[i] # p
      <4>1. k \in Nat /\ k = p + s
        BY <1>2, <1>5
      <4>2. CASE i <= p
        BY <2>4, <3>2, <4>2
      <4>3. CASE ~(i <= p)
        <5>1. i >= p + 2 /\ f[i] = i + s - 1
          BY <2>0, <2>4, <3>2, <4>3
        <5> QED  BY <2>0, <5>1
      <4> QED  BY <4>2, <4>3
    <3>4. d[i] # c[p]
      <4>1. c[f[i]] = c[p] => f[i] = p
        BY <1>1, <1>2, <3>1 DEF Linked
      <4> QED  BY <3>1, <3>3, <4>1
    <3>5. next'[d[i]] = IF f[i] < Len(c) THEN c[f[i] + 1] ELSE NULL
      <4>1. next[c[f[i]]] = IF f[i] < Len(c) THEN c[f[i] + 1] ELSE NULL
        BY <1>1, <3>1 DEF Linked
      <4> QED  BY <1>17, <3>1, <3>4, <4>1
    <3>6. f[i] < Len(c) <=> i < Len(d)
      <4>1. CASE i <= p
        <5>1. i < p /\ f[i] = i
          BY <2>0, <2>4, <3>2, <4>1
        <5>2. p <= Len(c) /\ p < Len(d)
          BY <1>2, <1>8, <2>0
        <5> QED  BY <2>0, <5>1, <5>2
      <4>2. CASE ~(i <= p)
        <5>1. f[i] = i + s - 1
          BY <3>2, <4>2
        <5> QED  BY <1>7, <2>0, <5>1
      <4> QED  BY <4>1, <4>2
    <3>7. i < Len(d) => i + 1 # p + 1 /\ f[i + 1] = f[i] + 1
      <4> SUFFICES ASSUME i < Len(d) PROVE i + 1 # p + 1 /\ f[i + 1] = f[i] + 1
        OBVIOUS
      <4>1. i + 1 # p + 1
        BY <2>0, <2>4
      <4>2. f[i + 1] = IF i + 1 <= p THEN i + 1 ELSE (i + 1) + s - 1
        BY <1>18, <2>1, <4>1
      <4>3. CASE i < p
        <5>1. i + 1 <= p /\ i <= p
          BY <2>0, <4>3
        <5> QED  BY <3>2, <4>1, <4>2, <5>1
      <4>4. CASE ~(i < p)
        <5>1. ~(i + 1 <= p) /\ ~(i <= p) /\ (i + 1) + s - 1 = (i + s - 1) + 1
          BY <2>0, <2>4, <4>4
        <5> QED  BY <3>2, <4>1, <4>2, <5>1
      <4> QED  BY <4>3, <4>4
    <3> QED  BY <1>19, <2>1, <3>5, <3>6, <3>7
  <2> QED  BY <2>2, <2>3, <2>4
<1>23. 1 \in 1..Len(d) /\ d[1] = c[1] /\ d # <<>>
  <2>1. 1 \in 1..p /\ 1 \in 1..Len(d)
    BY <1>2, <1>8
  <2>2. d # <<>>
    BY <1>6, <1>8, <2>1, EmptySeq
  <2> QED  BY <1>7, <2>1, <2>2
<1>24. first' = IF d = <<>> THEN NULL ELSE d[1]
  <2>1. c # <<>>
    BY <1>1, EmptySeq
  <2> QED  BY <1>23, <2>1 DEF Linked
<1>25. Linked(d)'
  BY <1>3, <1>6, <1>8, <1>21, <1>22, <1>24 DEF Linked
<1>26. d[Len(d)] = IF k = Len(c) THEN n ELSE c[Len(c)]
  <2>1. Len(d) = Len(c) - s + 1
    BY <1>7
  <2>2. k \in Nat /\ p \in Nat /\ s \in Nat /\ Len(c) \in Nat /\ k = p + s /\ k <= Len(c)
    BY <1>1, <1>2, <1>5
  <2>3. CASE k = Len(c)
    <3>1. Len(d) = p + 1
      BY <2>1, <2>2, <2>3
    <3> QED  BY <1>7, <2>3, <3>1
  <2>4. CASE k # Len(c)
    <3>1. Len(d) \in (p + 2)..Len(d) /\ Len(d) + s - 1 = Len(c)
      BY <2>1, <2>2, <2>4
    <3> QED  BY <1>7, <2>4, <3>1
  <2> QED  BY <2>3, <2>4
<1> QED  BY <1>14, <1>16, <1>23, <1>25, <1>26, Zenon DEF Becomes

\* Two live rows with one uid are one row, so last->uid tells the last row.
LEMMA OneRowPerUid ==
  ASSUME HeapInv, NEW c, c = Chain, NEW i \in DOMAIN c, NEW j \in DOMAIN c, Table!Live(i), Table!Live(j),
         heap[c[i]].uid = heap[c[j]].uid
  PROVE  i = j
<1>1. Linked(c) /\ heap \in Seq(Table!Row)
  BY DEF HeapInv, ListInv, Table!TypeOK
<1>2. i \in Nat /\ j \in Nat /\ c[i] \in DOMAIN heap /\ c[j] \in DOMAIN heap
  <2>1. /\ DOMAIN c = 1..Len(c) /\ Len(c) \in Nat /\ DOMAIN heap = 1..Len(heap)
        /\ \A m \in 1..Len(c) : c[m] \in 1..Len(heap)
    BY <1>1, Places
  <2> QED  BY <2>1
<1>3. heap[c[i]].uid \in Nat /\ heap[c[j]].uid \in Nat
  <2>1. heap[c[i]] \in Table!Row /\ heap[c[j]] \in Table!Row
    BY <1>1, <1>2
  <2> QED  BY <2>1 DEF Table!Row
<1>4. \A a, b \in DOMAIN c : a < b /\ Table!Live(a) /\ Table!Live(b) => heap[c[a]].uid < heap[c[b]].uid
  BY DEF HeapInv, Table!UidsIncrease
<1>5. ~(i < j) /\ ~(j < i)
  BY <1>3, <1>4
<1> QED  BY <1>2, <1>5

\* What delete and update have in hand when their search has found a row.
LEMMA FoundAt ==
  ASSUME HeapInv, NEW c, c = Chain, NEW uid, Sound(Reads(uid)), Finds(uid), NEW k, k = Rounds(uid) + 1
  PROVE  /\ k \in 2..rows /\ k \in 1..Len(c) /\ Table!ptrant(k) \in 1..k
         /\ Table!FoundByUid(uid, k)
         /\ round(Rounds(uid)).ptr = c[k] /\ round(Rounds(uid)).ptrant = c[Table!ptrant(k)]
         /\ last = c[Len(c)] /\ (heap[last].uid = uid <=> k = Len(c))
<1>1. Linked(c) /\ heap \in Seq(Table!Row) /\ rows \in Nat /\ ListInv
  BY DEF HeapInv, ListInv, Table!TypeOK
<1>2. rows > 1
  BY DEF Finds
<1>3. PICK R : R = Rounds(uid)
  OBVIOUS
<1>4. R \in 1..(rows - 1) /\ Hit(c, uid, R + 1)
  BY <1>1, <1>2, <1>3, SearchEnds
<1>5. k = R + 1 /\ k \in 2..rows /\ R \in Nat /\ R # 0
  BY <1>1, <1>3, <1>4
<1>6. k \in 1..Len(c) /\ heap[c[k]].uid = uid
  BY <1>4, <1>5 DEF Hit
<1>7. Table!FoundByUid(uid, k)
  BY <1>1, <1>2, SameSearch
<1>8. Table!Live(k)
  <2>1. k \in 1..(Rounds(uid) + 1)
    BY <1>3, <1>5
  <2> QED  BY <1>1, <1>2, <2>1, SoundReads
<1>9. Len(c) \in Nat /\ DOMAIN c = 1..Len(c) /\ (c = <<>> <=> Len(c) = 0)
  BY <1>1, Places
<1>10. /\ Place(c, k) = c[k] /\ Place(c, 1) = c[1]
  BY <1>6, <1>9 DEF Place
<1>11. round(R).ptr = c[k]
  BY <1>1, <1>5, <1>10, RoundPlace
<1>12. Table!ptrant(k) \in 1..k /\ round(R).ptrant = c[Table!ptrant(k)]
  <2>1. round(R).ptrant = IF R = 1 THEN c[1] ELSE c[k]
    BY <1>1, <1>5, <1>10, RoundPlace
  <2>2. R = 1 <=> k = 2
    BY <1>5
  <2>3. 1 \in 1..k /\ k \in 1..k
    BY <1>6, <1>9
  <2> QED  BY <2>1, <2>2, <2>3 DEF Table!ptrant
<1>13. Len(c) \in DOMAIN c /\ last = c[Len(c)]
  <2>1. Len(c) # 0 /\ Len(c) \in 1..Len(c)
    BY <1>6, <1>9
  <2> QED  BY <1>1, <1>9, <2>1 DEF ListInv, LastIsTail
<1>14. Table!Live(Len(c))
  <2>1. Valid(last)
    BY <1>1, SoundReads
  <2> QED  BY <1>13, <2>1 DEF Valid, Table!Live
<1>15. heap[last].uid = uid => k = Len(c)
  BY <1>6, <1>8, <1>9, <1>13, <1>14, OneRowPerUid
<1>16. k = Len(c) => heap[last].uid = uid
  BY <1>6, <1>13
<1> QED  BY <1>3, <1>5, <1>6, <1>7, <1>11, <1>12, <1>13, <1>15, <1>16

\* And when the only row has it, or they have found none.
LEMMA OnlyFound ==
  ASSUME ListInv, NEW c, c = Chain, NEW uid, Sound(Reads(uid)), rows = 1, heap[first].uid = uid
  PROVE  Table!FoundByUid(uid, 1) /\ first = c[1] /\ 1 \in DOMAIN c
<1>1. Table!Live(1)
  BY SoundReads
<1>2. Linked(c)
  BY DEF ListInv
<1>3. 1 \in DOMAIN c /\ c # <<>> /\ first = c[1]
  BY <1>1, <1>2 DEF Table!Live, Linked
<1>4. 1 \in Table!Visited("uid", uid, 1)
  BY DEF Table!Visited
<1>5. Table!Match("uid", uid, 1, 1)
  BY <1>3, <1>4 DEF Table!Match
<1> QED  BY <1>3, <1>5 DEF Table!FoundByUid

LEMMA NoneFound ==
  ASSUME ListInv, NEW c, c = Chain, NEW uid, Sound(Reads(uid)), rows # 1 \/ heap[first].uid # uid, ~Finds(uid)
  PROVE  \A k \in 1..rows : ~Table!FoundByUid(uid, k)
<1>1. Linked(c) /\ rows \in Nat
  BY DEF ListInv, Table!TypeOK
<1>2. SUFFICES ASSUME NEW k \in 1..rows, Table!FoundByUid(uid, k) PROVE FALSE
  OBVIOUS
<1>3. CASE rows > 1
  BY <1>2, <1>3, SameSearch
<1>4. CASE ~(rows > 1)
  <2>1. rows = 1 /\ k = 1
    BY <1>1, <1>4
  <2>2. Table!Match("uid", uid, 1, k)
    BY <1>2, <1>4 DEF Table!FoundByUid
  <2>3. 1 \in DOMAIN c /\ heap[c[1]].uid = uid
    BY <2>1, <2>2 DEF Table!Match
  <2>4. first = c[1]
    BY <1>1, <2>3 DEF Linked
  <2> QED  BY <2>1, <2>3, <2>4
<1> QED  BY <1>3, <1>4

\* delete unlinks the row after the first, or frees a later one where it is, or
\* empties the list.
LEMMA Deleted ==
  ASSUME HeapInv, NEW uid \in Table!KnownUids, user_table_delete(uid)
  PROVE  Table!Delete /\ NextOK' /\ Linked(Chain)' /\ LastIsTail'
<1>1. PICK c : c = Chain
  OBVIOUS
<1>2. heap \in Seq(Table!Row) /\ rows \in Nat /\ Linked(c) /\ LastIsTail /\ NextOK /\ ListInv
  BY <1>1 DEF HeapInv, ListInv, Table!TypeOK
<1>3. heap' = heap /\ heap' \in Seq(Table!Row) /\ Sound(Reads(uid))
  BY <1>2 DEF user_table_delete
<1>4. /\ next \in Seq(Nat) /\ Len(next) = Len(heap) /\ DOMAIN next = 1..Len(heap)
      /\ \A p \in 1..Len(heap) : next[p] \in 0..Len(heap)
  BY <1>2, NextIs
<1>5. /\ Len(c) \in Nat /\ DOMAIN c = 1..Len(c) /\ Len(heap) \in Nat
      /\ \A i \in 1..Len(c) : c[i] \in 1..Len(heap)
      /\ first \in 0..Len(heap) /\ last \in 0..Len(heap)
  <2>1. first \in 0..Len(heap) /\ last \in 0..Len(heap)
    BY <1>2 DEF NextOK, HeapTypeOK
  <2> QED  BY <1>2, <2>1, Places
<1>6. Table!Sound(Table!VisitedByUid(uid))
  BY <1>2, <1>3, SoundReads
<1>7. CASE /\ rows = 1 /\ heap[first].uid = uid
           /\ freed' = freed \cup {first} /\ first' = NULL /\ last' = NULL
           /\ UNCHANGED <<next, rows>>
  <2>1. Table!FoundByUid(uid, 1) /\ first = c[1]
    BY <1>1, <1>2, <1>3, <1>7, OnlyFound
  <2>2. Linked(<<>>)'
    <3>1. <<>> \in Seq(1..Len(heap')) /\ Len(<<>>) = 0 /\ DOMAIN <<>> = {}
      OBVIOUS
    <3>2. Len(<<>>) <= Len(heap')
      BY <1>3, <1>5, <3>1
    <3> QED  BY <1>7, <3>1, <3>2 DEF Linked
  <2>3. Chain' = <<>>
    BY <1>3, <2>2, ChainBecomes
  <2>4. NextOK'
    BY <1>3, <1>4, <1>5, <1>7 DEF NextOK, HeapTypeOK, NULL
  <2>5. LastIsTail'
    BY <1>7, <2>3 DEF LastIsTail
  <2>6. Table!user_table_delete(uid, 0)
    BY <1>1, <1>3, <1>6, <1>7, <2>1, <2>3 DEF user_table_delete, Table!user_table_delete
  <2> QED  BY <2>2, <2>3, <2>4, <2>5, <2>6 DEF Table!Delete
<1>8. CASE /\ Finds(uid)
           /\ LET user == round(Rounds(uid)).ptr  ptrant == round(Rounds(uid)).ptrant
              IN  /\ last' = IF heap[last].uid = uid THEN ptrant ELSE last
                  /\ next' = [next EXCEPT ![ptrant] = next[user]]
                  /\ freed' = freed \cup {user}
           /\ rows' = rows - 1 /\ UNCHANGED first
  <2>1. PICK k : k = Rounds(uid) + 1
    OBVIOUS
  <2>2. PICK p : p = Table!ptrant(k)
    OBVIOUS
  <2>3. /\ k \in 2..rows /\ k \in 1..Len(c) /\ p \in 1..k
        /\ Table!FoundByUid(uid, k)
        /\ round(Rounds(uid)).ptr = c[k] /\ round(Rounds(uid)).ptrant = c[p]
        /\ last = c[Len(c)] /\ (heap[last].uid = uid <=> k = Len(c))
    BY <1>1, <1>3, <1>8, <2>1, <2>2, FoundAt
  <2>4. /\ last' = IF k = Len(c) THEN c[p] ELSE c[Len(c)]
        /\ next' = [next EXCEPT ![c[p]] = next[c[k]]]
        /\ freed' = freed \cup {c[k]} /\ rows' = rows - 1 /\ first' = first
    BY <1>8, <2>3
  <2>5. PICK d : d = Proved!Cut(c, p, k)
    OBVIOUS
  <2>6. /\ Linked(d)' /\ d # <<>> /\ d[Len(d)] = IF k = Len(c) THEN c[p] ELSE c[Len(c)]
        /\ next' \in Seq(Nat) /\ Len(next') = Len(heap)
        /\ \A m \in 1..Len(heap) : next'[m] \in 0..Len(heap)
    <3>1. Skips(c, p, k)
      BY <1>3, <2>4 DEF Skips
    <3>2. Becomes(d, IF k = Len(c) THEN c[p] ELSE c[Len(c)], Len(heap))
      BY <1>2, <2>3, <2>5, <3>1, Unlinks
    <3> QED  BY <3>2, Zenon DEF Becomes
  <2>7. Chain' = d
    BY <1>3, <2>6, ChainBecomes
  <2>8. last' = d[Len(d)]
    BY <2>4, <2>6
  <2>9. NextOK'
    <3>1. last' \in 0..Len(heap)
      <4>1. c[p] \in 1..Len(heap) /\ c[Len(c)] \in 1..Len(heap)
        <5>0. k \in 1..Len(c) /\ p \in 1..k /\ Len(c) \in Nat
          BY <1>5, <2>3, Zenon
        <5>1. p \in 1..Len(c) /\ Len(c) \in 1..Len(c)
          BY <5>0
        <5> QED  BY <1>5, <5>1, Zenon
      <4> QED  BY <1>5, <2>4, <4>1
    <3>2. DOMAIN next' = 1..Len(heap)
      BY <2>6, LenProperties
    <3> QED  BY <1>3, <1>5, <2>4, <2>6, <3>1, <3>2 DEF NextOK, HeapTypeOK
  <2>10. LastIsTail'
    BY <2>6, <2>7, <2>8 DEF LastIsTail
  <2>11. Table!user_table_delete(uid, 1)
    <3>1. Chain' = SubSeq(Chain, 1, Table!ptrant(k)) \o SubSeq(Chain, k + 1, Len(Chain))
      BY <1>1, <2>2, <2>5, <2>7, Zenon DEF Proved!Cut
    <3>2. /\ Table!Idle /\ mode' = mode /\ lastUid' = lastUid /\ file' = file /\ saving' = saving
      BY DEF user_table_delete
    <3>3. freed' = freed \cup {Chain[k]}
      BY <1>1, <2>4
    <3> QED  BY <1>3, <1>6, <2>3, <2>4, <3>1, <3>2, <3>3, Zenon DEF Table!user_table_delete
  <2> QED  BY <2>6, <2>7, <2>9, <2>10, <2>11 DEF Table!Delete
<1>9. CASE /\ rows # 1 \/ heap[first].uid # uid
           /\ ~Finds(uid) /\ UNCHANGED <<freed, rows, listVars>>
  <2>1. \A k \in 1..rows : ~Table!FoundByUid(uid, k)
    BY <1>2, <1>3, <1>9, NoneFound
  <2>2. next' = next /\ first' = first /\ last' = last
    BY <1>9 DEF listVars
  <2>3. Linked(c)'
    BY <1>2, <1>3, <2>2 DEF Linked
  <2>4. Chain' = c
    BY <1>3, <2>3, ChainBecomes
  <2>5. NextOK'
    BY <1>2, <1>3, <2>2 DEF NextOK, HeapTypeOK
  <2>6. LastIsTail'
    BY <1>1, <1>2, <2>2, <2>4 DEF LastIsTail
  <2>7. Table!user_table_delete(uid, 0)
    BY <1>1, <1>6, <1>9, <2>1, <2>4 DEF user_table_delete, Table!user_table_delete
  <2> QED  BY <2>3, <2>4, <2>5, <2>6, <2>7 DEF Table!Delete
<1> QED  BY <1>7, <1>8, <1>9 DEF user_table_delete

LEMMA DraftIsRow == ASSUME Table!TypeOK, NEW r \in Table!Drafts PROVE r \in Table!Row
<1>1. PICK n \in DOMAIN heap, p \in Passwords : r = [heap[n] EXCEPT !.pass = p]
  BY DEF Table!Drafts
<1>2. heap[n] \in Table!Row /\ p \in Table!Text
  BY TextsAssumption DEF Table!TypeOK
<1> QED  BY <1>1, <1>2 DEF Table!Row

\* update puts the new row after the first one, or after the old one, which it
\* frees and leaves linked, or alone.
LEMMA Updated ==
  ASSUME HeapInv, NEW r \in Table!Drafts, user_table_update(r)
  PROVE  Table!Update /\ NextOK' /\ Linked(Chain)' /\ LastIsTail'
<1>1. PICK c : c = Chain
  OBVIOUS
<1>2. heap \in Seq(Table!Row) /\ rows \in Nat /\ Linked(c) /\ LastIsTail /\ NextOK /\ ListInv
  BY <1>1 DEF HeapInv, ListInv, Table!TypeOK
<1>3. PICK n : n = Len(heap) + 1
  OBVIOUS
<1>4. PICK uid : uid = r.uid
  OBVIOUS
<1>5. r \in Table!Row
  BY DraftIsRow DEF HeapInv, ListInv
<1>6. heap' = Append(heap, r) /\ Sound(Reads(uid))
  BY <1>4 DEF user_table_update
<1>7. /\ Len(heap) \in Nat /\ heap' \in Seq(Table!Row) /\ Len(heap') = n /\ n \in Nat
  BY <1>2, <1>3, <1>5, <1>6, Grown
<1>8. /\ next \in Seq(Nat) /\ Len(next) = Len(heap) /\ DOMAIN next = 1..Len(heap)
      /\ \A p \in 1..Len(heap) : next[p] \in 0..Len(heap)
  BY <1>2, NextIs
<1>9. /\ Len(c) \in Nat /\ DOMAIN c = 1..Len(c)
      /\ \A i \in 1..Len(c) : c[i] \in 1..Len(heap)
      /\ first \in 0..Len(heap) /\ last \in 0..Len(heap)
  <2>1. first \in 0..Len(heap) /\ last \in 0..Len(heap)
    BY <1>2 DEF NextOK, HeapTypeOK
  <2> QED  BY <1>2, <2>1, Places
<1>10. Table!Sound(Table!VisitedByUid(uid))
  BY <1>2, <1>6, SoundReads
<1>11. /\ Table!Idle /\ Len(heap) < MaxNodes /\ mode' = mode /\ rows' = rows /\ lastUid' = lastUid
       /\ file' = file /\ saving' = saving
  BY DEF user_table_update
<1>12. ASSUME next' = Append(next, NULL)
       PROVE  /\ next' \in Seq(Nat) /\ Len(next') = n /\ next'[n] = 0
              /\ \A m \in 1..Len(heap) : next'[m] = next[m]
              /\ \A m \in DOMAIN next' : next'[m] \in 0..n
  <2>1. /\ next' \in Seq(Nat) /\ Len(next') = n /\ next'[n] = 0
        /\ \A m \in 1..Len(heap) : next'[m] = next[m]
    <3>1. next' = Append(next, 0)
      BY <1>12 DEF NULL
    <3> QED  BY <1>3, <1>8, <3>1, Pointed
  <2>2. DOMAIN next' = 1..n
    BY <2>1, LenProperties
  <2>3. \A m \in 1..n : next'[m] \in 0..n
    BY <1>3, <1>7, <1>8, <2>1
  <2> QED  BY <2>1, <2>2, <2>3
<1>13. CASE /\ rows = 1 /\ heap[first].uid = uid
            /\ freed' = freed \cup {first} /\ first' = n /\ last' = n
            /\ next' = Append(next, NULL)
  <2>1. Table!FoundByUid(uid, 1) /\ first = c[1]
    BY <1>1, <1>2, <1>6, <1>13, OnlyFound
  <2>2. /\ next' \in Seq(Nat) /\ Len(next') = n /\ next'[n] = 0
        /\ \A m \in DOMAIN next' : next'[m] \in 0..n
    BY <1>12, <1>13
  <2>3. PICK d : d = <<n>>
    OBVIOUS
  <2>4. d \in Seq(1..n) /\ Len(d) = 1 /\ DOMAIN d = {1} /\ d[1] = n /\ d # <<>>
    BY <1>3, <1>7, <2>3
  <2>5. Linked(d)'
    <3>1. 1 <= n
      BY <1>3, <1>7
    <3> QED  BY <1>7, <1>13, <2>2, <2>4, <3>1 DEF Linked, NULL
  <2>6. Chain' = d
    BY <1>7, <2>5, ChainBecomes
  <2>7. NextOK'
    <3>1. n \in 0..n
      BY <1>7
    <3> QED  BY <1>7, <1>13, <2>2, <3>1 DEF NextOK, HeapTypeOK
  <2>8. LastIsTail'
    BY <1>13, <2>4, <2>6 DEF LastIsTail
  <2>9. Table!user_table_update(r, 1)
    <3>1. Chain' = <<Len(heap) + 1>> /\ freed' = freed \cup {Chain[1]}
      BY <1>1, <1>3, <1>13, <2>1, <2>3, <2>6
    <3> QED  BY <1>4, <1>6, <1>10, <1>11, <1>13, <2>1, <3>1, Zenon DEF Table!user_table_update
  <2> QED  BY <2>5, <2>6, <2>7, <2>8, <2>9 DEF Table!Update
<1>14. CASE /\ Finds(uid)
            /\ LET user == round(Rounds(uid)).ptr  ptrant == round(Rounds(uid)).ptrant
               IN  /\ next' = [Append(next, next[user]) EXCEPT ![ptrant] = n]
                   /\ last' = IF heap[last].uid = uid THEN n ELSE last
                   /\ freed' = freed \cup {user}
            /\ first' = first
  <2>1. PICK k : k = Rounds(uid) + 1
    OBVIOUS
  <2>2. PICK p : p = Table!ptrant(k)
    OBVIOUS
  <2>3. /\ k \in 2..rows /\ k \in 1..Len(c) /\ p \in 1..k
        /\ Table!FoundByUid(uid, k)
        /\ round(Rounds(uid)).ptr = c[k] /\ round(Rounds(uid)).ptrant = c[p]
        /\ last = c[Len(c)] /\ (heap[last].uid = uid <=> k = Len(c))
    BY <1>1, <1>6, <1>14, <2>1, <2>2, FoundAt
  <2>4. /\ last' = IF k = Len(c) THEN n ELSE c[Len(c)]
        /\ next' = [Append(next, next[c[k]]) EXCEPT ![c[p]] = n]
        /\ freed' = freed \cup {c[k]} /\ first' = first
    BY <1>14, <2>3
  <2>5. PICK d : d = Proved!Splice(c, p, n, k)
    OBVIOUS
  <2>6. /\ Linked(d)' /\ d # <<>> /\ d[Len(d)] = IF k = Len(c) THEN n ELSE c[Len(c)]
        /\ next' \in Seq(Nat) /\ Len(next') = n
        /\ \A m \in 1..n : next'[m] \in 0..n
    <3>1. Joins(c, p, n, k)
      BY <2>4, Zenon DEF Joins
    <3>2. Becomes(d, IF k = Len(c) THEN n ELSE c[Len(c)], n)
      BY <1>2, <1>3, <1>5, <1>6, <2>3, <2>5, <3>1, Relinks
    <3> QED  BY <3>2, Zenon DEF Becomes
  <2>7. Chain' = d
    BY <1>7, <2>6, ChainBecomes
  <2>8. last' = d[Len(d)]
    BY <2>4, <2>6
  <2>9. NextOK'
    <3>1. last' \in 0..n /\ first' \in 0..n
      <4>1. k \in 1..Len(c) /\ Len(c) \in Nat
        BY <1>9, <2>3, Zenon
      <4>2. Len(c) \in 1..Len(c)
        BY <4>1
      <4>3. c[Len(c)] \in 1..Len(heap) /\ first \in 0..Len(heap)
        BY <1>9, <4>2, Zenon
      <4>4. 1..Len(heap) \subseteq 0..n /\ 0..Len(heap) \subseteq 0..n /\ n \in 0..n
        BY <1>3, <1>7
      <4> QED  BY <2>4, <4>3, <4>4
    <3>2. DOMAIN next' = 1..n
      BY <2>6, LenProperties
    <3> QED  BY <1>7, <2>6, <3>1, <3>2 DEF NextOK, HeapTypeOK
  <2>10. LastIsTail'
    BY <2>6, <2>7, <2>8 DEF LastIsTail
  <2>11. Table!user_table_update(r, 1)
    <3>1. Chain' = SubSeq(Chain, 1, Table!ptrant(k)) \o <<Len(heap) + 1>>
                   \o SubSeq(Chain, k + 1, Len(Chain))
      BY <1>1, <1>3, <2>2, <2>5, <2>7, Zenon DEF Proved!Splice
    <3>2. freed' = freed \cup {Chain[k]}
      BY <1>1, <2>4
    <3> QED  BY <1>4, <1>6, <1>10, <1>11, <2>3, <3>1, <3>2, Zenon DEF Table!user_table_update
  <2> QED  BY <2>6, <2>7, <2>9, <2>10, <2>11 DEF Table!Update
<1>15. CASE /\ rows # 1 \/ heap[first].uid # uid
            /\ ~Finds(uid) /\ next' = Append(next, NULL) /\ UNCHANGED <<freed, first, last>>
  <2>1. \A k \in 1..rows : ~Table!FoundByUid(uid, k)
    BY <1>2, <1>6, <1>15, NoneFound
  <2>2. /\ next' \in Seq(Nat) /\ Len(next') = n
        /\ \A m \in 1..Len(heap) : next'[m] = next[m]
        /\ \A m \in DOMAIN next' : next'[m] \in 0..n
    BY <1>12, <1>15
  <2>3. Linked(c)'
    <3>1. c \in Seq(1..n) /\ Len(c) <= n
      <4>1. 1..Len(heap) \subseteq 1..n /\ c \in Seq(1..Len(heap)) /\ Len(c) <= Len(heap)
        BY <1>2, <1>3, <1>7 DEF Linked
      <4>2. c \in Seq(1..n)
        BY <4>1, SeqMonotonic
      <4> QED  BY <1>3, <1>7, <1>9, <4>1, <4>2
    <3>2. \A i \in DOMAIN c : next'[c[i]] = next[c[i]]
      BY <1>9, <2>2
    <3> QED  BY <1>2, <1>7, <1>15, <3>1, <3>2 DEF Linked
  <2>4. Chain' = c
    BY <1>7, <2>3, ChainBecomes
  <2>5. NextOK'
    <3>1. 0..Len(heap) \subseteq 0..n
      BY <1>3, <1>7
    <3>2. first' \in 0..n /\ last' \in 0..n
      BY <1>9, <1>15, <3>1
    <3> QED  BY <1>7, <2>2, <3>2 DEF NextOK, HeapTypeOK
  <2>6. LastIsTail'
    BY <1>1, <1>2, <1>15, <2>4 DEF LastIsTail
  <2>7. Table!user_table_update(r, 0)
    <3>1. Chain' = Chain /\ freed' = freed
      BY <1>1, <1>15, <2>4
    <3> QED  BY <1>4, <1>6, <1>10, <1>11, <2>1, <3>1, Zenon DEF Table!user_table_update
  <2> QED  BY <2>3, <2>4, <2>5, <2>6, <2>7 DEF Table!Update
<1> QED  BY <1>3, <1>4, <1>13, <1>14, <1>15 DEF user_table_update

-----------------------------------------------------------------------------
(* Bad pointers.                                                           *)

\* The list a step leaves is in order.
Kept == NextOK' /\ Linked(Chain)' /\ LastIsTail'

LEMMA GoneKept == ASSUME heap' = <<>>, Lost PROVE Kept
<1>1. Linked(<<>>)' /\ Chain' = <<>> /\ NextOK' /\ LastIsTail'
  BY LostIsEmpty
<1> QED  BY <1>1 DEF Kept

LEMMA FaultKept == ASSUME NEW ps, Fault(ps) PROVE Kept
<1>1. Lost /\ (Table!Crash \/ Table!Undefined)
  BY DEF Fault
<1>2. heap' = <<>>
  BY <1>1 DEF Table!Crash, Table!Undefined, Table!Forget
<1> QED  BY <1>1, <1>2, GoneKept

\* The first bad pointer of a walk is what UserTable makes of the positions the
\* walk would have read.
LEMMA FaultAt ==
  ASSUME ListInv, NEW c, c = Chain, NEW i \in Nat, i # 0, ~Valid(Place(c, i)),
         \A j \in 1..(i - 1) : Valid(Place(c, j)),
         IF Place(c, i) = NULL THEN Table!Crash ELSE Table!Undefined,
         NEW P, i \in P
  PROVE  Table!Fault(P)
<1>1. Linked(c) /\ heap \in Seq(Table!Row)
  BY DEF ListInv, Table!TypeOK
<1>2. DOMAIN c = 1..Len(c) /\ Len(c) \in Nat
  BY <1>1, Places
<1>3. ~Table!Live(i) /\ (Place(c, i) = NULL <=> i \notin DOMAIN c)
  BY PlaceValid
<1>4. CASE Place(c, i) = NULL
  <2>1. i \notin DOMAIN c
    BY <1>3, <1>4
  <2>2. \A j \in DOMAIN c : Table!Live(j)
    <3> SUFFICES ASSUME NEW j \in DOMAIN c PROVE Table!Live(j)
      OBVIOUS
    <3>1. j \in 1..(i - 1) /\ j \in Nat /\ j # 0
      BY <1>2, <2>1
    <3>2. Valid(Place(c, j))
      BY <3>1
    <3> QED  BY <3>1, <3>2, PlaceValid
  <2> QED  BY <1>4, <2>1, <2>2 DEF Table!Fault
<1>5. CASE Place(c, i) # NULL
  <2>1. i \in P \cap DOMAIN Chain
    BY <1>3, <1>5
  <2> QED  BY <1>3, <1>5, <2>1 DEF Table!Fault
<1> QED  BY <1>4, <1>5

LEMMA InsertFaults == ASSUME ListInv, insert_faults PROVE Table!insert_faults
<1>1. PICK c : c = Chain
  OBVIOUS
<1>2. Linked(c) /\ heap \in Seq(Table!Row) /\ last = IF c = <<>> THEN NULL ELSE c[Len(c)]
  BY <1>1 DEF ListInv, Table!TypeOK, LastIsTail
<1>3. /\ DOMAIN c = 1..Len(c) /\ Len(c) \in Nat /\ (c = <<>> <=> Len(c) = 0)
      /\ \A i \in 1..Len(c) : c[i] # NULL
  BY <1>2, Places
<1>4. ~Valid(last) /\ IF last = NULL THEN Table!Crash ELSE Table!Undefined
  BY DEF insert_faults, Fault
<1>5. CASE last = NULL
  <2>1. Len(c) \notin DOMAIN c
    <3>1. CASE c = <<>>
      BY <1>3, <3>1
    <3>2. CASE c # <<>>
      <4>1. Len(c) \in 1..Len(c)
        BY <1>3, <3>2
      <4> QED  BY <1>2, <1>3, <1>5, <3>2, <4>1
    <3> QED  BY <3>1, <3>2
  <2> QED  BY <1>1, <1>4, <1>5, <2>1 DEF Table!Fault, Table!insert_faults, insert_faults
<1>6. CASE last # NULL
  <2>1. c # <<>> /\ last = c[Len(c)] /\ last \in freed
    BY <1>2, <1>4, <1>6 DEF Valid
  <2>2. Len(c) \in DOMAIN c
    BY <1>3, <2>1
  <2> QED  BY <1>1, <1>4, <1>6, <2>1, <2>2 DEF Table!Fault, Table!Live, Table!insert_faults, insert_faults
<1> QED  BY <1>5, <1>6

LEMMA ReadFaults == ASSUME ListInv, read_faults PROVE Table!read_faults
<1>1. PICK c : c = Chain
  OBVIOUS
<1>2. Linked(c) /\ heap \in Seq(Table!Row) /\ rows \in Nat
  BY <1>1 DEF ListInv, Table!TypeOK
<1>3. PICK k \in 1..rows : Fault([i \in 1..k |-> Follow(first, i - 1)])
  BY DEF read_faults
<1>4. PICK ps : ps = [i \in 1..k |-> Follow(first, i - 1)]
  OBVIOUS
<1>5. \A m \in 1..k : ps[m] = Place(c, m)
  <2> SUFFICES ASSUME NEW m \in 1..k PROVE ps[m] = Place(c, m)
    OBVIOUS
  <2>1. m - 1 \in Nat /\ (m - 1) + 1 = m
    OBVIOUS
  <2>2. Follow(first, m - 1) = Place(c, (m - 1) + 1)
    BY <1>2, <2>1, Places
  <2> QED  BY <1>4, <2>1, <2>2
<1>6. PICK i \in 1..k : /\ ~Valid(ps[i]) /\ \A j \in 1..(i - 1) : Valid(ps[j])
                        /\ IF ps[i] = NULL THEN Table!Crash ELSE Table!Undefined
  BY <1>3, <1>4 DEF Fault
<1>7. i \in Nat /\ i # 0 /\ \A j \in 1..(i - 1) : j \in 1..k
  BY <1>2
<1>8. /\ ~Valid(Place(c, i)) /\ \A j \in 1..(i - 1) : Valid(Place(c, j))
      /\ IF Place(c, i) = NULL THEN Table!Crash ELSE Table!Undefined
  BY <1>5, <1>6, <1>7
<1>9. Table!Fault(1..k)
  <2>1. \A P : i \in P => Table!Fault(P)
    BY <1>1, <1>7, <1>8, FaultAt
  <2> QED  BY <2>1
<1>10. rows > 0
  BY <1>2
<1> QED  BY <1>9, <1>10 DEF Table!read_faults, read_faults

LEMMA WalkFaults == ASSUME ListInv, walk_faults PROVE Table!caller_fault
<1>1. PICK c : c = Chain
  OBVIOUS
<1>2. \A i \in DOMAIN c : c[i] # NULL
  <2>1. Linked(c) /\ heap \in Seq(Table!Row)
    BY <1>1 DEF ListInv, Table!TypeOK
  <2> QED  BY <2>1, Places
<1> QED  BY <1>1, <1>2 DEF walk_faults, Fault, Table!caller_fault

\* The search of delete and update.
LEMMA WriteFaults == ASSUME ListInv, write_faults PROVE Table!write_faults
<1>1. PICK c : c = Chain
  OBVIOUS
<1>2. /\ Linked(c) /\ heap \in Seq(Table!Row) /\ rows \in Nat
      /\ last = IF c = <<>> THEN NULL ELSE c[Len(c)]
  BY <1>1 DEF ListInv, Table!TypeOK, LastIsTail
<1>3. PICK uid \in Table!KnownUids : Fault(Reads(uid))
  BY DEF write_faults
<1>4. PICK ps : ps = Reads(uid)
  OBVIOUS
<1>5. PICK i \in DOMAIN ps : /\ ~Valid(ps[i]) /\ \A j \in 1..(i - 1) : Valid(ps[j])
                             /\ IF ps[i] = NULL THEN Table!Crash ELSE Table!Undefined
  BY <1>3, <1>4 DEF Fault
<1>6. PICK P : P = Table!VisitedByUid(uid)
  OBVIOUS
<1>7. SUFFICES Table!Fault(P)
  BY <1>6 DEF Table!write_faults, write_faults
<1>8. ASSUME i \in Nat, i # 0, i \in P, \A j \in 1..i : ps[j] = Place(c, j)
      PROVE  Table!Fault(P)
  <2>1. i \in 1..i /\ \A j \in 1..(i - 1) : j \in 1..i
    BY <1>8
  <2>2. /\ ~Valid(Place(c, i)) /\ \A j \in 1..(i - 1) : Valid(Place(c, j))
        /\ IF Place(c, i) = NULL THEN Table!Crash ELSE Table!Undefined
    BY <1>5, <1>8, <2>1
  <2>3. \A Q : i \in Q => Table!Fault(Q)
    BY <1>1, <1>8, <2>2, FaultAt
  <2> QED  BY <1>8, <2>3
<1>9. CASE rows = 0
  BY <1>4, <1>5, <1>9 DEF Reads
<1>10. CASE rows = 1
  <2>1. ps = <<first>>
    BY <1>4, <1>10 DEF Reads
  <2>2. i = 1 /\ ps[1] = first
    BY <1>5, <2>1
  <2>3. first = Place(c, 1)
    <3>1. Follow(first, 0) = Place(c, 0 + 1) /\ Follow(first, 0) = first
      BY <1>2, Places, FollowStep
    <3>2. 0 + 1 = 1
      OBVIOUS
    <3> QED  BY <3>1, <3>2
  <2>4. 1 \in P
    BY <1>6, <1>10 DEF Table!VisitedByUid, Table!Visited
  <2>5. \A j \in 1..1 : j = 1
    OBVIOUS
  <2> QED  BY <1>8, <2>2, <2>3, <2>4, <2>5
<1>11. CASE rows > 1
  <2>1. PICK R : R = Rounds(uid)
    OBVIOUS
  <2>2. /\ DOMAIN ps = 1..(IF Finds(uid) THEN R + 2 ELSE R + 1)
        /\ \A m \in 1..(R + 1) : ps[m] = Place(c, m)
        /\ Finds(uid) => ps[R + 2] = last
    BY <1>1, <1>4, <1>11, <2>1, ReadsPlaces
  <2>3. R \in Nat /\ R \in 1..(rows - 1) /\ (Finds(uid) <=> Hit(c, uid, R + 1))
    BY <1>2, <1>11, <2>1, SearchEnds
  <2>4. /\ Table!Visited("uid", uid, 2) = 1..(R + 1)
        /\ \A k : Table!FoundByUid(uid, k) <=> (Finds(uid) /\ k = R + 1)
    BY <1>1, <1>11, <2>1, SameSearch
  <2>5. i \in Nat /\ i # 0 /\ (i \in 1..(R + 1) \/ (Finds(uid) /\ i = R + 2))
    BY <1>5, <2>2, <2>3
  <2>6. CASE i \in 1..(R + 1)
    <3>1. i \in P
      BY <1>6, <2>4, <2>6 DEF Table!VisitedByUid
    <3>2. \A j \in 1..i : ps[j] = Place(c, j)
      BY <2>2, <2>3, <2>6
    <3> QED  BY <1>8, <2>5, <3>1, <3>2
  <2>7. CASE Finds(uid) /\ i = R + 2
    <3>1. R + 1 \in 1..Len(c)
      BY <2>3, <2>7 DEF Hit
    <3>2. /\ DOMAIN c = 1..Len(c) /\ Len(c) \in Nat /\ (c = <<>> <=> Len(c) = 0)
          /\ \A m \in 1..Len(c) : c[m] # NULL
      BY <1>2, Places
    <3>3. Len(c) \in DOMAIN c /\ last = c[Len(c)] /\ last # NULL
      <4>1. Len(c) \in 1..Len(c) /\ Len(c) # 0
        BY <3>1, <3>2
      <4> QED  BY <1>2, <3>2, <4>1
    <3>4. ps[i] = last
      BY <2>2, <2>7
    <3>5. ~Table!Live(Len(c)) /\ Table!Undefined
      BY <1>1, <1>5, <3>3, <3>4 DEF Valid, Table!Live
    <3>6. Len(c) \in P
      <4>1. R + 1 \in 2..rows
        BY <1>2, <2>3
      <4>2. \E k \in 2..rows : Table!FoundByUid(uid, k)
        BY <2>4, <2>7, <4>1
      <4> QED  BY <1>1, <1>6, <1>11, <4>2 DEF Table!VisitedByUid
    <3> QED  BY <1>1, <3>3, <3>5, <3>6 DEF Table!Fault
  <2> QED  BY <2>5, <2>6, <2>7
<1> QED  BY <1>2, <1>9, <1>10, <1>11

-----------------------------------------------------------------------------
(* Starting, saving, loading and dying.                                    *)

IsHead(t, s, h) == t = SubSeq(s, 1, h)

\* _load_table links its n rows behind the h that are in memory.
LEMMA ListLoaded ==
  ASSUME NEW h \in Nat, NEW n \in Nat, n # 0, heap' \in Seq(Table!Row), Len(heap') = h + n,
         NEW t \in Seq(Nat), IsHead(t, next, h), Len(t) = h, \A m \in 1..h : t[m] \in 0..(h + n),
         load_list(h, n)
  PROVE  Kept
<1>1. PICK q : q = [i \in 1..n |-> IF i < n THEN h + i + 1 ELSE 0]
  OBVIOUS
<1>2. q \in Seq(Nat) /\ Len(q) = n /\ \A i \in 1..n : q[i] = IF i < n THEN h + i + 1 ELSE 0
  <2>1. \A i \in 1..n : q[i] = (IF i < n THEN h + i + 1 ELSE 0) /\ q[i] \in Nat
    BY <1>1
  <2> QED  BY <1>1, <2>1, IsASeq, LenProperties
<1>3. IsJoined(next', t, q) /\ first' = h + 1 /\ last' = h + n
  BY <1>1 DEF load_list, NULL, IsJoined, IsHead
<1>4. /\ next' \in Seq(Nat) /\ Len(next') = h + n
      /\ \A m \in 1..h : next'[m] = t[m]
      /\ \A i \in 1..n : next'[h + i] = q[i]
  <2>1. JoinedTo(next', t, q)
    BY <1>2, <1>3, TwoParts, Zenon
  <2> QED  BY <1>2, <2>1, Zenon DEF JoinedTo
<1>7. DOMAIN next' = 1..(h + n)
  BY <1>4, LenProperties
<1>8. \A m \in 1..(h + n) : next'[m] \in 0..(h + n)
  <2> SUFFICES ASSUME NEW m \in 1..(h + n) PROVE next'[m] \in 0..(h + n)
    OBVIOUS
  <2>1. CASE m <= h
    <3>1. m \in 1..h
      BY <2>1
    <3> QED  BY <1>4, <3>1
  <2>2. CASE ~(m <= h)
    <3>1. PICK i : i = m - h
      OBVIOUS
    <3>2. i \in 1..n /\ h + i = m
      BY <2>2, <3>1
    <3>3. q[i] \in 0..(h + n)
      <4>1. q[i] = IF i < n THEN h + i + 1 ELSE 0
        BY <1>2, <3>2, Zenon
      <4>2. CASE i < n
        <5>1. h + i + 1 \in 0..(h + n)
          BY <3>2, <4>2
        <5> QED  BY <4>1, <4>2, <5>1, Zenon
      <4>3. CASE ~(i < n)
        <5>1. 0 \in 0..(h + n)
          OBVIOUS
        <5> QED  BY <4>1, <4>3, <5>1, Zenon
      <4> QED  BY <4>2, <4>3, Zenon
    <3> QED  BY <1>4, <3>2, <3>3
  <2> QED  BY <2>1, <2>2
<1>9. PICK d : d = [i \in 1..n |-> h + i]
  OBVIOUS
<1>10. /\ d \in Seq(1..(h + n)) /\ Len(d) = n /\ DOMAIN d = 1..n
       /\ \A i \in 1..n : d[i] = h + i
  <2>1. \A i \in 1..n : h + i \in 1..(h + n)
    OBVIOUS
  <2>2. d \in Seq(1..(h + n))
    BY <1>9, <2>1, IsASeq
  <2>3. DOMAIN d = 1..n /\ \A i \in 1..n : d[i] = h + i
    BY <1>9
  <2>4. Len(d) = n
    BY <2>2, <2>3, LenProperties
  <2> QED  BY <2>2, <2>3, <2>4
<1>11. d # <<>> /\ d[1] = h + 1 /\ d[Len(d)] = h + n
  <2>1. 1 \in 1..n /\ n \in 1..n
    OBVIOUS
  <2>2. d # <<>>
    BY <1>10, EmptySeq
  <2> QED  BY <1>10, <2>1, <2>2
<1>12. \A i \in 1..n : next'[d[i]] = IF i < n THEN d[i + 1] ELSE NULL
  <2> SUFFICES ASSUME NEW i \in 1..n PROVE next'[d[i]] = IF i < n THEN d[i + 1] ELSE NULL
    OBVIOUS
  <2>1. next'[d[i]] = IF i < n THEN h + i + 1 ELSE 0
    BY <1>2, <1>4, <1>10
  <2>2. i < n => i + 1 \in 1..n /\ h + i + 1 = h + (i + 1)
    OBVIOUS
  <2> QED  BY <1>10, <2>1, <2>2 DEF NULL
<1>13. \A i, j \in 1..n : d[i] = d[j] => i = j
  BY <1>10
<1>14. Linked(d)'
  <2>1. n <= h + n
    OBVIOUS
  <2> QED  BY <1>3, <1>10, <1>11, <1>12, <1>13, <2>1 DEF Linked
<1>15. Chain' = d
  BY <1>14, ChainBecomes
<1>16. NextOK'
  <2>1. h + 1 \in 0..(h + n) /\ h + n \in 0..(h + n)
    OBVIOUS
  <2> QED  BY <1>3, <1>4, <1>7, <1>8, <2>1 DEF NextOK, HeapTypeOK
<1>17. LastIsTail'
  BY <1>3, <1>11, <1>15 DEF LastIsTail
<1> QED  BY <1>14, <1>15, <1>16, <1>17 DEF Kept

LEMMA RowsLoaded ==
  ASSUME Table!TypeOK, NEW h \in Seq(Table!Row), Table!load_table(h)
  PROVE  heap' \in Seq(Table!Row) /\ Len(heap') = Len(h) + Len(file) /\ Len(file) \in Nat /\ Len(file) # 0
<1>1. Proved!TypeOK /\ h \in Seq(Proved!Row) /\ Proved!load_table(h) /\ Table!Row = Proved!Row
  BY SameTable
<1>2. heap' \in Seq(Proved!Row) /\ Len(heap') = Len(h) + Len(file) /\ Len(file) > 0
  BY <1>1, Assumed, Proved!Loaded
<1>3. Len(file) \in Nat
  BY LenProperties DEF Table!TypeOK, Table!load_table
<1> QED  BY <1>1, <1>2, <1>3

\* The pointers are as they were, and so is the heap.
LEMMA SameKept == ASSUME ListInv, UNCHANGED <<heap, listVars>> PROVE Kept /\ Chain' = Chain
<1>1. PICK c : c = Chain
  OBVIOUS
<1>2. heap' = heap /\ next' = next /\ first' = first /\ last' = last
  BY DEF listVars
<1>3. Linked(c) /\ heap \in Seq(Table!Row) /\ NextOK /\ LastIsTail
  BY <1>1 DEF ListInv, Table!TypeOK
<1>4. Linked(c)'
  BY <1>2, <1>3 DEF Linked
<1>5. Chain' = c
  BY <1>2, <1>3, <1>4, ChainBecomes
<1>6. NextOK'
  BY <1>2, <1>3 DEF NextOK, HeapTypeOK
<1>7. LastIsTail'
  BY <1>1, <1>2, <1>3, <1>5 DEF LastIsTail
<1> QED  BY <1>1, <1>4, <1>5, <1>6, <1>7 DEF Kept

LEMMA SavesKept == ASSUME ListInv, Saves PROVE Kept
<1>1. UNCHANGED <<heap, listVars>>
  BY DEF Saves, Table!save_opens, Table!save_closes
<1> QED  BY <1>1, SameKept

LEMMA LoadsKept == ASSUME ListInv, Loads PROVE Kept
<1>1. CASE /\ file \notin {Missing, <<>>} /\ load_list(Len(heap), Len(file))
           /\ Table!user_table_rollback(0)
  <2>1. Table!load_table(heap)
    BY <1>1 DEF Table!user_table_rollback
  <2>2. heap \in Seq(Table!Row) /\ Table!TypeOK /\ NextOK
    BY DEF ListInv, Table!TypeOK
  <2>3. PICK h : h = Len(heap)
    OBVIOUS
  <2>4. PICK n : n = Len(file)
    OBVIOUS
  <2>5. heap' \in Seq(Table!Row) /\ Len(heap') = h + n /\ n \in Nat /\ n # 0 /\ h \in Nat
    BY <2>1, <2>2, <2>3, <2>4, RowsLoaded, LenProperties
  <2>6. /\ next \in Seq(Nat) /\ Len(next) = h /\ \A m \in 1..h : next[m] \in 0..h
    BY <2>2, <2>3, NextIs
  <2>7. IsHead(next, next, h)
    <3>1. PICK t : t = SubSeq(next, 1, h)
      OBVIOUS
    <3>2. \A i \in 1..h : next[i] \in Nat
      BY <2>5, <2>6
    <3>3. t \in Seq(Nat) /\ Len(t) = h /\ \A i \in 1..h : t[i] = next[i]
      BY <2>5, <2>6, <3>1, <3>2, SubSeqProperties, LenProperties
    <3>4. t = next
      BY <2>5, <2>6, <3>3, SeqEqual
    <3> QED  BY <3>1, <3>4, Zenon DEF IsHead
  <2>8. \A m \in 1..h : next[m] \in 0..(h + n)
    BY <2>5, <2>6
  <2>9. load_list(h, n)
    BY <1>1, <2>3, <2>4
  <2> QED  BY <2>5, <2>6, <2>7, <2>8, <2>9, ListLoaded
<1>2. CASE UNCHANGED listVars /\ Table!user_table_rollback(-1)
  <2>1. heap' = heap
    BY <1>2 DEF Table!user_table_rollback
  <2> QED  BY <1>2, <2>1, SameKept
<1>4. CASE file = <<>> /\ UNCHANGED listVars /\ Table!user_table_rollback(0)
  <2>1. heap' = heap
    BY <1>4 DEF Table!user_table_rollback, Table!load_table
  <2> QED  BY <1>4, <2>1, SameKept
<1>3. CASE Lost /\ Table!rollback_faults
  <2>1. heap' = <<>>
    BY <1>3 DEF Table!rollback_faults, Table!Undefined, Table!Crash, Table!Forget
  <2> QED  BY <1>3, <2>1, GoneKept
<1> QED  BY <1>1, <1>2, <1>3, <1>4 DEF Loads

LEMMA InitKept == ASSUME ListInv, user_table_init PROVE Kept
<1>2. CASE /\ heap' = <<Table!WithUid(Table!admin, 1001)>>
           /\ next' = <<NULL>> /\ first' = 1 /\ last' = 1
  <2>1. next' = <<0>> /\ first' = 1 /\ last' = 1
    BY <1>2 DEF NULL
  <2>2. heap' = <<Table!WithUid(Table!admin, 1001)>>
    BY <1>2
  <2>3. PICK r : r = Table!WithUid(Table!admin, 1001)
    OBVIOUS
  <2>4. r \in Table!Row
    <3>1. Table!admin \in Table!Entry
      BY TextsAssumption
    <3> QED  BY <2>3, <3>1, RowOfEntry
  <2>5. heap' \in Seq(Table!Row) /\ Len(heap') = 1
    BY <2>2, <2>3, <2>4
  <2>6. PICK d : d = <<1>>
    OBVIOUS
  <2>7. d \in Seq(1..1) /\ Len(d) = 1 /\ DOMAIN d = {1} /\ d[1] = 1 /\ d # <<>>
    BY <2>6
  <2>8. /\ next' \in Seq(Nat) /\ Len(next') = 1 /\ next'[1] = 0 /\ DOMAIN next' = {1}
    BY <2>1
  <2>9. Linked(d)'
    BY <2>1, <2>5, <2>7, <2>8 DEF Linked, NULL
  <2>10. Chain' = d
    BY <2>5, <2>9, ChainBecomes
  <2>11. NextOK'
    BY <2>1, <2>5, <2>8 DEF NextOK, HeapTypeOK
  <2>12. LastIsTail'
    BY <2>1, <2>7, <2>10 DEF LastIsTail
  <2> QED  BY <2>9, <2>10, <2>11, <2>12 DEF Kept
<1>3. CASE heap' = <<>> /\ Lost
  BY <1>3, GoneKept
<1>4. CASE load_list(0, Len(file)) /\ Table!load_table(<<>>)
  <2>1. Table!load_table(<<>>)
    BY <1>4
  <2>2. load_list(0, Len(file))
    BY <1>4
  <2>3. PICK n : n = Len(file)
    OBVIOUS
  <2>4. heap' \in Seq(Table!Row) /\ Len(heap') = 0 + n /\ n \in Nat /\ n # 0
    <3>1. <<>> \in Seq(Table!Row) /\ Len(<<>>) = 0 /\ Table!TypeOK
      BY DEF ListInv
    <3> QED  BY <2>1, <2>3, <3>1, RowsLoaded
  <2>5. PICK t : t = SubSeq(next, 1, 0)
    OBVIOUS
  <2>6. t \in Seq(Nat) /\ Len(t) = 0
    BY <2>5
  <2>7. \A m \in 1..0 : t[m] \in 0..(0 + n)
    OBVIOUS
  <2>8. load_list(0, n) /\ 0 \in Nat
    BY <2>2, <2>3
  <2>9. IsHead(t, next, 0)
    BY <2>5, Zenon DEF IsHead
  <2> QED  BY <2>4, <2>6, <2>7, <2>8, <2>9, ListLoaded
<1> QED  BY <1>2, <1>3, <1>4 DEF user_table_init

-----------------------------------------------------------------------------
(* The theorems.                                                           *)

LEMMA HeapInit == Init => HeapInv /\ Table!Init
<1> SUFFICES ASSUME Init PROVE HeapInv /\ Table!Init
  OBVIOUS
<1>1. /\ heap = <<>> /\ next = <<>> /\ first = 0 /\ last = 0 /\ mode = "down" /\ freed = {}
      /\ rows = 0 /\ lastUid = 0 /\ file = InitialFile /\ saving = FALSE
  BY DEF Init, NULL
<1>2. /\ <<>> \in Seq(1..Len(heap)) /\ <<>> \in Seq(Table!Row) /\ <<>> \in Seq(Nat)
      /\ Len(<<>>) = 0 /\ DOMAIN <<>> = {}
  OBVIOUS
<1>3. Linked(<<>>)
  BY <1>1, <1>2 DEF Linked, NULL
<1>4. Chain = <<>>
  BY <1>1, <1>2, <1>3, ChainIs
<1>5. NextOK
  BY <1>1, <1>2 DEF NextOK, HeapTypeOK
<1>6. LastIsTail
  BY <1>1, <1>4 DEF LastIsTail, NULL
<1>7. Table!Init
  BY <1>1, <1>4 DEF Table!Init
<1>8. Proved!Init /\ (Table!TypeOK <=> Proved!TypeOK) /\ (Table!UidsIncrease <=> Proved!UidsIncrease)
  BY <1>7, SameTable DEF Table!Init, Proved!Init
<1>9. Table!TypeOK /\ Table!UidsIncrease
  BY <1>8, Assumed, Proved!UidsInit DEF Proved!UidsInv
<1> QED  BY <1>3, <1>4, <1>5, <1>6, <1>7, <1>9 DEF HeapInv, ListInv

\* Every step of the pointers is a step of UserTable, and keeps the list.
LEMMA HeapStep == HeapInv /\ [Next]_allVars => Kept /\ [Table!Next]_(Table!vars)
<1> SUFFICES ASSUME HeapInv, [Next]_allVars PROVE Kept /\ [Table!Next]_(Table!vars)
  OBVIOUS
<1>1. ListInv
  BY DEF HeapInv
<1>2. CASE user_table_init
  <2>1. Table!user_table_init
    BY <1>2 DEF user_table_init
  <2> QED  BY <1>1, <1>2, <2>1, InitKept DEF Table!Next
<1>3. CASE Kill
  <2>1. heap' = <<>> /\ Lost /\ Table!Kill
    BY <1>3 DEF Kill, Table!Kill, Table!Forget
  <2> QED  BY <2>1, GoneKept DEF Table!Next
<1>4. CASE Inserts
  <2>1. PICK e \in Entries : user_table_insert(e)
    BY <1>4 DEF Inserts
  <2> QED  BY <2>1, Inserted DEF Kept, Table!Next
<1>5. CASE Deletes
  <2>1. PICK uid \in Table!KnownUids : user_table_delete(uid)
    BY <1>5 DEF Deletes
  <2> QED  BY <2>1, Deleted DEF Kept, Table!Next
<1>6. CASE Updates
  <2>1. PICK r \in Table!Drafts : user_table_update(r)
    BY <1>6 DEF Updates
  <2> QED  BY <2>1, Updated DEF Kept, Table!Next
<1>7. CASE Saves
  <2>1. Table!save_opens \/ Table!save_closes
    BY <1>7 DEF Saves
  <2> QED  BY <1>1, <1>7, <2>1, SavesKept DEF Table!Next
<1>8. CASE Loads
  <2>1. Table!Rollback \/ Table!rollback_faults
    BY <1>8 DEF Loads, Table!Rollback
  <2> QED  BY <1>1, <1>8, <2>1, LoadsKept DEF Table!Next, Table!Faults
<1>9. CASE insert_faults
  <2>1. \E ps : Fault(ps)
    BY <1>9 DEF insert_faults
  <2> QED  BY <1>1, <1>9, <2>1, InsertFaults, FaultKept DEF Table!Next, Table!Faults
<1>10. CASE write_faults
  <2>1. \E ps : Fault(ps)
    BY <1>10 DEF write_faults
  <2> QED  BY <1>1, <1>10, <2>1, WriteFaults, FaultKept DEF Table!Next, Table!Faults
<1>11. CASE read_faults
  <2>1. \E ps : Fault(ps)
    BY <1>11 DEF read_faults
  <2> QED  BY <1>1, <1>11, <2>1, ReadFaults, FaultKept DEF Table!Next, Table!Faults
<1>12. CASE walk_faults
  <2>1. \E ps : Fault(ps)
    BY <1>12 DEF walk_faults
  <2> QED  BY <1>1, <1>12, <2>1, WalkFaults, FaultKept DEF Table!Next, Table!Faults
<1>13. CASE UNCHANGED allVars
  <2>1. UNCHANGED <<heap, listVars>> /\ UNCHANGED <<mode, freed, rows, lastUid, file, saving>>
    BY <1>13 DEF allVars
  <2>2. Kept /\ Chain' = Chain
    BY <1>1, <2>1, SameKept
  <2> QED  BY <2>1, <2>2 DEF Table!vars
<1> QED  BY <1>2, <1>3, <1>4, <1>5, <1>6, <1>7, <1>8, <1>9, <1>10, <1>11, <1>12, <1>13 DEF Next

LEMMA HeapNext == HeapInv /\ [Next]_allVars => HeapInv'
<1> SUFFICES ASSUME HeapInv, [Next]_allVars PROVE HeapInv'
  OBVIOUS
<1>1. Kept /\ [Table!Next]_(Table!vars)
  BY HeapStep
<1>2. (Table!TypeOK /\ Table!UidsIncrease)'
  BY <1>1, TableKept DEF HeapInv, ListInv
<1> QED  BY <1>1, <1>2 DEF HeapInv, ListInv, Kept

LEMMA HeapAlways == Spec => []HeapInv
BY HeapInit, HeapNext, PTL DEF Spec

\* Type invariant: first, last and every next point to a row that was
\* malloc'd, or are NULL, whatever delete and update have moved around.
THEOREM HeapTypeCorrect == Spec => []HeapTypeOK
<1>1. HeapInv => HeapTypeOK
  BY DEF HeapInv, ListInv, NextOK
<1> QED  BY <1>1, HeapAlways, PTL

\* user_table.last is always the row that a walk from user_table.first ends at:
\* the comparison of uids by which delete and update move it (user_table.c)
\* tells the last row, so a user that insert links is a user the lookups find.
THEOREM LastAlwaysTail == Spec => []LastIsTail
<1>1. HeapInv => LastIsTail
  BY DEF HeapInv, ListInv
<1> QED  BY <1>1, HeapAlways, PTL

\* The linked list of user_table.c implements the sequence of UserTable: every
\* operation on the pointers, and every bad pointer it meets, is a step of
\* UserTable on the rows a walk finds, so the theorems about UserTable hold of
\* the pointers.
THEOREM PointersAreList == Spec => ListSpec
<1>1. Init => Table!Init
  BY HeapInit
<1>2. HeapInv /\ [Next]_allVars => [Table!Next]_(Table!vars)
  BY HeapStep
<1> QED  BY <1>1, <1>2, HeapAlways, PTL DEF Spec, ListSpec, Table!Spec
=============================================================================
