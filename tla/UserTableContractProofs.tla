----------------------- MODULE UserTableContractProofs -----------------------
(***************************************************************************)
(* Proof that UserTable implements UserDirectory, for every set of entries *)
(* made of plain words, every initial file whose uids increase, and every  *)
(* bound.                                                                  *)
(***************************************************************************)
EXTENDS UserTableContract, UserTableProofs

-----------------------------------------------------------------------------
(* Rows of plain words, which the file gives back as they were.            *)

\* One word, and not the empty one.
Plain(t) == Len(t) = 1 /\ t[1] # Blank

PlainRow(r) == Plain(r.login) /\ Plain(r.email) /\ Plain(r.pass) /\ Plain(r.type)

\* The texts that callers bring in are plain.
WordsOnly == (\A e \in Entries : PlainRow(e)) /\ (\A p \in Passwords : Plain(p))

\* A line of four words is read as those words.
LEMMA FourWordsParse ==
  ASSUME NEW l \in Line, Len(l.pieces) = 4, \A j \in 1..4 : l.pieces[j] # Blank
  PROVE  Parses(l)
<1>1. DOMAIN l.pieces = 1..4
  BY LenProperties DEF Line, Text
<1>2. ASSUME NEW k \in 1..4 PROVE WordAt(l, k, k)
  <2>1. Filled(l, k) = 1..k
    BY DEF Filled
  <2>2. k \in Nat /\ Cardinality(1..k) = k
    BY FirstOnes
  <2>3. {j \in 1..k : l.pieces[j] # ""} = Filled(l, k) /\ l.pieces[k] # ""
    BY Zenon DEF Filled, Blank
  <2> QED  BY <2>1, <2>2, <2>3, Zenon DEF WordAt
<1> QED  BY <1>1, <1>2, Zenon DEF Parses

LEMMA PlainLine ==
  ASSUME NEW r \in Row, PlainRow(r)
  PROVE  /\ LineOf(r) \in Line /\ Len(LineOf(r).pieces) = 4
         /\ <<LineOf(r).pieces[1]>> = r.login /\ <<LineOf(r).pieces[2]>> = r.email
         /\ <<LineOf(r).pieces[3]>> = r.pass /\ <<LineOf(r).pieces[4]>> = r.type
         /\ \A j \in 1..4 : LineOf(r).pieces[j] # Blank
<1>1. OneWord(r)
  BY DEF PlainRow, Plain, OneWord
<1>2. PICK c : c = LineOf(r).pieces
  OBVIOUS
<1>3. <<c[1]>> = r.login /\ <<c[2]>> = r.email /\ <<c[3]>> = r.pass /\ <<c[4]>> = r.type
  BY <1>1, <1>2, OneWordLine
<1>4. r.login[1] # Blank /\ r.email[1] # Blank /\ r.pass[1] # Blank /\ r.type[1] # Blank
  BY DEF PlainRow, Plain
<1>5. c[1] # Blank /\ c[2] # Blank /\ c[3] # Blank /\ c[4] # Blank
  BY <1>3, <1>4
<1>6. \A j \in 1..4 : c[j] # Blank
  BY <1>5
<1> QED  BY <1>1, <1>2, <1>6, OneWordLine, Zenon

LEMMA ReadsBack ==
  ASSUME NEW r \in Row, PlainRow(r)
  PROVE  Parses(LineOf(r)) /\ RowOf(LineOf(r)) = r
<1>1. PICK l : l = LineOf(r)
  OBVIOUS
<1>2. /\ l \in Line /\ Len(l.pieces) = 4 /\ \A j \in 1..4 : l.pieces[j] # Blank
      /\ <<l.pieces[1]>> = r.login /\ <<l.pieces[2]>> = r.email
      /\ <<l.pieces[3]>> = r.pass /\ <<l.pieces[4]>> = r.type
  BY <1>1, PlainLine
<1>3. Parses(l)
  BY <1>2, FourWordsParse
<1>4. \A k \in 1..4 : Column(l, k) = <<l.pieces[k]>>
  <2>1. Len(l.pieces) <= 4
    BY <1>2
  <2> QED  BY <1>2, <1>3, <2>1, FullLine
<1>5. l.uid = r.uid
  BY <1>1 DEF LineOf
<1>6. Column(l, 1) = r.login /\ Column(l, 2) = r.email /\ Column(l, 3) = r.pass /\ Column(l, 4) = r.type
  BY <1>2, <1>4
<1>7. RowOf(l) = [uid |-> r.uid, login |-> r.login, email |-> r.email, pass |-> r.pass, type |-> r.type]
  BY <1>5, <1>6, Zenon DEF RowOf
<1>8. r = [uid |-> r.uid, login |-> r.login, email |-> r.email, pass |-> r.pass, type |-> r.type]
  BY DEF Row
<1> QED  BY <1>1, <1>3, <1>7, <1>8, Zenon

\* What a crash leaves of the line, if it reads at all, reads as the row with
\* another type.
LEMMA ReadsCut ==
  ASSUME NEW r \in Row, PlainRow(r), NEW l, l \in Cuts(LineOf(r)), Parses(l)
  PROVE  RowOf(l) = [r EXCEPT !.type = RowOf(l).type]
<1>1. PICK w : w = LineOf(r)
  OBVIOUS
<1>2. /\ w \in Line /\ Len(w.pieces) = 4
      /\ <<w.pieces[1]>> = r.login /\ <<w.pieces[2]>> = r.email /\ <<w.pieces[3]>> = r.pass
  BY <1>1, PlainLine
<1>3. l \in Cuts(w) /\ l \in Line /\ l.uid = w.uid
  BY <1>1, <1>2, CutIsLine
<1>4. /\ Len(l.pieces) <= 4
      /\ Len(l.pieces) = 4 => /\ l.pieces[1] = w.pieces[1] /\ l.pieces[2] = w.pieces[2]
                              /\ l.pieces[3] = w.pieces[3]
  BY <1>2, <1>3, CutOfFour
<1>5. Len(l.pieces) = 4 /\ \A k \in 1..4 : Column(l, k) = <<l.pieces[k]>>
  BY <1>3, <1>4, FullLine
<1>6. Column(l, 1) = r.login /\ Column(l, 2) = r.email /\ Column(l, 3) = r.pass
  BY <1>2, <1>4, <1>5
<1>7. l.uid = r.uid
  BY <1>1, <1>3 DEF LineOf
<1>8. RowOf(l) = [uid |-> r.uid, login |-> r.login, email |-> r.email, pass |-> r.pass, type |-> Column(l, 4)]
  BY <1>6, <1>7, Zenon DEF RowOf
<1>9. r = [uid |-> r.uid, login |-> r.login, email |-> r.email, pass |-> r.pass, type |-> r.type]
  BY DEF Row
<1> QED  BY <1>8, <1>9

\* What is read from a line is plain.
LEMMA ReadsPlain ==
  ASSUME NEW l, Parses(l)
  PROVE  PlainRow(RowOf(l))
<1>1. ASSUME NEW k \in 1..4 PROVE Plain(Column(l, k))
  <2>1. \E i \in DOMAIN l.pieces : WordAt(l, k, i)
    BY DEF Parses
  <2>2. PICK i : i = CHOOSE j \in DOMAIN l.pieces : WordAt(l, k, j)
    OBVIOUS
  <2>3. WordAt(l, k, i)
    BY <2>1, <2>2
  <2>4. l.pieces[i] # Blank
    BY <2>3, Zenon DEF WordAt, Blank
  <2>5. Column(l, k) = <<l.pieces[i]>>
    BY <2>2 DEF Column
  <2> QED  BY <2>4, <2>5 DEF Plain
<1>2. Plain(Column(l, 1)) /\ Plain(Column(l, 2)) /\ Plain(Column(l, 3)) /\ Plain(Column(l, 4))
  BY <1>1
<1> QED  BY <1>2 DEF PlainRow, RowOf

\* The user that a table without a file starts with is plain.
LEMMA AdminPlain == PlainRow(WithUid(admin, 1001))
<1>1. "admin" # Blank /\ "admin@email.com" # Blank /\ "administrador" # Blank
  BY Zenon DEF Blank
<1> QED  BY <1>1 DEF PlainRow, Plain, WithUid, admin

-----------------------------------------------------------------------------
(* The invariant.                                                          *)

HeapPlain == \A n \in DOMAIN heap : PlainRow(heap[n])

\* A freed row stays linked only in a list of two users or more, so that no
\* insert, delete or update ever throws it out again.
DeadKeepsTwo == (\E i \in DOMAIN chain : ~Live(i)) => rows >= 2

LockedIsUp == saving => mode = "up"

ContractInv == UidsInv /\ RowsCountLive /\ HeapPlain /\ DeadKeepsTwo /\ LockedIsUp

AllLive == \A i \in DOMAIN chain : Live(i)

\* A list without freed rows is counted, but for the one that lost its only row.
LEMMA CountsAll ==
  ASSUME UidsInv, RowsCountLive, mode = "up", AllLive
  PROVE  rows = Len(chain) \/ (rows = 1 /\ chain = <<>>)
<1>1. /\ TypeOK /\ DOMAIN chain = 1..Len(chain) /\ Len(chain) \in Nat
  BY LenProperties DEF UidsInv, TypeOK
<1>2. PICK f : f = [i \in 1..Len(chain) |-> chain[i]]
  OBVIOUS
<1>3. f \in Injection(1..Len(chain), LinkedRows)
  <2>1. f \in [1..Len(chain) -> LinkedRows]
    BY <1>1, <1>2 DEF LinkedRows, AllLive, Live
  <2>2. \A i, j \in 1..Len(chain) : i # j => f[i] # f[j]
    BY <1>1, <1>2, PlacesDiffer DEF AllLive
  <2> QED  BY <2>1, <2>2 DEF Injection, IsInjective
<1>4. f \in Surjection(1..Len(chain), LinkedRows)
  <2>1. \A n \in LinkedRows : \E i \in 1..Len(chain) : f[i] = n
    BY <1>1, <1>2 DEF LinkedRows
  <2> QED  BY <1>3, <2>1 DEF Surjection, Injection
<1>5. Cardinality(LinkedRows) = Len(chain)
  <2>1. IsFiniteSet(LinkedRows)
    BY <1>1, LinkedFinite
  <2>2. Cardinality(1..Len(chain)) = Cardinality(LinkedRows)
    BY <1>3, <1>4, <2>1, FS_Injection
  <2> QED  BY <1>1, <2>2, FirstOnes
<1> QED  BY <1>5 DEF RowsCountLive

\* So a table that runs is one of three: all of it is there, some row freed is
\* still linked, or it lost its only row.
LEMMA Standings ==
  ASSUME ContractInv, mode = "up"
  PROVE  \/ Intact
         \/ ~Intact /\ rows >= 2 /\ \E i \in DOMAIN chain : ~Live(i)
         \/ ~Intact /\ rows = 1 /\ chain = <<>>
<1>1. CASE AllLive
  BY <1>1, CountsAll DEF ContractInv, Intact, AllLive
<1>2. CASE ~AllLive
  BY <1>2 DEF ContractInv, Intact, AllLive, DeadKeepsTwo
<1> QED  BY <1>1, <1>2

-----------------------------------------------------------------------------
(* What is seen of a state.                                                *)

LEMMA ListIs == TypeOK => /\ DOMAIN chain = 1..Len(chain) /\ Len(chain) \in Nat
                          /\ \A i \in 1..Len(chain) : chain[i] \in DOMAIN heap
<1> SUFFICES ASSUME TypeOK
             PROVE  /\ DOMAIN chain = 1..Len(chain) /\ Len(chain) \in Nat
                    /\ \A i \in 1..Len(chain) : chain[i] \in DOMAIN heap
  OBVIOUS
<1>1. Len(chain) \in Nat /\ DOMAIN chain = 1..Len(chain)
  BY LenProperties DEF TypeOK
<1>2. \A i \in 1..Len(chain) : chain[i] \in DOMAIN heap
  BY <1>1, Uids
<1> QED  BY <1>1, <1>2

\* The rows are allocated up to position f, and no further.
Reaches(f) ==
  /\ f \in 0..Len(chain) /\ \A i \in 1..f : Live(i)
  /\ f < Len(chain) => ~Live(f + 1)

LEMMA ReachesSome == ASSUME TypeOK PROVE \E f \in Nat : Reaches(f)
<1>1. DOMAIN chain = 1..Len(chain) /\ Len(chain) \in Nat
  BY ListIs
<1>2. PICK T : T = {i \in Nat : i \notin {0} /\ ~Live(i)}
  OBVIOUS
<1>3. Len(chain) + 1 \in T
  BY <1>1, <1>2 DEF Live
<1>4. PICK n \in T : \A m \in T : n <= m
  BY <1>2, <1>3, LeastNatural
<1>5. PICK f : f = n - 1
  OBVIOUS
<1>6. f \in Nat /\ f + 1 = n /\ ~Live(n)
  BY <1>2, <1>4, <1>5
<1>7. ASSUME NEW i \in 1..f PROVE Live(i)
  <2>1. i \in Nat /\ i # 0 /\ ~(n <= i)
    BY <1>6
  <2> QED  BY <1>2, <1>4, <2>1
<1>8. f \in 0..Len(chain)
  <2>1. f + 1 <= Len(chain) + 1
    BY <1>3, <1>4, <1>6
  <2> QED  BY <1>1, <1>6, <2>1
<1> QED  BY <1>6, <1>7, <1>8 DEF Reaches

\* The rows up to f are the front of the list, which is what is seen of it.
LEMMA ListingIs ==
  \A f : TypeOK /\ Reaches(f) =>
    /\ f \in Nat /\ Listing \in Seq(Row) /\ Len(Listing) = f /\ DOMAIN Listing = 1..f
    /\ \A i \in 1..f : Listing[i] = heap[chain[i]]
<1> SUFFICES ASSUME NEW f, TypeOK, Reaches(f)
             PROVE  /\ f \in Nat /\ Listing \in Seq(Row) /\ Len(Listing) = f /\ DOMAIN Listing = 1..f
                    /\ \A i \in 1..f : Listing[i] = heap[chain[i]]
  OBVIOUS
<1>1. /\ DOMAIN chain = 1..Len(chain) /\ Len(chain) \in Nat
      /\ \A i \in 1..Len(chain) : chain[i] \in DOMAIN heap
  BY ListIs
<1>2. f \in 0..Len(chain) /\ (\A i \in 1..f : Live(i)) /\ (f < Len(chain) => ~Live(f + 1))
  BY DEF Reaches
<1>3. Front = 1..f
  <2>1. ASSUME NEW i \in 1..f PROVE i \in Front
    <3>1. i \in DOMAIN chain /\ \A j \in 1..i : j \in 1..f
      BY <1>1, <1>2
    <3> QED  BY <1>2, <3>1 DEF Front, Sound
  <2>2. ASSUME NEW i \in Front, i \notin 1..f PROVE FALSE
    <3>1. i \in 1..Len(chain) /\ \A j \in 1..i : Live(j)
      BY <1>1, <2>2 DEF Front, Sound
    <3>2. f < Len(chain) /\ f + 1 \in 1..i
      BY <1>1, <1>2, <2>2, <3>1
    <3> QED  BY <1>2, <3>1, <3>2
  <2> QED  BY <2>1, <2>2
<1>4. \A i \in 1..f : heap[chain[i]] \in Row
  <2>1. \A i \in 1..f : i \in 1..Len(chain)
    BY <1>1, <1>2
  <2> QED  BY <1>1, <2>1 DEF TypeOK
<1>5. f \in Nat /\ Listing = [i \in 1..f |-> heap[chain[i]]]
  BY <1>1, <1>2, <1>3 DEF Listing
<1>6. Listing \in Seq(Row)
  BY <1>4, <1>5, IsASeq
<1>7. DOMAIN Listing = 1..f /\ \A i \in 1..f : Listing[i] = heap[chain[i]]
  BY <1>5
<1> QED  BY <1>5, <1>6, <1>7, LenProperties

\* A list without freed rows is seen to its end.
LEMMA ReachesAll == TypeOK /\ AllLive => Reaches(Len(chain))
<1> SUFFICES ASSUME TypeOK, AllLive PROVE Reaches(Len(chain))
  OBVIOUS
<1>1. DOMAIN chain = 1..Len(chain) /\ Len(chain) \in Nat
  BY ListIs
<1> QED  BY <1>1 DEF Reaches, AllLive

LEMMA WholeListing ==
  TypeOK /\ AllLive => /\ Listing \in Seq(Row) /\ Len(Listing) = Len(chain)
                       /\ \A i \in 1..Len(chain) : Listing[i] = heap[chain[i]]
BY ReachesAll, ListingIs, Zenon

Readable == file # Missing /\ \A i \in DOMAIN file : Parses(file[i])

LEMMA CopyIs ==
  TypeOK /\ Readable => /\ Copy \in Seq(Row) /\ Len(Copy) = Len(file) /\ Len(file) \in Nat
                        /\ \A i \in 1..Len(file) : Copy[i] = RowOf(file[i])
<1> SUFFICES ASSUME TypeOK, Readable
             PROVE  /\ Copy \in Seq(Row) /\ Len(Copy) = Len(file) /\ Len(file) \in Nat
                    /\ \A i \in 1..Len(file) : Copy[i] = RowOf(file[i])
  OBVIOUS
<1>1. file \in Seq(Line) /\ Len(file) \in Nat /\ DOMAIN file = 1..Len(file)
  BY LenProperties DEF TypeOK, Readable
<1>2. \A i \in 1..Len(file) : RowOf(file[i]) \in Row
  BY <1>1, RowOfLine, ElementOfSeq DEF Readable
<1>3. Copy = [i \in 1..Len(file) |-> RowOf(file[i])]
  BY <1>1 DEF Copy, Readable
<1>4. Copy \in Seq(Row)
  BY <1>1, <1>2, <1>3, IsASeq
<1> QED  BY <1>1, <1>3, <1>4, LenProperties

\* The copy is not readable otherwise, and no other copy is a sequence.
LEMMA CopyMarks ==
  /\ file = Missing => Copy = Nothing
  /\ file # Missing /\ ~Readable => Copy = Garbled
BY DEF Copy, Readable

LEMMA MarksDiffer ==
  \A s \in Seq(Row) : s # Closed /\ s # Lost /\ s # Nothing /\ s # Garbled
BY MarksAssumption

LEMMA ListingIsSeq == TypeOK => Listing \in Seq(Row)
BY ReachesSome, ListingIs, Zenon

\* What the caller sees of a table that runs.
LEMMA SeenOpen ==
  TypeOK /\ mode = "up" => /\ Standing = Listing /\ Standing \notin {Closed, Lost}
                           /\ Directory!IsOpen /\ Damaged = ~Intact
<1> SUFFICES ASSUME TypeOK, mode = "up"
             PROVE  /\ Standing = Listing /\ Standing \notin {Closed, Lost}
                    /\ Directory!IsOpen /\ Damaged = ~Intact
  OBVIOUS
<1>1. Standing = Listing /\ Damaged = ~Intact
  BY DEF Standing, Damaged
<1>2. Listing # Closed /\ Listing # Lost
  BY ListingIsSeq, MarksDiffer
<1> QED  BY <1>1, <1>2 DEF Directory!IsOpen

\* The same of the next state.
LEMMA ListNext == TypeOK' => /\ DOMAIN chain' = 1..Len(chain') /\ Len(chain') \in Nat
                             /\ \A i \in 1..Len(chain') : chain'[i] \in DOMAIN heap'
<1>1. (TypeOK => /\ DOMAIN chain = 1..Len(chain) /\ Len(chain) \in Nat
                 /\ \A i \in 1..Len(chain) : chain[i] \in DOMAIN heap)'
  BY ListIs, PTL
<1> QED  BY <1>1

LEMMA ListingNext ==
  \A f : TypeOK' /\ Reaches(f)' =>
    /\ f \in Nat /\ Listing' \in Seq(Row) /\ Len(Listing') = f /\ DOMAIN Listing' = 1..f
    /\ \A i \in 1..f : Listing'[i] = heap'[chain'[i]]
<1>1. (\A f : TypeOK /\ Reaches(f) =>
         /\ f \in Nat /\ Listing \in Seq(Row) /\ Len(Listing) = f /\ DOMAIN Listing = 1..f
         /\ \A i \in 1..f : Listing[i] = heap[chain[i]])'
  BY ListingIs, PTL
<1> QED  BY <1>1

LEMMA WholeListingNext ==
  TypeOK' /\ AllLive' => /\ Listing' \in Seq(Row) /\ Len(Listing') = Len(chain')
                         /\ \A i \in 1..Len(chain') : Listing'[i] = heap'[chain'[i]]
<1>1. (TypeOK /\ AllLive => /\ Listing \in Seq(Row) /\ Len(Listing) = Len(chain)
                            /\ \A i \in 1..Len(chain) : Listing[i] = heap[chain[i]])'
  BY WholeListing, PTL
<1> QED  BY <1>1

LEMMA CopyNext ==
  TypeOK' /\ Readable' => /\ Copy' \in Seq(Row) /\ Len(Copy') = Len(file') /\ Len(file') \in Nat
                          /\ \A i \in 1..Len(file') : Copy'[i] = RowOf(file'[i])
<1>1. (TypeOK /\ Readable => /\ Copy \in Seq(Row) /\ Len(Copy) = Len(file) /\ Len(file) \in Nat
                             /\ \A i \in 1..Len(file) : Copy[i] = RowOf(file[i]))'
  BY CopyIs, PTL
<1> QED  BY <1>1

LEMMA SeenNext ==
  TypeOK' /\ mode' = "up" => /\ Standing' = Listing' /\ Standing' \notin {Closed, Lost}
                             /\ Damaged' = ~Intact'
<1>1. (TypeOK /\ mode = "up" => /\ Standing = Listing /\ Standing \notin {Closed, Lost}
                                /\ Directory!IsOpen /\ Damaged = ~Intact)'
  BY SeenOpen, PTL
<1> QED  BY <1>1

LEMMA SameCopy == file' = file => Copy' = Copy
BY DEF Copy

\* What a step of an open table has to show.
Shows(A) == HeapPlain' /\ DeadKeepsTwo' /\ (A \/ UNCHANGED Directory!vars)

\* The same rows are seen, be they behind other pointers.
LEMMA SameListing ==
  ASSUME TypeOK, TypeOK', NEW f, Reaches(f), Reaches(f)',
         \A i \in 1..f : heap'[chain'[i]] = heap[chain[i]]
  PROVE  Listing' = Listing
<1>1. /\ Listing \in Seq(Row) /\ Listing' \in Seq(Row) /\ Len(Listing) = f /\ Len(Listing') = f
      /\ \A i \in 1..f : Listing[i] = heap[chain[i]]
      /\ \A i \in 1..f : Listing'[i] = heap'[chain'[i]]
  BY ListingIs, ListingNext, Zenon
<1>2. \A i \in 1..f : Listing'[i] = Listing[i]
  BY <1>1
<1> QED  BY <1>1, <1>2, SeqEqual

\* Nothing is seen of a step that neither breaks nor repairs the table.
LEMMA NothingSeen ==
  ASSUME TypeOK, TypeOK', mode = "up", UNCHANGED <<mode, file, saving>>,
         Listing' = Listing, Intact' = Intact
  PROVE  UNCHANGED Directory!vars
<1>1. Standing' = Standing /\ Damaged' = Damaged
  BY SeenOpen, SeenNext
<1>2. Copy' = Copy
  BY SameCopy
<1> QED  BY <1>1, <1>2 DEF Directory!vars

-----------------------------------------------------------------------------
(* Insert.                                                                 *)

LEMMA PlainGrown ==
  ASSUME TypeOK, HeapPlain, NEW r \in Row, PlainRow(r), heap' = Append(heap, r)
  PROVE  HeapPlain'
<1>1. /\ DOMAIN heap' = 1..(Len(heap) + 1) /\ DOMAIN heap = 1..Len(heap) /\ Len(heap) \in Nat
      /\ heap'[Len(heap) + 1] = r /\ \A n \in DOMAIN heap : heap'[n] = heap[n]
  BY Grown
<1>2. \A n \in DOMAIN heap' : n = Len(heap) + 1 \/ n \in DOMAIN heap
  BY <1>1
<1> QED  BY <1>1, <1>2 DEF HeapPlain

LEMMA PrefixOf ==
  \A c, d \in Seq(Row) :
    Len(d) = Len(c) + 1 /\ (\A i \in 1..Len(c) : d[i] = c[i]) => SubSeq(d, 1, Len(c)) = c
<1> SUFFICES ASSUME NEW c \in Seq(Row), NEW d \in Seq(Row),
                    Len(d) = Len(c) + 1, \A i \in 1..Len(c) : d[i] = c[i]
             PROVE  SubSeq(d, 1, Len(c)) = c
  OBVIOUS
<1>1. Len(c) \in Nat /\ \A i \in 1..Len(c) : d[i] \in Row
  BY LenProperties, ElementOfSeq
<1>2. PICK e : e = SubSeq(d, 1, Len(c))
  OBVIOUS
<1>3. e \in Seq(Row) /\ Len(e) = Len(c) /\ \A i \in 1..Len(c) : e[i] = d[i]
  BY <1>1, <1>2, SubSeqProperties, LenProperties
<1>4. e = c
  BY <1>3, SeqEqual
<1> QED  BY <1>2, <1>4

LEMMA InsertShows == ASSUME ContractInv, TypeOK', WordsOnly, Insert PROVE Shows(Directory!Add)
<1>1. PICK e \in Entries : user_table_insert(e, Len(heap) + 1)
  BY DEF Insert
<1>2. PICK r : r = WithUid(e, lastUid + 1)
  OBVIOUS
<1>3. TypeOK /\ e \in Entry /\ r.uid = lastUid + 1 /\ lastUid \in Nat /\ rows \in Nat
  BY <1>2, EntriesAssumption DEF ContractInv, UidsInv, TypeOK, WithUid
<1>4. r \in Row /\ heap' = Append(heap, r)
  BY <1>1, <1>2, <1>3, Inserted DEF user_table_insert
<1>5. PlainRow(r)
  BY <1>2 DEF WordsOnly, PlainRow, WithUid
<1>6. HeapPlain'
  BY <1>3, <1>4, <1>5, PlainGrown DEF ContractInv
<1>7. /\ UNCHANGED <<mode, freed, file, saving>> /\ mode = "up" /\ ~saving /\ rows' = rows + 1
      /\ rows # 0 => Live(Len(chain))
  BY <1>1 DEF user_table_insert, Idle
<1>8. /\ Len(heap) + 1 \notin freed /\ heap'[Len(heap) + 1] = r
      /\ \A n \in DOMAIN heap : heap'[n] = heap[n]
  BY <1>3, <1>4, Grown
<1>9. /\ DOMAIN chain = 1..Len(chain) /\ Len(chain) \in Nat
      /\ DOMAIN chain' = 1..Len(chain') /\ \A i \in 1..Len(chain) : chain[i] \in DOMAIN heap
  BY <1>3, ListIs, ListNext
<1>0. rows # 0 => /\ Len(chain') = Len(chain) + 1 /\ chain'[Len(chain) + 1] = Len(heap) + 1
                  /\ \A i \in 1..Len(chain) : chain'[i] = chain[i]
  BY <1>1, <1>3, Inserted
<1>10. CASE Intact
  <2>1. rows = Len(chain) /\ \A i \in 1..Len(chain) : chain[i] \notin freed
    BY <1>9, <1>10 DEF Intact, Live
  <2>2. /\ Len(chain') = Len(chain) + 1 /\ chain'[Len(chain) + 1] = Len(heap) + 1
        /\ \A i \in 1..Len(chain) : chain'[i] = chain[i]
    <3>1. CASE rows = 0
      <4>1. Len(chain') = 1 /\ chain'[1] = Len(heap) + 1
        BY <1>1, <1>3, <3>1, Inserted
      <4> QED  BY <2>1, <3>1, <4>1
    <3> QED  BY <1>0, <3>1
  <2>3. \A i \in 1..(Len(chain) + 1) : i = Len(chain) + 1 \/ i \in 1..Len(chain)
    BY <1>9
  <2>4. \A i \in DOMAIN chain' : chain'[i] \notin freed'
    BY <1>7, <1>8, <1>9, <2>1, <2>2, <2>3
  <2>5. Intact' /\ DeadKeepsTwo'
    BY <1>7, <2>1, <2>2, <2>4 DEF Intact, Live, DeadKeepsTwo
  <2>6. PICK c : c = Listing
    OBVIOUS
  <2>7. PICK d : d = Listing'
    OBVIOUS
  <2>8. Standing = c /\ Directory!IsOpen /\ Standing' = d /\ ~Damaged /\ Damaged' = Damaged
    BY <1>3, <1>7, <1>10, <2>5, <2>6, <2>7, SeenOpen, SeenNext
  <2>0. AllLive /\ AllLive'
    BY <1>10, <2>5 DEF Intact, AllLive
  <2>9. c \in Seq(Row) /\ Len(c) = Len(chain) /\ DOMAIN c = 1..Len(c)
    BY <1>3, <2>0, <2>6, WholeListing, LenProperties
  <2>10. /\ d \in Seq(Row) /\ Len(d) = Len(c) + 1 /\ d[Len(d)] = r
         /\ \A i \in 1..Len(c) : d[i] = c[i]
    <3>1. d \in Seq(Row) /\ Len(d) = Len(c) + 1
      BY <2>0, <2>2, <2>7, <2>9, WholeListingNext
    <3>2. \A i \in 1..Len(chain') : d[i] = heap'[chain'[i]]
      BY <2>0, <2>7, WholeListingNext
    <3>3. \A i \in 1..Len(chain) : c[i] = heap[chain[i]]
      BY <1>3, <2>0, <2>6, WholeListing
    <3>4. Len(chain) + 1 \in 1..Len(chain') /\ \A i \in 1..Len(chain) : i \in 1..Len(chain')
      BY <1>9, <2>2
    <3>5. d[Len(chain) + 1] = r
      <4>1. d[Len(chain) + 1] = heap'[chain'[Len(chain) + 1]]
        BY <3>2, <3>4, Zenon
      <4> QED  BY <1>8, <2>2, <4>1, Zenon
    <3>6. ASSUME NEW i \in 1..Len(chain) PROVE d[i] = c[i]
      <4>1. d[i] = heap'[chain'[i]] /\ c[i] = heap[chain[i]]
        BY <3>2, <3>3, <3>4, Zenon
      <4>2. chain'[i] = chain[i] /\ heap'[chain[i]] = heap[chain[i]]
        BY <1>8, <1>9, <2>2, Zenon
      <4> QED  BY <4>1, <4>2, Zenon
    <3> QED  BY <2>9, <3>1, <3>5, <3>6, Zenon
  <2>11. \A i \in 1..Len(c) : c[i].uid < r.uid
    <3>1. ASSUME NEW i \in 1..Len(c) PROVE c[i].uid < lastUid + 1
      <4>1. c[i] = heap[chain[i]] /\ i \in DOMAIN chain
        BY <1>3, <1>9, <2>0, <2>6, <2>9, WholeListing
      <4>2. heap[chain[i]].uid <= lastUid /\ heap[chain[i]].uid \in Nat
        BY <1>3, <1>10, <4>1, Uids DEF Intact, ContractInv, UidsInv, UidsIncrease
      <4> QED  BY <1>3, <4>1, <4>2
    <3> QED  BY <1>3, <3>1
  <2>12. SubSeq(d, 1, Len(c)) = c
    BY <2>9, <2>10, PrefixOf
  <2>13. d \notin {Closed, Lost}
    BY <2>10, MarksDiffer
  <2>14. Copy' = Copy /\ saving' = saving /\ ~saving
    BY <1>7, SameCopy
  <2>15. Directory!Add
    BY <2>8, <2>9, <2>10, <2>11, <2>12, <2>13, <2>14, Zenon DEF Directory!Add
  <2> QED  BY <1>6, <2>5, <2>15 DEF Shows
<1>11. CASE ~Intact /\ rows >= 2 /\ \E i \in DOMAIN chain : ~Live(i)
  <2>1. PICK f \in Nat : Reaches(f)
    BY <1>3, ReachesSome
  <2>2. f < Len(chain) /\ \A i \in 1..f : i \in 1..Len(chain)
    BY <1>9, <1>11, <2>1 DEF Reaches
  <2>3. rows # 0 /\ f + 1 \in 1..Len(chain)
    BY <1>3, <1>9, <1>11, <2>2
  <2>4. /\ f \in 0..Len(chain') /\ DOMAIN chain' = 1..(Len(chain) + 1)
        /\ \A i \in 1..Len(chain) : chain'[i] = chain[i] /\ i \in DOMAIN chain'
    BY <1>0, <1>9, <2>2, <2>3
  <2>5. \A i \in 1..Len(chain) : Live(i)' = Live(i)
    BY <1>7, <1>9, <2>4 DEF Live
  <2>6. Reaches(f)'
    BY <2>1, <2>2, <2>3, <2>4, <2>5 DEF Reaches
  <2>7. ~Intact'
    <3>1. ~Live(f + 1)' /\ f + 1 \in DOMAIN chain'
      BY <2>1, <2>2, <2>3, <2>4, <2>5 DEF Reaches
    <3> QED  BY <3>1 DEF Intact
  <2>8. Listing' = Listing
    <3>1. \A i \in 1..f : heap'[chain'[i]] = heap[chain[i]]
      BY <1>8, <1>9, <2>2, <2>4
    <3> QED  BY <1>3, <2>1, <2>6, <3>1, SameListing
  <2>9. DeadKeepsTwo'
    BY <1>3, <1>7, <1>11 DEF DeadKeepsTwo
  <2>10. UNCHANGED Directory!vars
    <3>1. Intact' = Intact
      BY <1>11, <2>7 DEF Intact
    <3> QED  BY <1>3, <1>7, <2>8, <3>1, NothingSeen
  <2> QED  BY <1>6, <2>9, <2>10 DEF Shows
<1>12. CASE rows = 1 /\ chain = <<>>
  BY <1>7, <1>12 DEF Live
<1> QED  BY <1>7, <1>10, <1>11, <1>12, Standings

-----------------------------------------------------------------------------
(* Delete.                                                                 *)

\* The list is as it was.
LEMMA SameList ==
  ASSUME TypeOK, TypeOK', mode = "up", UNCHANGED <<mode, freed, chain, rows>>,
         \A n \in DOMAIN heap : heap'[n] = heap[n]
  PROVE  Listing' = Listing /\ Intact' = Intact /\ Standing' = Standing /\ Damaged' = Damaged
<1>1. Intact' = Intact
  BY DEF Intact, Live
<1>2. PICK f \in Nat : Reaches(f)
  BY ReachesSome
<1>3. Reaches(f)'
  BY <1>2 DEF Reaches, Live
<1>4. \A i \in 1..f : heap'[chain'[i]] = heap[chain[i]]
  <2>1. \A i \in 1..f : chain[i] \in DOMAIN heap
    BY <1>2, ListIs DEF Reaches
  <2> QED  BY <2>1
<1>5. Listing' = Listing
  BY <1>2, <1>3, <1>4, SameListing
<1> QED  BY <1>1, <1>5, SeenOpen, SeenNext

LEMMA SameStanding ==
  ASSUME TypeOK, TypeOK', mode = "up", UNCHANGED <<mode, freed, chain, rows, file, saving>>,
         \A n \in DOMAIN heap : heap'[n] = heap[n]
  PROVE  UNCHANGED Directory!vars
BY SameList, NothingSeen

\* Two listings one after the other.
IsListed(e, a, b) == e = a \o b

ListedAfter(e, a, b) == /\ e \in Seq(Row) /\ Len(e) = Len(a) + Len(b)
                        /\ \A i \in 1..Len(a) : e[i] = a[i]
                        /\ \A i \in 1..Len(b) : e[Len(a) + i] = b[i]

LEMMA Listed == \A a, b \in Seq(Row) : \A e : IsListed(e, a, b) => ListedAfter(e, a, b)
<1> SUFFICES ASSUME NEW a \in Seq(Row), NEW b \in Seq(Row) PROVE ListedAfter(a \o b, a, b)
  BY Zenon DEF IsListed
<1>1. /\ a \o b \in Seq(Row) /\ Len(a \o b) = Len(a) + Len(b)
      /\ \A i \in 1..Len(a) + Len(b) : (a \o b)[i] = IF i <= Len(a) THEN a[i] ELSE b[i - Len(a)]
  BY ConcatProperties
<1>2. Len(a) \in Nat /\ Len(b) \in Nat
  BY LenProperties
<1>3. ASSUME NEW i \in 1..Len(b) PROVE (a \o b)[Len(a) + i] = b[i]
  <2>1. /\ Len(a) + i \in 1..Len(a) + Len(b) /\ ~(Len(a) + i <= Len(a))
        /\ (Len(a) + i) - Len(a) = i
    BY <1>2
  <2> QED  BY <1>1, <2>1
<1>4. ASSUME NEW i \in 1..Len(a) PROVE (a \o b)[i] = a[i]
  <2>1. i \in 1..Len(a) + Len(b) /\ i <= Len(a)
    BY <1>2
  <2> QED  BY <1>1, <2>1
<1> QED  BY <1>1, <1>3, <1>4 DEF ListedAfter

\* The second row taken out.
LEMMA SecondRemoved ==
  \A c, d \in Seq(Row) :
    /\ Len(c) >= 2 /\ Len(d) = Len(c) - 1 /\ d[1] = c[1]
    /\ \A i \in 2..Len(d) : d[i] = c[i + 1]
    => d = <<c[1]>> \o SubSeq(c, 3, Len(c))
<1> SUFFICES ASSUME NEW c \in Seq(Row), NEW d \in Seq(Row), Len(c) >= 2, Len(d) = Len(c) - 1,
                    d[1] = c[1], \A i \in 2..Len(d) : d[i] = c[i + 1]
             PROVE  d = <<c[1]>> \o SubSeq(c, 3, Len(c))
  OBVIOUS
<1>1. Len(c) \in Nat /\ \A i \in 1..Len(c) : c[i] \in Row
  BY LenProperties, ElementOfSeq
<1>2. PICK a : a = <<c[1]>>
  OBVIOUS
<1>3. a \in Seq(Row) /\ Len(a) = 1 /\ a[1] = c[1]
  BY <1>1, <1>2
<1>4. PICK b : b = SubSeq(c, 3, Len(c))
  OBVIOUS
<1>5. b \in Seq(Row) /\ Len(b) = Len(c) - 2 /\ \A i \in 1..(Len(c) - 2) : b[i] = c[2 + i]
  <2>1. 2 \in 0..Len(c) /\ 2 \in 2..Len(c) /\ 2 + 1 = 3
    BY <1>1
  <2> QED  BY <1>4, <2>1, Ends
<1>6. PICK e : IsListed(e, a, b)
  BY Zenon DEF IsListed
<1>7. ListedAfter(e, a, b)
  BY <1>3, <1>5, <1>6, Listed, Zenon
<1>8. e \in Seq(Row) /\ Len(e) = 1 + Len(b) /\ e[1] = a[1] /\ \A i \in 1..Len(b) : e[1 + i] = b[i]
  <2>1. 1 \in 1..Len(a)
    BY <1>3
  <2> QED  BY <1>3, <1>7, <2>1, Zenon DEF ListedAfter
<1>9. ASSUME NEW i \in 1..Len(d) PROVE d[i] = e[i]
  <2>1. CASE i = 1
    BY <1>3, <1>8, <2>1, Zenon
  <2>2. CASE i # 1
    <3>1. /\ i - 1 \in 1..(Len(c) - 2) /\ 2 + (i - 1) = i + 1 /\ 1 + (i - 1) = i
          /\ i \in 2..Len(d)
      BY <1>1, <2>2
    <3>2. e[1 + (i - 1)] = b[i - 1] /\ b[i - 1] = c[2 + (i - 1)]
      BY <1>5, <1>8, <3>1, Zenon
    <3> QED  BY <3>1, <3>2, Zenon
  <2> QED  BY <2>1, <2>2
<1>10. Len(e) = Len(d)
  BY <1>1, <1>5, <1>8
<1>11. d = e
  BY <1>8, <1>9, <1>10, SeqEqual
<1> QED  BY <1>2, <1>4, <1>6, <1>11, Zenon DEF IsListed

LEMMA ThreeOf ==
  ASSUME NEW S, IsFiniteSet(S), NEW a \in S, NEW b \in S, NEW c \in S, a # b, a # c, b # c
  PROVE  Cardinality(S) >= 3
<1>1. IsFiniteSet(S \ {a}) /\ Cardinality(S \ {a}) = Cardinality(S) - 1
  BY FS_RemoveElement
<1>2. IsFiniteSet((S \ {a}) \ {b}) /\ Cardinality((S \ {a}) \ {b}) = Cardinality(S \ {a}) - 1
  BY <1>1, FS_RemoveElement
<1>3. Cardinality((S \ {a}) \ {b}) # 0
  <2>1. c \in (S \ {a}) \ {b}
    OBVIOUS
  <2> QED  BY <1>2, <2>1, FS_EmptySet
<1>4. Cardinality(S) \in Nat /\ Cardinality((S \ {a}) \ {b}) \in Nat
  BY <1>2, FS_CardinalityType
<1> QED  BY <1>1, <1>2, <1>3, <1>4

\* A search that succeeds read the first row, the row found and the last one:
\* a row freed between them makes it one of three at least.
LEMMA DeadMeansThree ==
  ASSUME ContractInv, mode = "up", NEW uid, NEW k \in 2..rows, FoundByUid(uid, k),
         Sound(VisitedByUid(uid)), k = 2, NEW d \in DOMAIN chain, ~Live(d)
  PROVE  rows >= 3
<1>1. TypeOK /\ UidsInv /\ rows \in Nat /\ DOMAIN chain = 1..Len(chain) /\ Len(chain) \in Nat
  BY LenProperties DEF ContractInv, UidsInv, TypeOK
<1>2. k \in 1..rows /\ rows > 1 /\ 1 \in 1..rows
  BY <1>1
<1>3. k \in 1..Len(chain) /\ Live(k)
  BY <1>1, <1>2, Found
<1>4. Live(1)
  <2>1. \A j : j \notin 2..(1 - 1)
    OBVIOUS
  <2>2. 1 \in Visited("uid", uid, 2)
    BY <1>2, <2>1 DEF Visited
  <2> QED  BY <2>2 DEF Sound, VisitedByUid
<1>5. Live(Len(chain))
  <2>1. Len(chain) \in VisitedByUid(uid)
    BY <1>2 DEF VisitedByUid
  <2> QED  BY <2>1 DEF Sound
<1>6. 1 # Len(chain) /\ 2 # Len(chain) /\ 1 \in DOMAIN chain /\ 2 \in DOMAIN chain /\ Len(chain) \in DOMAIN chain
  <2>1. d # 1 /\ d # 2 /\ d # Len(chain)
    BY <1>3, <1>4, <1>5
  <2> QED  BY <1>1, <1>3, <2>1
<1>7. chain[1] # chain[2] /\ chain[1] # chain[Len(chain)] /\ chain[2] # chain[Len(chain)]
  BY <1>1, <1>3, <1>4, <1>5, <1>6, PlacesDiffer
<1>8. chain[1] \in LinkedRows /\ chain[2] \in LinkedRows /\ chain[Len(chain)] \in LinkedRows
  BY <1>3, <1>4, <1>5, <1>6 DEF LinkedRows, Live
<1>9. Cardinality(LinkedRows) >= 3
  BY <1>1, <1>7, <1>8, LinkedFinite, ThreeOf
<1> QED  BY <1>1, <1>2, <1>9 DEF ContractInv, RowsCountLive

\* A search that stops at position k > 2 has read the rows up to there.
LEMMA ReachesFound ==
  ASSUME TypeOK, NEW uid, NEW k \in 2..rows, FoundByUid(uid, k), Sound(VisitedByUid(uid)),
         NEW f, Reaches(f)
  PROVE  k \in 2..f
<1>1. rows \in Nat /\ DOMAIN chain = 1..Len(chain) /\ Len(chain) \in Nat
  BY ListIs DEF TypeOK
<1>2. rows > 1 /\ k \in 1..rows
  BY <1>1
<1>3. k \in Visited("uid", uid, 2)
  BY <1>1, <1>2 DEF FoundByUid, Match
<1>4. ASSUME NEW i \in 1..k PROVE Live(i)
  <2>1. i \in 1..rows /\ \A j \in 2..(i - 1) : j \in 2..(k - 1)
    BY <1>1, <1>2
  <2>2. i \in Visited("uid", uid, 2)
    BY <1>3, <2>1 DEF Visited
  <2> QED  BY <2>2 DEF Sound, VisitedByUid
<1>5. f \in 0..Len(chain) /\ (f < Len(chain) => ~Live(f + 1))
  BY DEF Reaches
<1>6. k \in 1..Len(chain)
  <2>1. Live(k)
    BY <1>2, <1>4
  <2> QED  BY <1>1, <2>1 DEF Live
<1>7. ~(f < k)
  <2> SUFFICES ASSUME f < k PROVE FALSE
    OBVIOUS
  <2>1. f < Len(chain) /\ f + 1 \in 1..k
    BY <1>1, <1>5, <1>6
  <2> QED  BY <1>4, <1>5, <2>1
<1> QED  BY <1>1, <1>5, <1>7

\* The first k - 1 of a list.
LEMMA FirstOf ==
  \A c, d \in Seq(Row) : \A n \in 0..Len(c) :
    Len(d) = n /\ (\A i \in 1..n : d[i] = c[i]) => d = SubSeq(c, 1, n)
<1> SUFFICES ASSUME NEW c \in Seq(Row), NEW d \in Seq(Row), NEW n \in 0..Len(c),
                    Len(d) = n, \A i \in 1..n : d[i] = c[i]
             PROVE  d = SubSeq(c, 1, n)
  OBVIOUS
<1>1. Len(c) \in Nat /\ n \in n..Len(c)
  BY LenProperties
<1>2. PICK a : a = SubSeq(c, 1, n)
  OBVIOUS
<1>3. a \in Seq(Row) /\ Len(a) = n /\ \A i \in 1..n : a[i] = c[i]
  BY <1>1, <1>2, Ends
<1>4. d = a
  BY <1>3, SeqEqual
<1> QED  BY <1>2, <1>4

\* The change of a row behind the second frees it and leaves it linked: the
\* rows before it are still seen.
LEMMA Breaks ==
  ASSUME UidsInv, TypeOK', Idle, UNCHANGED <<mode, file, saving>>,
         NEW f, Reaches(f), NEW k \in 3..f,
         \A i \in 1..k : i \in DOMAIN chain' /\ chain'[i] = chain[i],
         freed' = freed \cup {chain[k]}, \A n \in DOMAIN heap : heap'[n] = heap[n]
  PROVE  Directory!Break
<1>1. /\ TypeOK /\ mode = "up" /\ mode' = "up" /\ ~saving /\ saving' = saving /\ Copy' = Copy
      /\ DOMAIN chain = 1..Len(chain) /\ Len(chain) \in Nat
      /\ \A i \in 1..Len(chain) : chain[i] \in DOMAIN heap
  BY SameCopy, ListIs DEF Idle, UidsInv
<1>2. /\ f \in 0..Len(chain) /\ f \in Nat /\ k \in 1..f /\ k - 1 \in 2..(f - 1) /\ k - 1 \in 0..f
      /\ k \in Nat /\ k \in 1..k
  BY <1>1 DEF Reaches
<1>3. /\ \A i \in 1..f : Live(i) /\ i \in DOMAIN chain
      /\ \A i \in 1..(k - 1) : i \in 1..f /\ i \in 1..k /\ i # k
  BY <1>1, <1>2 DEF Reaches
<1>4. DOMAIN chain' = 1..Len(chain') /\ Len(chain') \in Nat
  BY ListNext
<1>5. ASSUME NEW i \in 1..(k - 1) PROVE Live(i)'
  <2>1. Live(i) /\ Live(k) /\ i \in DOMAIN chain /\ k \in DOMAIN chain /\ i # k
    BY <1>2, <1>3
  <2>2. chain[i] # chain[k] /\ chain[i] \notin freed
    BY <2>1, PlacesDiffer DEF Live
  <2>3. i \in DOMAIN chain' /\ chain'[i] = chain[i]
    BY <1>3
  <2> QED  BY <2>2, <2>3 DEF Live
<1>6. ~Live(k)' /\ k \in DOMAIN chain'
  BY <1>2 DEF Live
<1>7. Reaches(k - 1)'
  <2>1. k - 1 \in 0..Len(chain') /\ (k - 1) + 1 = k
    BY <1>2, <1>4, <1>6
  <2> QED  BY <1>5, <1>6, <2>1 DEF Reaches
<1>8. ~Intact'
  BY <1>6 DEF Intact
<1>9. PICK c : c = Listing
  OBVIOUS
<1>10. PICK d : d = Listing'
  OBVIOUS
<1>11. Standing = c /\ Directory!IsOpen /\ Standing' = d /\ Damaged'
  BY <1>1, <1>8, <1>9, <1>10, SeenOpen, SeenNext
<1>12. c \in Seq(Row) /\ Len(c) = f /\ \A i \in 1..f : c[i] = heap[chain[i]]
  BY <1>1, <1>9, ListingIs, Zenon
<1>13. d \in Seq(Row) /\ Len(d) = k - 1 /\ \A i \in 1..(k - 1) : d[i] = heap'[chain'[i]]
  BY <1>7, <1>10, ListingNext, Zenon
<1>14. ASSUME NEW i \in 1..(k - 1) PROVE d[i] = c[i]
  <2>1. i \in 1..f /\ chain'[i] = chain[i] /\ chain[i] \in DOMAIN heap
    BY <1>1, <1>3
  <2>2. d[i] = heap'[chain[i]] /\ c[i] = heap[chain[i]]
    BY <1>12, <1>13, <2>1
  <2> QED  BY <2>1, <2>2
<1>15. k - 1 \in 0..Len(c) /\ k - 1 \in 2..(Len(c) - 1)
  BY <1>2, <1>12
<1>16. d = SubSeq(c, 1, k - 1)
  BY <1>12, <1>13, <1>14, <1>15, FirstOf
<1> QED  BY <1>1, <1>11, <1>15, <1>16, Zenon DEF Directory!Break

\* The only row is found only in a list that is all there.
LEMMA OnlyFound ==
  ASSUME ContractInv, mode = "up", rows = 1, NEW uid, FoundByUid(uid, 1), Sound(VisitedByUid(uid))
  PROVE  Intact /\ Len(chain) = 1 /\ DOMAIN chain = {1} /\ Live(1) /\ heap[chain[1]].uid = uid
<1>1. TypeOK /\ 1 \in 1..rows
  BY DEF ContractInv, UidsInv
<1>2. 1 \in 1..Len(chain) /\ Live(1) /\ heap[chain[1]].uid = uid
  BY <1>1, Found
<1>3. Len(chain) \in Nat /\ DOMAIN chain = 1..Len(chain)
  BY <1>1, ListIs
<1>4. chain # <<>>
  BY <1>2, <1>3
<1>5. Intact
  BY <1>4, Standings
<1>6. Len(chain) = 1
  BY <1>5 DEF Intact
<1> QED  BY <1>2, <1>3, <1>5, <1>6

\* The change of a row behind the second leaves that row, and those before it,
\* linked.
LEMMA LaterStays ==
  ASSUME TypeOK, NEW k \in 1..Len(chain), NEW S, chain \in Seq(S), NEW n \in S
  PROVE  \A i \in 1..k : /\ i \in DOMAIN Cut(chain, k, k) /\ Cut(chain, k, k)[i] = chain[i]
                         /\ i \in DOMAIN Splice(chain, k, n, k) /\ Splice(chain, k, n, k)[i] = chain[i]
<1>1. Len(chain) \in Nat
  BY ListIs
<1>2. PICK p : p = k
  OBVIOUS
<1>3. p \in 0..Len(chain) /\ k \in p..Len(chain) /\ k - p = 0
  BY <1>1, <1>2
<1>4. PICK a : a = Cut(chain, p, k)
  OBVIOUS
<1>5. PICK b : b = Splice(chain, p, n, k)
  OBVIOUS
<1>6. /\ a \in Seq(S) /\ Len(a) = Len(chain) - (k - p)
      /\ \A i \in 1..p : a[i] = chain[i]
  BY <1>3, <1>4, CutSeq
<1>7. /\ b \in Seq(S) /\ Len(b) = Len(chain) - (k - p) + 1
      /\ \A i \in 1..p : b[i] = chain[i]
  <2>1. /\ Splice(chain, p, n, k) \in Seq(S) /\ Len(Splice(chain, p, n, k)) = Len(chain) - (k - p) + 1
        /\ \A i \in 1..p : Splice(chain, p, n, k)[i] = chain[i]
    BY <1>3, SpliceSeq
  <2> QED  BY <1>5, <2>1, Zenon
<1>8. DOMAIN a = 1..Len(chain) /\ DOMAIN b = 1..(Len(chain) + 1)
  <2>1. Len(a) = Len(chain) /\ Len(b) = Len(chain) + 1
    BY <1>1, <1>3, <1>6, <1>7
  <2> QED  BY <1>6, <1>7, <2>1, LenProperties
<1>9. \A i \in 1..p : i \in DOMAIN a /\ i \in DOMAIN b
  BY <1>1, <1>3, <1>8
<1> QED  BY <1>2, <1>4, <1>5, <1>6, <1>7, <1>9, Zenon

\* Taking the second of a list.
LEMMA SecondDeleted ==
  ASSUME ContractInv, TypeOK', Idle, NEW f, Reaches(f), 2 \in 1..f,
         UNCHANGED <<mode, heap, file, saving>>, rows' = rows - 1,
         freed' = freed \cup {chain[2]}, chain' = Cut(chain, 1, 2)
  PROVE  Intact' = Intact /\ Directory!RemoveSecond
<1>1. /\ TypeOK /\ UidsInv /\ mode = "up" /\ mode' = "up" /\ ~saving /\ saving' = saving
      /\ Len(chain) \in Nat /\ DOMAIN chain = 1..Len(chain) /\ rows \in Nat
  BY ListIs DEF ContractInv, UidsInv, Idle, TypeOK
<1>0. /\ f \in 2..Len(chain) /\ (\A i \in 1..f : Live(i)) /\ (f < Len(chain) => ~Live(f + 1))
      /\ 2 \in 1..Len(chain) /\ Live(2)
  BY <1>1 DEF Reaches
<1>2. /\ Len(chain') = Len(chain) - 1 /\ DOMAIN chain' = 1..(Len(chain) - 1)
      /\ chain'[1] = chain[1] /\ \A i \in 2..(Len(chain) - 1) : chain'[i] = chain[i + 1]
  <2>1. chain \in Seq(DOMAIN heap) /\ 1 \in 0..Len(chain) /\ 2 \in 1..Len(chain) /\ 2 - 1 = 1 /\ 1 + 1 = 2
    BY <1>0, <1>1 DEF TypeOK
  <2>2. PICK c : c = Cut(chain, 1, 2)
    OBVIOUS
  <2>3. /\ c \in Seq(DOMAIN heap) /\ Len(c) = Len(chain) - (2 - 1)
        /\ \A i \in 1..1 : c[i] = chain[i]
        /\ \A i \in (1 + 1)..Len(c) : c[i] = chain[i + (2 - 1)]
    BY <2>1, <2>2, CutSeq
  <2>4. Len(c) = Len(chain) - 1 /\ c[1] = chain[1] /\ DOMAIN c = 1..Len(c)
    BY <1>1, <2>3, LenProperties
  <2>5. \A i \in 2..(Len(chain) - 1) : c[i] = chain[i + 1]
    BY <2>1, <2>3, <2>4, Zenon
  <2> QED  BY <2>2, <2>4, <2>5, Zenon
<1>3. ASSUME NEW i \in DOMAIN chain', NEW j \in 1..Len(chain), j # 2, chain'[i] = chain[j]
      PROVE  Live(i)' = Live(j)
  <2>1. CASE Live(j)
    <3>1. chain[j] # chain[2] /\ chain[j] \notin freed
      BY <1>0, <1>1, <1>3, <2>1, PlacesDiffer DEF Live
    <3> QED  BY <1>3, <2>1, <3>1 DEF Live
  <2>2. CASE ~Live(j)
    <3>1. chain[j] \in freed
      BY <1>1, <2>2 DEF Live
    <3> QED  BY <1>3, <2>2, <3>1 DEF Live
  <2> QED  BY <2>1, <2>2
<1>4. Live(1)' = Live(1)
  <2>1. 1 \in DOMAIN chain' /\ 1 \in 1..Len(chain) /\ 1 # 2
    BY <1>0, <1>1, <1>2
  <2> QED  BY <1>2, <1>3, <2>1
<1>5. ASSUME NEW i \in 2..(Len(chain) - 1) PROVE Live(i)' = Live(i + 1)
  <2>1. i \in DOMAIN chain' /\ i + 1 \in 1..Len(chain) /\ i + 1 # 2
    BY <1>1, <1>2
  <2> QED  BY <1>2, <1>3, <2>1
<1>6. 1 \in 1..f /\ Live(1) /\ Live(1)'
  BY <1>0, <1>1, <1>4
<1>20. PICK g : g = f - 1
  OBVIOUS
<1>7. Reaches(g)'
  <2>1. f - 1 \in 0..Len(chain')
    BY <1>0, <1>1, <1>2
  <2>2. ASSUME NEW i \in 1..(f - 1) PROVE Live(i)'
    <3>1. i = 1 \/ (i \in 2..(Len(chain) - 1) /\ i + 1 \in 1..f)
      BY <1>0, <1>1
    <3> QED  BY <1>0, <1>5, <1>6, <3>1
  <2>3. ASSUME f - 1 < Len(chain') PROVE ~Live(f)'
    <3>1. f \in 2..(Len(chain) - 1) /\ f < Len(chain)
      BY <1>0, <1>1, <1>2, <2>3
    <3> QED  BY <1>0, <1>5, <3>1
  <2>5. g + 1 = f
    BY <1>0, <1>20
  <2>6. /\ g \in 0..Len(chain') /\ \A i \in 1..g : Live(i)'
        /\ g < Len(chain') => ~Live(g + 1)'
    BY <1>20, <2>1, <2>2, <2>3, <2>5
  <2> QED  BY <2>6 DEF Reaches
<1>8. Intact' = Intact
  <2>1. rows' = Len(chain') <=> rows = Len(chain)
    <3>1. PICK l : l = Len(chain)
      OBVIOUS
    <3>2. PICK r : r = rows
      OBVIOUS
    <3>3. l \in Nat /\ r \in Nat /\ Len(chain') = l - 1 /\ rows' = r - 1
      BY <1>1, <1>2, <3>1, <3>2
    <3>4. r - 1 = l - 1 <=> r = l
      BY <3>3
    <3> QED  BY <3>1, <3>2, <3>3, <3>4, Zenon
  <2>2. ASSUME Intact PROVE AllLive'
    <3>1. \A j \in 1..Len(chain) : Live(j)
      BY <1>1, <2>2 DEF Intact
    <3>2. ASSUME NEW i \in DOMAIN chain' PROVE Live(i)'
      <4>1. i = 1 \/ (i \in 2..(Len(chain) - 1) /\ i + 1 \in 1..Len(chain))
        BY <1>1, <1>2
      <4> QED  BY <1>5, <1>6, <3>1, <4>1
    <3> QED  BY <3>2 DEF AllLive
  <2>3. ASSUME Intact' PROVE AllLive
    <3>1. \A i \in DOMAIN chain' : Live(i)'
      BY <2>3 DEF Intact
    <3>2. ASSUME NEW j \in DOMAIN chain PROVE Live(j)
      <4>1. j = 1 \/ j = 2 \/ (j - 1 \in 2..(Len(chain) - 1) /\ (j - 1) + 1 = j /\ j - 1 \in DOMAIN chain')
        BY <1>1, <1>2
      <4>2. CASE j - 1 \in 2..(Len(chain) - 1) /\ (j - 1) + 1 = j /\ j - 1 \in DOMAIN chain'
        <5>1. Live(j - 1)' /\ Live(j - 1)' = Live((j - 1) + 1)
          BY <1>5, <3>1, <4>2
        <5> QED  BY <4>2, <5>1
      <4> QED  BY <1>0, <1>6, <4>1, <4>2
    <3> QED  BY <3>2 DEF AllLive
  <2>4. (Intact <=> rows = Len(chain) /\ AllLive) /\ (Intact' <=> rows' = Len(chain') /\ AllLive')
    BY DEF Intact, AllLive
  <2> QED  BY <2>1, <2>2, <2>3, <2>4 DEF Intact
<1>9. PICK c : c = Listing
  OBVIOUS
<1>10. PICK d : d = Listing'
  OBVIOUS
<1>11. Standing = c /\ Directory!IsOpen /\ Standing' = d /\ Damaged' = Damaged
  BY <1>1, <1>8, <1>9, <1>10, SeenOpen, SeenNext
<1>12. /\ c \in Seq(Row) /\ Len(c) = f /\ \A i \in 1..f : c[i] = heap[chain[i]]
  BY <1>1, <1>9, ListingIs, Zenon
<1>13. /\ d \in Seq(Row) /\ Len(d) = f - 1 /\ \A i \in 1..(f - 1) : d[i] = heap'[chain'[i]]
  BY <1>7, <1>10, <1>20, ListingNext, Zenon
<1>14. Len(c) >= 2 /\ Len(d) = Len(c) - 1
  BY <1>0, <1>12, <1>13
<1>15. d[1] = c[1]
  <2>1. 1 \in 1..(f - 1) /\ 1 \in 1..f
    BY <1>0
  <2> QED  BY <1>2, <1>12, <1>13, <2>1
<1>16. ASSUME NEW i \in 2..Len(d) PROVE d[i] = c[i + 1]
  <2>1. i \in 2..(Len(chain) - 1) /\ i \in 1..(f - 1) /\ i + 1 \in 1..f
    BY <1>0, <1>1, <1>13
  <2>2. d[i] = heap'[chain'[i]] /\ c[i + 1] = heap[chain[i + 1]] /\ chain'[i] = chain[i + 1]
    BY <1>2, <1>12, <1>13, <2>1, Zenon
  <2> QED  BY <2>2, Zenon
<1>17. d = <<c[1]>> \o SubSeq(c, 3, Len(c))
  BY <1>12, <1>13, <1>14, <1>15, <1>16, SecondRemoved, Zenon
<1>18. Copy' = Copy
  BY SameCopy
<1>19. Directory!RemoveSecond
  BY <1>1, <1>11, <1>14, <1>17, <1>18, Zenon DEF Directory!RemoveSecond
<1> QED  BY <1>8, <1>19

LEMMA DeleteShows ==
  ASSUME ContractInv, TypeOK', Delete
  PROVE  Shows(Directory!RemoveSecond \/ Directory!Break)
<1>1. PICK uid \in KnownUids, ret \in {0, 1} : user_table_delete(uid, ret)
  BY DEF Delete
<1>2. /\ TypeOK /\ UidsInv /\ Idle /\ mode = "up" /\ Sound(VisitedByUid(uid)) /\ rows \in Nat
      /\ UNCHANGED <<mode, heap, file, saving>> /\ Len(chain) \in Nat
      /\ DOMAIN chain = 1..Len(chain) /\ chain \in Seq(DOMAIN heap)
  BY <1>1, ListIs DEF user_table_delete, ContractInv, UidsInv, Idle, TypeOK
<1>3. HeapPlain'
  BY <1>2 DEF ContractInv, HeapPlain
<1>4. CASE UNCHANGED <<freed, chain, rows>>
  <2>1. UNCHANGED Directory!vars
    BY <1>2, <1>4, SameStanding
  <2>2. DeadKeepsTwo'
    BY <1>4 DEF ContractInv, DeadKeepsTwo, Live
  <2> QED  BY <1>3, <2>1, <2>2 DEF Shows
<1>5. CASE rows = 1 /\ FoundByUid(uid, 1) /\ chain' = <<>> /\ UNCHANGED rows
  <2>1. Intact /\ Len(chain) = 1
    BY <1>2, <1>5, OnlyFound
  <2>2. Len(chain') = 0 /\ DOMAIN chain' = {}
    BY <1>5
  <2>3. ~Intact' /\ DeadKeepsTwo'
    BY <1>5, <2>2 DEF Intact, DeadKeepsTwo
  <2>4. Len(Listing) = 1
    BY <1>2, <2>1, WholeListing DEF Intact, AllLive
  <2>5. Listing' = <<>>
    <3>1. AllLive'
      BY <2>2 DEF AllLive
    <3> QED  BY <2>2, <3>1, WholeListingNext, EmptySeq
  <2>6. Directory!Break
    <3>1. Standing = Listing /\ Standing' = Listing' /\ Directory!IsOpen /\ ~Damaged /\ Damaged'
      BY <1>2, <2>1, <2>3, SeenOpen, SeenNext
    <3> QED  BY <1>2, <2>4, <2>5, <3>1, SameCopy DEF Directory!Break, Idle
  <2> QED  BY <1>3, <2>3, <2>6 DEF Shows
<1>6. CASE \E k \in 2..rows : /\ FoundByUid(uid, k)
                             /\ freed' = freed \cup {chain[k]}
                             /\ chain' = Cut(chain, ptrant(k), k)
                             /\ rows' = rows - 1
  <2>1. PICK k \in 2..rows : /\ FoundByUid(uid, k)
                             /\ freed' = freed \cup {chain[k]}
                             /\ chain' = Cut(chain, ptrant(k), k)
                             /\ rows' = rows - 1
    BY <1>6
  <2>2. PICK f \in Nat : Reaches(f)
    BY <1>2, ReachesSome
  <2>3. k \in 2..f /\ f \in 0..Len(chain) /\ k \in 1..Len(chain)
    <3>1. k \in 2..f /\ f \in 0..Len(chain)
      BY <1>2, <2>1, <2>2, ReachesFound DEF Reaches
    <3> QED  BY <1>2, <3>1
  <2>4. CASE k # 2
    <3>1. rows >= 3 /\ ptrant(k) = k /\ k \in 3..f
      BY <1>2, <2>3, <2>4 DEF ptrant
    <3>2. \A i \in 1..k : i \in DOMAIN chain' /\ chain'[i] = chain[i]
      <4>1. chain[1] \in DOMAIN heap
        BY <1>2, <2>3, ListIs
      <4> QED  BY <1>2, <2>1, <2>3, <3>1, <4>1, LaterStays
    <3>3. Directory!Break
      BY <1>2, <2>1, <2>2, <3>1, <3>2, Breaks
    <3>4. DeadKeepsTwo'
      BY <1>2, <2>1, <3>1 DEF DeadKeepsTwo
    <3> QED  BY <1>3, <3>3, <3>4 DEF Shows
  <2>5. CASE k = 2
    <3>1. /\ chain' = Cut(chain, 1, 2) /\ freed' = freed \cup {chain[2]} /\ rows' = rows - 1
          /\ 2 \in 1..f
      BY <2>1, <2>3, <2>5 DEF ptrant
    <3>2. Intact' = Intact /\ Directory!RemoveSecond
      BY <1>2, <2>2, <3>1, SecondDeleted
    <3>3. CASE Intact
      BY <1>3, <3>2, <3>3, Zenon DEF Intact, DeadKeepsTwo, Shows
    <3>4. CASE ~Intact
      <4>1. rows >= 2
        BY <1>2
      <4>2. PICK d \in DOMAIN chain : ~Live(d)
        BY <1>2, <3>4, <4>1, Standings
      <4>3. rows >= 3
        BY <1>2, <2>1, <2>5, <4>2, DeadMeansThree
      <4>4. DeadKeepsTwo'
        BY <1>2, <2>1, <4>3 DEF DeadKeepsTwo
      <4> QED  BY <1>3, <3>2, <4>4, Zenon DEF Shows
    <3> QED  BY <3>3, <3>4
  <2> QED  BY <2>4, <2>5
<1> QED  BY <1>1, <1>4, <1>5, <1>6 DEF user_table_delete, Cut

-----------------------------------------------------------------------------
(* Update.                                                                 *)

\* A list that differs from another at one place only.
ChangedAt(c, d, i) == DOMAIN d = DOMAIN c /\ i \in DOMAIN c /\ d = [c EXCEPT ![i] = d[i]]

LEMMA OneReplaced ==
  \A c, d \in Seq(Row) : \A i \in 1..Len(c) :
    Len(d) = Len(c) /\ (\A j \in 1..Len(c) : j # i => d[j] = c[j]) => ChangedAt(c, d, i)
<1> SUFFICES ASSUME NEW c \in Seq(Row), NEW d \in Seq(Row), NEW i \in 1..Len(c),
                    Len(d) = Len(c), \A j \in 1..Len(c) : j # i => d[j] = c[j]
             PROVE  DOMAIN d = DOMAIN c /\ i \in DOMAIN c /\ d = [c EXCEPT ![i] = d[i]]
  BY DEF ChangedAt
<1>1. DOMAIN c = 1..Len(c) /\ DOMAIN d = 1..Len(c) /\ d = [j \in DOMAIN d |-> d[j]]
  BY LenProperties
<1>2. PICK e : e = [c EXCEPT ![i] = d[i]]
  OBVIOUS
<1>3. e = [j \in 1..Len(c) |-> IF j = i THEN d[i] ELSE c[j]]
  BY <1>1, <1>2
<1>4. \A j \in 1..Len(c) : d[j] = IF j = i THEN d[i] ELSE c[j]
  OBVIOUS
<1>5. d = [j \in 1..Len(c) |-> IF j = i THEN d[i] ELSE c[j]]
  BY <1>1, <1>4
<1> QED  BY <1>1, <1>2, <1>3, <1>5

\* Replacing the row that the table can replace.
LEMMA RowReplaced ==
  ASSUME ContractInv, TypeOK', Idle, NEW f, Reaches(f), NEW i \in 1..f, NEW r \in Row,
         i = IF f = 1 /\ Intact THEN 1 ELSE 2,
         heap' = Append(heap, r), r.uid = heap[chain[i]].uid,
         UNCHANGED <<mode, rows, file, saving>>, freed' = freed \cup {chain[i]},
         Len(chain') = Len(chain), chain'[i] = Len(heap) + 1,
         \A j \in 1..Len(chain) : j # i => chain'[j] = chain[j]
  PROVE  Intact' = Intact /\ Directory!Replace
<1>1. /\ TypeOK /\ UidsInv /\ mode = "up" /\ mode' = "up" /\ ~saving /\ saving' = saving
      /\ Len(chain) \in Nat /\ DOMAIN chain = 1..Len(chain)
      /\ \A j \in 1..Len(chain) : chain[j] \in DOMAIN heap
  BY ListIs DEF ContractInv, UidsInv, Idle
<1>0. /\ f \in 0..Len(chain) /\ (\A j \in 1..f : Live(j)) /\ (f < Len(chain) => ~Live(f + 1))
      /\ Live(i) /\ i \in 1..Len(chain)
  BY <1>1 DEF Reaches
<1>2. DOMAIN chain' = 1..Len(chain)
  BY ListNext
<1>3. /\ Len(heap) + 1 \notin freed /\ heap'[Len(heap) + 1] = r /\ Len(heap) + 1 \notin DOMAIN heap
      /\ \A n \in DOMAIN heap : heap'[n] = heap[n]
  BY <1>1, Grown
<1>4. ASSUME NEW j \in 1..Len(chain) PROVE Live(j)' = Live(j)
  <2>1. chain[i] \in DOMAIN heap
    BY <1>0, <1>1
  <2>2. CASE j = i
    <3>1. Live(j)'
      BY <1>2, <1>3, <2>1, <2>2 DEF Live
    <3> QED  BY <1>0, <2>2, <3>1 DEF Live
  <2>3. CASE j # i /\ Live(j)
    <3>1. chain'[j] = chain[j] /\ chain[j] \notin freed
      BY <2>3 DEF Live
    <3>2. chain[j] # chain[i]
      BY <1>0, <1>1, <2>3, PlacesDiffer
    <3> QED  BY <1>2, <2>3, <3>1, <3>2 DEF Live
  <2>4. CASE j # i /\ ~Live(j)
    <3>1. chain'[j] = chain[j] /\ chain[j] \in freed
      BY <1>1, <2>4 DEF Live
    <3> QED  BY <2>4, <3>1 DEF Live
  <2> QED  BY <2>2, <2>3, <2>4
<1>5. Intact' = Intact
  <2>1. Intact' <=> Intact
    BY <1>1, <1>2, <1>4 DEF Intact
  <2> QED  BY <2>1 DEF Intact
<1>6. Reaches(f)'
  <2>1. \A j \in 1..f : j \in 1..Len(chain)
    BY <1>0, <1>1
  <2>2. f < Len(chain) => f + 1 \in 1..Len(chain)
    BY <1>0, <1>1
  <2> QED  BY <1>0, <1>1, <1>4, <2>1, <2>2 DEF Reaches
<1>7. PICK c : c = Listing
  OBVIOUS
<1>8. PICK d : d = Listing'
  OBVIOUS
<1>9. Standing = c /\ Directory!IsOpen /\ Standing' = d /\ Damaged' = Damaged /\ Damaged = ~Intact
  BY <1>1, <1>5, <1>7, <1>8, SeenOpen, SeenNext
<1>10. c \in Seq(Row) /\ Len(c) = f /\ \A j \in 1..f : c[j] = heap[chain[j]]
  BY <1>1, <1>7, ListingIs, Zenon
<1>11. d \in Seq(Row) /\ Len(d) = f /\ \A j \in 1..f : d[j] = heap'[chain'[j]]
  BY <1>6, <1>8, ListingNext, Zenon
<1>12. d[i].uid = c[i].uid
  <2>1. d[i] = heap'[chain'[i]] /\ c[i] = heap[chain[i]]
    BY <1>10, <1>11, Zenon
  <2>2. d[i] = r
    BY <1>3, <2>1, Zenon
  <2> QED  BY <2>1, <2>2, Zenon
<1>13. ASSUME NEW j \in 1..Len(c), j # i PROVE d[j] = c[j]
  <2>1. j \in 1..f /\ j \in 1..Len(chain)
    BY <1>0, <1>1, <1>10
  <2>2. d[j] = heap'[chain'[j]] /\ c[j] = heap[chain[j]] /\ chain'[j] = chain[j]
    BY <1>10, <1>11, <1>13, <2>1, Zenon
  <2>3. heap'[chain[j]] = heap[chain[j]]
    BY <1>1, <1>3, <2>1, Zenon
  <2> QED  BY <2>2, <2>3, Zenon
<1>14. i \in 1..Len(c) /\ Len(d) = Len(c)
  BY <1>10, <1>11
<1>15. DOMAIN d = DOMAIN c /\ i \in DOMAIN c /\ d = [c EXCEPT ![i] = d[i]]
  <2>1. ChangedAt(c, d, i)
    BY <1>10, <1>11, <1>13, <1>14, OneReplaced
  <2> QED  BY <2>1, Zenon DEF ChangedAt
<1>16. i = IF Len(c) = 1 /\ ~Damaged THEN 1 ELSE 2
  <2>1. ~Damaged <=> Intact
    BY <1>9
  <2> QED  BY <1>10, <2>1
<1>17. d \notin {Closed, Lost}
  BY <1>11, MarksDiffer
<1>18. Copy' = Copy
  BY SameCopy
<1>19. Directory!Replace
  BY <1>1, <1>9, <1>12, <1>15, <1>16, <1>17, <1>18, Zenon DEF Directory!Replace
<1> QED  BY <1>5, <1>19

\* The second of a list replaced.
LEMMA SecondSpliced ==
  ASSUME NEW S, NEW s \in Seq(S), NEW n \in S, 2 \in 1..Len(s)
  PROVE  /\ Len(Splice(s, 1, n, 2)) = Len(s) /\ Splice(s, 1, n, 2)[2] = n
         /\ \A j \in 1..Len(s) : j # 2 => Splice(s, 1, n, 2)[j] = s[j]
<1>1. Len(s) \in Nat
  BY LenProperties
<1>2. PICK p : p = 1
  OBVIOUS
<1>3. PICK k : k = 2
  OBVIOUS
<1>4. p \in 0..Len(s) /\ k \in p..Len(s)
  BY <1>1, <1>2, <1>3
<1> DEFINE c == Splice(s, p, n, k)
<1>6. /\ Len(c) = Len(s) - (k - p) + 1
      /\ \A j \in 1..p : c[j] = s[j]
      /\ c[p + 1] = n
      /\ \A j \in (p + 2)..Len(c) : c[j] = s[j + (k - p) - 1]
  <2>1. Len(c) = Len(s) - (k - p) + 1
    BY <1>4, SpliceSeq
  <2>2. \A j \in 1..p : c[j] = s[j]
    BY <1>4, SpliceSeq
  <2>3. c[p + 1] = n
    BY <1>4, SpliceAt, Zenon
  <2>4. \A j \in (p + 2)..Len(c) : c[j] = s[j + (k - p) - 1]
    BY <1>4, SpliceSeq
  <2> QED  BY <2>1, <2>2, <2>3, <2>4
<1>5. c = Splice(s, 1, n, 2)
  BY <1>2, <1>3
<1> HIDE DEF c
<1>7. Len(c) = Len(s) /\ c[2] = n /\ c[1] = s[1]
  BY <1>1, <1>2, <1>3, <1>6
<1>8. ASSUME NEW j \in 3..Len(s) PROVE c[j] = s[j]
  <2>1. j \in (p + 2)..Len(c) /\ j + (k - p) - 1 = j
    BY <1>1, <1>2, <1>3, <1>7
  <2> QED  BY <1>6, <2>1, Zenon
<1>9. \A j \in 1..Len(s) : j # 2 => j = 1 \/ j \in 3..Len(s)
  BY <1>1
<1> QED  BY <1>5, <1>7, <1>8, <1>9

LEMMA UpdateShows ==
  ASSUME ContractInv, TypeOK', WordsOnly, Update
  PROVE  Shows(Directory!Replace \/ Directory!Break)
<1>1. PICK r \in Drafts, ret \in {0, 1} : user_table_update(r, ret)
  BY DEF Update
<1>2. /\ TypeOK /\ UidsInv /\ Idle /\ mode = "up" /\ Sound(VisitedByUid(r.uid)) /\ rows \in Nat
      /\ Len(chain) \in Nat /\ DOMAIN chain = 1..Len(chain) /\ chain \in Seq(DOMAIN heap)
  BY <1>1, ListIs DEF user_table_update, ContractInv, UidsInv, Idle, TypeOK
<1>3. r \in Row /\ heap' = Append(heap, r) /\ UNCHANGED <<mode, rows, lastUid, file, saving>>
  BY <1>1, <1>2, DraftIsRow, Updated
<1> DEFINE n == Len(heap) + 1
<1>4. /\ n \notin freed /\ n \in DOMAIN heap' /\ chain \in Seq(DOMAIN heap')
      /\ n \notin DOMAIN heap /\ \A m \in DOMAIN heap : heap'[m] = heap[m]
  BY <1>2, <1>3, Grown
<1>5. PlainRow(r)
  <2>1. PICK m \in DOMAIN heap, p \in Passwords : r = [heap[m] EXCEPT !.pass = p]
    BY <1>1 DEF Drafts
  <2>2. PlainRow(heap[m]) /\ Plain(p) /\ heap[m] \in Row
    BY <1>2 DEF ContractInv, HeapPlain, WordsOnly, TypeOK
  <2>3. r.login = heap[m].login /\ r.email = heap[m].email /\ r.pass = p /\ r.type = heap[m].type
    BY <2>1, <2>2 DEF Row
  <2> QED  BY <2>2, <2>3 DEF PlainRow
<1>6. HeapPlain'
  BY <1>2, <1>3, <1>5, PlainGrown DEF ContractInv
<1>7. CASE UNCHANGED <<freed, chain>>
  <2>1. UNCHANGED Directory!vars
    BY <1>2, <1>3, <1>4, <1>7, SameStanding
  <2>2. DeadKeepsTwo'
    BY <1>3, <1>7 DEF ContractInv, DeadKeepsTwo, Live
  <2> QED  BY <1>6, <2>1, <2>2 DEF Shows
<1>8. CASE rows = 1 /\ FoundByUid(r.uid, 1) /\ freed' = freed \cup {chain[1]} /\ chain' = <<n>>
  <2>1. Intact /\ Len(chain) = 1 /\ heap[chain[1]].uid = r.uid
    BY <1>2, <1>8, OnlyFound
  <2>2. Len(chain') = 1 /\ chain'[1] = n
    BY <1>8
  <2>3. 1 \in 1..Len(chain) /\ \A j \in 1..Len(chain) : j # 1 => chain'[j] = chain[j]
    BY <2>1
  <2>6. Reaches(1) /\ 1 \in 1..1
    BY <1>2, <2>1, ReachesAll DEF Intact, AllLive
  <2>4. Intact' = Intact /\ Directory!Replace
    BY <1>2, <1>3, <1>8, <2>1, <2>2, <2>3, <2>6, RowReplaced DEF n
  <2>5. DeadKeepsTwo'
    BY <2>1, <2>4 DEF Intact, DeadKeepsTwo
  <2> QED  BY <1>6, <2>4, <2>5, Zenon DEF Shows
<1>9. CASE \E k \in 2..rows : /\ FoundByUid(r.uid, k)
                             /\ freed' = freed \cup {chain[k]}
                             /\ chain' = Splice(chain, ptrant(k), n, k)
  <2>1. PICK k \in 2..rows : /\ FoundByUid(r.uid, k)
                             /\ freed' = freed \cup {chain[k]}
                             /\ chain' = Splice(chain, ptrant(k), n, k)
    BY <1>9
  <2>2. k \in 1..rows /\ rows >= 2 /\ rows' >= 2
    BY <1>2, <1>3
  <2>3. k \in 1..Len(chain) /\ heap[chain[k]].uid = r.uid
    BY <1>2, <2>1, <2>2, Found
  <2>4. DeadKeepsTwo'
    BY <2>2 DEF DeadKeepsTwo
  <2>0. PICK f \in Nat : Reaches(f)
    BY <1>2, ReachesSome
  <2>5. k \in 2..f /\ f \in 0..Len(chain)
    BY <1>2, <2>0, <2>1, ReachesFound DEF Reaches
  <2> HIDE DEF n
  <2>6. CASE k # 2
    <3>1. ptrant(k) = k /\ k \in 3..f
      BY <1>2, <2>5, <2>6 DEF ptrant
    <3>2. \A i \in 1..k : i \in DOMAIN chain' /\ chain'[i] = chain[i]
      BY <1>2, <1>4, <2>1, <2>3, <3>1, LaterStays
    <3>3. Directory!Break
      BY <1>2, <1>3, <1>4, <2>0, <2>1, <3>1, <3>2, Breaks
    <3> QED  BY <1>6, <2>4, <3>3 DEF Shows
  <2>7. CASE k = 2
    <3>1. chain' = Splice(chain, 1, n, 2) /\ freed' = freed \cup {chain[2]}
      BY <2>1, <2>7 DEF ptrant
    <3>2. 2 \in 1..Len(chain) /\ 2 \in 1..f /\ 2 = IF f = 1 /\ Intact THEN 1 ELSE 2
      BY <1>2, <2>3, <2>5, <2>7
    <3>3. /\ Len(chain') = Len(chain) /\ chain'[2] = n
          /\ \A j \in 1..Len(chain) : j # 2 => chain'[j] = chain[j]
      BY <1>4, <3>1, <3>2, SecondSpliced
    <3>4. Directory!Replace
      BY <1>2, <1>3, <2>0, <2>3, <2>7, <3>1, <3>2, <3>3, RowReplaced DEF n
    <3> QED  BY <1>6, <2>4, <3>4, Zenon DEF Shows
  <2> QED  BY <2>5, <2>6, <2>7
<1> QED  BY <1>1, <1>2, <1>7, <1>8, <1>9, Updated DEF n

-----------------------------------------------------------------------------
(* Commit and rollback.                                                    *)

\* An empty file is an empty copy.
LEMMA EmptyCopy == ASSUME TypeOK', file' = <<>> PROVE Copy' = <<>>
<1>1. file' # Missing /\ DOMAIN file' = {} /\ Len(file') = 0
  <2>1. <<>> \in Seq(Line)
    BY EmptySeq
  <2>2. <<>> # Missing
    BY <2>1, MissingAssumption
  <2>3. DOMAIN file' = {} /\ Len(file') = 0
    OBVIOUS
  <2> QED  BY <2>2, <2>3
<1>2. Readable'
  BY <1>1 DEF Readable
<1>3. Copy' \in Seq(Row) /\ Len(Copy') = 0
  BY <1>1, <1>2, CopyNext
<1> QED  BY <1>3, EmptySeq

\* The listing, written, is the copy.
LEMMA WrittenBack ==
  ASSUME TypeOK, TypeOK', HeapPlain, AllLive,
         file' = [i \in DOMAIN chain |-> LineOf(heap[chain[i]])]
  PROVE  Copy' = Listing
<1>1. /\ DOMAIN chain = 1..Len(chain) /\ Len(chain) \in Nat /\ Listing \in Seq(Row)
      /\ Len(Listing) = Len(chain)
      /\ \A i \in 1..Len(chain) : chain[i] \in DOMAIN heap /\ Listing[i] = heap[chain[i]]
  BY ListIs, WholeListing
<1>2. \A i \in 1..Len(chain) : PlainRow(heap[chain[i]]) /\ heap[chain[i]] \in Row
  BY <1>1 DEF HeapPlain, TypeOK
<1>3. /\ DOMAIN file' = 1..Len(chain)
      /\ \A i \in 1..Len(chain) : file'[i] = LineOf(heap[chain[i]])
  BY <1>1
<1>4. file' # Missing /\ Len(file') = Len(chain)
  <2>1. Len(chain) \in 0..Len(chain) /\ file' = [i \in 1..Len(chain) |-> LineOf(heap[chain[i]])]
    BY <1>1
  <2>2. file' \in Seq(Line)
    BY <2>1, Written
  <2> QED  BY <1>1, <1>3, <2>2, MissingAssumption, LenProperties
<1>5. \A i \in 1..Len(chain) : Parses(file'[i]) /\ RowOf(file'[i]) = heap[chain[i]]
  BY <1>2, <1>3, ReadsBack
<1>6. Readable'
  BY <1>3, <1>4, <1>5 DEF Readable
<1>7. /\ Copy' \in Seq(Row) /\ Len(Copy') = Len(chain)
      /\ \A i \in 1..Len(chain) : Copy'[i] = RowOf(file'[i])
  BY <1>4, <1>6, CopyNext
<1>8. \A i \in 1..Len(Copy') : Copy'[i] = Listing[i]
  BY <1>1, <1>5, <1>7
<1> QED  BY <1>1, <1>7, <1>8, SeqEqual

LEMMA SaveShows ==
  ASSUME ContractInv, TypeOK', save_opens \/ save_closes
  PROVE  Shows(Directory!BeginSave \/ Directory!EndSave)
<1>1. /\ TypeOK /\ mode = "up" /\ UNCHANGED <<mode, heap, freed, chain, rows, lastUid>>
  BY DEF save_opens, save_closes, Idle, ContractInv, UidsInv
<1>2. HeapPlain' /\ DeadKeepsTwo'
  BY <1>1 DEF ContractInv, HeapPlain, DeadKeepsTwo, Live
<1>3. /\ Standing' = Standing /\ Damaged' = Damaged /\ Standing = Listing /\ Directory!IsOpen
      /\ Damaged = ~Intact
  BY <1>1, SameList, SeenOpen
<1>4. CASE save_opens
  <2>1. Copy' = <<>> /\ ~saving /\ saving'
    BY <1>4, EmptyCopy DEF save_opens, Idle
  <2>2. Directory!BeginSave
    BY <1>3, <2>1 DEF Directory!BeginSave
  <2> QED  BY <1>2, <2>2 DEF Shows
<1>5. CASE save_closes
  <2>1. /\ Sound(DOMAIN chain) /\ file' = [i \in DOMAIN chain |-> LineOf(heap[chain[i]])]
        /\ saving /\ ~saving'
    BY <1>5 DEF save_closes
  <2>2. Copy' = Listing
    <3>1. AllLive
      BY <2>1 DEF AllLive, Sound
    <3> QED  BY <1>1, <2>1, <3>1, WrittenBack DEF ContractInv
  <2>3. ASSUME Damaged PROVE Listing = <<>>
    <3>1. chain = <<>>
      BY <1>1, <1>3, <2>1, <2>3, Standings DEF Sound
    <3>2. AllLive /\ Len(chain) = 0
      BY <3>1 DEF AllLive
    <3> QED  BY <1>1, <3>2, WholeListing, EmptySeq
  <2>4. Directory!EndSave
    BY <1>3, <2>1, <2>2, <2>3, Zenon DEF Directory!EndSave
  <2> QED  BY <1>2, <2>4, Zenon DEF Shows
<1> QED  BY <1>4, <1>5

\* What is loaded is the copy, in rows of its own.
LEMMA LoadsCopy ==
  ASSUME TypeOK, TypeOK', NEW h \in Seq(Row), \A n \in DOMAIN h : PlainRow(h[n]),
         load_table(h), freed' \subseteq DOMAIN h
  PROVE  HeapPlain' /\ Intact' /\ Listing' = Copy /\ Directory!HasCopy
<1>1. Readable /\ heap' = h \o [i \in DOMAIN file |-> RowOf(file[i])] /\ rows' = Len(file)
  BY DEF load_table, Readable
<1>2. /\ Copy \in Seq(Row) /\ Len(Copy) = Len(file) /\ Len(file) \in Nat
      /\ \A i \in 1..Len(file) : Copy[i] = RowOf(file[i])
  BY <1>1, CopyIs
<1>3. DOMAIN file = 1..Len(file)
  BY <1>1, LenProperties DEF TypeOK, Readable
<1>4. Copy = [i \in DOMAIN file |-> RowOf(file[i])]
  BY <1>1 DEF Copy, Readable
<1>5. /\ DOMAIN h = 1..Len(h) /\ Len(h) \in Nat /\ DOMAIN heap' = 1..(Len(h) + Len(file))
      /\ Len(chain') = Len(file) /\ Len(file) > 0
      /\ \A i \in 1..Len(file) : chain'[i] = Len(h) + i
  BY Loaded, LenProperties
<1>6. DOMAIN chain' = 1..Len(file)
  BY <1>5, ListNext
<1>7. PICK c : c = Copy
  OBVIOUS
<1>8. IsListed(heap', h, c)
  BY <1>1, <1>4, <1>7, Zenon DEF IsListed
<1>9. ListedAfter(heap', h, c)
  BY <1>2, <1>7, <1>8, Listed
<1>10. (\A i \in 1..Len(h) : heap'[i] = h[i]) /\ \A i \in 1..Len(file) : heap'[Len(h) + i] = Copy[i]
  <2>1. Len(c) = Len(file)
    BY <1>2, <1>7
  <2> QED  BY <1>7, <1>9, <2>1 DEF ListedAfter
<1>11. ASSUME NEW n \in DOMAIN heap' PROVE PlainRow(heap'[n])
  <2>1. CASE n <= Len(h)
    <3>1. n \in DOMAIN h /\ n \in 1..Len(h)
      BY <1>5, <2>1
    <3> QED  BY <1>10, <3>1
  <2>2. CASE ~(n <= Len(h))
    <3>1. PICK i : i = n - Len(h)
      OBVIOUS
    <3>2. i \in 1..Len(file) /\ n = Len(h) + i
      BY <1>5, <2>2, <3>1
    <3>3. heap'[n] = RowOf(file[i]) /\ Parses(file[i])
      <4>1. heap'[n] = Copy[i] /\ Copy[i] = RowOf(file[i])
        BY <1>2, <1>10, <3>2
      <4> QED  BY <1>1, <1>3, <3>2, <4>1 DEF Readable
    <3> QED  BY <3>3, ReadsPlain, Zenon
  <2> QED  BY <2>1, <2>2
<1>12. HeapPlain'
  BY <1>11 DEF HeapPlain
<1>13. \A i \in DOMAIN chain' : chain'[i] \notin freed'
  <2>1. \A i \in 1..Len(file) : Len(h) + i \notin 1..Len(h)
    BY <1>5
  <2> QED  BY <1>5, <1>6, <2>1
<1>14. Intact'
  BY <1>1, <1>5, <1>13 DEF Intact, Live
<1>15. Listing' = Copy
  <2>1. /\ Listing' \in Seq(Row) /\ Len(Listing') = Len(file)
        /\ \A i \in 1..Len(file) : Listing'[i] = heap'[chain'[i]]
    BY <1>5, <1>14, WholeListingNext DEF Intact, AllLive
  <2>2. ASSUME NEW i \in 1..Len(file) PROVE Listing'[i] = Copy[i]
    <3>1. Listing'[i] = heap'[chain'[i]] /\ chain'[i] = Len(h) + i /\ heap'[Len(h) + i] = Copy[i]
      BY <1>5, <1>10, <2>1
    <3> QED  BY <3>1, Zenon
  <2> QED  BY <1>2, <2>1, <2>2, SeqEqual
<1>16. Copy # <<>>
  BY <1>2, <1>5
<1>17. Directory!HasCopy
  BY <1>2, <1>16, MarksDiffer DEF Directory!HasCopy
<1> QED  BY <1>12, <1>14, <1>15, <1>17

LEMMA RollbackShows == ASSUME ContractInv, TypeOK', Rollback PROVE Shows(Directory!Revert)
<1>1. /\ TypeOK /\ Idle /\ mode = "up" /\ UNCHANGED <<mode, freed, file, saving>> /\ ~saving
      /\ UNCHANGED <<heap, chain, rows, lastUid>> \/ load_table(heap)
  BY RolledBack DEF Rollback, user_table_rollback, Idle, ContractInv, UidsInv
<1>2. CASE UNCHANGED <<heap, chain, rows, lastUid>>
  <2>1. UNCHANGED Directory!vars
    BY <1>1, <1>2, SameStanding
  <2>2. HeapPlain' /\ DeadKeepsTwo'
    BY <1>1, <1>2 DEF ContractInv, HeapPlain, DeadKeepsTwo, Live
  <2> QED  BY <2>1, <2>2 DEF Shows
<1>3. CASE load_table(heap)
  <2>1. heap \in Seq(Row) /\ freed' \subseteq DOMAIN heap /\ \A n \in DOMAIN heap : PlainRow(heap[n])
    BY <1>1 DEF TypeOK, ContractInv, HeapPlain
  <2>2. HeapPlain' /\ Intact' /\ Listing' = Copy /\ Directory!HasCopy
    BY <1>1, <1>3, <2>1, LoadsCopy
  <2>3. DeadKeepsTwo'
    BY <2>2 DEF Intact, DeadKeepsTwo
  <2>4. Standing' = Copy /\ Copy' = Copy /\ Directory!IsOpen /\ ~Damaged'
    BY <1>1, <2>2, SeenOpen, SeenNext, SameCopy
  <2>5. Directory!Revert
    BY <1>1, <2>2, <2>4 DEF Directory!Revert
  <2> QED  BY <2>2, <2>3, <2>5 DEF Shows
<1> QED  BY <1>1, <1>2, <1>3

-----------------------------------------------------------------------------
(* Start, stop and faults.                                                 *)

\* What is seen of a process that is down or of which nothing is known.
LEMMA SeenGone ==
  /\ mode' = "down" => Standing' = Closed /\ Damaged' = FALSE
  /\ mode' = "undefined" => Standing' = Lost /\ Damaged' = FALSE
BY DEF Standing, Damaged

LEMMA ForgetsRows == Forget => HeapPlain' /\ DeadKeepsTwo' /\ saving' = FALSE
<1> SUFFICES ASSUME Forget PROVE HeapPlain' /\ DeadKeepsTwo' /\ saving' = FALSE
  OBVIOUS
<1>1. DOMAIN heap' = {} /\ DOMAIN chain' = {} /\ saving' = FALSE
  BY DEF Forget
<1> QED  BY <1>1 DEF HeapPlain, DeadKeepsTwo

\* The one row of a table that starts without a file.
LEMMA FirstListing ==
  ASSUME TypeOK', freed' = {}, heap' = <<WithUid(admin, 1001)>>, rows' = 1,
         chain' = << 1 >>
  PROVE  HeapPlain' /\ Intact' /\ Listing' = <<WithUid(admin, 1001)>>
<1>1. PICK a : a = WithUid(admin, 1001)
  OBVIOUS
<1>2. PlainRow(a) /\ heap' = <<a>>
  BY <1>1, AdminPlain
<1>3. DOMAIN heap' = {1} /\ heap'[1] = a /\ DOMAIN chain' = {1} /\ chain'[1] = 1 /\ Len(chain') = 1
  BY <1>2
<1>4. HeapPlain'
  BY <1>2, <1>3 DEF HeapPlain
<1>5. Intact'
  BY <1>3 DEF Intact, Live
<1>6. Listing' \in Seq(Row) /\ Len(Listing') = 1 /\ \A i \in 1..1 : Listing'[i] = heap'[chain'[i]]
  BY <1>3, <1>5, WholeListingNext DEF Intact, AllLive
<1>7. Listing'[1] = a
  BY <1>3, <1>6
<1>8. Listing' = << a >>
  <2>1. PICK l : l = Listing'
    OBVIOUS
  <2> QED  BY <1>6, <1>7, <2>1
<1> QED  BY <1>1, <1>4, <1>5, <1>8

LEMMA EmptyListing ==
  ASSUME TypeOK', heap' = <<>>, chain' = <<>>, rows' = 0
  PROVE  HeapPlain' /\ Intact' /\ Listing' = <<>>
<1>1. DOMAIN heap' = {} /\ DOMAIN chain' = {} /\ Len(chain') = 0
  OBVIOUS
<1>2. HeapPlain' /\ Intact'
  BY <1>1 DEF HeapPlain, Intact
<1>3. Listing' \in Seq(Row) /\ Len(Listing') = 0
  BY <1>1, <1>2, WholeListingNext DEF Intact, AllLive
<1> QED  BY <1>2, <1>3, EmptySeq

LEMMA StartShows == ASSUME ContractInv, TypeOK', user_table_init PROVE Shows(Directory!Open)
<1>1. /\ TypeOK /\ mode = "down" /\ ~saving /\ ~saving' /\ freed' = {} /\ file' = file
      /\ mode' \in {"up", "undefined"}
  BY Started DEF user_table_init, ContractInv, UidsInv, LockedIsUp
<1>2. Standing = Closed /\ Copy' = Copy /\ saving' = saving /\ Damaged = FALSE
  BY <1>1, SameCopy DEF TypeOK, Standing, Damaged
<1>3. CASE mode' = "up" /\ heap' = <<WithUid(admin, 1001)>> /\ chain' = <<1>> /\ rows' = 1
  <2>1. HeapPlain' /\ Intact' /\ Listing' = <<WithUid(admin, 1001)>>
    BY <1>1, <1>3, FirstListing
  <2>2. Standing' = <<WithUid(admin, 1001)>> /\ Damaged' = FALSE
    BY <1>3, <2>1, SeenNext
  <2>3. Directory!Open
    BY <1>2, <2>2 DEF Directory!Open
  <2>4. DeadKeepsTwo'
    BY <2>1 DEF Intact, DeadKeepsTwo
  <2> QED  BY <2>1, <2>3, <2>4 DEF Shows
<1>4. CASE file = <<>> /\ heap' = <<>> /\ chain' = <<>> /\ rows' = 0
  <2>1. HeapPlain' /\ Intact' /\ Listing' = <<>>
    BY <1>4, EmptyListing
  <2>2. Copy' = <<>>
    BY <1>1, <1>4, EmptyCopy
  <2>3. Standing' \in {<<>>, Lost} /\ Damaged' = FALSE
    BY <1>1, <2>1, SeenNext, SeenGone
  <2>4. Directory!Open
    <3>1. Copy = <<>> /\ Damaged' = Damaged
      BY <1>2, <2>2, <2>3
    <3> QED  BY <1>2, <2>3, <3>1, Zenon DEF Directory!Open
  <2>5. DeadKeepsTwo'
    BY <2>1 DEF Intact, DeadKeepsTwo
  <2> QED  BY <2>1, <2>4, <2>5 DEF Shows
<1>5. CASE load_table(<<>>) /\ mode' = "up"
  <2>1. <<>> \in Seq(Row) /\ DOMAIN <<>> = {} /\ freed' \subseteq DOMAIN <<>>
    BY <1>1, EmptySeq
  <2>2. HeapPlain' /\ Intact' /\ Listing' = Copy /\ Directory!HasCopy
    <3>1. \A n \in DOMAIN <<>> : PlainRow(<<>>[n])
      BY <2>1
    <3> QED  BY <1>1, <1>5, <2>1, <3>1, LoadsCopy
  <2>3. Standing' = Copy /\ Damaged' = FALSE
    BY <1>5, <2>2, SeenNext
  <2>4. Directory!Open
    BY <1>2, <2>2, <2>3 DEF Directory!Open
  <2>5. DeadKeepsTwo'
    BY <2>2 DEF Intact, DeadKeepsTwo
  <2> QED  BY <2>2, <2>4, <2>5 DEF Shows
<1> QED  BY <1>3, <1>4, <1>5 DEF user_table_init

LEMMA FaultShows ==
  ASSUME ContractInv, Faults PROVE Shows(Directory!Stop \/ Directory!GetLost)
<1>1. Forget /\ mode' \in {"down", "undefined"} /\ file' = file
  BY Faulty
<1>2. TypeOK /\ mode = "up"
  BY DEF Faults, read_faults, insert_faults, write_faults, save_faults, rollback_faults,
         caller_fault, Idle, ContractInv, UidsInv
<1>3. HeapPlain' /\ DeadKeepsTwo' /\ ~saving' /\ Copy' = Copy
  BY <1>1, ForgetsRows, SameCopy
<1>4. Directory!IsOpen
  BY <1>2, SeenOpen
<1>5. CASE mode' = "down"
  <2>1. Directory!Stop
    BY <1>3, <1>4, <1>5, SeenGone DEF Directory!Stop
  <2> QED  BY <1>3, <2>1 DEF Shows
<1>6. CASE mode' = "undefined"
  <2>1. Directory!GetLost
    BY <1>3, <1>4, <1>6, SeenGone DEF Directory!GetLost
  <2> QED  BY <1>3, <2>1 DEF Shows
<1> QED  BY <1>1, <1>5, <1>6

\* A list that continues the beginning of another by one element.
LEMMA HeadAndOne ==
  \A c, d \in Seq(Row) : \A m \in 1..Len(c) : \A x \in Row :
    Len(d) = m /\ d[m] = x /\ (\A i \in 1..(m - 1) : d[i] = c[i])
    => d = Append(SubSeq(c, 1, m - 1), x)
<1> SUFFICES ASSUME NEW c \in Seq(Row), NEW d \in Seq(Row), NEW m \in 1..Len(c), NEW x \in Row,
                    Len(d) = m, d[m] = x, \A i \in 1..(m - 1) : d[i] = c[i]
             PROVE  d = Append(SubSeq(c, 1, m - 1), x)
  OBVIOUS
<1>1. Len(c) \in Nat /\ m - 1 \in 0..Len(c) /\ m \in m..Len(c) /\ (m - 1) + 1 = m
  BY LenProperties
<1>2. PICK a : a = SubSeq(c, 1, m - 1)
  OBVIOUS
<1>3. a \in Seq(Row) /\ Len(a) = m - 1 /\ \A i \in 1..(m - 1) : a[i] = c[i]
  <2>1. PICK n : n = m - 1
    OBVIOUS
  <2>2. n \in 0..Len(c) /\ m \in n..Len(c)
    BY <1>1, <2>1
  <2>3. /\ SubSeq(c, 1, n) \in Seq(Row) /\ Len(SubSeq(c, 1, n)) = n
        /\ \A i \in 1..n : SubSeq(c, 1, n)[i] = c[i]
    BY <2>2, Ends
  <2> QED  BY <1>2, <2>1, <2>3, Zenon
<1>4. PICK e : e = Append(a, x)
  OBVIOUS
<1>5. e \in Seq(Row) /\ Len(e) = Len(a) + 1 /\ e[Len(a) + 1] = x /\ \A i \in 1..Len(a) : e[i] = a[i]
  BY <1>3, <1>4, AppendProperties
<1>6. Len(e) = m /\ e[m] = x /\ \A i \in 1..(m - 1) : e[i] = a[i]
  <2>1. Len(a) + 1 = m
    BY <1>1, <1>3
  <2> QED  BY <1>3, <1>5, <2>1, Zenon
<1>7. ASSUME NEW i \in 1..Len(d) PROVE d[i] = e[i]
  <2>1. i = m \/ i \in 1..(m - 1)
    BY <1>1
  <2> QED  BY <1>3, <1>6, <2>1
<1>8. d = e
  BY <1>5, <1>6, <1>7, SeqEqual
<1> QED  BY <1>2, <1>4, <1>8

\* A row that a crash left whole or cut, where it can be read at all.
LEMMA ReadsRemains ==
  ASSUME NEW r \in Row, PlainRow(r), NEW l, Remains(l, r), Parses(l)
  PROVE  RowOf(l) = [r EXCEPT !.type = RowOf(l).type]
<1>1. CASE l = LineOf(r)
  <2>1. RowOf(l) = r
    BY <1>1, ReadsBack
  <2>2. r = [r EXCEPT !.type = r.type]
    BY DEF Row
  <2> QED  BY <2>1, <2>2
<1>2. CASE l \in Cuts(LineOf(r))
  BY <1>2, ReadsCut
<1> QED  BY <1>1, <1>2 DEF Remains

LEMMA KillShows == ASSUME ContractInv, TypeOK', Kill PROVE Shows(Directory!Stop)
<1>1. TypeOK /\ mode = "up" /\ mode' = "down" /\ Forget /\ (file' = file \/ saving)
  BY DEF Kill, ContractInv, UidsInv
<1>2. HeapPlain' /\ DeadKeepsTwo' /\ ~saving'
  BY <1>1, ForgetsRows
<1>3. Directory!IsOpen /\ Standing = Listing /\ Standing' = Closed /\ ~Damaged'
  BY <1>1, SeenOpen, SeenGone
<1>4. CASE file' = file
  <2>1. Directory!Stop
    BY <1>2, <1>3, <1>4, SameCopy DEF Directory!Stop
  <2> QED  BY <1>2, <2>1 DEF Shows
<1>5. CASE /\ saving /\ file' \in Seq(Line)
           /\ \E m \in 1..Len(chain) :
                /\ Sound(1..m) /\ Len(file') = m
                /\ \A i \in 1..m : Remains(file'[i], heap[chain[i]])
                /\ \A i \in 1..(m - 1) : file'[i] = LineOf(heap[chain[i]])
  <2>1. PICK m \in 1..Len(chain) :
                /\ Sound(1..m) /\ Len(file') = m
                /\ \A i \in 1..m : Remains(file'[i], heap[chain[i]])
                /\ \A i \in 1..(m - 1) : file'[i] = LineOf(heap[chain[i]])
    BY <1>5
  <2>0. PICK f \in Nat : Reaches(f)
    BY <1>1, ReachesSome
  <2>2. /\ Listing \in Seq(Row) /\ Len(Listing) = f /\ DOMAIN Listing = 1..f /\ f \in 0..Len(chain)
        /\ \A i \in 1..f : Listing[i] = heap[chain[i]] /\ chain[i] \in DOMAIN heap
    <3>1. /\ Listing \in Seq(Row) /\ Len(Listing) = f /\ DOMAIN Listing = 1..f
          /\ \A i \in 1..f : Listing[i] = heap[chain[i]]
      BY <1>1, <2>0, ListingIs
    <3>2. f \in 0..Len(chain) /\ Len(chain) \in Nat /\ \A i \in 1..Len(chain) : chain[i] \in DOMAIN heap
      BY <1>1, <2>0, ListIs DEF Reaches
    <3> QED  BY <3>1, <3>2
  <2>3. m \in 1..f
    <3>1. m \in Nat /\ Len(chain) \in Nat /\ m <= Len(chain)
      BY <1>1, ListIs
    <3>2. ASSUME f < m PROVE FALSE
      <4>1. f + 1 \in 1..m /\ f < Len(chain)
        BY <3>1, <3>2
      <4> QED  BY <2>0, <2>1, <4>1 DEF Reaches, Sound
    <3> QED  BY <3>1, <3>2
  <2>4. Listing # <<>>
    BY <2>2, <2>3
  <2>6. file' # Missing
    BY <1>5, MissingAssumption
  <2>7. CASE ~Readable'
    <3>1. (file # Missing /\ ~Readable => Copy = Garbled)'
      BY CopyMarks, PTL
    <3>2. Copy' = Garbled
      BY <2>6, <2>7, <3>1
    <3>3. Directory!Stop
      BY <1>2, <1>3, <1>5, <2>4, <3>2 DEF Directory!Stop
    <3> QED  BY <1>2, <3>3 DEF Shows
  <2>8. CASE Readable'
    <3>1. PICK c : c = Listing
      OBVIOUS
    <3>2. PICK d : d = Copy'
      OBVIOUS
    <3>3. /\ d \in Seq(Row) /\ Len(d) = m /\ \A i \in 1..m : d[i] = RowOf(file'[i])
      BY <2>1, <2>8, <3>2, CopyNext
    <3>4. c \in Seq(Row) /\ m \in 1..Len(c) /\ \A i \in 1..m : c[i] \in Row /\ PlainRow(c[i])
      <4>1. m \in 1..Len(c) /\ \A i \in 1..m : i \in 1..f
        BY <2>2, <2>3, <3>1
      <4>2. \A n \in DOMAIN heap : heap[n] \in Row /\ PlainRow(heap[n])
        BY <1>1 DEF ContractInv, HeapPlain, TypeOK
      <4>3. \A i \in 1..f : c[i] \in Row /\ PlainRow(c[i])
        BY <2>2, <3>1, <4>2, Zenon
      <4> QED  BY <2>2, <3>1, <4>1, <4>3
    <3>5. /\ \A i \in 1..m : Remains(file'[i], c[i])
          /\ \A i \in 1..(m - 1) : file'[i] = LineOf(c[i])
      <4>1. (\A i \in 1..m : i \in 1..f) /\ \A i \in 1..(m - 1) : i \in 1..m
        BY <2>2, <2>3
      <4>2. \A i \in 1..m : c[i] = heap[chain[i]]
        BY <2>2, <3>1, <4>1
      <4> QED  BY <2>1, <4>1, <4>2
    <3>6. \A i \in 1..m : Parses(file'[i])
      <4>1. DOMAIN file' = 1..m
        BY <1>5, <2>1, LenProperties
      <4> QED  BY <2>8, <4>1 DEF Readable
    <3>7. ASSUME NEW i \in 1..(m - 1) PROVE d[i] = c[i]
      <4>1. i \in 1..m
        BY <2>2
      <4>2. d[i] = RowOf(LineOf(c[i])) /\ c[i] \in Row /\ PlainRow(c[i])
        BY <3>3, <3>4, <3>5, <4>1
      <4> QED  BY <4>2, ReadsBack
    <3>8. m \in 1..m
      BY <2>2
    <3>9. d[m] = [c[m] EXCEPT !.type = d[m].type]
      <4>1. PICK l : l = file'[m]
        OBVIOUS
      <4>2. /\ c[m] \in Row /\ PlainRow(c[m]) /\ Remains(l, c[m]) /\ Parses(l) /\ d[m] = RowOf(l)
        BY <3>3, <3>4, <3>5, <3>6, <3>8, <4>1
      <4> QED  BY <4>2, ReadsRemains
    <3>10. d[m] \in Row
      BY <3>3, <3>8, ElementOfSeq
    <3>11. d = Append(SubSeq(c, 1, m - 1), d[m])
      BY <3>3, <3>4, <3>7, <3>10, HeadAndOne
    <3>12. d = Append(SubSeq(c, 1, m - 1), [c[m] EXCEPT !.type = d[m].type])
      BY <3>9, <3>11, Zenon
    <3>13. d \notin {Nothing, Garbled} /\ m \in DOMAIN c
      BY <2>2, <2>3, <3>1, <3>3, MarksDiffer
    <3>14. Standing = c /\ Copy' = d
      BY <1>3, <3>1, <3>2
    <3>15. Directory!Stop
      BY <1>2, <1>3, <1>5, <3>12, <3>13, <3>14, Zenon DEF Directory!Stop
    <3> QED  BY <1>2, <3>15 DEF Shows
  <2> QED  BY <2>7, <2>8
<1> QED  BY <1>1, <1>4, <1>5, Killed

-----------------------------------------------------------------------------
(* The refinement.                                                         *)

\* Every step of the table is a step of the directory, or none.
LEMMA NextShows ==
  ASSUME ContractInv, TypeOK', WordsOnly, [Next]_vars
  PROVE  Shows(Directory!Next)
<1>1. CASE UNCHANGED vars
  <2>1. HeapPlain' /\ DeadKeepsTwo'
    BY <1>1 DEF vars, ContractInv, HeapPlain, DeadKeepsTwo, Live
  <2>2. Copy' = Copy /\ Standing' = Standing /\ saving' = saving /\ Damaged' = Damaged
    BY <1>1 DEF vars, Copy, Standing, Damaged, Intact, Listing, Front, Sound, Live
  <2> QED  BY <2>1, <2>2 DEF Shows, Directory!vars
<1>2. CASE user_table_init
  BY <1>2, StartShows DEF Shows, Directory!Next
<1>3. CASE Kill
  BY <1>3, KillShows DEF Shows, Directory!Next
<1>4. CASE Insert
  BY <1>4, InsertShows DEF Shows, Directory!Next
<1>5. CASE Delete
  BY <1>5, DeleteShows DEF Shows, Directory!Next
<1>6. CASE Update
  BY <1>6, UpdateShows DEF Shows, Directory!Next
<1>7. CASE save_opens \/ save_closes
  BY <1>7, SaveShows DEF Shows, Directory!Next
<1>8. CASE Rollback
  BY <1>8, RollbackShows DEF Shows, Directory!Next
<1>9. CASE Faults
  BY <1>9, FaultShows DEF Shows, Directory!Next
<1> QED  BY <1>1, <1>2, <1>3, <1>4, <1>5, <1>6, <1>7, <1>8, <1>9 DEF Next

LEMMA LockedNext == ASSUME LockedIsUp, [Next]_vars PROVE LockedIsUp'
<1>1. CASE UNCHANGED vars
  BY <1>1 DEF vars, LockedIsUp
<1>2. CASE user_table_init
  BY <1>2 DEF user_table_init, LockedIsUp
<1>3. CASE Kill
  BY <1>3 DEF Kill, Forget, LockedIsUp
<1>4. CASE Insert \/ Delete \/ Update \/ Rollback
  <2>1. saving' = saving /\ mode' = mode
    BY <1>4 DEF Insert, Delete, Update, Rollback, user_table_insert, user_table_delete,
                user_table_update, user_table_rollback
  <2> QED  BY <2>1 DEF LockedIsUp
<1>5. CASE save_opens \/ save_closes
  <2>1. mode' = "up"
    BY <1>5 DEF save_opens, save_closes, Idle
  <2> QED  BY <2>1 DEF LockedIsUp
<1>6. CASE Faults
  BY <1>6, Faulty DEF Forget, LockedIsUp
<1> QED  BY <1>1, <1>2, <1>3, <1>4, <1>5, <1>6 DEF Next

LEMMA ContractInit == Init => ContractInv /\ Directory!Init
<1> SUFFICES ASSUME Init PROVE ContractInv /\ Directory!Init
  OBVIOUS
<1>1. UidsInv
  BY UidsInit
<1>2. mode = "down" /\ ~saving /\ DOMAIN heap = {} /\ DOMAIN chain = {}
  BY DEF Init
<1>3. RowsCountLive /\ HeapPlain /\ DeadKeepsTwo /\ LockedIsUp
  BY <1>2 DEF RowsCountLive, HeapPlain, DeadKeepsTwo, LockedIsUp
<1>4. Standing = Closed /\ ~Damaged
  BY <1>2 DEF Standing, Damaged
<1> QED  BY <1>1, <1>2, <1>3, <1>4 DEF ContractInv, Directory!Init

LEMMA ContractNext ==
  ASSUME ContractInv, WordsOnly, [Next]_vars
  PROVE  ContractInv' /\ (Directory!Next \/ UNCHANGED Directory!vars)
<1>1. UidsInv' /\ TypeOK'
  <2>1. UidsInv'
    BY UidsNext DEF ContractInv
  <2> QED  BY <2>1 DEF UidsInv
<1>2. RowsCountLive'
  BY CountNext DEF ContractInv, CountInv, UidsInv
<1>3. LockedIsUp'
  BY LockedNext DEF ContractInv
<1>4. HeapPlain' /\ DeadKeepsTwo' /\ (Directory!Next \/ UNCHANGED Directory!vars)
  BY <1>1, NextShows DEF Shows
<1> QED  BY <1>1, <1>2, <1>3, <1>4 DEF ContractInv

\* With texts that contain no separator, and whatever is inserted, deleted,
\* updated, saved, rolled back, killed or torn, the linked list and its file
\* do only what UserDirectory allows.
THEOREM TableIsDirectory == ASSUME WordsOnly PROVE Spec => DirectorySpec
<1>1. Init => ContractInv /\ Directory!Init
  BY ContractInit
<1>2. ContractInv /\ [Next]_vars => ContractInv' /\ [Directory!Next]_(Directory!vars)
  BY ContractNext
<1> QED  BY <1>1, <1>2, PTL DEF Spec, DirectorySpec, Directory!Spec

=============================================================================
