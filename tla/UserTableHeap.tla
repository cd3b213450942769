----------------------------- MODULE UserTableHeap -----------------------------
(***************************************************************************)
(* The list of user_table.c in memory: the pointers first and last, the    *)
(* field next of each row, the loops that follow them.  UserTable has the  *)
(* list as the sequence a walk finds; this module shows that the pointer   *)
(* operations do to it what UserTable says, freed rows still linked and    *)
(* all.  What concerns only the file is UserTable's.                       *)
(*                                                                         *)
(* A row's pointer is its index in heap, and NULL is 0.  The first bad     *)
(* pointer that is read ends the call: NULL kills the process, a freed     *)
(* row is undefined behaviour.                                             *)
(***************************************************************************)
EXTENDS Integers, Sequences, FiniteSets

CONSTANTS Entries, Passwords, InitialFile, MAX_ROWS, MaxNodes, MaxUid, Missing, Torn

VARIABLES mode, heap, freed, rows, lastUid, file, saving,  \* as in UserTable
          next, first, last

listVars == <<next, first, last>>
allVars  == <<mode, heap, freed, rows, lastUid, file, saving, listVars>>

NULL == 0

\* The pointer k steps from p.
Follow(p, k) ==
  LET at[j \in 0..k] == IF j = 0 THEN p ELSE IF at[j - 1] = NULL THEN NULL ELSE next[at[j - 1]]
  IN  at[k]

\* The list as a walk to NULL finds it.
Chain == [k \in 1..Cardinality({j \in 0..Len(heap) : Follow(first, j) # NULL}) |-> Follow(first, k - 1)]

Table == INSTANCE UserTable WITH chain <- Chain

ASSUME TextsAssumption  == /\ Entries \cup {Table!admin} \subseteq Table!Entry
                           /\ Passwords \subseteq Table!Text /\ Torn \in STRING
ASSUME BoundsAssumption == MaxNodes \in Nat /\ MaxUid \in Nat /\ MAX_ROWS \in Nat
ASSUME FileAssumption   == /\ Missing \notin Seq(Table!Line)
                           /\ InitialFile # Missing => /\ InitialFile \in Seq(Table!Line)
                                                       /\ Table!Increasing(InitialFile)

-----------------------------------------------------------------------------
(* Reading through pointers, in the order of a sequence.                   *)

Valid(p)  == p # NULL /\ p \notin freed
Sound(ps) == \A i \in DOMAIN ps : Valid(ps[i])

Lost == next' = <<>> /\ first' = NULL /\ last' = NULL

Fault(ps) ==
  \E i \in DOMAIN ps :
    /\ ~Valid(ps[i]) /\ \A j \in 1..(i - 1) : Valid(ps[j])
    /\ Lost
    /\ IF ps[i] = NULL THEN Table!Crash ELSE Table!Undefined

-----------------------------------------------------------------------------
(* Insert.                                                                 *)

\* Mutant: last stays where it was.
insert_keeps_last(e) ==
  /\ Table!Idle /\ Len(heap) < MaxNodes /\ lastUid < MaxUid
  /\ LET u == Len(heap) + 1
     IN  /\ heap' = Append(heap, Table!WithUid(e, lastUid + 1))
         /\ \/ rows = 0 /\ first' = u /\ next' = Append(next, NULL) /\ last' = u
            \/ /\ rows # 0 /\ Valid(last) /\ UNCHANGED <<first, last>>
               /\ next' = Append([next EXCEPT ![last] = u], NULL)
  /\ lastUid' = lastUid + 1 /\ rows' = rows + 1
  /\ UNCHANGED <<mode, freed, file, saving>>

\* Mutant: the new row's next is not set.
insert_next_unset(e) ==
  /\ Table!Idle /\ Len(heap) < MaxNodes /\ lastUid < MaxUid
  /\ LET u == Len(heap) + 1
     IN  /\ heap' = Append(heap, Table!WithUid(e, lastUid + 1))
         /\ \/ rows = 0 /\ first' = u /\ UNCHANGED next
            \/ rows # 0 /\ Valid(last) /\ UNCHANGED first /\ next' = [next EXCEPT ![last] = u]
         /\ last' = u
  /\ lastUid' = lastUid + 1 /\ rows' = rows + 1
  /\ UNCHANGED <<mode, freed, file, saving>>

user_table_insert(e) ==
  /\ Table!Idle /\ Len(heap) < MaxNodes /\ lastUid < MaxUid
  /\ LET u == Len(heap) + 1
     IN  /\ heap' = Append(heap, Table!WithUid(e, lastUid + 1))
         /\ \/ rows = 0 /\ first' = u /\ next' = Append(next, NULL)
            \/ /\ rows # 0 /\ Valid(last) /\ UNCHANGED first
               /\ next' = Append([next EXCEPT ![last] = u], NULL)
         /\ last' = u
  /\ lastUid' = lastUid + 1 /\ rows' = rows + 1
  /\ UNCHANGED <<mode, freed, file, saving>>

insert_faults == Table!Idle /\ rows # 0 /\ Fault(<<last>>)

-----------------------------------------------------------------------------
(* The loop of delete and update: ptr and ptrant when its round i begins.   *)

round(i) ==
  LET loop[j \in 1..i] ==
        IF j = 1 THEN [ptr |-> Follow(first, 1), ptrant |-> first]
        ELSE LET ptr == Follow(loop[j - 1].ptr, 1) IN [ptr |-> ptr, ptrant |-> ptr]
  IN  loop[i]

\* The rounds it makes for uid; it has found a row if the last one has.
Rounds(uid) ==
  LET found == {i \in 1..(rows - 1) : round(i).ptr # NULL /\ heap[round(i).ptr].uid = uid}
  IN  IF found = {} THEN rows - 1 ELSE CHOOSE i \in found : \A j \in found : i <= j

Finds(uid) ==
  LET ptr == round(Rounds(uid)).ptr IN rows > 1 /\ ptr # NULL /\ heap[ptr].uid = uid

\* What they read: a row found also brings last->uid.
Reads(uid) ==
  CASE rows = 0 -> <<>>
    [] rows = 1 -> <<first>>
    [] OTHER    -> <<first>> \o [i \in 1..Rounds(uid) |-> round(i).ptr]
                   \o IF Finds(uid) THEN <<last>> ELSE <<>>

user_table_delete(uid) ==
  /\ Table!Idle /\ Sound(Reads(uid))
  /\ \/ /\ rows = 1 /\ heap[first].uid = uid
        /\ freed' = freed \cup {first} /\ first' = NULL /\ last' = NULL
        /\ UNCHANGED <<next, rows>>
     \/ /\ Finds(uid)
        /\ LET user == round(Rounds(uid)).ptr  ptrant == round(Rounds(uid)).ptrant
           IN  /\ last' = IF heap[last].uid = uid THEN ptrant ELSE last
               /\ next' = [next EXCEPT ![ptrant] = next[user]]
               /\ freed' = freed \cup {user}
        /\ rows' = rows - 1 /\ UNCHANGED first
     \/ /\ rows # 1 \/ heap[first].uid # uid
        /\ ~Finds(uid) /\ UNCHANGED <<freed, rows, listVars>>
  /\ UNCHANGED <<mode, heap, lastUid, file, saving>>

\* Mutant: the new row does not get the next of the old one.
update_drops_tail(r) ==
  /\ Table!Idle /\ Len(heap) < MaxNodes /\ Sound(Reads(r.uid)) /\ Finds(r.uid)
  /\ heap' = Append(heap, r)
  /\ LET user == round(Rounds(r.uid)).ptr  ptrant == round(Rounds(r.uid)).ptrant
     IN  /\ next' = Append([next EXCEPT ![ptrant] = Len(heap) + 1], NULL)
         /\ last' = IF heap[last].uid = r.uid THEN Len(heap) + 1 ELSE last
         /\ freed' = freed \cup {user}
  /\ UNCHANGED <<mode, first, rows, lastUid, file, saving>>

user_table_update(r) ==
  /\ Table!Idle /\ Len(heap) < MaxNodes /\ Sound(Reads(r.uid))
  /\ heap' = Append(heap, r)
  /\ LET newuser == Len(heap) + 1
     IN  \/ /\ rows = 1 /\ heap[first].uid = r.uid
            /\ freed' = freed \cup {first} /\ first' = newuser /\ last' = newuser
            /\ next' = Append(next, NULL)
         \/ /\ Finds(r.uid)
            /\ LET user == round(Rounds(r.uid)).ptr  ptrant == round(Rounds(r.uid)).ptrant
               IN  /\ next' = [Append(next, next[user]) EXCEPT ![ptrant] = newuser]
                   /\ last' = IF heap[last].uid = r.uid THEN newuser ELSE last
                   /\ freed' = freed \cup {user}
            /\ UNCHANGED first
         \/ /\ rows # 1 \/ heap[first].uid # r.uid
            /\ ~Finds(r.uid) /\ next' = Append(next, NULL) /\ UNCHANGED <<freed, first, last>>
  /\ UNCHANGED <<mode, rows, lastUid, file, saving>>

write_faults == Table!Idle /\ \E uid \in Table!KnownUids : Fault(Reads(uid))

-----------------------------------------------------------------------------
(* The walks of the lookups and listings, which stop after `rows' rows, and *)
(* of the searches and of _save_table, which stop at NULL.                 *)

read_faults == Table!Idle /\ \E k \in 1..rows : Fault([i \in 1..k |-> Follow(first, i - 1)])

walk_faults == mode = "up" /\ Fault(Chain)

\* _load_table: file has n lines, and h rows are in memory.
load_list(h, n) ==
  /\ next' = SubSeq(next, 1, h) \o [i \in 1..n |-> IF i < n THEN h + i + 1 ELSE NULL]
  /\ first' = h + 1 /\ last' = h + n

Saves == UNCHANGED listVars /\ (Table!save_opens \/ Table!save_closes)

Loads ==
  \/ /\ file \notin {Missing, <<>>} /\ load_list(Len(heap), Len(file))
     /\ Table!user_table_rollback(0)
  \/ UNCHANGED listVars /\ Table!user_table_rollback(-1)
  \/ file = <<>> /\ UNCHANGED listVars /\ Table!user_table_rollback(0)
  \/ Lost /\ Table!rollback_faults

\* Each way to start builds its own list, which must be the one UserTable has.
user_table_init ==
  /\ mode = "down"
  /\ \/ /\ heap' = <<Table!WithUid(Table!admin, 1001)>>
        /\ next' = <<NULL>> /\ first' = 1 /\ last' = 1
     \/ file = <<>> /\ heap' = <<>> /\ Lost
     \/ file \notin {Missing, <<>>} /\ load_list(0, Len(file)) /\ Table!load_table(<<>>)
  /\ Table!user_table_init

Kill == Lost /\ Table!Kill

-----------------------------------------------------------------------------
Init ==
  /\ mode = "down" /\ heap = <<>> /\ freed = {} /\ rows = 0 /\ lastUid = 0
  /\ file = InitialFile /\ saving = FALSE
  /\ next = <<>> /\ first = NULL /\ last = NULL

Inserts == \E e \in Entries : user_table_insert(e)
Deletes == \E uid \in Table!KnownUids : user_table_delete(uid)
Updates == \E r \in Table!Drafts : user_table_update(r)

Next == \/ user_table_init \/ Kill
        \/ Inserts \/ Deletes \/ Updates \/ Saves \/ Loads
        \/ insert_faults \/ write_faults \/ read_faults \/ walk_faults

Spec == Init /\ [][Next]_allVars

-----------------------------------------------------------------------------
(* Properties.                                                             *)

\* Type invariant: pointers point to rows of the heap.
HeapTypeOK ==
  /\ Len(next) = Len(heap)
  /\ \A p \in DOMAIN next : next[p] \in 0..Len(heap)
  /\ first \in 0..Len(heap) /\ last \in 0..Len(heap)

\* user_table.last is the row a walk from user_table.first ends at, although
\* delete and update move it by comparing uids, and may leave it at a freed
\* row: insert links the new user where the lookups will find it.
LastIsTail == last = IF Chain = <<>> THEN NULL ELSE Chain[Len(Chain)]

\* Every operation on the pointers is the operation of UserTable on the walk.
ListSpec == Table!Spec
=============================================================================
