------------------------------ MODULE UserTable ------------------------------
(***************************************************************************)
(* The user table of the database service (src/dbs/table/user_table.c): a  *)
(* singly linked list of malloc'd rows with a row counter, a last-uid      *)
(* counter and a text file that commit rewrites and rollback reloads.      *)
(*                                                                         *)
(* Every function of the file holds mutex_user_table from its first to its *)
(* last access, so each is one atomic action here, except commit, whose    *)
(* fopen("w") truncates the file before its rows are written: it is an     *)
(* opening and a closing step with the mutex held (saving) in between, so  *)
(* that the process can die between the two.                               *)
(*                                                                         *)
(* Representation.  heap is every row the process has malloc'd so far; a   *)
(* row's pointer is its index.  freed is the set of pointers given to      *)
(* free().  chain is the list as a walk along `next' from `first' finds    *)
(* it; `last' is always its last element (it is moved whenever             *)
(* last->uid == user->uid, which by UidsIncrease identifies the tail).     *)
(* A chain may contain freed rows: that is what the code does.             *)
(*                                                                         *)
(* Reading through NULL kills the process (mode "down", only the file      *)
(* survives).  Reading a freed row, or the uninitialised ptrs[0] of        *)
(* _load_table, leaves the C standard (mode "undefined"): nothing is       *)
(* claimed of what follows, so no step leaves that mode.                   *)
(***************************************************************************)
EXTENDS Integers, Sequences, FiniteSets

CONSTANTS
  Entries,      \* the [login, email, pass, type] that callers insert
  Passwords,    \* the passwords that callers change to
  InitialFile,  \* what the table file holds before the first start
  MAX_ROWS,     \* the longest listing
  MaxNodes,     \* bound: rows malloc'd by one process
  MaxUid,       \* bound: the last uid given out
  Missing,      \* the table file does not exist
  Torn          \* what a crash leaves of the word it cuts

(* A text is the sequence of the words that '|' separates in it: <<"ana">> *)
(* has no '|', <<"a", "b">> is "a|b" and <<"">> is the empty text.  The    *)
(* `name' column is left out: it is a text like `email', and no function   *)
(* looks a row up by it.                                                   *)
Text  == Seq(STRING)
Entry == [login : Text, email : Text, pass : Text, type : Text]
Row   == [uid : Nat, login : Text, email : Text, pass : Text, type : Text]
Line  == [uid : Nat, pieces : Text]

Increasing(lines) == \A i, j \in DOMAIN lines : i < j => lines[i].uid < lines[j].uid

ASSUME EntriesAssumption   == Entries \subseteq Entry
ASSUME PasswordsAssumption == Passwords \subseteq Text
ASSUME BoundsAssumption    == MaxNodes \in Nat /\ MaxUid \in Nat /\ MAX_ROWS \in Nat
ASSUME TornAssumption      == Torn \in STRING
ASSUME MissingAssumption   == Missing \notin Seq(Line)
ASSUME FileAssumption      == \/ InitialFile = Missing
                              \/ InitialFile \in Seq(Line) /\ Increasing(InitialFile)

VARIABLES
  mode,     \* "down" | "up" | "undefined"
  heap,     \* the rows malloc'd by this process, by pointer
  freed,    \* the pointers freed
  chain,    \* the pointers linked from `first', in order
  rows,     \* user_table.rows
  lastUid,  \* user_table.last_uid
  file,     \* the lines of TABLE_FILE, or Missing
  saving    \* mutex_user_table is held by a commit that has truncated the file

vars == <<mode, heap, freed, chain, rows, lastUid, file, saving>>

admin == [login |-> <<"admin">>, email |-> <<"admin@email.com">>,
          pass |-> <<"admin">>, type |-> <<"administrador">>]

ASSUME AdminAssumption == admin \in Entry

WithUid(e, u) == [uid |-> u, login |-> e.login, email |-> e.email,
                  pass |-> e.pass, type |-> e.type]

-----------------------------------------------------------------------------
(* The line of a row, and what strtok(..., "|") makes of a line: adjacent  *)
(* separators count as one, so an empty text vanishes and a text with a    *)
(* '|' in it spills into the next column.  A line with too few words makes *)
(* strlen(NULL) kill the process.                                          *)

LineOf(r) == [uid |-> r.uid, pieces |-> r.login \o r.email \o r.pass \o r.type]

\* The k-th word of a line is at position i of its pieces.
WordAt(line, k, i) ==
  /\ line.pieces[i] # ""
  /\ Cardinality({j \in 1..i : line.pieces[j] # ""}) = k

Parses(line) == \A k \in 1..4 : \E i \in DOMAIN line.pieces : WordAt(line, k, i)

Column(line, k) == <<line.pieces[CHOOSE i \in DOMAIN line.pieces : WordAt(line, k, i)]>>

RowOf(line) == [uid   |-> line.uid,
                login |-> Column(line, 1), email |-> Column(line, 2),
                pass  |-> Column(line, 3), type  |-> Column(line, 4)]

-----------------------------------------------------------------------------
(* Walks.  A position is an index of chain; position rows + 1 or 0 of an   *)
(* exhausted list is NULL.                                                 *)

Live(i) == i \in DOMAIN chain /\ chain[i] \notin freed

\* The rows linked and still allocated.
LinkedRows == {chain[i] : i \in DOMAIN chain} \ freed

\* The positions a search for v in column key reads: from the first, until
\* one at or after lo matches, or `rows' of them have been read.
Visited(key, v, lo) ==
  {i \in 1..rows : \A j \in lo..(i - 1) : j \in DOMAIN chain => heap[chain[j]][key] # v}

Match(key, v, lo, k) ==
  k \in Visited(key, v, lo) /\ k >= lo /\ k \in DOMAIN chain /\ heap[chain[k]][key] = v

\* The row user_table_delete and user_table_update find: the only row, or the
\* first match from the second row on.
FoundByUid(uid, k) == \/ rows = 1 /\ Match("uid", uid, 1, k)
                      \/ rows > 1 /\ Match("uid", uid, 2, k)

\* What they read on the way; a successful search also compares last->uid.
VisitedByUid(uid) ==
  Visited("uid", uid, 2)
  \cup {i \in {Len(chain)} : rows > 1 /\ \E k \in 2..rows : FoundByUid(uid, k)}

Sound(positions) == \A i \in positions : Live(i)

\* ptrant when the search stops at position k: the row before it at k = 2,
\* the row itself afterwards, because the loop advances ptr first.
ptrant(k) == IF k = 2 THEN 1 ELSE k

\* The mutex can be taken: the process runs and no commit holds it.
Idle == mode = "up" /\ ~saving

-----------------------------------------------------------------------------
(* The ways out of the program: the memory of the process is lost, or       *)
(* nothing is known of it any more.                                        *)

Forget == /\ heap' = <<>> /\ freed' = {} /\ chain' = <<>>
          /\ rows' = 0 /\ lastUid' = 0 /\ saving' = FALSE

Crash     == mode' = "down" /\ Forget /\ UNCHANGED file
Undefined == mode' = "undefined" /\ Forget /\ UNCHANGED file

\* What a read of these positions does when it is not sound.
Fault(positions) ==
  \/ /\ \E i \in positions \cap DOMAIN chain : ~Live(i)
     /\ Undefined
  \/ /\ \A i \in positions \cap DOMAIN chain : Live(i)
     /\ \E i \in positions : i \notin DOMAIN chain
     /\ Crash

-----------------------------------------------------------------------------
(* Reading operations: they change nothing; n is the pointer returned, 0   *)
(* for NULL.                                                               *)

getby(key, v, n) ==
  /\ Idle /\ Sound(Visited(key, v, 1))
  /\ \/ \E k \in 1..rows : Match(key, v, 1, k) /\ n = chain[k]
     \/ (\A k \in 1..rows : ~Match(key, v, 1, k)) /\ n = 0

user_table_getbyuid(uid, n)     == getby("uid", uid, n)
user_table_getbyuser(login, n)  == getby("login", login, n)
user_table_getbyemail(email, n) == getby("email", email, n)

Limit == IF rows > MAX_ROWS THEN MAX_ROWS ELSE rows

\* The pointers a listing returns; it reads the positions 1..Limit.
user_table_findall == [i \in 1..Limit |-> chain[i]]

\* The regular expression is the set of texts it matches.  The walk follows
\* `next' until NULL or `limit' matches, and does not count the rows it reads.
Searched(key, pattern) ==
  {i \in DOMAIN chain :
     Cardinality({j \in 1..(i - 1) : heap[chain[j]][key] \in pattern}) < Limit}

\* users[i] is the array when i rows have been read.
user_table_findbyfield(key, pattern) ==
  LET users[i \in 0..Len(chain)] ==
        IF i = 0 THEN <<>>
        ELSE IF i \in Searched(key, pattern) /\ heap[chain[i]][key] \in pattern
             THEN Append(users[i - 1], chain[i])
             ELSE users[i - 1]
  IN  users[Len(chain)]

-----------------------------------------------------------------------------
(* Changing operations.                                                    *)

\* Mutant: the row is linked and not counted.
insert_forgets_rows(e, n) ==
  /\ Idle /\ Len(heap) < MaxNodes /\ lastUid < MaxUid
  /\ rows # 0 => Live(Len(chain))
  /\ n = Len(heap) + 1
  /\ heap' = Append(heap, WithUid(e, lastUid + 1))
  /\ chain' = IF rows = 0 THEN <<n>> ELSE Append(chain, n)
  /\ lastUid' = lastUid + 1
  /\ UNCHANGED <<mode, freed, rows, file, saving>>

\* Mutant: the uid is taken from the number of rows.
insert_counts_rows(e, n) ==
  /\ Idle /\ Len(heap) < MaxNodes /\ rows < MaxUid - 1000
  /\ rows # 0 => Live(Len(chain))
  /\ n = Len(heap) + 1
  /\ heap' = Append(heap, WithUid(e, 1001 + rows))
  /\ chain' = IF rows = 0 THEN <<n>> ELSE Append(chain, n)
  /\ lastUid' = 1001 + rows
  /\ rows' = rows + 1
  /\ UNCHANGED <<mode, freed, file, saving>>

\* user_table_insert: n is the pointer of the new row.  A process whose only
\* row was deleted has rows = 1 and last = NULL.
user_table_insert(e, n) ==
  /\ Idle /\ Len(heap) < MaxNodes /\ lastUid < MaxUid
  /\ rows # 0 => Live(Len(chain))
  /\ n = Len(heap) + 1
  /\ heap' = Append(heap, WithUid(e, lastUid + 1))
  /\ chain' = IF rows = 0 THEN <<n>> ELSE Append(chain, n)
  /\ lastUid' = lastUid + 1
  /\ rows' = rows + 1
  /\ UNCHANGED <<mode, freed, file, saving>>

insert_faults == Idle /\ rows # 0 /\ Fault({Len(chain)})

\* user_table_delete returns 0 when it found nothing, and also when it freed
\* the only row; rows is then left at 1.
user_table_delete(uid, ret) ==
  /\ Idle /\ Sound(VisitedByUid(uid))
  /\ \/ /\ \A k \in 1..rows : ~FoundByUid(uid, k)
        /\ ret = 0
        /\ UNCHANGED <<freed, chain, rows>>
     \/ /\ rows = 1 /\ FoundByUid(uid, 1)
        /\ ret = 0
        /\ freed' = freed \cup {chain[1]} /\ chain' = <<>>
        /\ UNCHANGED rows
     \/ \E k \in 2..rows :
          /\ FoundByUid(uid, k)
          /\ ret = 1
          /\ freed' = freed \cup {chain[k]}
          /\ chain' = SubSeq(chain, 1, ptrant(k)) \o SubSeq(chain, k + 1, Len(chain))
          /\ rows' = rows - 1
  /\ UNCHANGED <<mode, heap, lastUid, file, saving>>

\* user_table_update: r is the caller's new row, malloc'd before the lock.
user_table_update(r, ret) ==
  /\ Idle /\ Len(heap) < MaxNodes
  /\ Sound(VisitedByUid(r.uid))
  /\ heap' = Append(heap, r)
  /\ \/ /\ \A k \in 1..rows : ~FoundByUid(r.uid, k)
        /\ ret = 0
        /\ UNCHANGED <<freed, chain>>
     \/ /\ rows = 1 /\ FoundByUid(r.uid, 1)
        /\ ret = 1
        /\ freed' = freed \cup {chain[1]} /\ chain' = <<Len(heap) + 1>>
     \/ \E k \in 2..rows :
          /\ FoundByUid(r.uid, k)
          /\ ret = 1
          /\ freed' = freed \cup {chain[k]}
          /\ chain' = SubSeq(chain, 1, ptrant(k)) \o <<Len(heap) + 1>>
                      \o SubSeq(chain, k + 1, Len(chain))
  /\ UNCHANGED <<mode, rows, lastUid, file, saving>>

\* Mutant: the file is opened without taking the mutex.
save_opens_unlocked == /\ mode = "up"
                       /\ file' = <<>> /\ saving' = TRUE
                       /\ UNCHANGED <<mode, heap, freed, chain, rows, lastUid>>

\* user_table_commit: _save_table either fails to open the file and answers
\* -1, which changes nothing, or truncates it ...
save_opens == /\ Idle
              /\ file' = <<>> /\ saving' = TRUE
              /\ UNCHANGED <<mode, heap, freed, chain, rows, lastUid>>

\* Mutant: the rows are written from first->next on.
save_skips_first == /\ mode = "up" /\ saving
                    /\ Sound(DOMAIN chain)
                    /\ file' = [i \in 1..(Len(chain) - 1) |-> LineOf(heap[chain[i + 1]])]
                    /\ saving' = FALSE
                    /\ UNCHANGED <<mode, heap, freed, chain, rows, lastUid>>

\* Mutant: the function returns without releasing the mutex.
save_keeps_mutex == /\ mode = "up" /\ saving
                    /\ Sound(DOMAIN chain)
                    /\ file' = [i \in DOMAIN chain |-> LineOf(heap[chain[i]])]
                    /\ UNCHANGED <<mode, heap, freed, chain, rows, lastUid, saving>>

\* ... and writes one line per row linked, whatever rows says.
save_closes == /\ mode = "up" /\ saving
               /\ Sound(DOMAIN chain)
               /\ file' = [i \in DOMAIN chain |-> LineOf(heap[chain[i]])]
               /\ saving' = FALSE
               /\ UNCHANGED <<mode, heap, freed, chain, rows, lastUid>>

save_faults == mode = "up" /\ saving /\ Fault(DOMAIN chain)

\* Mutant: every row is linked from the one before its own.
load_links_next(h) ==
  /\ file \notin {Missing, <<>>}
  /\ \A i \in DOMAIN file : Parses(file[i])
  /\ heap' = h \o [i \in DOMAIN file |-> RowOf(file[i])]
  /\ chain' = [i \in DOMAIN file |-> Len(h) + i + 1]
  /\ rows' = Len(file)
  /\ lastUid' = file[Len(file)].uid

\* Mutant: last_uid is taken from the first line.
load_reads_first_uid(h) ==
  /\ file \notin {Missing, <<>>}
  /\ \A i \in DOMAIN file : Parses(file[i])
  /\ heap' = h \o [i \in DOMAIN file |-> RowOf(file[i])]
  /\ chain' = [i \in DOMAIN file |-> Len(h) + i]
  /\ rows' = Len(file)
  /\ lastUid' = file[1].uid

\* _load_table on a file whose lines all parse: it links fresh rows after
\* those of h, and frees none.
load_table(h) ==
  /\ file \notin {Missing, <<>>}
  /\ \A i \in DOMAIN file : Parses(file[i])
  /\ heap' = h \o [i \in DOMAIN file |-> RowOf(file[i])]
  /\ chain' = [i \in DOMAIN file |-> Len(h) + i]
  /\ rows' = Len(file)
  /\ lastUid' = file[Len(file)].uid

\* user_table_rollback returns -1 when the file cannot be opened, be there one
\* or not.  An empty file resets nothing and is answered 0.
user_table_rollback(ret) ==
  /\ Idle
  /\ \/ /\ ret = -1
        /\ UNCHANGED <<heap, chain, rows, lastUid>>
     \/ /\ file = <<>>
        /\ ret = 0
        /\ UNCHANGED <<heap, chain, rows, lastUid>>
     \/ /\ load_table(heap) /\ Len(heap') <= MaxNodes
        /\ ret = 0
  /\ UNCHANGED <<mode, freed, file, saving>>

\* The empty file also leaves ptrs[0] uninitialised before it is tested.
rollback_faults ==
  /\ Idle
  /\ \/ file = <<>> /\ Undefined
     \/ /\ file \notin {Missing, <<>>}
        /\ \E i \in DOMAIN file : ~Parses(file[i])
        /\ Crash

\* user_table_init, at the start of a process.  A file that cannot be opened,
\* be there one or not, leaves the administrator alone in the table; one that
\* does not parse kills the process at every start that opens it.
user_table_init ==
  /\ mode = "down"
  /\ freed' = {} /\ saving' = FALSE
  /\ \/ /\ mode' = "up"
        /\ heap' = <<WithUid(admin, 1001)>> /\ chain' = <<1>>
        /\ rows' = 1 /\ lastUid' = 1001
     \/ /\ file = <<>>
        /\ mode' \in {"up", "undefined"}
        /\ heap' = <<>> /\ chain' = <<>>
        /\ rows' = 0 /\ lastUid' = 1000
     \/ /\ load_table(<<>>) /\ Len(heap') <= MaxNodes
        /\ mode' = "up"
  /\ UNCHANGED file

\* What a crash can leave of a line, and of the file, while it is written.
Cuts(line) ==
  {[line EXCEPT !.pieces = SubSeq(@, 1, j) \o tail] :
     j \in 0..(Len(line.pieces) - 1), tail \in {<<>>, <<Torn>>}}

\* The process is killed: what is not in the file is lost, and a file being
\* written keeps some prefix of the text of the rows read so far, which are
\* those before the first freed one.
Kill ==
  /\ mode = "up"
  /\ mode' = "down" /\ Forget
  /\ \/ UNCHANGED file
     \/ /\ saving
        /\ \E m \in DOMAIN chain :
             LET whole(n) == [i \in 1..n |-> LineOf(heap[chain[i]])]
             IN  /\ Sound(1..m)
                 /\ \/ file' = whole(m)
                    \/ \E cut \in Cuts(LineOf(heap[chain[m]])) : file' = Append(whole(m - 1), cut)

-----------------------------------------------------------------------------
Init ==
  /\ mode = "down" /\ heap = <<>> /\ freed = {} /\ chain = <<>>
  /\ rows = 0 /\ lastUid = 0 /\ file = InitialFile /\ saving = FALSE

\* Callers delete by the uid of a row they once looked up, and update with a
\* copy of such a row.
KnownUids == {heap[n].uid : n \in DOMAIN heap}
Drafts    == {[heap[n] EXCEPT !.pass = p] : n \in DOMAIN heap, p \in Passwords}

Insert   == \E e \in Entries : user_table_insert(e, Len(heap) + 1)
Delete   == \E uid \in KnownUids, ret \in {0, 1} : user_table_delete(uid, ret)
Update   == \E r \in Drafts, ret \in {0, 1} : user_table_update(r, ret)
Rollback == \E ret \in {0, -1} : user_table_rollback(ret)

\* A lookup or a listing reads some first rows, at most `rows'; a search some
\* first rows of the list.
read_faults ==
  Idle /\ rows > 0 /\ \E k \in (1..rows) \cup DOMAIN chain : Fault(1..k)

write_faults == Idle /\ \E uid \in KnownUids : Fault(VisitedByUid(uid))

\* The code around the table leaves the C standard by itself: the lookups
\* return pointers that outlive the mutex, and the row may be freed by then.
caller_fault == mode = "up" /\ Undefined

Faults == \/ read_faults \/ insert_faults \/ write_faults
          \/ save_faults \/ rollback_faults \/ caller_fault

Next == \/ user_table_init \/ Kill
        \/ Insert \/ Delete \/ Update
        \/ save_opens \/ save_closes \/ Rollback
        \/ Faults

Spec == Init /\ [][Next]_vars

-----------------------------------------------------------------------------
(* Properties.                                                             *)

\* Type invariant: the list links allocated rows only, and a process that is
\* down holds none.
TypeOK ==
  /\ mode \in {"down", "up", "undefined"}
  /\ heap \in Seq(Row)
  /\ freed \subseteq DOMAIN heap
  /\ chain \in Seq(DOMAIN heap)
  /\ rows \in Nat /\ lastUid \in Nat
  /\ file = Missing \/ file \in Seq(Line)
  /\ saving \in BOOLEAN

\* The rows still allocated are linked in increasing order of uid, none above
\* last_uid, and so are the lines of the file: insert's last_uid + 1 is never
\* in use, even after a rollback or a crash has moved last_uid back, and
\* `last->uid == user->uid' in delete and update does identify the last row.
UidsIncrease ==
  /\ \A i, j \in DOMAIN chain :
       i < j /\ Live(i) /\ Live(j) => heap[chain[i]].uid < heap[chain[j]].uid
  /\ \A i \in DOMAIN chain : Live(i) => heap[chain[i]].uid <= lastUid
  /\ file # Missing => Increasing(file)

\* user_table.rows is the number of rows linked and still allocated, so a
\* listing that meets no freed row has shown every user; the one exception is
\* the table whose only row was deleted, where rows stays 1.
RowsCountLive ==
  mode = "up" => \/ rows = Cardinality(LinkedRows)
                 \/ rows = 1 /\ chain = <<>>

\* What "OK" (dbs.h:71) says of a delete: the user is no longer linked.
\* Violated (README, findings).
DeletedIsUnlinked ==
  [][\A uid \in KnownUids : user_table_delete(uid, 1) =>
       \A i \in DOMAIN chain' : heap'[chain'[i]].uid # uid]_vars
=============================================================================
