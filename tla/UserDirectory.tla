---------------------------- MODULE UserDirectory ----------------------------
(***************************************************************************)
(* What src/dbs/table/user_table.c promises, without pointers: a directory *)
(* of users in the order they were added and the copy of it last saved.    *)
(*                                                                         *)
(* The promise is narrower than the interface suggests.  The second user   *)
(* of a directory can be removed or replaced, and the only user of one can *)
(* be replaced; the first of several is refused.  Removing or replacing a  *)
(* later user, or removing the only one, breaks the directory until it is  *)
(* rolled back or reopened: of a broken directory only the users before    *)
(* the first one so removed can still be told, it cannot be saved unless   *)
(* none can, and a crash in the attempt keeps no others.                   *)
(***************************************************************************)
EXTENDS Integers, Sequences

CONSTANTS
  Administrator, \* the user a directory without a saved copy opens with
  Closed,        \* not open
  Lost,          \* nothing is known of it
  Nothing,       \* no saved copy
  Garbled        \* a saved copy that cannot be read

VARIABLES
  dir,    \* Closed, Lost or the users that can be told, in order
  saved,  \* Nothing, Garbled or a sequence of users
  busy,   \* the copy is being rewritten
  broken  \* dir is not all of the directory

vars == <<dir, saved, busy, broken>>

IsOpen  == dir \notin {Closed, Lost}
HasCopy == saved \notin {Nothing, Garbled, <<>>}

Init == dir = Closed /\ ~busy /\ ~broken

\* A copy that cannot be opened is taken for none; an empty copy may also be
\* read as nothing sensible.
Open == /\ dir = Closed
        /\ \/ dir' = <<Administrator>>
           \/ saved = <<>> /\ dir' \in {<<>>, Lost}
           \/ HasCopy /\ dir' = saved
        /\ UNCHANGED <<saved, busy, broken>>

\* A user added to a broken directory cannot be told.
Add == /\ IsOpen /\ ~busy /\ ~broken
       /\ dir' \notin {Closed, Lost}
       /\ Len(dir') = Len(dir) + 1
       /\ SubSeq(dir', 1, Len(dir)) = dir
       /\ \A i \in DOMAIN dir : dir[i].uid < dir'[Len(dir')].uid
       /\ UNCHANGED <<saved, busy, broken>>

RemoveSecond == /\ IsOpen /\ ~busy
                /\ Len(dir) >= 2
                /\ dir' = <<dir[1]>> \o SubSeq(dir, 3, Len(dir))
                /\ UNCHANGED <<saved, busy, broken>>

\* The new user takes the uid of the old one; the rest is the caller's.
Replace == /\ IsOpen /\ ~busy
           /\ \E i \in DOMAIN dir :
                /\ i = IF Len(dir) = 1 /\ ~broken THEN 1 ELSE 2
                /\ dir' \notin {Closed, Lost}
                /\ DOMAIN dir' = DOMAIN dir
                /\ dir' = [dir EXCEPT ![i] = dir'[i]]
                /\ dir'[i].uid = dir[i].uid
           /\ UNCHANGED <<saved, busy, broken>>

\* The change asked for is one the directory cannot survive: the only user is
\* removed, or one behind the second is removed or replaced.
Break == /\ IsOpen /\ ~busy /\ broken'
         /\ \/ ~broken /\ Len(dir) = 1 /\ dir' = <<>>
            \/ \E n \in 2..(Len(dir) - 1) : dir' = SubSeq(dir, 1, n)
         /\ UNCHANGED <<saved, busy>>

BeginSave == IsOpen /\ ~busy /\ busy' /\ saved' = <<>> /\ UNCHANGED <<dir, broken>>
EndSave   == /\ IsOpen /\ busy /\ ~busy'
             /\ broken => dir = <<>>
             /\ saved' = dir /\ UNCHANGED <<dir, broken>>

\* A rollback repairs a broken directory too.
Revert == /\ IsOpen /\ ~busy /\ ~broken' /\ HasCopy
          /\ dir' = saved /\ UNCHANGED <<saved, busy>>

\* The process stops.  A copy being rewritten keeps a prefix of the users that
\* can be told, the last of them perhaps with another type, or cannot be read.
Stop == /\ IsOpen /\ dir' = Closed /\ ~busy' /\ ~broken'
        /\ \/ UNCHANGED saved
           \/ busy /\ dir # <<>> /\ saved' = Garbled
           \/ /\ busy
              /\ \E n \in DOMAIN dir :
                   /\ saved' \notin {Nothing, Garbled}
                   /\ saved' = Append(SubSeq(dir, 1, n - 1),
                                     [dir[n] EXCEPT !.type = saved'[n].type])

\* A broken directory or an empty copy was read, or a user that was removed.
GetLost == /\ IsOpen
           /\ dir' = Lost /\ ~busy' /\ ~broken' /\ UNCHANGED saved

Next == \/ Open \/ Add \/ RemoveSecond \/ Replace \/ Break
        \/ BeginSave \/ EndSave \/ Revert \/ Stop \/ GetLost

Spec == Init /\ [][Next]_vars
=============================================================================
