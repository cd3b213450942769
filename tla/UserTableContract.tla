-------------------------- MODULE UserTableContract --------------------------
(***************************************************************************)
(* UserTable implements UserDirectory: the list, up to the first freed row *)
(* in it, is the directory, which is broken unless every row linked is     *)
(* allocated and counted.                                                  *)
(***************************************************************************)
EXTENDS UserTable

CONSTANTS Closed, Lost, Nothing, Garbled

\* The marks are told from each other and from directories.
ASSUME MarksAssumption ==
  /\ Closed # Lost /\ Nothing # Garbled
  /\ \A mark \in {Closed, Lost, Nothing, Garbled} : mark \notin Seq(Row)

Intact == rows = Len(chain) /\ \A i \in DOMAIN chain : Live(i)

\* What a walk from `first' reads before it meets a freed row.
Front == {i \in DOMAIN chain : Sound(1..i)}

Listing == [i \in Front |-> heap[chain[i]]]

Standing == CASE mode = "down"      -> Closed
              [] mode = "undefined" -> Lost
              [] mode = "up"        -> Listing

Damaged == mode = "up" /\ ~Intact

Copy == CASE file = Missing -> Nothing
          [] file # Missing /\ \A i \in DOMAIN file : Parses(file[i])
               -> [i \in DOMAIN file |-> RowOf(file[i])]
          [] OTHER -> Garbled

Directory == INSTANCE UserDirectory WITH
  Administrator <- WithUid(admin, 1001),
  dir    <- Standing,
  saved  <- Copy,
  busy   <- saving,
  broken <- Damaged

\* Seen from outside, with texts that contain no separator, the table only
\* ever does what UserDirectory allows: commit writes exactly the listing,
\* rollback and restart read exactly what was written, a change touches the
\* user it names and no other, a table broken by removing a third or later
\* user still shows those before it and loses the others in a crash of a
\* commit, and a rollback repairs it.
DirectorySpec == Directory!Spec
=============================================================================
