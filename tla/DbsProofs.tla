------------------------------ MODULE DbsProofs ------------------------------
(***************************************************************************)
(* Proofs about Dbs for every number of sessions and every set of          *)
(* requests: the service uses the table as UserTable allows, what          *)
(* connection_lock does once the requests before it have drained, the type *)
(* invariant of the threads, whom a session and a change act for, and, of  *)
(* one session alone, the rows it holds and the names it lets in.          *)
(***************************************************************************)
EXTENDS Dbs, UserTableProofs, Induction

-----------------------------------------------------------------------------
(* One thread at a time.                                                   *)

IsPerSession(f) == f = [s \in Sessions |-> f[s]]

Shape == /\ IsPerSession(pc) /\ IsPerSession(user) /\ IsPerSession(req)
         /\ IsPerSession(held) /\ IsPerSession(draft) /\ IsPerSession(result)

\* The other threads are where they were.
Others(s) == \A t \in Sessions : t # s => /\ pc'[t] = pc[t] /\ user'[t] = user[t] /\ req'[t] = req[t]
                                          /\ held'[t] = held[t] /\ draft'[t] = draft[t]
                                          /\ result'[t] = result[t]

\* What a variable assigned by EXCEPT looks like afterwards.
LEMMA Assigned ==
  ASSUME NEW f, IsPerSession(f), NEW s \in Sessions, NEW x, NEW g, g = [f EXCEPT ![s] = x]
  PROVE  IsPerSession(g) /\ g[s] = x /\ \A t \in Sessions : t # s => g[t] = f[t]
BY DEF IsPerSession

\* The moves.
LEMMA Moves ==
  ASSUME Shape, NEW s \in Sessions, NEW label
  PROVE  /\ Continue(s, label) =>
              /\ Shape' /\ Others(s) /\ pc'[s] = label /\ connection_lock' = connection_lock
              /\ user'[s] = user[s] /\ req'[s] = req[s] /\ held'[s] = held[s] /\ draft'[s] = draft[s]
              /\ result'[s] = result[s]
         /\ \A users : Hold(s, label, users) =>
              /\ Shape' /\ Others(s) /\ pc'[s] = label /\ connection_lock' = connection_lock
              /\ user'[s] = user[s] /\ req'[s] = req[s] /\ held'[s] = users /\ draft'[s] = draft[s]
              /\ result'[s] = result[s]
         /\ \A r : Draft(s, label, r) =>
              /\ Shape' /\ Others(s) /\ pc'[s] = label /\ connection_lock' = connection_lock
              /\ user'[s] = user[s] /\ req'[s] = req[s] /\ held'[s] = held[s] /\ draft'[s] = r
              /\ result'[s] = result[s]
         /\ \A message : Answer(s, message) =>
              /\ Shape' /\ Others(s) /\ pc'[s] = "answer" /\ connection_lock' = connection_lock
              /\ user'[s] = user[s]
         /\ \A message, u : Done(s, message) /\ (user' = [user EXCEPT ![s] = u] \/ user' = user) =>
              Shape' /\ Others(s) /\ pc'[s] = "answer"
         /\ Close(s) =>
              /\ Shape' /\ Others(s) /\ pc'[s] = "closed" /\ connection_lock' = connection_lock
              /\ user'[s] = NoRow
<1>1. /\ IsPerSession(pc) /\ IsPerSession(user) /\ IsPerSession(req)
      /\ IsPerSession(held) /\ IsPerSession(draft) /\ IsPerSession(result)
  BY DEF Shape
<1>2. Continue(s, label) =>
        /\ Shape' /\ Others(s) /\ pc'[s] = label /\ connection_lock' = connection_lock
        /\ user'[s] = user[s] /\ req'[s] = req[s] /\ held'[s] = held[s] /\ draft'[s] = draft[s]
        /\ result'[s] = result[s]
  BY <1>1, Assigned DEF Continue, Goto, Shape, Others, IsPerSession
<1>3. ASSUME NEW users, Hold(s, label, users)
      PROVE  /\ Shape' /\ Others(s) /\ pc'[s] = label /\ connection_lock' = connection_lock
             /\ user'[s] = user[s] /\ req'[s] = req[s] /\ held'[s] = users /\ draft'[s] = draft[s]
             /\ result'[s] = result[s]
  BY <1>1, <1>3, Assigned DEF Hold, Goto, Shape, Others, IsPerSession
<1>4. ASSUME NEW r, Draft(s, label, r)
      PROVE  /\ Shape' /\ Others(s) /\ pc'[s] = label /\ connection_lock' = connection_lock
             /\ user'[s] = user[s] /\ req'[s] = req[s] /\ held'[s] = held[s] /\ draft'[s] = r
             /\ result'[s] = result[s]
  BY <1>1, <1>4, Assigned DEF Draft, Goto, Shape, Others, IsPerSession
<1>5. ASSUME NEW message, NEW u, Done(s, message), user' = [user EXCEPT ![s] = u] \/ user' = user
      PROVE  Shape' /\ Others(s) /\ pc'[s] = "answer"
  BY <1>1, <1>5, Assigned DEF Done, Goto, Shape, Others, IsPerSession
<1>6. ASSUME NEW message, Answer(s, message)
      PROVE  /\ Shape' /\ Others(s) /\ pc'[s] = "answer" /\ connection_lock' = connection_lock
             /\ user'[s] = user[s]
  BY <1>5, <1>6 DEF Answer
<1>7. Close(s) => /\ Shape' /\ Others(s) /\ pc'[s] = "closed" /\ connection_lock' = connection_lock
                  /\ user'[s] = NoRow
  <2> SUFFICES ASSUME Close(s)
               PROVE  /\ Shape' /\ Others(s) /\ pc'[s] = "closed" /\ connection_lock' = connection_lock
                      /\ user'[s] = NoRow
    OBVIOUS
  <2>1. /\ IsPerSession(pc') /\ pc'[s] = "closed" /\ \A t \in Sessions : t # s => pc'[t] = pc[t]
        /\ IsPerSession(user') /\ user'[s] = NoRow /\ \A t \in Sessions : t # s => user'[t] = user[t]
    BY <1>1, Assigned DEF Close, Goto, IsPerSession
  <2>2. /\ IsPerSession(req') /\ \A t \in Sessions : t # s => req'[t] = req[t]
        /\ IsPerSession(held') /\ \A t \in Sessions : t # s => held'[t] = held[t]
    BY <1>1, Assigned DEF Close, IsPerSession
  <2>3. /\ IsPerSession(draft') /\ \A t \in Sessions : t # s => draft'[t] = draft[t]
        /\ IsPerSession(result') /\ \A t \in Sessions : t # s => result'[t] = result[t]
    BY <1>1, Assigned DEF Close, IsPerSession
  <2>4. Shape'
    BY <2>1, <2>2, <2>3 DEF Shape, IsPerSession
  <2>5. connection_lock' = connection_lock
    BY DEF Close
  <2> QED  BY <2>1, <2>2, <2>3, <2>4, <2>5 DEF Others
<1> QED  BY <1>2, <1>3, <1>4, <1>5, <1>6, <1>7

-----------------------------------------------------------------------------
(* The lock.                                                               *)

\* A thread that has not passed the test of the lock changes nothing that is
\* shared, and passes it only when the lock is free or its own.
OutsideStep(s) ==
  /\ ~PastGate(s) /\ Others(s) /\ Shape' /\ UNCHANGED vars /\ connection_lock' = connection_lock
  /\ user'[s] = user[s] \/ user'[s] = NoRow
  /\ PastGate(s)' => user'[s] = user[s] /\ connection_lock \in {0, con(s)}

\* A thread that has passed it moves on, and takes or drops the lock only to be
\* done.
InsideStep(s) ==
  /\ PastGate(s) /\ Others(s) /\ Shape' /\ pc'[s] # pc[s]
  /\ connection_lock' \in {connection_lock, con(s), 0}
  /\ PastGate(s)' => user'[s] = user[s] /\ connection_lock' = connection_lock

LEMMA Outside ==
  ASSUME Shape, NEW s \in Sessions,
         \/ Accept(s) \/ HangUp(s) \/ (\E r \in Requests : Receive(s, r)) \/ Send(s)
         \/ connect_reads_lock(s) \/ check_preconditions(s)
  PROVE  OutsideStep(s)
<1>1. CASE Accept(s)
  <2>1. pc[s] = "closed" /\ UNCHANGED vars /\ Continue(s, "ready")
    BY <1>1 DEF Accept, Step
  <2> QED  BY <2>1, Moves DEF OutsideStep, PastGate, Serving
<1>2. CASE HangUp(s)
  <2>1. pc[s] \in {"ready", "answer"} /\ UNCHANGED vars /\ Close(s)
    BY <1>2 DEF HangUp
  <2> QED  BY <2>1, Moves DEF OutsideStep, PastGate, Serving
<1>3. CASE \E r \in Requests : Receive(s, r)
  <2>1. PICK r \in Requests : Receive(s, r)
    BY <1>3
  <2>2. pc[s] = "ready" /\ UNCHANGED vars
    BY <2>1 DEF Receive, Step
  <2>3. CASE \E message : Answer(s, message)
    BY <2>2, <2>3, Moves DEF OutsideStep, PastGate, Serving
  <2>4. CASE \E label \in {"farewell", "dbs_connect", "_check_preconditions"} :
               Goto(s, label) /\ UNCHANGED <<user, held, draft, connection_lock>>
                              /\ (req' = req \/ req' = [req EXCEPT ![s] = r])
                              /\ (result' = result \/ \E m : result' = [result EXCEPT ![s] = m])
    BY <2>2, <2>4, Assigned DEF Goto, Shape, IsPerSession, Others, OutsideStep, PastGate, Serving
  <2> QED  BY <2>1, <2>3, <2>4 DEF Receive
<1>4. CASE Send(s)
  <2>1. UNCHANGED vars
    BY <1>4 DEF Send
  <2>2. CASE pc[s] = "farewell" /\ Close(s)
    BY <2>1, <2>2, Moves DEF OutsideStep, PastGate, Serving
  <2>3. CASE /\ pc[s] = "answer" /\ Goto(s, "ready") /\ UNCHANGED <<user, req, held, draft, connection_lock>>
             /\ result' = [result EXCEPT ![s] = "none"]
    BY <2>1, <2>3, Assigned DEF Goto, Shape, IsPerSession, Others, OutsideStep, PastGate, Serving
  <2> QED  BY <1>4, <2>2, <2>3 DEF Send, Step
<1>5. CASE connect_reads_lock(s)
  <2>1. pc[s] = "dbs_connect" /\ UNCHANGED vars
    BY <1>5 DEF connect_reads_lock, Step
  <2>2. (\E message : Answer(s, message)) \/ (connection_lock = 0 /\ Continue(s, "connect_find"))
    BY <1>5 DEF connect_reads_lock
  <2> QED  BY <2>1, <2>2, Moves DEF OutsideStep, PastGate, Serving
<1>6. CASE check_preconditions(s)
  <2>1. pc[s] = "_check_preconditions" /\ UNCHANGED vars
    BY <1>6 DEF check_preconditions, Step
  <2>2. \/ \E message : Answer(s, message)
        \/ connection_lock \in {0, con(s)} /\ \E label : Continue(s, label)
    BY <1>6 DEF check_preconditions
  <2>3. ASSUME NEW message, Answer(s, message) PROVE OutsideStep(s)
    BY <2>1, <2>3, Moves DEF OutsideStep, PastGate, Serving
  <2>4. ASSUME connection_lock \in {0, con(s)}, NEW label, Continue(s, label) PROVE OutsideStep(s)
    BY <2>1, <2>4, Moves DEF OutsideStep, PastGate, Serving
  <2> QED  BY <2>2, <2>3, <2>4
<1> QED  BY <1>1, <1>2, <1>3, <1>4, <1>5, <1>6

\* The ways a thread past the test goes on.
LEMMA InsideMoves ==
  ASSUME Shape, NEW s \in Sessions, PastGate(s)
  PROVE  /\ \A message : Answer(s, message) /\ pc[s] # "answer" => InsideStep(s)
         /\ \A label : Continue(s, label) /\ pc[s] # label => InsideStep(s)
         /\ \A label, users : Hold(s, label, users) /\ pc[s] # label => InsideStep(s)
         /\ \A label, r : Draft(s, label, r) /\ pc[s] # label => InsideStep(s)
         /\ \A message : Done(s, message) /\ user' = user /\ connection_lock' \in {con(s), 0} => InsideStep(s)
         /\ \A message, u : Done(s, message) /\ user' = [user EXCEPT ![s] = u]
                            /\ connection_lock' = connection_lock => InsideStep(s)
<1>1. pc[s] # "answer"
  BY DEF PastGate, Serving
<1>2. ASSUME NEW message, Answer(s, message) PROVE InsideStep(s)
  BY <1>1, <1>2, Moves DEF InsideStep, PastGate, Serving
<1>3. ASSUME NEW label, Continue(s, label), pc[s] # label PROVE InsideStep(s)
  BY <1>3, Moves DEF InsideStep
<1>4. ASSUME NEW label, NEW users, Hold(s, label, users), pc[s] # label PROVE InsideStep(s)
  BY <1>4, Moves DEF InsideStep
<1>5. ASSUME NEW label, NEW r, Draft(s, label, r), pc[s] # label PROVE InsideStep(s)
  BY <1>5, Moves DEF InsideStep
<1>6. ASSUME NEW message, Done(s, message), user' = user, connection_lock' \in {con(s), 0}
      PROVE  InsideStep(s)
  BY <1>1, <1>6, Moves DEF InsideStep, PastGate, Serving
<1>7. ASSUME NEW message, NEW u, Done(s, message), user' = [user EXCEPT ![s] = u],
             connection_lock' = connection_lock
      PROVE  InsideStep(s)
  BY <1>1, <1>7, Moves DEF InsideStep, PastGate, Serving
<1> QED  BY <1>2, <1>3, <1>4, <1>5, <1>6, <1>7

LEMMA Inside ==
  ASSUME Shape, NEW s \in Sessions, Serve(s), ~connect_reads_lock(s), ~check_preconditions(s)
  PROVE  InsideStep(s)
<1>1. CASE connect_finds_user(s)
  <2>1. pc[s] = "connect_find" /\ PastGate(s)
    BY <1>1 DEF connect_finds_user, Step, PastGate, Serving
  <2>2. (\E message : Answer(s, message)) \/ (\E users : Hold(s, "connect_login", users))
    BY <1>1 DEF connect_finds_user
  <2> QED  BY <2>1, <2>2, InsideMoves
<1>2. CASE connect_reads_user(s)
  <2>1. pc[s] = "connect_login" /\ PastGate(s)
    BY <1>2 DEF connect_reads_user, Step, PastGate, Serving
  <2>2. \/ \E message : Answer(s, message)
        \/ \E message, u : Done(s, message) /\ user' = [user EXCEPT ![s] = u]
                           /\ connection_lock' = connection_lock
    BY <1>2 DEF connect_reads_user
  <2> QED  BY <2>1, <2>2, InsideMoves
<1>3. CASE create_finds_user(s)
  <2>1. pc[s] = "create_find_user" /\ PastGate(s)
    BY <1>3 DEF create_finds_user, Step, PastGate, Serving
  <2>2. (\E message : Answer(s, message)) \/ Continue(s, "create_find_email")
    BY <1>3 DEF create_finds_user
  <2> QED  BY <2>1, <2>2, InsideMoves
<1>4. CASE create_finds_email(s)
  <2>1. pc[s] = "create_find_email" /\ PastGate(s)
    BY <1>4 DEF create_finds_email, Step, PastGate, Serving
  <2>2. (\E message : Answer(s, message)) \/ Continue(s, "create_insert")
    BY <1>4 DEF create_finds_email
  <2> QED  BY <2>1, <2>2, InsideMoves
<1>5. CASE create_inserts(s)
  <2>1. pc[s] = "create_insert" /\ PastGate(s)
    BY <1>5 DEF create_inserts, Step, PastGate, Serving
  <2>2. \E users : Hold(s, "create_answer", users)
    BY <1>5 DEF create_inserts
  <2> QED  BY <2>1, <2>2, InsideMoves
<1>6. CASE create_answers(s)
  <2>1. pc[s] = "create_answer" /\ PastGate(s) /\ Answer(s, "OK")
    BY <1>6 DEF create_answers, Step, PastGate, Serving
  <2> QED  BY <2>1, InsideMoves
<1>7. CASE delete_finds(s)
  <2>1. pc[s] = "delete_find" /\ PastGate(s)
    BY <1>7 DEF delete_finds, Step, PastGate, Serving
  <2>2. (\E message : Answer(s, message)) \/ (\E users : Hold(s, "delete_uid", users))
    BY <1>7 DEF delete_finds
  <2> QED  BY <2>1, <2>2, InsideMoves
<1>8. CASE delete_reads_uid(s)
  <2>1. pc[s] = "delete_uid" /\ PastGate(s) /\ \E r : Draft(s, "delete_row", r)
    BY <1>8 DEF delete_reads_uid, Step, PastGate, Serving
  <2> QED  BY <2>1, InsideMoves
<1>9. CASE delete_deletes(s)
  <2>1. pc[s] = "delete_row" /\ PastGate(s) /\ \E message : Answer(s, message)
    BY <1>9 DEF delete_deletes, Step, PastGate, Serving
  <2> QED  BY <2>1, InsideMoves
<1>10. CASE changepass_finds(s)
  <2>1. pc[s] = "changepass_find" /\ PastGate(s)
    BY <1>10 DEF changepass_finds, Step, PastGate, Serving
  <2>2. (\E message : Answer(s, message)) \/ (\E users : Hold(s, "changepass_copy", users))
    BY <1>10 DEF changepass_finds
  <2> QED  BY <2>1, <2>2, InsideMoves
<1>11. CASE changepass_copies(s)
  <2>1. pc[s] = "changepass_copy" /\ PastGate(s)
    BY <1>11 DEF changepass_copies, Step, PastGate, Serving
  <2>2. (\E message : Answer(s, message)) \/ (\E r : Draft(s, "changepass_update", r))
    BY <1>11 DEF changepass_copies
  <2> QED  BY <2>1, <2>2, InsideMoves
<1>12. CASE changepass_updates(s)
  <2>1. pc[s] = "changepass_update" /\ PastGate(s) /\ \E message : Answer(s, message)
    BY <1>12 DEF changepass_updates, Step, PastGate, Serving
  <2> QED  BY <2>1, InsideMoves
<1>13. CASE list_finds(s)
  <2>1. pc[s] = "listar" /\ PastGate(s) /\ \E users : Hold(s, "print", users)
    BY <1>13 DEF list_finds, Step, PastGate, Serving
  <2> QED  BY <2>1, InsideMoves
<1>14. CASE search_finds(s)
  <2>1. pc[s] = "buscar" /\ PastGate(s)
    BY <1>14 DEF search_finds, Step, PastGate, Serving
  <2>2. (\E message : Answer(s, message)) \/ (\E users : Hold(s, "print", users))
    BY <1>14 DEF search_finds
  <2> QED  BY <2>1, <2>2, InsideMoves
<1>15. CASE prints(s)
  <2>1. pc[s] = "print" /\ PastGate(s) /\ Answer(s, "OK")
    BY <1>15 DEF prints, Step, PastGate, Serving
  <2> QED  BY <2>1, InsideMoves
<1>16. CASE blocks(s)
  <2>1. pc[s] = "bloquear" /\ PastGate(s)
    BY <1>16 DEF blocks, Step, PastGate, Serving
  <2>2. \/ \E message : Answer(s, message)
        \/ \E message : Done(s, message) /\ user' = user /\ connection_lock' = con(s)
    BY <1>16 DEF blocks
  <2> QED  BY <2>1, <2>2, InsideMoves
<1>17. CASE unblocks(s)
  <2>1. pc[s] = "desbloquear" /\ PastGate(s)
    BY <1>17 DEF unblocks, Step, PastGate, Serving
  <2>2. \/ \E message : Answer(s, message)
        \/ \E message : Done(s, message) /\ user' = user /\ connection_lock' = 0
    BY <1>17 DEF unblocks
  <2> QED  BY <2>1, <2>2, InsideMoves
<1>18. CASE commit_opens(s)
  <2>1. pc[s] = "commit" /\ PastGate(s)
    BY <1>18 DEF commit_opens, Step, PastGate, Serving
  <2>2. (\E message : Answer(s, message)) \/ Continue(s, "committing")
    BY <1>18 DEF commit_opens
  <2> QED  BY <2>1, <2>2, InsideMoves
<1>19. CASE commit_closes(s)
  <2>1. pc[s] = "committing" /\ PastGate(s) /\ Answer(s, "OK")
    BY <1>19 DEF commit_closes, Step, PastGate, Serving
  <2> QED  BY <2>1, InsideMoves
<1>20. CASE rolls_back(s)
  <2>1. pc[s] = "rollback" /\ PastGate(s) /\ \E message : Answer(s, message)
    BY <1>20 DEF rolls_back, Step, PastGate, Serving
  <2> QED  BY <2>1, InsideMoves
<1> QED
  BY <1>1, <1>2, <1>3, <1>4, <1>5, <1>6, <1>7, <1>8, <1>9, <1>10, <1>11, <1>12, <1>13,
     <1>14, <1>15, <1>16, <1>17, <1>18, <1>19, <1>20 DEF Serve

\* The process ends, or starts with every thread closed.
LEMMA EndsAndStarts ==
  ASSUME Shape
  PROVE  /\ \A s \in Sessions : faults(s) => mode' # "up" /\ Shape'
         /\ Stop => mode' # "up" /\ Shape'
         /\ Start => mode = "down" /\ Shape' /\ connection_lock' = connection_lock
<1>1. Gone => Shape'
  BY DEF Gone, Shape, IsPerSession
<1>2. Crash \/ Undefined => mode' # "up"
  BY DEF Crash, Undefined
<1>3. \A positions : Fault(positions) => mode' # "up"
  BY <1>2 DEF Fault
<1>4. \A s \in Sessions : table_faults(s) => mode' # "up"
  BY <1>2, <1>3 DEF table_faults, insert_faults, save_faults, rollback_faults
<1>5. \A s \in Sessions : stale_pointer(s) \/ stale_params(s) => mode' # "up"
  BY <1>2 DEF stale_pointer, stale_params
<1>6. Stop => mode' # "up"
  BY DEF Stop, Kill
<1>7. Start => mode = "down" /\ Shape' /\ connection_lock' = connection_lock
  <2>1. Start => mode = "down" /\ UNCHANGED <<pc, user, req, held, draft, result, connection_lock>>
    BY DEF Start, user_table_init, dbsVars, sessionVars
  <2> QED  BY <2>1 DEF Shape, IsPerSession
<1> QED  BY <1>1, <1>4, <1>5, <1>6, <1>7 DEF faults, Stop

\* Every step ends the process, starts it, or is of one thread.
LEMMA Steps ==
  ASSUME Shape, [DbsNext]_allVars
  PROVE  /\ Shape'
         /\ \/ mode' # "up" \/ mode = "down"
            \/ UNCHANGED allVars
            \/ \E s \in Sessions : OutsideStep(s) \/ InsideStep(s)
<1>1. CASE UNCHANGED allVars
  BY <1>1 DEF allVars, dbsVars, sessionVars, Shape, IsPerSession
<1>2. CASE Start \/ Stop \/ \E s \in Sessions : faults(s)
  <2>1. CASE Start
    BY <2>1, EndsAndStarts
  <2>2. CASE Stop
    BY <2>2, EndsAndStarts
  <2>3. ASSUME NEW s \in Sessions, faults(s) PROVE Shape' /\ mode' # "up"
    BY <2>3, EndsAndStarts
  <2> QED  BY <1>2, <2>1, <2>2, <2>3
<1>3. ASSUME NEW s \in Sessions,
             \/ Accept(s) \/ HangUp(s) \/ (\E r \in Requests : Receive(s, r)) \/ Send(s)
             \/ Serve(s)
      PROVE  Shape' /\ (OutsideStep(s) \/ InsideStep(s))
  <2>1. OutsideStep(s) \/ InsideStep(s)
    BY <1>3, Outside, Inside
  <2> QED  BY <2>1 DEF OutsideStep, InsideStep
<1> QED  BY <1>1, <1>2, <1>3 DEF DbsNext

LEMMA ShapeAlways == DbsSpec => []Shape
<1>1. DbsInit => Shape
  BY DEF DbsInit, AllClosed, Shape, IsPerSession
<1>2. Shape /\ [DbsNext]_allVars => Shape'
  BY Steps
<1> QED  BY <1>1, <1>2, PTL DEF DbsSpec

\* A thread past the test that is on the holder's side stays there.
LEMMA ExclusiveStep ==
  ASSUME Shape, Exclusive, mode' = "up", NEW s \in Sessions, OutsideStep(s) \/ InsideStep(s)
  PROVE  /\ TableChanges \/ LockChanges => ByHolder
         /\ Exclusive' \/ connection_lock' = 0
<1>1. Others(s)
  BY DEF OutsideStep, InsideStep
<1>2. \A t \in Sessions : t # s => (PastGate(t)' <=> PastGate(t)) /\ con(t)' = con(t)
  BY <1>1 DEF Others, PastGate, Serving, con
<1>3. CASE OutsideStep(s)
  <2>1. connection_lock' = connection_lock /\ UNCHANGED vars
    BY <1>3 DEF OutsideStep
  <2>2. ~TableChanges /\ ~LockChanges
    BY <2>1 DEF TableChanges, LockChanges, vars
  <2>3. PastGate(s)' => con(s)' = con(s) /\ con(s) = connection_lock
    BY <1>3, <2>1 DEF OutsideStep, con, Exclusive
  <2>4. \A t \in Sessions : PastGate(t)' => con(t)' = connection_lock'
    BY <1>2, <2>1, <2>3 DEF Exclusive
  <2> QED  BY <2>1, <2>2, <2>4 DEF Exclusive
<1>4. CASE InsideStep(s)
  <2>1. con(s) = connection_lock /\ pc'[s] # pc[s]
    BY <1>4 DEF InsideStep, Exclusive
  <2>2. ByHolder
    BY <2>1 DEF ByHolder
  <2>3. connection_lock' \in {connection_lock, 0}
    BY <1>4, <2>1 DEF InsideStep
  <2>4. PastGate(s)' => con(s)' = con(s)
    BY <1>4 DEF InsideStep, con
  <2>5. CASE connection_lock' = connection_lock
    <3>1. \A t \in Sessions : PastGate(t)' => con(t)' = connection_lock'
      BY <1>2, <2>1, <2>4, <2>5 DEF Exclusive
    <3> QED  BY <2>2, <2>5, <3>1 DEF Exclusive
  <2> QED  BY <2>2, <2>3, <2>5
<1> QED  BY <1>3, <1>4

\* Once the requests admitted before a block have drained, only a session of
\* the holder changes the table or the lock, and nobody else gets past
\* _check_preconditions or dbs_connect (dbs.c:54, dbs.c:499).
THEOREM BlockIsExclusive == DbsSpec => ExclusiveOnceDrained
<1>1. Shape /\ [DbsNext]_allVars =>
        [Exclusive => /\ TableChanges \/ LockChanges => ByHolder
                      /\ mode' = "up" => Exclusive' \/ connection_lock' = 0]_allVars
  <2> SUFFICES ASSUME Shape, [DbsNext]_allVars, Exclusive, ~UNCHANGED allVars
               PROVE  /\ TableChanges \/ LockChanges => ByHolder
                      /\ mode' = "up" => Exclusive' \/ connection_lock' = 0
    OBVIOUS
  <2>1. CASE mode' = "up"
    <3>1. PICK s \in Sessions : OutsideStep(s) \/ InsideStep(s)
      BY <2>1, Steps DEF Exclusive
    <3> QED  BY <2>1, <3>1, ExclusiveStep
  <2>2. CASE mode' # "up"
    BY <2>2 DEF TableChanges, LockChanges
  <2> QED  BY <2>1, <2>2
<1> QED  BY <1>1, ShapeAlways, PTL DEF DbsSpec, ExclusiveOnceDrained

\* A block whose holder has no session left locks everybody out until the
\* process restarts, and freezes the table (thread_exit and dbs_exit never
\* look at connection_lock).
THEOREM OrphanIsForever == DbsSpec => OrphanLockIsForever
<1>1. Shape /\ [DbsNext]_allVars =>
        [Orphaned => \/ mode' # "up"
                     \/ Orphaned' /\ UNCHANGED <<heap, chain, rows, lastUid, file, connection_lock>>]_allVars
  <2> SUFFICES ASSUME Shape, [DbsNext]_allVars, Orphaned, mode' = "up", ~UNCHANGED allVars
               PROVE  Orphaned' /\ UNCHANGED <<heap, chain, rows, lastUid, file, connection_lock>>
    OBVIOUS
  <2>1. Exclusive /\ mode = "up" /\ connection_lock # 0
    BY DEF Orphaned, Exclusive
  <2>2. PICK s \in Sessions : OutsideStep(s) \/ InsideStep(s)
    BY <2>1, Steps
  <2>3. ~PastGate(s)
    BY <2>1 DEF Orphaned, Exclusive
  <2>4. OutsideStep(s)
    BY <2>2, <2>3 DEF InsideStep
  <2>5. UNCHANGED vars /\ connection_lock' = connection_lock
    BY <2>4 DEF OutsideStep
  <2>6. Exclusive'
    BY <2>1, <2>2, <2>5, ExclusiveStep
  <2>7. con(s)' \in {con(s), 0}
    BY <2>4 DEF OutsideStep, con
  <2>8. \A t \in Sessions : t # s => con(t)' = con(t)
    BY <2>4 DEF OutsideStep, Others, con
  <2>9. \A t \in Sessions : con(t)' # connection_lock'
    BY <2>1, <2>5, <2>7, <2>8 DEF Orphaned
  <2> QED  BY <2>5, <2>6, <2>9 DEF Orphaned, vars
<1> QED  BY <1>1, ShapeAlways, PTL DEF DbsSpec, OrphanLockIsForever

-----------------------------------------------------------------------------
(* The service keeps to what the table allows its callers.                 *)

\* What the thread of s carries from one access to the next is fit for it: a
\* request that passed the tests, a pointer and a draft of rows of the table.
Fit(s) ==
  /\ pc[s] = "_check_preconditions" => req[s] \in Requests /\ req[s].op \in Operations
  /\ pc[s] \in {"create_find_user", "create_find_email", "create_insert"} => arg(s) \in Entries
  /\ pc[s] \in {"changepass_find", "changepass_copy"} => arg(s).new \in Passwords
  /\ pc[s] \in {"delete_uid", "changepass_copy"} => held[s][1] \in DOMAIN heap
  /\ pc[s] = "delete_row" => draft[s].uid \in KnownUids
  /\ pc[s] = "changepass_update" => draft[s] \in Drafts

AllFit == \A s \in Sessions : Fit(s)

ServeInv == /\ TypeOK /\ Shape /\ AllFit
            /\ mode # "up" => \A s \in Sessions : pc[s] = "closed"

\* A search along the list that dies at a position would have died there
\* whatever it looked for.
LEMMA WalkFaults ==
  ASSUME TypeOK, Idle, NEW positions, positions \subseteq 1..rows,
         \A i \in positions : 1..i \subseteq positions, Fault(positions)
  PROVE  read_faults \/ caller_fault
<1>1. CASE Undefined
  BY <1>1 DEF caller_fault, Idle
<1>2. CASE /\ \A i \in positions \cap DOMAIN chain : Live(i)
           /\ \E i \in positions : i \notin DOMAIN chain
           /\ Crash
  <2>1. PICK i \in positions : i \notin DOMAIN chain
    BY <1>2
  <2>2. i \in 1..rows /\ rows \in Nat /\ i \in 1..i
    BY <2>1 DEF TypeOK
  <2>3. \A j \in (1..i) \cap DOMAIN chain : Live(j)
    BY <1>2, <2>1
  <2>4. Fault(1..i)
    BY <1>2, <2>1, <2>2, <2>3 DEF Fault
  <2>5. rows > 0
    BY <2>2
  <2> QED  BY <2>2, <2>4, <2>5 DEF read_faults
<1> QED  BY <1>1, <1>2 DEF Fault

LEMMA VisitedInitial ==
  ASSUME TypeOK, NEW key, NEW v
  PROVE  /\ Visited(key, v, 1) \subseteq 1..rows
         /\ \A i \in Visited(key, v, 1) : 1..i \subseteq Visited(key, v, 1)
<1>1. rows \in Nat
  BY DEF TypeOK
<1>2. ASSUME NEW i \in Visited(key, v, 1), NEW j \in 1..i PROVE j \in Visited(key, v, 1)
  <2>1. i \in 1..rows /\ \A k \in 1..(i - 1) : k \in DOMAIN chain => heap[chain[k]][key] # v
    BY <1>2 DEF Visited
  <2>2. j \in 1..rows /\ \A k \in 1..(j - 1) : k \in 1..(i - 1)
    BY <1>1, <1>2, <2>1
  <2> QED  BY <2>1, <2>2 DEF Visited
<1> QED  BY <1>2 DEF Visited

\* Faults of the service are faults of the table or of its callers.
LEMMA TableFaults ==
  ASSUME TypeOK, NEW s \in Sessions, Fit(s), faults(s)
  PROVE  Next
<1>1. CASE stale_pointer(s) \/ stale_params(s)
  BY <1>1 DEF stale_pointer, stale_params, caller_fault, Next, Faults
<1>2. CASE table_faults(s)
  <2>1. ASSUME Idle, NEW key, NEW v, Fault(Visited(key, v, 1)) PROVE Next
    <3>1. read_faults \/ caller_fault
      BY <2>1, VisitedInitial, WalkFaults
    <3> QED  BY <3>1 DEF Next, Faults
  <2>2. ASSUME Idle, Fault(1..Limit) PROVE Next
    <3>1. 1..Limit \subseteq 1..rows /\ \A i \in 1..Limit : 1..i \subseteq 1..Limit
      BY BoundsAssumption DEF Limit, TypeOK
    <3>2. read_faults \/ caller_fault
      BY <2>2, <3>1, WalkFaults
    <3> QED  BY <3>2 DEF Next, Faults
  <2>3. ASSUME Idle, NEW key, NEW pattern, Fault(Searched(key, pattern)) PROVE Next
    <3>1. Searched(key, pattern) \subseteq DOMAIN chain
      BY DEF Searched
    <3>2. Undefined
      BY <2>3, <3>1 DEF Fault
    <3> QED  BY <2>3, <3>2 DEF caller_fault, Idle, Next, Faults
  <2>4. ASSUME Idle, pc[s] \in {"delete_row", "changepass_update"}, Fault(VisitedByUid(draft[s].uid))
        PROVE  Next
    <3>1. draft[s].uid \in KnownUids
      <4>1. CASE pc[s] = "delete_row"
        BY <4>1 DEF Fit
      <4>2. CASE pc[s] = "changepass_update"
        <5>1. PICK n \in DOMAIN heap, p \in Passwords : draft[s] = [heap[n] EXCEPT !.pass = p]
          BY <4>2 DEF Fit, Drafts
        <5>2. draft[s].uid = heap[n].uid
          BY <5>1 DEF TypeOK, Row
        <5> QED  BY <5>1, <5>2 DEF KnownUids
      <4> QED  BY <2>4, <4>1, <4>2
    <3> QED  BY <2>4, <3>1 DEF write_faults, Next, Faults
  <2>5. CASE insert_faults \/ save_faults \/ rollback_faults
    BY <2>5 DEF Next, Faults
  <2>6. \/ insert_faults \/ save_faults \/ rollback_faults
        \/ Idle /\ \/ \E key, v : Fault(Visited(key, v, 1))
                   \/ Fault(1..Limit)
                   \/ \E key, pattern : Fault(Searched(key, pattern))
                   \/ pc[s] \in {"delete_row", "changepass_update"} /\ Fault(VisitedByUid(draft[s].uid))
    BY <1>2 DEF table_faults
  <2> QED  BY <2>1, <2>2, <2>3, <2>4, <2>5, <2>6
<1> QED  BY <1>1, <1>2 DEF faults

\* A step of a thread is a step of the table or none of it.
LEMMA TableServe ==
  ASSUME NEW s \in Sessions, Fit(s), Serve(s)
  PROVE  Next \/ UNCHANGED vars
<1>1. CASE create_inserts(s)
  <2>1. arg(s) \in Entries /\ user_table_insert(arg(s), Len(heap) + 1)
    BY <1>1 DEF create_inserts, Step, Fit
  <2>2. Insert
    BY <2>1 DEF Insert
  <2> QED  BY <2>2 DEF Next
<1>2. CASE delete_deletes(s)
  <2>1. draft[s].uid \in KnownUids
    BY <1>2 DEF delete_deletes, Step, Fit
  <2>2. Delete
    BY <1>2, <2>1 DEF delete_deletes, Delete
  <2> QED  BY <2>2 DEF Next
<1>3. CASE changepass_updates(s)
  <2>1. draft[s] \in Drafts
    BY <1>3 DEF changepass_updates, Step, Fit
  <2>2. Update
    BY <1>3, <2>1 DEF changepass_updates, Update
  <2> QED  BY <2>2 DEF Next
<1>4. CASE commit_opens(s) \/ commit_closes(s)
  BY <1>4 DEF commit_opens, commit_closes, Next
<1>5. CASE rolls_back(s)
  <2>1. Rollback
    BY <1>5 DEF rolls_back, Rollback
  <2> QED  BY <2>1 DEF Next
<1>6. CASE \/ connect_reads_lock(s) \/ connect_finds_user(s) \/ connect_reads_user(s)
           \/ check_preconditions(s)
  BY <1>6 DEF connect_reads_lock, connect_finds_user, connect_reads_user, check_preconditions
<1>7. CASE \/ create_finds_user(s) \/ create_finds_email(s) \/ create_answers(s)
           \/ delete_finds(s) \/ delete_reads_uid(s) \/ changepass_finds(s) \/ changepass_copies(s)
  BY <1>7 DEF create_finds_user, create_finds_email, create_answers, delete_finds,
              delete_reads_uid, changepass_finds, changepass_copies
<1>8. CASE list_finds(s) \/ search_finds(s) \/ prints(s) \/ blocks(s) \/ unblocks(s)
  BY <1>8 DEF list_finds, search_finds, prints, blocks, unblocks
<1> QED  BY <1>1, <1>2, <1>3, <1>4, <1>5, <1>6, <1>7, <1>8 DEF Serve

LEMMA TableSteps ==
  ASSUME ServeInv, [DbsNext]_allVars
  PROVE  [Next]_vars
<1>1. CASE UNCHANGED allVars
  BY <1>1 DEF allVars, vars
<1>2. CASE Start \/ Stop
  BY <1>2 DEF Start, Stop, Next
<1>3. ASSUME NEW s \in Sessions,
             Accept(s) \/ HangUp(s) \/ (\E r \in Requests : Receive(s, r)) \/ Send(s)
      PROVE  UNCHANGED vars
  BY <1>3 DEF Accept, HangUp, Receive, Send
<1>4. ASSUME NEW s \in Sessions, Serve(s) PROVE Next \/ UNCHANGED vars
  <2>1. Fit(s)
    BY DEF ServeInv, AllFit
  <2> QED  BY <1>4, <2>1, TableServe
<1>5. ASSUME NEW s \in Sessions, faults(s) PROVE Next
  <2>1. TypeOK /\ Fit(s)
    BY DEF ServeInv, AllFit
  <2> QED  BY <1>5, <2>1, TableFaults
<1>6. CASE DbsNext
  <2>1. CASE Start \/ Stop
    BY <1>2, <2>1
  <2>2. ASSUME NEW s \in Sessions,
               \/ Accept(s) \/ HangUp(s) \/ (\E r \in Requests : Receive(s, r))
               \/ Serve(s) \/ Send(s) \/ faults(s)
        PROVE  Next \/ UNCHANGED vars
    BY <1>3, <1>4, <1>5, <2>2
  <2> QED  BY <1>6, <2>1, <2>2 DEF DbsNext
<1> QED  BY <1>1, <1>6

\* Rows stay where they are, so the other threads stay fit.
LEMMA OthersFit ==
  ASSUME TypeOK, NEW t \in Sessions, Fit(t),
         \A n \in DOMAIN heap : n \in DOMAIN heap' /\ heap'[n] = heap[n],
         pc'[t] = pc[t], req'[t] = req[t], held'[t] = held[t], draft'[t] = draft[t]
  PROVE  Fit(t)'
<1>1. KnownUids \subseteq KnownUids'
  BY DEF KnownUids
<1>2. Drafts \subseteq Drafts'
  BY DEF Drafts
<1> QED  BY <1>1, <1>2 DEF Fit, arg

LEMMA IdleFit ==
  ASSUME Shape, NEW s \in Sessions, Fit(s),
         Accept(s) \/ HangUp(s) \/ (\E r \in Requests : Receive(s, r)) \/ Send(s)
  PROVE  Fit(s)'
<1>1. CASE Accept(s)
  <2>1. pc'[s] = "ready"
    BY <1>1, Moves DEF Accept
  <2> QED  BY <2>1 DEF Fit
<1>2. CASE HangUp(s)
  <2>1. pc'[s] = "closed"
    BY <1>2, Moves DEF HangUp
  <2> QED  BY <2>1 DEF Fit
<1>3. ASSUME NEW r \in Requests, Receive(s, r) PROVE Fit(s)'
  <2>1. CASE \E message : Answer(s, message)
    <3>1. pc'[s] = "answer"
      BY <2>1, Moves
    <3> QED  BY <3>1 DEF Fit
  <2>2. CASE Goto(s, "farewell")
    <3>1. pc'[s] = "farewell"
      BY <2>2 DEF Goto, Shape, IsPerSession
    <3> QED  BY <3>1 DEF Fit
  <2>3. CASE /\ (~in_session(s) /\ r.op = "conectar") \/ (in_session(s) /\ r.op \in Operations)
             /\ Goto(s, IF r.op = "conectar" THEN "dbs_connect" ELSE "_check_preconditions")
             /\ req' = [req EXCEPT ![s] = r]
    <3>1. pc'[s] = (IF r.op = "conectar" THEN "dbs_connect" ELSE "_check_preconditions") /\ req'[s] = r
      BY <2>3 DEF Goto, Shape, IsPerSession
    <3>2. pc'[s] = "_check_preconditions" => req'[s] \in Requests /\ req'[s].op \in Operations
      BY <1>3, <2>3, <3>1
    <3>3. pc'[s] \in {"dbs_connect", "_check_preconditions"}
      BY <3>1
    <3> QED  BY <3>2, <3>3 DEF Fit
  <2> QED  BY <1>3, <2>1, <2>2, <2>3 DEF Receive
<1>4. CASE Send(s)
  <2>1. pc'[s] \in {"ready", "closed"}
    BY <1>4, Moves DEF Send, Goto, Shape, IsPerSession
  <2> QED  BY <2>1 DEF Fit
<1> QED  BY <1>1, <1>2, <1>3, <1>4

\* A request that passed the tests is one the table allows.
LEMMA AdmittedFit ==
  ASSUME Shape, NEW s \in Sessions, Fit(s), check_preconditions(s)
  PROVE  Fit(s)'
<1>1. CASE \E message : Answer(s, message)
  <2>1. pc'[s] = "answer"
    BY <1>1, Moves
  <2> QED  BY <2>1 DEF Fit
<1>2. CASE Refusal(s) = "none" /\ Continue(s, FirstAccess(s))
  <2>1. req[s] \in Requests /\ req[s].op \in Operations
    BY DEF check_preconditions, Step, Fit
  <2>2. req[s].ok
    BY <1>2 DEF Refusal
  <2>3. pc'[s] = FirstAccess(s) /\ req'[s] = req[s]
    BY <1>2, Moves
  <2>4. CASE req[s].op = "crear"
    <3>1. arg(s) \in Entries
      BY <2>1, <2>2, <2>4, RequestsAssumption DEF arg
    <3>2. pc'[s] = "create_find_user"
      BY <2>3, <2>4 DEF FirstAccess
    <3> QED  BY <2>3, <3>1, <3>2 DEF Fit, arg
  <2>5. CASE req[s].op = "cambiarclave"
    <3>1. arg(s).new \in Passwords
      BY <2>1, <2>2, <2>5, RequestsAssumption DEF arg
    <3>2. pc'[s] = "changepass_find"
      BY <2>3, <2>5 DEF FirstAccess
    <3> QED  BY <2>3, <3>1, <3>2 DEF Fit, arg
  <2>6. CASE req[s].op \notin {"crear", "cambiarclave"}
    <3>1. pc'[s] \in {"delete_find", "buscar", "listar", "bloquear", "desbloquear", "commit", "rollback"}
      BY <2>1, <2>3, <2>6 DEF FirstAccess, Operations
    <3> QED  BY <3>1 DEF Fit
  <2> QED  BY <2>4, <2>5, <2>6
<1> QED  BY <1>1, <1>2 DEF check_preconditions

\* The accesses to the table leave the thread with what the next one needs.
LEMMA ServedFit ==
  ASSUME ServeInv, NEW s \in Sessions, Serve(s), ~check_preconditions(s)
  PROVE  Fit(s)'
<1>1. Shape /\ Fit(s) /\ heap \in Seq(Row)
  BY DEF ServeInv, AllFit, TypeOK
<1>2. ASSUME NEW message, Done(s, message) PROVE Fit(s)'
  <2>1. pc'[s] = "answer"
    BY <1>1, <1>2 DEF Done, Goto, Shape, IsPerSession
  <2> QED  BY <2>1 DEF Fit
<1>3. ASSUME NEW label \in {"connect_find", "committing"}, Continue(s, label) PROVE Fit(s)'
  <2>1. pc'[s] = label
    BY <1>1, <1>3, Moves
  <2> QED  BY <2>1 DEF Fit
<1>4. ASSUME NEW label \in {"create_find_email", "create_insert"}, Continue(s, label), arg(s) \in Entries
      PROVE  Fit(s)'
  <2>1. pc'[s] = label /\ arg(s)' = arg(s)
    BY <1>1, <1>4, Moves DEF arg
  <2> QED  BY <1>4, <2>1 DEF Fit
<1>5. ASSUME NEW label \in {"connect_login", "create_answer", "print"}, NEW users, Hold(s, label, users)
      PROVE  Fit(s)'
  <2>1. pc'[s] = label
    BY <1>1, <1>5, Moves
  <2> QED  BY <2>1 DEF Fit
<1>6. ASSUME NEW n \in 0..Len(heap), n # 0, UNCHANGED vars, Hold(s, "delete_uid", <<n>>)
      PROVE  Fit(s)'
  <2>1. PICK users : users = <<n>> /\ Hold(s, "delete_uid", users)
    BY <1>6
  <2>2. pc'[s] = "delete_uid" /\ held'[s] = users
    BY <1>1, <2>1 DEF Hold, Goto, Shape, IsPerSession
  <2>3. held'[s][1] \in DOMAIN heap'
    BY <1>1, <1>6, <2>1, <2>2 DEF vars
  <2> QED  BY <2>2, <2>3 DEF Fit
<1>7. ASSUME NEW n \in 0..Len(heap), n # 0, UNCHANGED vars, Hold(s, "changepass_copy", <<n>>),
             arg(s).new \in Passwords
      PROVE  Fit(s)'
  <2>1. PICK users : users = <<n>> /\ Hold(s, "changepass_copy", users)
    BY <1>7
  <2>2. pc'[s] = "changepass_copy" /\ held'[s] = users /\ arg(s)' = arg(s)
    BY <1>1, <2>1 DEF Hold, Goto, Shape, IsPerSession, arg
  <2>3. held'[s][1] \in DOMAIN heap'
    BY <1>1, <1>7, <2>1, <2>2 DEF vars
  <2> QED  BY <1>7, <2>2, <2>3 DEF Fit
<1>8. CASE \/ connect_reads_lock(s) \/ connect_finds_user(s) \/ connect_reads_user(s)
           \/ create_answers(s) \/ delete_deletes(s) \/ changepass_updates(s)
           \/ blocks(s) \/ unblocks(s) \/ prints(s)
           \/ commit_opens(s) \/ commit_closes(s) \/ rolls_back(s)
  <2>1. \/ \E message : Done(s, message)
        \/ Continue(s, "connect_find") \/ Continue(s, "committing")
        \/ \E users : Hold(s, "connect_login", users)
    <3>1. CASE connect_reads_lock(s) \/ connect_finds_user(s) \/ connect_reads_user(s)
      BY <3>1 DEF connect_reads_lock, connect_finds_user, connect_reads_user, Answer
    <3>2. CASE create_answers(s) \/ delete_deletes(s) \/ changepass_updates(s) \/ prints(s)
      BY <3>2 DEF create_answers, delete_deletes, changepass_updates, prints, Answer
    <3>3. CASE blocks(s) \/ unblocks(s)
      BY <3>3 DEF blocks, unblocks, Answer
    <3>4. CASE commit_opens(s) \/ commit_closes(s) \/ rolls_back(s)
      BY <3>4 DEF commit_opens, commit_closes, rolls_back, Answer
    <3> QED  BY <1>8, <3>1, <3>2, <3>3, <3>4
  <2> QED  BY <2>1, <1>2, <1>3, <1>5
<1>9. CASE create_finds_user(s) \/ create_finds_email(s)
  <2>1. arg(s) \in Entries
    BY <1>1, <1>9 DEF create_finds_user, create_finds_email, Step, Fit
  <2>2. (\E message : Done(s, message)) \/ Continue(s, "create_find_email") \/ Continue(s, "create_insert")
    BY <1>9 DEF create_finds_user, create_finds_email, Answer
  <2> QED  BY <2>1, <2>2, <1>2, <1>4
<1>10. CASE create_inserts(s) \/ list_finds(s) \/ search_finds(s)
  <2>1. \/ \E message : Done(s, message)
        \/ \E users : Hold(s, "create_answer", users) \/ Hold(s, "print", users)
    <3>1. CASE create_inserts(s) \/ list_finds(s)
      BY <3>1 DEF create_inserts, list_finds
    <3>2. CASE search_finds(s)
      BY <3>2 DEF search_finds, Answer
    <3> QED  BY <1>10, <3>1, <3>2
  <2> QED  BY <2>1, <1>2, <1>5
<1>11. CASE delete_finds(s)
  <2>1. PICK n \in 0..Len(heap) : (\E message : Done(s, message)) \/ (n # 0 /\ Hold(s, "delete_uid", <<n>>))
    BY <1>11 DEF delete_finds, Answer
  <2>2. UNCHANGED vars
    BY <1>11 DEF delete_finds
  <2> QED  BY <2>1, <2>2, <1>2, <1>6
<1>12. CASE changepass_finds(s)
  <2>1. PICK n \in 0..Len(heap) :
          (\E message : Done(s, message)) \/ (n # 0 /\ Hold(s, "changepass_copy", <<n>>))
    BY <1>12 DEF changepass_finds, Answer
  <2>2. UNCHANGED vars /\ arg(s).new \in Passwords
    BY <1>1, <1>12 DEF changepass_finds, Step, Fit
  <2> QED  BY <2>1, <2>2, <1>2, <1>7
<1>13. CASE delete_reads_uid(s)
  <2>1. held[s][1] \in DOMAIN heap /\ heap' = heap
    BY <1>1, <1>13 DEF delete_reads_uid, Step, Fit, vars
  <2>2. pc'[s] = "delete_row" /\ draft'[s] = heap[held[s][1]]
    BY <1>1, <1>13, Moves DEF delete_reads_uid
  <2>3. draft'[s].uid \in KnownUids'
    BY <2>1, <2>2 DEF KnownUids
  <2> QED  BY <2>2, <2>3 DEF Fit
<1>14. CASE changepass_copies(s)
  <2>1. held[s][1] \in DOMAIN heap /\ arg(s).new \in Passwords /\ heap' = heap
    BY <1>1, <1>14 DEF changepass_copies, Step, Fit, vars
  <2>2. \/ \E message : Done(s, message)
        \/ Draft(s, "changepass_update", [heap[held[s][1]] EXCEPT !.pass = arg(s).new])
    BY <1>14 DEF changepass_copies, Answer
  <2>3. CASE Draft(s, "changepass_update", [heap[held[s][1]] EXCEPT !.pass = arg(s).new])
    <3>1. PICK r : r = [heap[held[s][1]] EXCEPT !.pass = arg(s).new] /\ Draft(s, "changepass_update", r)
      BY <2>3
    <3>2. Draft(s, "changepass_update", r)
      BY <3>1
    <3>3. pc'[s] = "changepass_update" /\ draft'[s] = r
      BY <1>1, <3>2 DEF Draft, Goto, Shape, IsPerSession
    <3>4. r \in Drafts
      BY <2>1, <3>1 DEF Drafts
    <3>5. Drafts' = Drafts
      BY <2>1 DEF Drafts
    <3> QED  BY <3>3, <3>4, <3>5 DEF Fit
  <2> QED  BY <2>2, <2>3, <1>2
<1> QED  BY <1>8, <1>9, <1>10, <1>11, <1>12, <1>13, <1>14 DEF Serve

\* The inductive invariant behind the refinement.
LEMMA ServeInit == DbsInit => ServeInv
<1> SUFFICES ASSUME DbsInit PROVE ServeInv
  OBVIOUS
<1>1. TypeOK
  BY TypeInit DEF DbsInit
<1>2. Shape
  BY DEF DbsInit, AllClosed, Shape, IsPerSession
<1>3. \A s \in Sessions : pc[s] = "closed"
  BY DEF DbsInit, AllClosed
<1>4. AllFit
  BY <1>3 DEF AllFit, Fit
<1> QED  BY <1>1, <1>2, <1>3, <1>4 DEF ServeInv

LEMMA StaysUp ==
  ASSUME NEW s \in Sessions,
         \/ Accept(s) \/ HangUp(s) \/ (\E r \in Requests : Receive(s, r))
         \/ Serve(s) \/ Send(s)
  PROVE  mode = "up" /\ mode' = "up"
<1>1. CASE Accept(s) \/ HangUp(s) \/ (\E r \in Requests : Receive(s, r)) \/ Send(s)
  BY <1>1 DEF Accept, HangUp, Receive, Send, Step, vars
<1>2. CASE \/ connect_reads_lock(s) \/ connect_finds_user(s) \/ connect_reads_user(s)
           \/ check_preconditions(s)
  BY <1>2 DEF connect_reads_lock, connect_finds_user, connect_reads_user, check_preconditions, Step, vars
<1>3. CASE \/ create_finds_user(s) \/ create_finds_email(s) \/ create_answers(s)
           \/ delete_finds(s) \/ delete_reads_uid(s) \/ changepass_finds(s) \/ changepass_copies(s)
  BY <1>3 DEF create_finds_user, create_finds_email, create_answers, delete_finds,
              delete_reads_uid, changepass_finds, changepass_copies, Step, vars
<1>4. CASE list_finds(s) \/ search_finds(s) \/ prints(s) \/ blocks(s) \/ unblocks(s)
  BY <1>4 DEF list_finds, search_finds, prints, blocks, unblocks, Step, vars
<1>5. CASE create_inserts(s) \/ delete_deletes(s) \/ changepass_updates(s)
  BY <1>5 DEF create_inserts, delete_deletes, changepass_updates, Step,
              user_table_insert, user_table_delete, user_table_update
<1>6. CASE commit_opens(s) \/ commit_closes(s) \/ rolls_back(s)
  BY <1>6 DEF commit_opens, commit_closes, rolls_back, Step,
              save_opens, save_closes, user_table_rollback, vars
<1> QED  BY <1>1, <1>2, <1>3, <1>4, <1>5, <1>6 DEF Serve

LEMMA ServeNext == ServeInv /\ [DbsNext]_allVars => ServeInv'
<1> SUFFICES ASSUME ServeInv, [DbsNext]_allVars PROVE ServeInv'
  OBVIOUS
<1>1. TypeOK /\ Shape /\ AllFit
  BY DEF ServeInv
<1>2. [Next]_vars
  BY TableSteps
<1>3. TypeOK'
  BY <1>1, <1>2, TypeNext
<1>4. Shape'
  BY <1>1, Steps
<1>5. CASE UNCHANGED allVars
  <2>1. UNCHANGED <<mode, heap, pc, req, held, draft>>
    BY <1>5 DEF allVars, vars, dbsVars, sessionVars
  <2>2. AllFit'
    BY <1>1, <2>1 DEF AllFit, Fit, arg, KnownUids, Drafts
  <2> QED  BY <1>3, <1>4, <2>1, <2>2 DEF ServeInv
<1>6. CASE Stop \/ \E s \in Sessions : faults(s)
  <2>1. \A s \in Sessions : pc'[s] = "closed"
    BY <1>6 DEF Stop, faults, Gone
  <2>2. AllFit'
    BY <2>1 DEF AllFit, Fit
  <2> QED  BY <1>3, <1>4, <2>1, <2>2 DEF ServeInv
<1>7. CASE Start
  <2>1. \A s \in Sessions : pc'[s] = "closed"
    BY <1>7 DEF Start, user_table_init, dbsVars, sessionVars, ServeInv
  <2>2. AllFit'
    BY <2>1 DEF AllFit, Fit
  <2> QED  BY <1>3, <1>4, <2>1, <2>2 DEF ServeInv
<1>8. ASSUME NEW s \in Sessions,
             \/ Accept(s) \/ HangUp(s) \/ (\E r \in Requests : Receive(s, r))
             \/ Serve(s) \/ Send(s)
      PROVE  ServeInv'
  <2>1. OutsideStep(s) \/ InsideStep(s)
    BY <1>1, <1>8, Outside, Inside
  <2>2. Others(s)
    BY <2>1 DEF OutsideStep, InsideStep
  <2>3. mode = "up" /\ mode' = "up"
    BY <1>8, StaysUp
  <2>5. \A n \in DOMAIN heap : n \in DOMAIN heap' /\ heap'[n] = heap[n]
    BY <1>1, <1>2, <2>3, RowsStay
  <2>6. Fit(s)'
    <3>1. Fit(s)
      BY <1>1 DEF AllFit
    <3> QED  BY <1>1, <1>8, <3>1, IdleFit, AdmittedFit, ServedFit
  <2>7. ASSUME NEW t \in Sessions, t # s PROVE Fit(t)'
    <3>1. Fit(t)
      BY <1>1 DEF AllFit
    <3> QED  BY <1>1, <2>2, <2>5, <2>7, <3>1, OthersFit DEF Others
  <2>8. AllFit'
    BY <2>6, <2>7 DEF AllFit
  <2> QED  BY <1>3, <1>4, <2>3, <2>8 DEF ServeInv
<1> QED  BY <1>5, <1>6, <1>7, <1>8 DEF DbsNext

LEMMA ServeAlways == DbsSpec => []ServeInv
BY ServeInit, ServeNext, PTL DEF DbsSpec

\* Whatever threads and requests there are, the service uses the table as
\* UserTable allows: it inserts whole entries, deletes by the uid of a row of
\* the table and updates with a copy of one, in every interleaving.
THEOREM ServiceUsesTable == DbsSpec => TableSpec
<1>1. DbsInit => Init
  BY DEF DbsInit
<1>2. ServeInv /\ [DbsNext]_allVars => [Next]_vars
  BY TableSteps
<1> QED  BY <1>1, <1>2, ServeAlways, PTL DEF DbsSpec, TableSpec, Spec

\* So the invariants of the table hold of it inside the service.
COROLLARY TableInService == DbsSpec => [](TypeOK /\ UidsIncrease /\ RowsCountLive)
BY ServiceUsesTable, TypeCorrect, UidsAlwaysIncrease, RowsAlwaysCountLive, PTL DEF TableSpec

-----------------------------------------------------------------------------
(* The type invariant.                                                     *)

Between == {"closed", "ready", "answer"}

\* Where a thread is about to read through the one pointer it holds.
Reading == {"connect_login", "create_answer", "delete_uid", "changepass_copy"}

\* DbsTypeOK, for one thread.
Typed(s) ==
  /\ pc[s] \in Stages
  /\ user[s] \in Row \cup {NoRow} /\ req[s] \in Requests \cup {NoRequest}
  /\ draft[s] \in Row \cup {NoRow} /\ result[s] \in Messages
  /\ held[s] \in Seq(DOMAIN heap)
  /\ pc[s] \in Between => held[s] = <<>> /\ req[s] = NoRequest
  /\ pc[s] \notin {"answer", "farewell"} => result[s] = "none"
  /\ pc[s] \in Reading => Len(held[s]) = 1

\* One thread at a time commits, and the mutex is taken as long as it does.
Commits ==
  /\ saving <=> \E s \in Sessions : pc[s] = "committing"
  /\ \A s, t \in Sessions : pc[s] = "committing" /\ pc[t] = "committing" => s = t

DbsTypeInv == /\ ServeInv /\ Commits /\ \A s \in Sessions : Typed(s)
              /\ connection_lock \in Nat
              /\ mode # "up" => AllClosed

\* Where the thread is still serving its request.
Inner == Stages \ {"closed", "ready", "answer", "farewell"}

\* A move to a step inside the handler.
LEMMA TypedInner ==
  ASSUME NEW s \in Sessions, Typed(s), DOMAIN heap \subseteq DOMAIN heap',
         pc'[s] \in Inner, pc'[s] \in Reading => Len(held'[s]) = 1,
         pc[s] \notin {"answer", "farewell"},
         user'[s] = user[s], req'[s] \in Requests \cup {NoRequest},
         result'[s] = result[s], draft'[s] \in Row \cup {NoRow},
         held'[s] = held[s] \/ held'[s] \in Seq(DOMAIN heap')
  PROVE  Typed(s)'
<1>1. held'[s] \in Seq(DOMAIN heap')
  BY SeqMonotonic DEF Typed
<1>2. pc'[s] \notin Between /\ pc'[s] \notin {"answer", "farewell"} /\ pc'[s] \in Stages
  BY DEF Inner, Between
<1>3. result'[s] = "none"
  BY DEF Typed
<1> QED  BY <1>1, <1>2, <1>3 DEF Typed

LEMMA EmptyHeld == \A S : <<>> \in Seq(S)
OBVIOUS

\* The end of the handler.
LEMMA TypedDone ==
  ASSUME Shape, NEW s \in Sessions, Typed(s), NEW message \in Messages, Done(s, message),
         user'[s] \in Row \cup {NoRow}
  PROVE  Typed(s)'
<1>1. /\ pc'[s] = "answer" /\ result'[s] = message /\ req'[s] = NoRequest
      /\ held'[s] = <<>> /\ draft'[s] = NoRow
  BY DEF Done, Goto, Shape, IsPerSession
<1>2. held'[s] \in Seq(DOMAIN heap')
  BY <1>1, EmptyHeld
<1>3. pc'[s] \in Stages /\ pc'[s] \notin Reading
  BY <1>1 DEF Stages, Reading
<1> QED  BY <1>1, <1>2, <1>3 DEF Typed

\* The end of the session.
LEMMA TypedClose ==
  ASSUME Shape, NEW s \in Sessions, Close(s)
  PROVE  Typed(s)'
<1>1. /\ pc'[s] = "closed" /\ result'[s] = "none" /\ req'[s] = NoRequest
      /\ held'[s] = <<>> /\ draft'[s] = NoRow /\ user'[s] = NoRow
  BY DEF Close, Goto, Shape, IsPerSession
<1>2. held'[s] \in Seq(DOMAIN heap')
  BY <1>1, EmptyHeld
<1>3. pc'[s] \in Stages /\ pc'[s] \notin Reading /\ "none" \in Messages
  BY <1>1 DEF Stages, Reading, Messages
<1> QED  BY <1>1, <1>2, <1>3 DEF Typed

\* A row found by a lookup is linked and allocated.
LEMMA Looked ==
  ASSUME TypeOK, NEW key, NEW v, NEW n, getby(key, v, n), n # 0
  PROVE  \E k \in DOMAIN chain : n = chain[k] /\ Live(k) /\ heap[n][key] = v /\ n \in DOMAIN heap
<1>1. PICK k \in 1..rows : Match(key, v, 1, k) /\ n = chain[k]
  BY DEF getby
<1>2. k \in DOMAIN chain /\ heap[chain[k]][key] = v /\ k \in Visited(key, v, 1)
  BY <1>1 DEF Match
<1>3. Live(k)
  BY <1>2 DEF getby, Sound
<1>4. chain[k] \in DOMAIN heap
  BY <1>2 DEF TypeOK
<1> QED  BY <1>1, <1>2, <1>3, <1>4

\* f[i] is the array a search has filled when i rows have been read, if it
\* takes the rows at the positions of A.
Collected(f, b, A, c) ==
  f = [i \in 0..b |-> IF i = 0 THEN <<>> ELSE IF i \in A THEN Append(f[i - 1], c[i]) ELSE f[i - 1]]

\* The recursion by which the search fills its array has a solution.
LEMMA Collects ==
  ASSUME NEW b \in Nat, NEW A, NEW c
  PROVE  \E f : Collected(f, b, A, c)
<1>1. PICK T : T = {n \in Nat : \E f : f = [i \in 0..n |->
                     IF i = 0 THEN <<>> ELSE IF i \in A THEN Append(f[i - 1], c[i]) ELSE f[i - 1]]}
  OBVIOUS
<1>2. 0 \in T
  <2>1. PICK f : f = [i \in 0..0 |-> <<>>]
    OBVIOUS
  <2>2. f = [i \in 0..0 |-> IF i = 0 THEN <<>> ELSE IF i \in A THEN Append(f[i - 1], c[i]) ELSE f[i - 1]]
    BY <2>1
  <2> QED  BY <1>1, <2>2
<1>3. ASSUME NEW n \in Nat, n \in T PROVE n + 1 \in T
  <2>1. PICK f : f = [i \in 0..n |->
                        IF i = 0 THEN <<>> ELSE IF i \in A THEN Append(f[i - 1], c[i]) ELSE f[i - 1]]
    BY <1>1, <1>3
  <2>2. PICK x : x = IF n + 1 \in A THEN Append(f[n], c[n + 1]) ELSE f[n]
    OBVIOUS
  <2>3. PICK g : g = [i \in 0..(n + 1) |-> IF i = n + 1 THEN x ELSE f[i]]
    OBVIOUS
  <2>4. \A i \in 0..(n + 1) :
          g[i] = IF i = 0 THEN <<>> ELSE IF i \in A THEN Append(g[i - 1], c[i]) ELSE g[i - 1]
    <3>1. ASSUME NEW i \in 0..n
          PROVE  g[i] = IF i = 0 THEN <<>> ELSE IF i \in A THEN Append(g[i - 1], c[i]) ELSE g[i - 1]
      <4>1. g[i] = f[i]
        BY <2>3
      <4>2. i # 0 => g[i - 1] = f[i - 1]
        BY <2>3
      <4> QED  BY <2>1, <4>1, <4>2
    <3>2. g[n + 1] = x /\ g[n] = f[n]
      BY <2>3
    <3>3. (n + 1) - 1 = n /\ n + 1 # 0
      OBVIOUS
    <3>4. g[n + 1] = IF n + 1 = 0 THEN <<>>
                     ELSE IF n + 1 \in A THEN Append(g[(n + 1) - 1], c[n + 1]) ELSE g[(n + 1) - 1]
      BY <2>2, <3>2, <3>3
    <3>5. \A i \in 0..(n + 1) : i = n + 1 \/ i \in 0..n
      OBVIOUS
    <3> QED  BY <3>1, <3>4, <3>5
  <2>5. g = [i \in 0..(n + 1) |->
               IF i = 0 THEN <<>> ELSE IF i \in A THEN Append(g[i - 1], c[i]) ELSE g[i - 1]]
    BY <2>3, <2>4
  <2> QED  BY <1>1, <2>5
<1>4. \A n \in Nat : n \in T
  BY <1>2, <1>3, InductionOnNat
<1> QED  BY <1>1, <1>4 DEF Collected

\* What a search returns are pointers of rows it has read.
LEMMA Gathered ==
  ASSUME TypeOK, NEW key, NEW pattern, NEW us, us = user_table_findbyfield(key, pattern)
  PROVE  /\ us \in Seq(DOMAIN heap)
         /\ \A i \in DOMAIN us : \E k \in Searched(key, pattern) : us[i] = chain[k]
<1> DEFINE P == {chain[k] : k \in Searched(key, pattern)}
<1>1. PICK f : /\ f = [i \in 0..Len(chain) |->
                         IF i = 0 THEN <<>>
                         ELSE IF i \in Searched(key, pattern) /\ heap[chain[i]][key] \in pattern
                              THEN Append(f[i - 1], chain[i])
                              ELSE f[i - 1]]
               /\ us = f[Len(chain)]
  <2>1. PICK A : A = {i \in DOMAIN chain : i \in Searched(key, pattern) /\ heap[chain[i]][key] \in pattern}
    OBVIOUS
  <2>2. Len(chain) \in Nat /\ \A i \in 0..Len(chain) : i # 0 =>
          (i \in A <=> i \in Searched(key, pattern) /\ heap[chain[i]][key] \in pattern)
    BY <2>1 DEF TypeOK, Searched
  <2>3. PICK b \in Nat : b = Len(chain)
    BY <2>2
  <2>4. PICK c : c = chain
    OBVIOUS
  <2>5. PICK f : Collected(f, b, A, c)
    BY Collects
  <2>6. f = [i \in 0..Len(chain) |->
               IF i = 0 THEN <<>>
               ELSE IF i \in Searched(key, pattern) /\ heap[chain[i]][key] \in pattern
                    THEN Append(f[i - 1], chain[i])
                    ELSE f[i - 1]]
    <3>1. \A i \in 0..Len(chain) :
            (IF i = 0 THEN <<>> ELSE IF i \in A THEN Append(f[i - 1], c[i]) ELSE f[i - 1])
            = IF i = 0 THEN <<>>
              ELSE IF i \in Searched(key, pattern) /\ heap[chain[i]][key] \in pattern
                   THEN Append(f[i - 1], chain[i])
                   ELSE f[i - 1]
      BY <2>2, <2>4
    <3>2. [i \in 0..Len(chain) |-> IF i = 0 THEN <<>> ELSE IF i \in A THEN Append(f[i - 1], c[i]) ELSE f[i - 1]]
          = [i \in 0..Len(chain) |->
               IF i = 0 THEN <<>>
               ELSE IF i \in Searched(key, pattern) /\ heap[chain[i]][key] \in pattern
                    THEN Append(f[i - 1], chain[i])
                    ELSE f[i - 1]]
      BY <3>1
    <3> QED  BY <2>3, <2>5, <3>2, Zenon DEF Collected
  <2> QED  BY <2>6, Zenon DEF user_table_findbyfield
<1>2. PICK b : b = Len(chain)
  OBVIOUS
<1>3. b \in Nat /\ Searched(key, pattern) \subseteq DOMAIN chain
  BY <1>2 DEF TypeOK, Searched
<1>4. f[0] = <<>>
  BY <1>1, <1>2, <1>3
<1>5. \A n \in Nat : n < b =>
        (f[n + 1] = f[n] \/ (n + 1 \in Searched(key, pattern) /\ f[n + 1] = Append(f[n], chain[n + 1])))
  <2>1. ASSUME NEW n \in Nat, n < b
        PROVE  f[n + 1] = f[n] \/ (n + 1 \in Searched(key, pattern) /\ f[n + 1] = Append(f[n], chain[n + 1]))
    <3>1. n + 1 \in 0..Len(chain) /\ n + 1 # 0 /\ (n + 1) - 1 = n
      BY <1>2, <1>3, <2>1
    <3>2. f[n + 1] = IF n + 1 = 0 THEN <<>>
                     ELSE IF n + 1 \in Searched(key, pattern) /\ heap[chain[n + 1]][key] \in pattern
                          THEN Append(f[(n + 1) - 1], chain[n + 1])
                          ELSE f[(n + 1) - 1]
      BY <1>1, <3>1, Zenon
    <3> QED  BY <3>1, <3>2
  <2> QED  BY <2>1
<1> HIDE DEF P
<1>6. PICK T : T = {i \in 0..b : f[i] \in Seq(P)}
  OBVIOUS
<1>7. 0 \in T
  <2>1. f[0] \in Seq(P) /\ 0 \in 0..b
    BY <1>3, <1>4, EmptyHeld
  <2> QED  BY <1>6, <2>1
<1>8. ASSUME NEW n \in Nat, n < b, n \in T PROVE n + 1 \in T
  <2>1. f[n] \in Seq(P) /\ n + 1 \in 0..b
    BY <1>3, <1>6, <1>8
  <2>2. f[n + 1] \in Seq(P)
    <3>1. CASE f[n + 1] = f[n]
      BY <2>1, <3>1
    <3>2. CASE n + 1 \in Searched(key, pattern) /\ f[n + 1] = Append(f[n], chain[n + 1])
      <4>1. chain[n + 1] \in P
        BY <3>2 DEF P
      <4> QED  BY <2>1, <3>2, <4>1, AppendProperties
    <3> QED  BY <1>5, <1>8, <3>1, <3>2
  <2> QED  BY <1>6, <2>1, <2>2
<1>9. \A n \in Nat : n < b /\ n \in T => n + 1 \in T
  BY <1>8
<1>10. \A n \in 0..b : n \in T
  BY <1>3, <1>7, <1>9, InductionTo
<1>11. us \in Seq(P)
  BY <1>1, <1>2, <1>3, <1>6, <1>10
<1>12. P \subseteq DOMAIN heap
  <2>1. \A k \in Searched(key, pattern) : chain[k] \in DOMAIN heap
    BY <1>3, Uids
  <2> QED  BY <2>1 DEF P
<1>13. us \in Seq(DOMAIN heap)
  BY <1>11, <1>12, SeqMonotonic
<1>14. \A i \in DOMAIN us : us[i] \in P
  BY <1>11
<1> QED  BY <1>13, <1>14 DEF P

\* The moves of a thread that is in a handler.
LEMMA TypedMoves ==
  ASSUME Shape, NEW s \in Sessions, Typed(s), DOMAIN heap \subseteq DOMAIN heap',
         pc[s] \notin {"answer", "farewell"}
  PROVE  /\ \A label \in Inner \ Reading : Continue(s, label) => Typed(s)'
         /\ \A label \in Inner, users \in Seq(DOMAIN heap') :
              Hold(s, label, users) /\ (label \in Reading => Len(users) = 1) => Typed(s)'
         /\ \A label \in Inner \ Reading, r \in Row : Draft(s, label, r) => Typed(s)'
         /\ \A message \in Messages : Answer(s, message) => Typed(s)'
<1>1. req[s] \in Requests \cup {NoRequest} /\ draft[s] \in Row \cup {NoRow} /\ user[s] \in Row \cup {NoRow}
  BY DEF Typed
<1>2. ASSUME NEW label \in Inner \ Reading, Continue(s, label) PROVE Typed(s)'
  <2>1. /\ pc'[s] = label /\ user'[s] = user[s] /\ req'[s] = req[s] /\ held'[s] = held[s]
        /\ draft'[s] = draft[s] /\ result'[s] = result[s]
    BY <1>2, Moves
  <2> QED  BY <1>1, <1>2, <2>1, TypedInner
<1>3. ASSUME NEW label \in Inner, NEW users \in Seq(DOMAIN heap'), Hold(s, label, users),
             label \in Reading => Len(users) = 1
      PROVE  Typed(s)'
  <2>1. /\ pc'[s] = label /\ user'[s] = user[s] /\ req'[s] = req[s] /\ held'[s] = users
        /\ draft'[s] = draft[s] /\ result'[s] = result[s]
    BY <1>3 DEF Hold, Goto, Shape, IsPerSession
  <2> QED  BY <1>1, <1>3, <2>1, TypedInner
<1>4. ASSUME NEW label \in Inner \ Reading, NEW r \in Row, Draft(s, label, r) PROVE Typed(s)'
  <2>1. /\ pc'[s] = label /\ user'[s] = user[s] /\ req'[s] = req[s] /\ held'[s] = held[s]
        /\ draft'[s] = r /\ result'[s] = result[s]
    BY <1>4 DEF Draft, Goto, Shape, IsPerSession
  <2> QED  BY <1>1, <1>4, <2>1, TypedInner
<1>5. ASSUME NEW message \in Messages, Answer(s, message) PROVE Typed(s)'
  <2>1. Done(s, message) /\ user'[s] = user[s]
    BY <1>5 DEF Answer
  <2> QED  BY <1>1, <1>5, <2>1, TypedDone
<1> QED  BY <1>2, <1>3, <1>4, <1>5

\* The one pointer of a thread about to read through it.
LEMMA HoldsRow ==
  ASSUME TypeOK, NEW s \in Sessions, Typed(s), pc[s] \in Reading
  PROVE  held[s][1] \in DOMAIN heap /\ heap[held[s][1]] \in Row
<1>1. held[s] \in Seq(DOMAIN heap) /\ Len(held[s]) = 1
  BY DEF Typed
<1>2. held[s][1] \in DOMAIN heap
  BY <1>1
<1> QED  BY <1>2 DEF TypeOK

LEMMA Alone == ASSUME NEW S, NEW x \in S PROVE <<x>> \in Seq(S) /\ Len(<<x>>) = 1
OBVIOUS

\* What a lookup by login or email returns can be held.
LEMMA LookedUp ==
  ASSUME TypeOK, NEW key, NEW v, NEW n, getby(key, v, n), n # 0
  PROVE  <<n>> \in Seq(DOMAIN heap) /\ Len(<<n>>) = 1
<1>1. n \in DOMAIN heap
  BY Looked
<1> QED  BY <1>1, Alone

LEMMA Listed ==
  ASSUME TypeOK, Sound(1..Limit)
  PROVE  /\ user_table_findall \in Seq(DOMAIN heap)
         /\ \A i \in DOMAIN user_table_findall : i \in 1..Limit /\ user_table_findall[i] = chain[i]
<1>1. Limit \in Nat
  BY BoundsAssumption DEF TypeOK, Limit
<1>2. \A i \in 1..Limit : chain[i] \in DOMAIN heap
  BY Uids DEF Sound, Live
<1> HIDE DEF Limit
<1> QED  BY <1>1, <1>2 DEF user_table_findall

LEMMA RefusalIsMessage == \A s \in Sessions : Refusal(s) \in Messages
<1> SUFFICES ASSUME NEW s \in Sessions PROVE Refusal(s) \in Messages
  OBVIOUS
<1>1. Refusal(s) \in {"NOT_CONNECT", "INVALID_PARAMS", "INVALID_USERTYPE", "NOT_ADMIN_PRIVILEGES", "NOT_PRIVILEGES", "none"}
  BY DEF Refusal
<1> QED  BY <1>1 DEF Messages

\* Logging in, and the test every other request begins with.
LEMMA TypedGate ==
  ASSUME ServeInv, NEW s \in Sessions, Typed(s),
         \/ connect_reads_lock(s) \/ connect_finds_user(s) \/ connect_reads_user(s)
         \/ check_preconditions(s)
  PROVE  Typed(s)'
<1>1. TypeOK /\ Shape /\ Fit(s)
  BY DEF ServeInv, AllFit
<1>2. UNCHANGED vars /\ heap' = heap
  BY DEF connect_reads_lock, connect_finds_user, connect_reads_user, check_preconditions, vars
<1>3. {"IS_BLOCKED", "INVALID_PARAMS", "WRONG_USER_PASS", "SUCCESS_CONNECT"} \subseteq Messages
  BY DEF Messages
<1>4. CASE connect_reads_lock(s)
  <2>1. pc[s] = "dbs_connect" /\ "connect_find" \in Inner \ Reading
    BY <1>4 DEF connect_reads_lock, Step, Inner, Stages, Reading
  <2>2. (\E message \in Messages : Answer(s, message)) \/ Continue(s, "connect_find")
    BY <1>3, <1>4 DEF connect_reads_lock
  <2> QED  BY <1>1, <1>2, <2>1, <2>2, TypedMoves
<1>5. CASE connect_finds_user(s)
  <2>1. pc[s] = "connect_find" /\ "connect_login" \in Inner
    BY <1>5 DEF connect_finds_user, Step, Inner, Stages
  <2>2. PICK n : /\ getby("login", arg(s).login, n)
                 /\ Answer(s, "WRONG_USER_PASS") \/ (n # 0 /\ Hold(s, "connect_login", <<n>>))
    BY <1>5 DEF connect_finds_user, user_table_getbyuser
  <2>3. CASE Answer(s, "WRONG_USER_PASS")
    BY <1>1, <1>2, <1>3, <2>1, <2>3, TypedMoves
  <2>4. CASE n # 0 /\ Hold(s, "connect_login", <<n>>)
    <3>1. <<n>> \in Seq(DOMAIN heap') /\ Len(<<n>>) = 1
      BY <1>1, <1>2, <2>2, <2>4, LookedUp
    <3> QED  BY <1>1, <1>2, <2>1, <2>4, <3>1, TypedMoves
  <2> QED  BY <2>2, <2>3, <2>4
<1>6. CASE connect_reads_user(s)
  <2>1. pc[s] = "connect_login" /\ pc[s] \in Reading
    BY <1>6 DEF connect_reads_user, Step, Reading
  <2>2. heap[held[s][1]] \in Row
    BY <1>1, <2>1, HoldsRow
  <2>3. CASE Answer(s, "WRONG_USER_PASS")
    BY <1>1, <1>2, <1>3, <2>1, <2>3, TypedMoves
  <2>4. CASE Done(s, "SUCCESS_CONNECT") /\ user' = [user EXCEPT ![s] = heap[held[s][1]]]
    <3>1. user'[s] \in Row \cup {NoRow}
      BY <1>1, <2>2, <2>4 DEF Shape, IsPerSession
    <3> QED  BY <1>1, <1>3, <2>4, <3>1, TypedDone
  <2> QED  BY <1>6, <2>3, <2>4 DEF connect_reads_user
<1>7. CASE check_preconditions(s)
  <2>1. pc[s] = "_check_preconditions"
    BY <1>7 DEF check_preconditions, Step
  <2>2. req[s].op \in Operations
    BY <1>1, <2>1 DEF Fit
  <2>3. FirstAccess(s) \in Inner \ Reading
    <3>1. FirstAccess(s) \in {"create_find_user", "delete_find", "changepass_find", "buscar", "listar",
                              "bloquear", "desbloquear", "commit", "rollback"}
      BY <2>2 DEF FirstAccess, Operations
    <3> QED  BY <3>1 DEF Inner, Stages, Reading
  <2>4. (\E message \in Messages : Answer(s, message)) \/ Continue(s, FirstAccess(s))
    BY <1>3, <1>7, RefusalIsMessage DEF check_preconditions
  <2> QED  BY <1>1, <1>2, <2>1, <2>3, <2>4, TypedMoves
<1> QED  BY <1>4, <1>5, <1>6, <1>7

\* Creating, and deleting.
LEMMA TypedCreateDelete ==
  ASSUME ServeInv, NEW s \in Sessions, Typed(s), DOMAIN heap \subseteq DOMAIN heap',
         \/ create_finds_user(s) \/ create_finds_email(s) \/ create_inserts(s) \/ create_answers(s)
         \/ delete_finds(s) \/ delete_reads_uid(s) \/ delete_deletes(s)
  PROVE  Typed(s)'
<1>1. TypeOK /\ Shape /\ Fit(s)
  BY DEF ServeInv, AllFit
<1>2. {"USER_EXIST", "EMAIL_EXIST", "NOT_ADMIN_PRIVILEGES", "OK", "USER_NOT_EXIST", "FAIL_DELETE"}
      \subseteq Messages
  BY DEF Messages
<1>3. CASE create_finds_user(s) \/ create_finds_email(s)
  <2>1. pc[s] \in {"create_find_user", "create_find_email"}
    BY <1>3 DEF create_finds_user, create_finds_email, Step
  <2>2. {"create_find_email", "create_insert"} \subseteq Inner \ Reading
    BY DEF Inner, Stages, Reading
  <2>3. \/ \E message \in Messages : Answer(s, message)
        \/ \E label \in Inner \ Reading : Continue(s, label)
    BY <1>2, <1>3, <2>2 DEF create_finds_user, create_finds_email
  <2> QED  BY <1>1, <2>1, <2>3, TypedMoves
<1>4. CASE create_inserts(s)
  <2>1. pc[s] = "create_insert" /\ "create_answer" \in Inner
    BY <1>4 DEF create_inserts, Step, Inner, Stages
  <2>2. Len(heap) + 1 \in DOMAIN heap'
    <3>1. arg(s) \in Entry
      BY <1>1, <2>1, EntriesAssumption DEF Fit
    <3>2. WithUid(arg(s), lastUid + 1) \in Row /\ heap' = Append(heap, WithUid(arg(s), lastUid + 1))
      BY <1>1, <1>4, <3>1, Inserted DEF create_inserts, user_table_insert
    <3> QED  BY <1>1, <3>2, Grown
  <2>3. PICK users : users = <<Len(heap) + 1>> /\ Hold(s, "create_answer", users)
    BY <1>4 DEF create_inserts
  <2>4. users \in Seq(DOMAIN heap') /\ Len(users) = 1
    BY <2>2, <2>3, Alone
  <2> QED  BY <1>1, <2>1, <2>3, <2>4, TypedMoves
<1>5. CASE create_answers(s) \/ delete_deletes(s)
  <2>1. pc[s] \in {"create_answer", "delete_row"} /\ \E message \in Messages : Answer(s, message)
    BY <1>2, <1>5 DEF create_answers, delete_deletes, Step
  <2> QED  BY <1>1, <2>1, TypedMoves
<1>6. CASE delete_finds(s)
  <2>1. pc[s] = "delete_find" /\ "delete_uid" \in Inner
    BY <1>6 DEF delete_finds, Step, Inner, Stages
  <2>2. PICK n : /\ getby("login", arg(s).login, n)
                 /\ Answer(s, "USER_NOT_EXIST") \/ (n # 0 /\ Hold(s, "delete_uid", <<n>>))
    BY <1>6 DEF delete_finds, user_table_getbyuser
  <2>3. CASE Answer(s, "USER_NOT_EXIST")
    BY <1>1, <1>2, <2>1, <2>3, TypedMoves
  <2>4. CASE n # 0 /\ Hold(s, "delete_uid", <<n>>)
    <3>1. <<n>> \in Seq(DOMAIN heap) /\ Len(<<n>>) = 1
      BY <1>1, <2>2, <2>4, LookedUp
    <3>2. <<n>> \in Seq(DOMAIN heap')
      BY <3>1, SeqMonotonic
    <3> QED  BY <1>1, <2>1, <2>4, <3>1, <3>2, TypedMoves
  <2> QED  BY <2>2, <2>3, <2>4
<1>7. CASE delete_reads_uid(s)
  <2>1. pc[s] = "delete_uid" /\ pc[s] \in Reading /\ "delete_row" \in Inner \ Reading
    BY <1>7 DEF delete_reads_uid, Step, Inner, Stages, Reading
  <2>2. heap[held[s][1]] \in Row
    BY <1>1, <2>1, HoldsRow
  <2>3. Draft(s, "delete_row", heap[held[s][1]])
    BY <1>7 DEF delete_reads_uid
  <2> QED  BY <1>1, <2>1, <2>2, <2>3, TypedMoves
<1> QED  BY <1>3, <1>4, <1>5, <1>6, <1>7

\* The other operations.
LEMMA TypedOther ==
  ASSUME ServeInv, NEW s \in Sessions, Typed(s), DOMAIN heap \subseteq DOMAIN heap',
         \/ changepass_finds(s) \/ changepass_copies(s) \/ changepass_updates(s)
         \/ list_finds(s) \/ search_finds(s) \/ prints(s)
         \/ blocks(s) \/ unblocks(s)
         \/ commit_opens(s) \/ commit_closes(s) \/ rolls_back(s)
  PROVE  Typed(s)'
<1>1. TypeOK /\ Shape /\ Fit(s)
  BY DEF ServeInv, AllFit
<1>2. {"USER_NOT_EXIST", "NOT_PRIVILEGES", "INVALID_PARAMS", "FAIL_CHANGEPASS", "OK", "FAIL_PATTERN_SEARCH",
       "FAIL_FIELD_SEARCH", "FAIL_COMMIT", "FAIL_ROLLBACK", "WRONG_OPERATION"} \subseteq Messages
  BY DEF Messages
<1>3. CASE changepass_finds(s)
  <2>1. pc[s] = "changepass_find" /\ "changepass_copy" \in Inner
    BY <1>3 DEF changepass_finds, Step, Inner, Stages
  <2>2. PICK n : /\ getby("login", arg(s).login, n)
                 /\ Answer(s, "USER_NOT_EXIST") \/ (n # 0 /\ Hold(s, "changepass_copy", <<n>>))
    BY <1>3 DEF changepass_finds, user_table_getbyuser
  <2>3. CASE Answer(s, "USER_NOT_EXIST")
    BY <1>1, <1>2, <2>1, <2>3, TypedMoves
  <2>4. CASE n # 0 /\ Hold(s, "changepass_copy", <<n>>)
    <3>1. <<n>> \in Seq(DOMAIN heap) /\ Len(<<n>>) = 1
      BY <1>1, <2>2, <2>4, LookedUp
    <3>2. <<n>> \in Seq(DOMAIN heap')
      BY <3>1, SeqMonotonic
    <3> QED  BY <1>1, <2>1, <2>4, <3>1, <3>2, TypedMoves
  <2> QED  BY <2>2, <2>3, <2>4
<1>4. CASE changepass_copies(s)
  <2>1. pc[s] = "changepass_copy" /\ pc[s] \in Reading /\ "changepass_update" \in Inner \ Reading
    BY <1>4 DEF changepass_copies, Step, Inner, Stages, Reading
  <2>2. PICK r : r = [heap[held[s][1]] EXCEPT !.pass = arg(s).new]
    OBVIOUS
  <2>3. r \in Row
    <3>1. arg(s).new \in Text /\ heap[held[s][1]] \in Row
      BY <1>1, <2>1, HoldsRow, PasswordsAssumption DEF Fit
    <3> QED  BY <2>2, <3>1 DEF Row
  <2>4. (\E message \in Messages : Answer(s, message)) \/ Draft(s, "changepass_update", r)
    BY <1>2, <1>4, <2>2 DEF changepass_copies
  <2> QED  BY <1>1, <2>1, <2>3, <2>4, TypedMoves
<1>5. CASE changepass_updates(s) \/ prints(s) \/ commit_closes(s) \/ rolls_back(s)
  <2>1. pc[s] \in {"changepass_update", "print", "committing", "rollback"}
    BY <1>5 DEF changepass_updates, prints, commit_closes, rolls_back, Step
  <2>2. \E message \in Messages : Answer(s, message)
    BY <1>2, <1>5 DEF changepass_updates, prints, commit_closes, rolls_back
  <2> QED  BY <1>1, <2>1, <2>2, TypedMoves
<1>6. CASE list_finds(s)
  <2>1. pc[s] = "listar" /\ "print" \in Inner \ Reading /\ heap' = heap
    BY <1>6 DEF list_finds, Step, Inner, Stages, Reading, vars
  <2>2. PICK users : users = user_table_findall /\ Hold(s, "print", users)
    BY <1>6 DEF list_finds
  <2>3. users \in Seq(DOMAIN heap')
    BY <1>1, <1>6, <2>1, <2>2, Listed DEF list_finds
  <2> QED  BY <1>1, <2>1, <2>2, <2>3, TypedMoves
<1>7. CASE search_finds(s)
  <2>1. pc[s] = "buscar" /\ "print" \in Inner \ Reading /\ heap' = heap
    BY <1>7 DEF search_finds, Step, Inner, Stages, Reading, vars
  <2>2. \/ \E message \in Messages : Answer(s, message)
        \/ Hold(s, "print", user_table_findbyfield(column[arg(s).field], arg(s).pattern))
    BY <1>2, <1>7 DEF search_finds
  <2>3. CASE Hold(s, "print", user_table_findbyfield(column[arg(s).field], arg(s).pattern))
    <3>1. PICK users : /\ users = user_table_findbyfield(column[arg(s).field], arg(s).pattern)
                       /\ Hold(s, "print", users)
      BY <2>3
    <3>2. users \in Seq(DOMAIN heap')
      BY <1>1, <2>1, <3>1, Gathered
    <3> QED  BY <1>1, <2>1, <3>1, <3>2, TypedMoves
  <2> QED  BY <1>1, <2>1, <2>2, <2>3, TypedMoves
<1>8. CASE blocks(s) \/ unblocks(s)
  <2>1. pc[s] \in {"bloquear", "desbloquear"}
    BY <1>8 DEF blocks, unblocks, Step
  <2>2. {"SUCCESS_BLOCKED", "SUCCESS_UNBLOCKED"} \subseteq Messages
    BY DEF Messages
  <2>3. \/ \E message \in Messages : Answer(s, message)
        \/ \E message \in Messages : Done(s, message) /\ user' = user
    BY <1>2, <1>8, <2>2 DEF blocks, unblocks
  <2>4. ASSUME NEW message \in Messages, Done(s, message), user' = user PROVE Typed(s)'
    <3>1. user'[s] \in Row \cup {NoRow}
      BY <2>4 DEF Typed
    <3> QED  BY <1>1, <2>4, <3>1, TypedDone
  <2> QED  BY <1>1, <2>1, <2>3, <2>4, TypedMoves
<1>9. CASE commit_opens(s)
  <2>1. pc[s] = "commit" /\ "committing" \in Inner \ Reading
    BY <1>9 DEF commit_opens, Step, Inner, Stages, Reading
  <2>2. Answer(s, "FAIL_COMMIT") \/ Continue(s, "committing")
    BY <1>9 DEF commit_opens
  <2> QED  BY <1>1, <1>2, <2>1, <2>2, TypedMoves
<1> QED  BY <1>3, <1>4, <1>5, <1>6, <1>7, <1>8, <1>9

LEMMA TypedServe ==
  ASSUME ServeInv, NEW s \in Sessions, Typed(s), DOMAIN heap \subseteq DOMAIN heap', Serve(s)
  PROVE  Typed(s)'
BY TypedGate, TypedCreateDelete, TypedOther DEF Serve

\* Between requests.
LEMMA TypedIdle ==
  ASSUME ServeInv, NEW s \in Sessions, Typed(s),
         Accept(s) \/ HangUp(s) \/ (\E r \in Requests : Receive(s, r)) \/ Send(s)
  PROVE  Typed(s)'
<1>1. Shape /\ UNCHANGED vars /\ heap' = heap
  BY DEF ServeInv, Accept, HangUp, Receive, Send, vars
<1>2. /\ user[s] \in Row \cup {NoRow} /\ draft[s] \in Row \cup {NoRow} /\ held[s] \in Seq(DOMAIN heap)
      /\ req[s] \in Requests \cup {NoRequest}
  BY DEF Typed
<1>3. CASE Accept(s)
  <2>1. pc[s] = "closed" /\ Continue(s, "ready")
    BY <1>3 DEF Accept, Step
  <2>2. /\ pc'[s] = "ready" /\ user'[s] = user[s] /\ req'[s] = req[s] /\ held'[s] = held[s]
        /\ draft'[s] = draft[s] /\ result'[s] = result[s]
    BY <1>1, <2>1 DEF Continue, Goto, Shape, IsPerSession
  <2>3. held[s] = <<>> /\ req[s] = NoRequest /\ result[s] = "none"
    BY <2>1 DEF Typed, Between
  <2>4. "ready" \in Stages /\ "ready" \notin Reading /\ "none" \in Messages
    BY DEF Stages, Reading, Messages
  <2> QED  BY <1>1, <1>2, <2>2, <2>3, <2>4 DEF Typed
<1>4. CASE HangUp(s) \/ (Send(s) /\ Close(s))
  BY <1>1, <1>4, TypedClose DEF HangUp
<1>5. CASE Send(s) /\ ~Close(s)
  <2>1. /\ pc[s] = "answer" /\ Goto(s, "ready") /\ result' = [result EXCEPT ![s] = "none"]
        /\ UNCHANGED <<user, req, held, draft>>
    BY <1>5 DEF Send, Step
  <2>2. pc'[s] = "ready" /\ result'[s] = "none"
    BY <1>1, <2>1 DEF Goto, Shape, IsPerSession
  <2>3. held[s] = <<>> /\ req[s] = NoRequest
    BY <2>1 DEF Typed, Between
  <2>4. "ready" \in Stages /\ "ready" \notin Reading /\ "none" \in Messages
    BY DEF Stages, Reading, Messages
  <2> QED  BY <1>1, <1>2, <2>1, <2>2, <2>3, <2>4 DEF Typed
<1>6. ASSUME NEW r \in Requests, Receive(s, r) PROVE Typed(s)'
  <2>1. pc[s] = "ready"
    BY <1>6 DEF Receive, Step
  <2>2. {"NOT_SESSION", "INVALID_OPERATION", "SUCCESS_CLOSE", "NOT_CONNECT"} \subseteq Messages
    BY DEF Messages
  <2>3. CASE \E message \in Messages : Answer(s, message)
    BY <1>1, <2>1, <2>3, TypedMoves
  <2>4. CASE /\ Goto(s, "farewell") /\ UNCHANGED <<user, req, held, draft>>
             /\ \E message \in Messages : result' = [result EXCEPT ![s] = message]
    <3>1. pc'[s] = "farewell" /\ result'[s] \in Messages
      BY <1>1, <2>4 DEF Goto, Shape, IsPerSession
    <3>2. "farewell" \in Stages /\ "farewell" \notin Reading /\ "farewell" \notin Between
      BY DEF Stages, Reading, Between
    <3> QED  BY <1>1, <1>2, <2>4, <3>1, <3>2 DEF Typed
  <2>5. CASE /\ Goto(s, IF r.op = "conectar" THEN "dbs_connect" ELSE "_check_preconditions")
             /\ req' = [req EXCEPT ![s] = r] /\ UNCHANGED <<user, held, draft, result>>
    <3>1. pc'[s] \in {"dbs_connect", "_check_preconditions"} /\ req'[s] = r
      BY <1>1, <2>5 DEF Goto, Shape, IsPerSession
    <3>2. {"dbs_connect", "_check_preconditions"} \subseteq Inner \ Reading
      BY DEF Inner, Stages, Reading
    <3> QED  BY <1>1, <1>2, <1>6, <2>1, <2>5, <3>1, <3>2, TypedInner
  <2> QED  BY <1>6, <2>2, <2>3, <2>4, <2>5 DEF Receive
<1> QED  BY <1>3, <1>4, <1>5, <1>6

\* What a thread holds stays allocated as far as the other threads go.
LEMMA TypedOthers ==
  ASSUME NEW t \in Sessions, Typed(t), DOMAIN heap \subseteq DOMAIN heap',
         pc'[t] = pc[t], user'[t] = user[t], req'[t] = req[t], held'[t] = held[t],
         draft'[t] = draft[t], result'[t] = result[t]
  PROVE  Typed(t)'
<1>1. held'[t] \in Seq(DOMAIN heap')
  BY SeqMonotonic DEF Typed
<1> QED  BY <1>1 DEF Typed

\* Who takes and who drops the table mutex across steps.
SavingStep(s) ==
  \/ saving' = saving /\ pc[s] # "committing" /\ pc'[s] # "committing"
  \/ ~saving /\ saving' /\ pc'[s] = "committing"
  \/ ~saving' /\ pc[s] = "committing" /\ pc'[s] # "committing"

LEMMA SavingSteps ==
  ASSUME Shape, NEW s \in Sessions, Fit(s),
         \/ Accept(s) \/ HangUp(s) \/ (\E r \in Requests : Receive(s, r)) \/ Send(s)
         \/ Serve(s)
  PROVE  SavingStep(s)
<1>1. ASSUME pc[s] # "committing", saving' = saving,
             \/ \E message : Done(s, message)
             \/ \E label : label # "committing" /\ Goto(s, label)
      PROVE  SavingStep(s)
  BY <1>1 DEF SavingStep, Done, Goto, Shape, IsPerSession
<1>2. CASE Accept(s) \/ HangUp(s) \/ (\E r \in Requests : Receive(s, r)) \/ Send(s)
  <2>1. pc[s] # "committing" /\ saving' = saving
    BY <1>2 DEF Accept, HangUp, Receive, Send, Step, vars
  <2>2. \/ \E message : Done(s, message)
        \/ \E label : label # "committing" /\ Goto(s, label)
    <3>1. CASE Accept(s) \/ HangUp(s) \/ Send(s)
      BY <3>1 DEF Accept, HangUp, Send, Continue, Close
    <3>2. ASSUME NEW r \in Requests, Receive(s, r)
          PROVE  \/ \E message : Done(s, message)
                 \/ \E label : label # "committing" /\ Goto(s, label)
      <4>1. \/ \E message : Done(s, message)
            \/ Goto(s, "farewell")
            \/ Goto(s, IF r.op = "conectar" THEN "dbs_connect" ELSE "_check_preconditions")
        BY <3>2 DEF Receive, Answer
      <4> QED  BY <4>1
    <3> QED  BY <1>2, <3>1, <3>2
  <2> QED  BY <1>1, <2>1, <2>2
<1>3. CASE connect_reads_lock(s) \/ connect_finds_user(s) \/ connect_reads_user(s)
  <2>1. pc[s] # "committing" /\ saving' = saving
    BY <1>3 DEF connect_reads_lock, connect_finds_user, connect_reads_user, Step, vars
  <2>2. \/ \E message : Done(s, message)
        \/ Goto(s, "connect_find") \/ Goto(s, "connect_login")
    BY <1>3 DEF connect_reads_lock, connect_finds_user, connect_reads_user, Answer, Continue, Hold
  <2> QED  BY <1>1, <2>1, <2>2
<1>4. CASE check_preconditions(s)
  <2>1. pc[s] = "_check_preconditions" /\ saving' = saving
    BY <1>4 DEF check_preconditions, Step, vars
  <2>2. FirstAccess(s) # "committing"
    BY <2>1 DEF FirstAccess, Fit, Operations
  <2>3. (\E message : Done(s, message)) \/ Goto(s, FirstAccess(s))
    BY <1>4 DEF check_preconditions, Answer, Continue
  <2> QED  BY <1>1, <2>1, <2>2, <2>3
<1>5. CASE \/ create_finds_user(s) \/ create_finds_email(s) \/ create_inserts(s) \/ create_answers(s)
           \/ delete_finds(s) \/ delete_reads_uid(s) \/ delete_deletes(s)
  <2>1. pc[s] # "committing" /\ saving' = saving
    BY <1>5 DEF create_finds_user, create_finds_email, create_inserts, create_answers, delete_finds,
                delete_reads_uid, delete_deletes, user_table_insert, user_table_delete, Step, vars
  <2>2. \/ \E message : Done(s, message)
        \/ Goto(s, "create_find_email") \/ Goto(s, "create_insert") \/ Goto(s, "create_answer")
        \/ Goto(s, "delete_uid") \/ Goto(s, "delete_row")
    BY <1>5 DEF create_finds_user, create_finds_email, create_inserts, create_answers, delete_finds,
                delete_reads_uid, delete_deletes, Answer, Continue, Hold, Draft
  <2> QED  BY <1>1, <2>1, <2>2
<1>6. CASE \/ changepass_finds(s) \/ changepass_copies(s) \/ changepass_updates(s)
           \/ list_finds(s) \/ search_finds(s) \/ prints(s) \/ rolls_back(s)
  <2>1. pc[s] # "committing" /\ saving' = saving
    BY <1>6 DEF changepass_finds, changepass_copies, changepass_updates, list_finds, search_finds,
                prints, rolls_back, user_table_update, user_table_rollback, Step, vars
  <2>2. \/ \E message : Done(s, message)
        \/ Goto(s, "changepass_copy") \/ Goto(s, "changepass_update") \/ Goto(s, "print")
    BY <1>6 DEF changepass_finds, changepass_copies, changepass_updates, list_finds, search_finds,
                prints, rolls_back, Answer, Hold, Draft
  <2> QED  BY <1>1, <2>1, <2>2
<1>7. CASE blocks(s) \/ unblocks(s)
  <2>1. pc[s] # "committing" /\ saving' = saving
    BY <1>7 DEF blocks, unblocks, Step, vars
  <2>2. \E message : Done(s, message)
    BY <1>7 DEF blocks, unblocks, Answer
  <2> QED  BY <1>1, <2>1, <2>2
<1>8. CASE commit_opens(s)
  <2>1. CASE UNCHANGED vars /\ Answer(s, "FAIL_COMMIT")
    <3>1. pc[s] # "committing" /\ saving' = saving
      BY <1>8, <2>1 DEF commit_opens, Step, vars
    <3> QED  BY <1>1, <2>1, <3>1 DEF Answer
  <2>2. CASE save_opens /\ Continue(s, "committing")
    BY <2>2 DEF save_opens, Idle, Continue, Goto, Shape, IsPerSession, SavingStep
  <2> QED  BY <1>8, <2>1, <2>2 DEF commit_opens
<1>9. CASE commit_closes(s)
  BY <1>9 DEF commit_closes, Step, save_closes, Answer, Done, Goto, Shape, IsPerSession, SavingStep
<1> QED  BY <1>2, <1>3, <1>4, <1>5, <1>6, <1>7, <1>8, <1>9 DEF Serve

LEMMA CommitsStep ==
  ASSUME Commits, NEW s \in Sessions, SavingStep(s), \A t \in Sessions : t # s => pc'[t] = pc[t]
  PROVE  Commits'
BY DEF Commits, SavingStep

\* No process, no thread.
LEMMA TypedClosed ==
  ASSUME AllClosed
  PROVE  \A s \in Sessions : Typed(s)
<1> SUFFICES ASSUME NEW s \in Sessions PROVE Typed(s)
  OBVIOUS
<1>1. /\ pc[s] = "closed" /\ user[s] = NoRow /\ req[s] = NoRequest /\ held[s] = <<>>
      /\ draft[s] = NoRow /\ result[s] = "none"
  BY DEF AllClosed
<1>2. held[s] \in Seq(DOMAIN heap)
  BY <1>1, EmptyHeld
<1>3. "closed" \in Stages /\ "closed" \notin Reading /\ "none" \in Messages
  BY DEF Stages, Reading, Messages
<1> QED  BY <1>1, <1>2, <1>3 DEF Typed

LEMMA DbsTypeInit == DbsInit => DbsTypeInv
<1> SUFFICES ASSUME DbsInit PROVE DbsTypeInv
  OBVIOUS
<1>1. ServeInv
  BY ServeInit
<1>2. AllClosed /\ ~saving /\ connection_lock = 0
  BY DEF DbsInit, Init, AllClosed
<1>3. \A s \in Sessions : pc[s] = "closed"
  BY <1>2 DEF AllClosed
<1>4. Commits
  BY <1>2, <1>3 DEF Commits
<1> QED  BY <1>1, <1>2, <1>4, TypedClosed DEF DbsTypeInv

LEMMA DbsTypeNext == DbsTypeInv /\ [DbsNext]_allVars => DbsTypeInv'
<1> SUFFICES ASSUME DbsTypeInv, [DbsNext]_allVars PROVE DbsTypeInv'
  OBVIOUS
<1>1. /\ ServeInv /\ TypeOK /\ Shape /\ Commits /\ connection_lock \in Nat
      /\ \A s \in Sessions : Typed(s)
      /\ \A s \in Sessions : Fit(s)
  BY DEF DbsTypeInv, ServeInv, AllFit
<1>2. ServeInv'
  BY <1>1, ServeNext
<1>3. CASE UNCHANGED allVars
  <2>1. /\ UNCHANGED <<pc, user, req, held, draft, result, connection_lock>>
        /\ UNCHANGED <<mode, heap, saving>>
    BY <1>3 DEF allVars, vars, dbsVars, sessionVars
  <2>2. \A s \in Sessions : Typed(s)'
    BY <1>1, <2>1 DEF Typed
  <2>3. Commits'
    BY <1>1, <2>1 DEF Commits
  <2>4. mode' # "up" => AllClosed'
    BY <2>1 DEF DbsTypeInv, AllClosed
  <2> QED  BY <1>1, <1>2, <2>1, <2>2, <2>3, <2>4 DEF DbsTypeInv
<1>4. CASE Start \/ Stop \/ \E s \in Sessions : faults(s)
  <2>1. AllClosed'
    <3>1. CASE Start
      <4>1. mode # "up" /\ UNCHANGED <<pc, user, req, held, draft, result, connection_lock>>
        BY <3>1 DEF Start, user_table_init, dbsVars, sessionVars
      <4> QED  BY <4>1 DEF DbsTypeInv, AllClosed
    <3>2. CASE Stop \/ \E s \in Sessions : faults(s)
      <4>1. Gone
        BY <3>2 DEF Stop, faults
      <4> QED  BY <4>1 DEF Gone, AllClosed
    <3> QED  BY <1>4, <3>1, <3>2
  <2>2. ~saving'
    <3>1. CASE Start
      BY <3>1 DEF Start, user_table_init
    <3>2. CASE Stop
      BY <3>2 DEF Stop, Kill, Forget
    <3>3. ASSUME NEW s \in Sessions, faults(s) PROVE ~saving'
      <4>1. \A positions : Fault(positions) => Forget
        BY DEF Fault, Crash, Undefined
      <4>2. Forget
        BY <3>3, <4>1 DEF faults, table_faults, stale_pointer, stale_params, insert_faults, save_faults,
                          rollback_faults, Crash, Undefined
      <4> QED  BY <4>2 DEF Forget
    <3> QED  BY <1>4, <3>1, <3>2, <3>3
  <2>3. \A s \in Sessions : pc'[s] = "closed"
    BY <2>1 DEF AllClosed
  <2>4. Commits'
    BY <2>2, <2>3 DEF Commits
  <2>5. \A s \in Sessions : Typed(s)'
    <3> SUFFICES ASSUME NEW s \in Sessions PROVE Typed(s)'
      OBVIOUS
    <3>1. /\ pc'[s] = "closed" /\ user'[s] = NoRow /\ req'[s] = NoRequest /\ held'[s] = <<>>
          /\ draft'[s] = NoRow /\ result'[s] = "none"
      BY <2>1 DEF AllClosed
    <3>2. held'[s] \in Seq(DOMAIN heap')
      BY <3>1, EmptyHeld
    <3>3. "closed" \in Stages /\ "closed" \notin Reading /\ "none" \in Messages
      BY DEF Stages, Reading, Messages
    <3> QED  BY <3>1, <3>2, <3>3 DEF Typed
  <2>6. connection_lock' \in Nat
    BY <2>1 DEF AllClosed
  <2> QED  BY <1>2, <2>1, <2>4, <2>5, <2>6 DEF DbsTypeInv
<1>5. ASSUME NEW s \in Sessions,
             \/ Accept(s) \/ HangUp(s) \/ (\E r \in Requests : Receive(s, r))
             \/ Serve(s) \/ Send(s)
      PROVE  DbsTypeInv'
  <2>1. mode = "up" /\ mode' = "up"
    BY <1>5, StaysUp
  <2>2. OutsideStep(s) \/ InsideStep(s)
    BY <1>1, <1>5, Outside, Inside
  <2>3. Others(s)
    BY <2>2 DEF OutsideStep, InsideStep
  <2>4. DOMAIN heap \subseteq DOMAIN heap'
    <3>1. [Next]_vars
      BY <1>1, TableSteps
    <3> QED  BY <1>1, <2>1, <3>1, RowsStay
  <2>5. Typed(s)'
    BY <1>1, <1>5, <2>4, TypedServe, TypedIdle
  <2>6. \A t \in Sessions : Typed(t)'
    <3>1. ASSUME NEW t \in Sessions, t # s PROVE Typed(t)'
      BY <1>1, <2>3, <2>4, <3>1, TypedOthers DEF Others
    <3> QED  BY <2>5, <3>1
  <2>7. Commits'
    <3>1. SavingStep(s)
      BY <1>1, <1>5, SavingSteps
    <3> QED  BY <1>1, <2>3, <3>1, CommitsStep DEF Others
  <2>8. connection_lock' \in Nat
    <3>1. connection_lock' \in {connection_lock, con(s), 0}
      BY <2>2 DEF OutsideStep, InsideStep
    <3>2. con(s) \in Nat
      <4>1. user[s] \in Row \cup {NoRow}
        BY <1>1 DEF Typed
      <4> QED  BY <4>1 DEF con, Row
    <3> QED  BY <1>1, <3>1, <3>2
  <2> QED  BY <1>2, <2>1, <2>6, <2>7, <2>8 DEF DbsTypeInv
<1> QED  BY <1>3, <1>4, <1>5 DEF DbsNext

LEMMA DbsTypeAlways == DbsSpec => []DbsTypeInv
BY DbsTypeInit, DbsTypeNext, PTL DEF DbsSpec

\* Whatever the requests and their interleaving: between requests a thread
\* holds no pointer and no message, pointers are of rows of this process, and
\* mutex_user_table is held across steps exactly by the thread that commits.
THEOREM DbsTypeCorrect == DbsSpec => []DbsTypeOK
<1>1. DbsTypeInv => DbsTypeOK
  <2> SUFFICES ASSUME DbsTypeInv PROVE DbsTypeOK
    OBVIOUS
  <2>1. /\ Shape /\ Commits /\ connection_lock \in Nat /\ (mode # "up" => AllClosed)
        /\ \A s \in Sessions : Typed(s)
    BY DEF DbsTypeInv, ServeInv
  <2>2. /\ \A s \in Sessions : pc[s] \in Stages /\ user[s] \in Row \cup {NoRow}
        /\ \A s \in Sessions : req[s] \in Requests \cup {NoRequest} /\ draft[s] \in Row \cup {NoRow}
        /\ \A s \in Sessions : held[s] \in Seq(DOMAIN heap) /\ result[s] \in Messages
    BY <2>1 DEF Typed
  <2>3. /\ pc \in [Sessions -> Stages] /\ user \in [Sessions -> Row \cup {NoRow}]
        /\ req \in [Sessions -> Requests \cup {NoRequest}]
    BY <2>1, <2>2 DEF Shape, IsPerSession
  <2>4. /\ draft \in [Sessions -> Row \cup {NoRow}] /\ held \in [Sessions -> Seq(DOMAIN heap)]
        /\ result \in [Sessions -> Messages]
    BY <2>1, <2>2 DEF Shape, IsPerSession
  <2>5. \A s \in Sessions : /\ pc[s] \in {"closed", "ready", "answer"} => held[s] = <<>> /\ req[s] = NoRequest
                            /\ pc[s] \notin {"answer", "farewell"} => result[s] = "none"
    BY <2>1 DEF Typed, Between
  <2> QED  BY <2>1, <2>3, <2>4, <2>5 DEF DbsTypeOK, Commits
<1> QED  BY <1>1, DbsTypeAlways, PTL

-----------------------------------------------------------------------------
(* Pointers that outlive the mutex.                                        *)

Pointing == Reading \cup {"print"}

\* A pointer is good when the thread takes it, whatever the others do.
LEMMA TakenLive ==
  ASSUME ServeInv, NEW s \in Sessions,
         \/ Accept(s) \/ HangUp(s) \/ (\E r \in Requests : Receive(s, r)) \/ Send(s)
         \/ Serve(s)
  PROVE  pc'[s] \in Pointing => \A i \in DOMAIN held'[s] : held'[s][i] \notin freed'
<1>1. TypeOK /\ Shape /\ Fit(s)
  BY DEF ServeInv, AllFit
<1>2. ASSUME NEW label, Goto(s, label), label \notin Pointing
      PROVE  pc'[s] \notin Pointing
  BY <1>1, <1>2 DEF Goto, Shape, IsPerSession
<1>3. ASSUME NEW message, Done(s, message)
      PROVE  pc'[s] \notin Pointing
  <2>1. pc'[s] = "answer"
    BY <1>1, <1>3 DEF Done, Goto, Shape, IsPerSession
  <2> QED  BY <2>1 DEF Pointing, Reading
<1>4. ASSUME NEW label, NEW users, Hold(s, label, users), \A i \in DOMAIN users : users[i] \notin freed'
      PROVE  \A i \in DOMAIN held'[s] : held'[s][i] \notin freed'
  BY <1>1, <1>4 DEF Hold, Shape, IsPerSession
<1>5. ASSUME NEW label, NEW key, NEW v, NEW n, getby(key, v, n), n # 0, Hold(s, label, <<n>>), freed' = freed
      PROVE  \A i \in DOMAIN held'[s] : held'[s][i] \notin freed'
  <2>1. n \notin freed'
    BY <1>1, <1>5, Looked DEF Live
  <2>2. PICK users : users = <<n>> /\ Hold(s, label, users)
    BY <1>5
  <2>3. \A i \in DOMAIN users : users[i] = n
    BY <2>2
  <2> QED  BY <1>4, <2>1, <2>2, <2>3
<1>6. CASE Accept(s) \/ HangUp(s) \/ (\E r \in Requests : Receive(s, r)) \/ Send(s)
  <2>1. CASE Accept(s) \/ HangUp(s) \/ Send(s)
    <3>1. Goto(s, "ready") \/ Goto(s, "closed")
      BY <2>1 DEF Accept, HangUp, Send, Continue, Close
    <3> QED  BY <1>2, <3>1 DEF Pointing, Reading
  <2>2. ASSUME NEW r \in Requests, Receive(s, r) PROVE pc'[s] \notin Pointing
    <3>1. \/ \E message : Done(s, message)
          \/ Goto(s, "farewell")
          \/ Goto(s, IF r.op = "conectar" THEN "dbs_connect" ELSE "_check_preconditions")
      BY <2>2 DEF Receive, Answer
    <3> QED  BY <1>2, <1>3, <3>1 DEF Pointing, Reading
  <2> QED  BY <1>6, <2>1, <2>2
<1>7. CASE connect_reads_lock(s) \/ connect_reads_user(s)
  <2>1. (\E message : Done(s, message)) \/ Goto(s, "connect_find")
    BY <1>7 DEF connect_reads_lock, connect_reads_user, Answer, Continue
  <2> QED  BY <1>2, <1>3, <2>1 DEF Pointing, Reading
<1>8. CASE check_preconditions(s)
  <2>1. FirstAccess(s) \notin Pointing
    BY <1>1, <1>8 DEF check_preconditions, Step, FirstAccess, Fit, Operations, Pointing, Reading
  <2>2. (\E message : Done(s, message)) \/ Goto(s, FirstAccess(s))
    BY <1>8 DEF check_preconditions, Answer, Continue
  <2> QED  BY <1>2, <1>3, <2>1, <2>2
<1>9. CASE connect_finds_user(s)
  <2>1. PICK n : /\ getby("login", arg(s).login, n)
                 /\ (\E message : Done(s, message)) \/ (n # 0 /\ Hold(s, "connect_login", <<n>>))
    BY <1>9 DEF connect_finds_user, user_table_getbyuser, Answer
  <2>2. freed' = freed
    BY <1>9 DEF connect_finds_user, vars
  <2> QED  BY <1>3, <1>5, <2>1, <2>2
<1>10. CASE create_finds_user(s) \/ create_finds_email(s) \/ create_answers(s)
  <2>1. \/ \E message : Done(s, message)
        \/ Goto(s, "create_find_email") \/ Goto(s, "create_insert")
    BY <1>10 DEF create_finds_user, create_finds_email, create_answers, Answer, Continue
  <2> QED  BY <1>2, <1>3, <2>1 DEF Pointing, Reading
<1>11. CASE create_inserts(s)
  <2>1. pc[s] = "create_insert" /\ user_table_insert(arg(s), Len(heap) + 1)
    BY <1>11 DEF create_inserts, Step
  <2>2. arg(s) \in Entry
    BY <1>1, <2>1, EntriesAssumption DEF Fit
  <2>3. /\ WithUid(arg(s), lastUid + 1) \in Row /\ heap' = Append(heap, WithUid(arg(s), lastUid + 1))
        /\ freed' = freed
    BY <1>1, <2>1, <2>2, Inserted DEF user_table_insert
  <2>4. Len(heap) + 1 \notin freed'
    BY <1>1, <2>3, Grown
  <2>5. PICK users : users = <<Len(heap) + 1>> /\ Hold(s, "create_answer", users)
    BY <1>11 DEF create_inserts
  <2>6. \A i \in DOMAIN users : users[i] = Len(heap) + 1
    BY <2>5
  <2> QED  BY <1>4, <2>4, <2>5, <2>6
<1>12. CASE delete_finds(s)
  <2>1. PICK n : /\ getby("login", arg(s).login, n)
                 /\ (\E message : Done(s, message)) \/ (n # 0 /\ Hold(s, "delete_uid", <<n>>))
    BY <1>12 DEF delete_finds, user_table_getbyuser, Answer
  <2>2. freed' = freed
    BY <1>12 DEF delete_finds, vars
  <2> QED  BY <1>3, <1>5, <2>1, <2>2
<1>13. CASE changepass_finds(s)
  <2>1. PICK n : /\ getby("login", arg(s).login, n)
                 /\ (\E message : Done(s, message)) \/ (n # 0 /\ Hold(s, "changepass_copy", <<n>>))
    BY <1>13 DEF changepass_finds, user_table_getbyuser, Answer
  <2>2. freed' = freed
    BY <1>13 DEF changepass_finds, vars
  <2> QED  BY <1>3, <1>5, <2>1, <2>2
<1>14. CASE \/ delete_reads_uid(s) \/ delete_deletes(s) \/ changepass_copies(s) \/ changepass_updates(s)
            \/ prints(s) \/ blocks(s) \/ unblocks(s) \/ commit_opens(s) \/ commit_closes(s) \/ rolls_back(s)
  <2>1. \/ \E message : Done(s, message)
        \/ Goto(s, "delete_row") \/ Goto(s, "changepass_update") \/ Goto(s, "committing")
    <3>1. CASE delete_reads_uid(s) \/ delete_deletes(s) \/ changepass_copies(s) \/ changepass_updates(s)
      BY <3>1 DEF delete_reads_uid, delete_deletes, changepass_copies, changepass_updates, Answer, Draft
    <3>2. CASE \/ prints(s) \/ blocks(s) \/ unblocks(s) \/ commit_opens(s) \/ commit_closes(s) \/ rolls_back(s)
      BY <3>2 DEF prints, blocks, unblocks, commit_opens, commit_closes, rolls_back, Answer, Continue
    <3> QED  BY <1>14, <3>1, <3>2
  <2> QED  BY <1>2, <1>3, <2>1 DEF Pointing, Reading
<1>15. CASE list_finds(s)
  <2>1. PICK users : users = user_table_findall /\ Hold(s, "print", users)
    BY <1>15 DEF list_finds
  <2>2. freed' = freed /\ Sound(1..Limit)
    BY <1>15 DEF list_finds, vars
  <2>3. \A i \in DOMAIN users : users[i] \notin freed'
    BY <1>1, <2>1, <2>2, Listed DEF Sound, Live
  <2> QED  BY <1>4, <2>1, <2>3
<1>16. CASE search_finds(s)
  <2>1. CASE \E message : Answer(s, message)
    BY <1>3, <2>1 DEF Answer
  <2>2. CASE /\ Sound(Searched(column[arg(s).field], arg(s).pattern))
             /\ Hold(s, "print", user_table_findbyfield(column[arg(s).field], arg(s).pattern))
    <3>1. PICK users : /\ users = user_table_findbyfield(column[arg(s).field], arg(s).pattern)
                       /\ Hold(s, "print", users)
      BY <2>2
    <3>2. freed' = freed
      BY <1>16 DEF search_finds, vars
    <3>3. \A i \in DOMAIN users : \E k \in Searched(column[arg(s).field], arg(s).pattern) : users[i] = chain[k]
      BY <1>1, <3>1, Gathered
    <3>4. \A i \in DOMAIN users : users[i] \notin freed'
      BY <2>2, <3>2, <3>3 DEF Sound, Live
    <3> QED  BY <1>4, <3>1, <3>4
  <2> QED  BY <1>16, <2>1, <2>2 DEF search_finds
<1> QED
  BY <1>6, <1>7, <1>8, <1>9, <1>10, <1>11, <1>12, <1>13, <1>14, <1>15, <1>16 DEF Serve

\* Every handler gives its pointers up before it takes the mutex again, so the
\* pointers user_table.c returns are good for a thread that is alone: it is
\* only another thread that can free the row in between.
THEOREM AloneHoldsAllocated ==
  ASSUME \A s, t \in Sessions : s = t
  PROVE  DbsSpec => []HeldRowsAllocated
<1>1. DbsInit => HeldRowsAllocated
  BY DEF DbsInit, AllClosed, HeldRowsAllocated
<1>2. ServeInv /\ HeldRowsAllocated /\ [DbsNext]_allVars => HeldRowsAllocated'
  <2> SUFFICES ASSUME ServeInv, HeldRowsAllocated, [DbsNext]_allVars PROVE HeldRowsAllocated'
    OBVIOUS
  <2>1. CASE UNCHANGED allVars
    BY <2>1 DEF allVars, vars, dbsVars, sessionVars, HeldRowsAllocated
  <2>2. CASE Start \/ Stop \/ \E s \in Sessions : faults(s)
    <3>1. \A s \in Sessions : pc'[s] = "closed"
      BY <2>2 DEF Start, user_table_init, dbsVars, sessionVars, ServeInv, Stop, faults, Gone
    <3> QED  BY <3>1 DEF HeldRowsAllocated
  <2>3. ASSUME NEW s \in Sessions,
               \/ Accept(s) \/ HangUp(s) \/ (\E r \in Requests : Receive(s, r))
               \/ Serve(s) \/ Send(s)
        PROVE  HeldRowsAllocated'
    <3>1. pc'[s] \in Pointing => \A i \in DOMAIN held'[s] : held'[s][i] \notin freed'
      BY <2>3, TakenLive
    <3>2. \A t \in Sessions : t = s
      OBVIOUS
    <3> QED  BY <3>1, <3>2 DEF HeldRowsAllocated, Pointing, Reading
  <2> QED  BY <2>1, <2>2, <2>3 DEF DbsNext
<1> QED  BY <1>1, <1>2, ServeAlways, PTL DEF DbsSpec

-----------------------------------------------------------------------------
(* Who a uid is.                                                           *)

\* Rows of one uid are of one user, who changes his password and no more.
OneUserPerUid == \A m, n \in DOMAIN heap :
  heap[m].uid = heap[n].uid => heap[m].login = heap[n].login /\ heap[m].type = heap[n].type

UidsGiven == \A n \in DOMAIN heap : heap[n].uid <= lastUid

\* The user r describes has, or had, a row with that uid.
Known(r) == \E n \in DOMAIN heap :
  r.uid = heap[n].uid /\ r.login = heap[n].login /\ r.type = heap[n].type

\* The row a session acts for is of a user, and what it read to delete or to
\* change a user's password is of the user the request names.
Denotes(s) ==
  /\ user[s] # NoRow => Known(user[s])
  /\ pc[s] \in {"delete_uid", "changepass_copy"} => heap[held[s][1]].login = arg(s).login
  /\ pc[s] \in {"delete_row", "changepass_update"} => Known(draft[s]) /\ draft[s].login = arg(s).login
  /\ pc[s] # "rollback"

IdentityInv == /\ DbsTypeInv /\ UidsIncrease /\ OneUserPerUid /\ UidsGiven
               /\ \A s \in Sessions : Denotes(s)

RowsKept == \A n \in DOMAIN heap : n \in DOMAIN heap' /\ heap'[n] = heap[n]

LEMMA KnownStays ==
  ASSUME NEW r, Known(r), RowsKept
  PROVE  \E n \in DOMAIN heap' : r.uid = heap'[n].uid /\ r.login = heap'[n].login /\ r.type = heap'[n].type
BY DEF Known, RowsKept

\* A row of a new user gets a uid no row has had.
LEMMA NewUser ==
  ASSUME TypeOK, OneUserPerUid, UidsGiven, NEW r \in Row, heap' = Append(heap, r),
         r.uid = lastUid + 1, lastUid' = lastUid + 1
  PROVE  OneUserPerUid' /\ UidsGiven'
<1>1. /\ DOMAIN heap' = 1..(Len(heap) + 1) /\ DOMAIN heap = 1..Len(heap) /\ Len(heap) \in Nat
      /\ \A n \in DOMAIN heap : heap'[n] = heap[n]
      /\ heap'[Len(heap) + 1] = r
  BY Grown
<1>2. \A n \in DOMAIN heap' : n = Len(heap) + 1 \/ n \in DOMAIN heap
  BY <1>1
<1>3. lastUid \in Nat /\ \A n \in DOMAIN heap : heap[n].uid \in Nat
  <2>1. lastUid \in Nat /\ heap \in Seq(Row)
    BY DEF TypeOK
  <2>2. \A n \in DOMAIN heap : heap[n] \in Row
    BY <2>1
  <2> QED  BY <2>1, <2>2 DEF Row
<1>4. \A n \in DOMAIN heap : heap'[n].uid <= lastUid /\ heap'[n].uid \in Nat
  BY <1>1, <1>3 DEF UidsGiven
<1>5. UidsGiven'
  BY <1>1, <1>2, <1>3, <1>4 DEF UidsGiven
<1>6. ASSUME NEW m \in DOMAIN heap', NEW n \in DOMAIN heap', heap'[m].uid = heap'[n].uid
      PROVE  heap'[m].login = heap'[n].login /\ heap'[m].type = heap'[n].type
  <2>1. CASE m \in DOMAIN heap /\ n \in DOMAIN heap
    BY <1>1, <1>6, <2>1 DEF OneUserPerUid
  <2>2. CASE m = Len(heap) + 1 /\ n = Len(heap) + 1
    BY <2>2
  <2>3. CASE m = Len(heap) + 1 /\ n \in DOMAIN heap
    BY <1>1, <1>3, <1>4, <1>6, <2>3
  <2>4. CASE n = Len(heap) + 1 /\ m \in DOMAIN heap
    BY <1>1, <1>3, <1>4, <1>6, <2>4
  <2> QED  BY <1>2, <2>1, <2>2, <2>3, <2>4
<1> QED  BY <1>5, <1>6 DEF OneUserPerUid

\* A new row of a user who is known.
LEMMA SameUser ==
  ASSUME TypeOK, OneUserPerUid, UidsGiven, NEW r \in Row, heap' = Append(heap, r),
         Known(r), lastUid' = lastUid
  PROVE  OneUserPerUid' /\ UidsGiven'
<1>1. /\ DOMAIN heap' = 1..(Len(heap) + 1) /\ DOMAIN heap = 1..Len(heap) /\ Len(heap) \in Nat
      /\ \A n \in DOMAIN heap : heap'[n] = heap[n]
      /\ heap'[Len(heap) + 1] = r
  BY Grown
<1>2. PICK k \in DOMAIN heap : r.uid = heap[k].uid /\ r.login = heap[k].login /\ r.type = heap[k].type
  BY DEF Known
<1>3. \A n \in DOMAIN heap' : \E m \in DOMAIN heap :
        heap'[n].uid = heap[m].uid /\ heap'[n].login = heap[m].login /\ heap'[n].type = heap[m].type
  <2>1. \A n \in DOMAIN heap' : n = Len(heap) + 1 \/ n \in DOMAIN heap
    BY <1>1
  <2> QED  BY <1>1, <1>2, <2>1
<1>4. UidsGiven'
  BY <1>3 DEF UidsGiven
<1>5. OneUserPerUid'
  BY <1>3 DEF OneUserPerUid
<1> QED  BY <1>4, <1>5

\* The rows of a file have a uid each.
LEMMA LoadedUsers ==
  ASSUME TypeOK, UidsIncrease, load_table(<<>>)
  PROVE  OneUserPerUid' /\ UidsGiven'
<1>1. /\ Len(heap') = Len(file) /\ Len(file) > 0 /\ heap' \in Seq(Row)
      /\ \A i \in 1..Len(file) : heap'[i].uid = file[i].uid
  <2>1. <<>> \in Seq(Row) /\ Len(<<>>) = 0
    BY EmptyHeld
  <2>2. PICK h \in Seq(Row) : h = <<>> /\ load_table(h) /\ Len(h) = 0
    BY <2>1
  <2>3. /\ heap' \in Seq(Row) /\ Len(heap') = Len(h) + Len(file) /\ Len(file) > 0
        /\ \A i \in 1..Len(file) : chain'[i] = Len(h) + i /\ heap'[chain'[i]].uid = file[i].uid
    BY <2>2, Loaded
  <2>4. file \in Seq(Line)
    BY <2>2 DEF TypeOK, load_table
  <2>5. Len(file) \in Nat
    BY <2>4
  <2> QED  BY <2>2, <2>3, <2>5
<1>2. file \in Seq(Line) /\ Increasing(file) /\ lastUid' = file[Len(file)].uid
  BY DEF TypeOK, UidsIncrease, load_table
<1>3. Len(file) \in Nat /\ DOMAIN file = 1..Len(file) /\ DOMAIN heap' = 1..Len(file)
  BY <1>1, <1>2
<1>4. \A i \in DOMAIN file : file[i].uid \in Nat
  <2>1. \A i \in DOMAIN file : file[i] \in Line
    BY <1>2
  <2> QED  BY <2>1 DEF Line
<1>5. \A i, j \in DOMAIN file : i < j => file[i].uid < file[j].uid
  BY <1>2 DEF Increasing
<1>6. \A m, n \in DOMAIN heap' : heap'[m].uid = heap'[n].uid => m = n
  <2>1. \A m, n \in DOMAIN file : m < n \/ n < m \/ m = n
    BY <1>3
  <2> QED  BY <1>1, <1>3, <1>4, <1>5, <2>1
<1>7. \A n \in DOMAIN heap' : heap'[n].uid <= lastUid'
  <2>1. \A n \in DOMAIN file : n < Len(file) \/ n = Len(file)
    BY <1>3
  <2>2. Len(file) \in DOMAIN file
    BY <1>1, <1>3
  <2> QED  BY <1>1, <1>2, <1>3, <1>4, <1>5, <2>1, <2>2
<1> QED  BY <1>6, <1>7 DEF OneUserPerUid, UidsGiven

\* What the accesses to the table do to the rows.
LEMMA UsersServe ==
  ASSUME IdentityInv, NEW s \in Sessions, Serve(s)
  PROVE  OneUserPerUid' /\ UidsGiven'
<1>1. /\ TypeOK /\ Typed(s) /\ Fit(s) /\ Denotes(s) /\ OneUserPerUid /\ UidsGiven
  BY DEF IdentityInv, DbsTypeInv, ServeInv, AllFit
<1>2. CASE create_inserts(s)
  <2>1. pc[s] = "create_insert" /\ user_table_insert(arg(s), Len(heap) + 1)
    BY <1>2 DEF create_inserts, Step
  <2>2. arg(s) \in Entry
    BY <1>1, <2>1, EntriesAssumption DEF Fit
  <2>3. PICK r : r = WithUid(arg(s), lastUid + 1)
    OBVIOUS
  <2>4. r \in Row /\ heap' = Append(heap, r) /\ lastUid' = lastUid + 1
    BY <1>1, <2>1, <2>2, <2>3, Inserted DEF user_table_insert
  <2>5. r.uid = lastUid + 1
    BY <2>3 DEF WithUid
  <2> QED  BY <1>1, <2>4, <2>5, NewUser
<1>3. CASE changepass_updates(s)
  <2>1. pc[s] = "changepass_update" /\ heap' = Append(heap, draft[s]) /\ lastUid' = lastUid
    BY <1>3 DEF changepass_updates, Step, user_table_update
  <2>2. draft[s] \in Drafts /\ Known(draft[s])
    BY <1>1, <2>1 DEF Fit, Denotes
  <2>3. draft[s] \in Row
    BY <1>1, <2>2, DraftIsRow
  <2> QED  BY <1>1, <2>1, <2>2, <2>3, SameUser
<1>4. CASE UNCHANGED <<heap, lastUid>>
  BY <1>1, <1>4 DEF OneUserPerUid, UidsGiven
<1>5. create_inserts(s) \/ changepass_updates(s) \/ UNCHANGED <<heap, lastUid>>
  <2>1. CASE \/ connect_reads_lock(s) \/ connect_finds_user(s) \/ connect_reads_user(s)
             \/ check_preconditions(s)
    BY <2>1 DEF connect_reads_lock, connect_finds_user, connect_reads_user, check_preconditions, vars
  <2>2. CASE \/ create_finds_user(s) \/ create_finds_email(s) \/ create_answers(s)
             \/ delete_finds(s) \/ delete_reads_uid(s) \/ changepass_finds(s) \/ changepass_copies(s)
    BY <2>2 DEF create_finds_user, create_finds_email, create_answers, delete_finds,
                delete_reads_uid, changepass_finds, changepass_copies, vars
  <2>3. CASE list_finds(s) \/ search_finds(s) \/ prints(s) \/ blocks(s) \/ unblocks(s)
    BY <2>3 DEF list_finds, search_finds, prints, blocks, unblocks, vars
  <2>4. CASE delete_deletes(s)
    BY <2>4 DEF delete_deletes, user_table_delete
  <2>5. CASE commit_opens(s) \/ commit_closes(s)
    BY <2>5 DEF commit_opens, commit_closes, save_opens, save_closes, vars
  <2>6. ~rolls_back(s)
    BY <1>1 DEF Denotes, rolls_back, Step
  <2> QED  BY <2>1, <2>2, <2>3, <2>4, <2>5, <2>6 DEF Serve
<1> QED  BY <1>2, <1>3, <1>4, <1>5

\* A session comes to stand for the user it logged in.
LEMMA DenotesUser ==
  ASSUME IdentityInv, NEW s \in Sessions, RowsKept,
         \/ Accept(s) \/ HangUp(s) \/ (\E r \in Requests : Receive(s, r)) \/ Send(s)
         \/ Serve(s)
  PROVE  user'[s] # NoRow => Known(user[s])'
<1>1. /\ TypeOK /\ Shape /\ Typed(s) /\ Denotes(s)
  BY DEF IdentityInv, DbsTypeInv, ServeInv
<1>2. CASE user' = user \/ user'[s] = NoRow
  <2>1. CASE user' = user /\ user[s] # NoRow
    <3>1. Known(user[s])
      BY <1>1, <2>1 DEF Denotes
    <3>2. \E n \in DOMAIN heap' :
            user[s].uid = heap'[n].uid /\ user[s].login = heap'[n].login /\ user[s].type = heap'[n].type
      BY <3>1, KnownStays
    <3> QED  BY <2>1, <3>2 DEF Known
  <2> QED  BY <1>2, <2>1
<1>3. CASE connect_reads_user(s) /\ user' # user
  <2>1. pc[s] \in Reading /\ user' = [user EXCEPT ![s] = heap[held[s][1]]] /\ UNCHANGED vars
    BY <1>3 DEF connect_reads_user, Step, Reading, Answer
  <2>2. held[s][1] \in DOMAIN heap
    BY <1>1, <2>1, HoldsRow
  <2>3. user'[s] = heap[held[s][1]] /\ heap' = heap
    BY <1>1, <2>1 DEF Shape, IsPerSession, vars
  <2> QED  BY <2>2, <2>3 DEF Known
<1>4. connect_reads_user(s) \/ user' = user \/ user'[s] = NoRow
  <2>1. Close(s) => user'[s] = NoRow
    BY <1>1 DEF Close, Shape, IsPerSession
  <2>2. CASE Accept(s) \/ HangUp(s) \/ (\E r \in Requests : Receive(s, r)) \/ Send(s)
    BY <2>1, <2>2 DEF Accept, HangUp, Receive, Send, Continue, Answer
  <2>3. CASE connect_reads_lock(s) \/ connect_finds_user(s) \/ check_preconditions(s)
    BY <2>3 DEF connect_reads_lock, connect_finds_user, check_preconditions, Continue, Answer, Hold
  <2>4. CASE \/ create_finds_user(s) \/ create_finds_email(s) \/ create_inserts(s) \/ create_answers(s)
             \/ delete_finds(s) \/ delete_reads_uid(s) \/ delete_deletes(s)
    BY <2>4 DEF create_finds_user, create_finds_email, create_inserts, create_answers, delete_finds,
                delete_reads_uid, delete_deletes, Continue, Answer, Hold, Draft
  <2>5. CASE \/ changepass_finds(s) \/ changepass_copies(s) \/ changepass_updates(s)
             \/ list_finds(s) \/ search_finds(s) \/ prints(s)
    BY <2>5 DEF changepass_finds, changepass_copies, changepass_updates, list_finds, search_finds,
                prints, Continue, Answer, Hold, Draft
  <2>6. CASE blocks(s) \/ unblocks(s) \/ commit_opens(s) \/ commit_closes(s) \/ rolls_back(s)
    BY <2>6 DEF blocks, unblocks, commit_opens, commit_closes, rolls_back, Continue, Answer
  <2> QED  BY <2>2, <2>3, <2>4, <2>5, <2>6 DEF Serve
<1> QED  BY <1>2, <1>3, <1>4

\* The part of Denotes about what the thread does next.
Targets(s) ==
  /\ pc[s] \in {"delete_uid", "changepass_copy"} => heap[held[s][1]].login = arg(s).login
  /\ pc[s] \in {"delete_row", "changepass_update"} => Known(draft[s]) /\ draft[s].login = arg(s).login
  /\ pc[s] # "rollback"

Targeting == {"delete_uid", "changepass_copy", "delete_row", "changepass_update", "rollback"}

LEMMA TargetsStep ==
  ASSUME \A r \in Requests : r.op # "rollback",
         IdentityInv, NEW s \in Sessions,
         \/ Accept(s) \/ HangUp(s) \/ (\E r \in Requests : Receive(s, r)) \/ Send(s)
         \/ Serve(s)
  PROVE  Targets(s)'
<1>1. TypeOK /\ Shape /\ Fit(s) /\ Typed(s) /\ Denotes(s)
  BY DEF IdentityInv, DbsTypeInv, ServeInv, AllFit
<1>2. ASSUME NEW label, Goto(s, label), label \notin Targeting
      PROVE  Targets(s)'
  <2>1. pc'[s] = label
    BY <1>1, <1>2 DEF Goto, Shape, IsPerSession
  <2> QED  BY <1>2, <2>1 DEF Targets, Targeting
<1>3. ASSUME NEW message, Done(s, message) PROVE Targets(s)'
  BY <1>2, <1>3 DEF Done, Targeting
<1>4. ASSUME NEW label \in {"delete_uid", "changepass_copy"}, NEW n,
             user_table_getbyuser(arg(s).login, n), n # 0, Hold(s, label, <<n>>), UNCHANGED vars
      PROVE  Targets(s)'
  <2>1. heap[n].login = arg(s).login
    BY <1>1, <1>4, Looked DEF user_table_getbyuser
  <2>2. PICK users : users = <<n>> /\ Hold(s, label, users)
    BY <1>4
  <2>3. pc'[s] = label /\ held'[s] = users /\ req' = req /\ heap' = heap
    BY <1>1, <1>4, <2>2 DEF Hold, Goto, Shape, IsPerSession, vars
  <2>4. heap'[held'[s][1]].login = arg(s)'.login
    BY <2>1, <2>2, <2>3 DEF arg
  <2> QED  BY <2>3, <2>4 DEF Targets
<1>5. ASSUME NEW label \in {"delete_row", "changepass_update"}, NEW r, Draft(s, label, r), UNCHANGED vars,
             Known(r), r.login = arg(s).login
      PROVE  Targets(s)'
  <2>1. pc'[s] = label /\ draft'[s] = r /\ req' = req /\ heap' = heap
    BY <1>1, <1>5 DEF Draft, Goto, Shape, IsPerSession, vars
  <2>2. Known(draft[s])'
    BY <1>5, <2>1 DEF Known
  <2> QED  BY <1>5, <2>1, <2>2 DEF Targets, arg
<1>6. CASE Accept(s) \/ HangUp(s) \/ (\E r \in Requests : Receive(s, r)) \/ Send(s)
  <2>1. CASE Accept(s) \/ HangUp(s) \/ Send(s)
    <3>1. Goto(s, "ready") \/ Goto(s, "closed")
      BY <2>1 DEF Accept, HangUp, Send, Continue, Close
    <3> QED  BY <1>2, <3>1 DEF Targeting
  <2>2. ASSUME NEW r \in Requests, Receive(s, r) PROVE Targets(s)'
    <3>1. \/ \E message : Done(s, message)
          \/ Goto(s, "farewell")
          \/ Goto(s, IF r.op = "conectar" THEN "dbs_connect" ELSE "_check_preconditions")
      BY <2>2 DEF Receive, Answer
    <3> QED  BY <1>2, <1>3, <3>1 DEF Targeting
  <2> QED  BY <1>6, <2>1, <2>2
<1>7. CASE connect_reads_lock(s) \/ connect_finds_user(s) \/ connect_reads_user(s)
  <2>1. \/ \E message : Done(s, message)
        \/ Goto(s, "connect_find") \/ Goto(s, "connect_login")
    BY <1>7 DEF connect_reads_lock, connect_finds_user, connect_reads_user, Answer, Continue, Hold
  <2> QED  BY <1>2, <1>3, <2>1 DEF Targeting
<1>8. CASE check_preconditions(s)
  <2>1. req[s] \in Requests /\ req[s].op \in Operations
    BY <1>1, <1>8 DEF check_preconditions, Step, Fit
  <2>2. FirstAccess(s) \notin Targeting
    BY <2>1 DEF FirstAccess, Operations, Targeting
  <2>3. (\E message : Done(s, message)) \/ Goto(s, FirstAccess(s))
    BY <1>8 DEF check_preconditions, Answer, Continue
  <2> QED  BY <1>2, <1>3, <2>2, <2>3
<1>9. CASE create_finds_user(s) \/ create_finds_email(s) \/ create_inserts(s) \/ create_answers(s)
  <2>1. \/ \E message : Done(s, message)
        \/ Goto(s, "create_find_email") \/ Goto(s, "create_insert") \/ Goto(s, "create_answer")
    BY <1>9 DEF create_finds_user, create_finds_email, create_inserts, create_answers, Answer, Continue, Hold
  <2> QED  BY <1>2, <1>3, <2>1 DEF Targeting
<1>10. CASE delete_finds(s) \/ changepass_finds(s)
  <2>1. PICK n : /\ user_table_getbyuser(arg(s).login, n)
                 /\ \/ \E message : Done(s, message)
                    \/ n # 0 /\ \E label \in {"delete_uid", "changepass_copy"} : Hold(s, label, <<n>>)
    BY <1>10 DEF delete_finds, changepass_finds, Answer
  <2>2. UNCHANGED vars
    BY <1>10 DEF delete_finds, changepass_finds
  <2> QED  BY <1>3, <1>4, <2>1, <2>2
<1>11. CASE delete_reads_uid(s)
  <2>1. pc[s] = "delete_uid" /\ UNCHANGED vars /\ Draft(s, "delete_row", heap[held[s][1]])
    BY <1>11 DEF delete_reads_uid, Step
  <2>2. held[s][1] \in DOMAIN heap /\ heap[held[s][1]].login = arg(s).login
    BY <1>1, <2>1, HoldsRow DEF Denotes, Reading
  <2>3. Known(heap[held[s][1]])
    BY <2>2 DEF Known
  <2> QED  BY <1>5, <2>1, <2>2, <2>3
<1>12. CASE changepass_copies(s)
  <2>1. PICK r : r = [heap[held[s][1]] EXCEPT !.pass = arg(s).new]
    OBVIOUS
  <2>2. /\ pc[s] = "changepass_copy" /\ UNCHANGED vars
        /\ (\E message : Done(s, message)) \/ Draft(s, "changepass_update", r)
    BY <1>12, <2>1 DEF changepass_copies, Step, Answer
  <2>3. held[s][1] \in DOMAIN heap /\ heap[held[s][1]] \in Row /\ heap[held[s][1]].login = arg(s).login
    BY <1>1, <2>2, HoldsRow DEF Denotes, Reading
  <2>4. r.uid = heap[held[s][1]].uid /\ r.login = heap[held[s][1]].login /\ r.type = heap[held[s][1]].type
    BY <2>1, <2>3 DEF Row
  <2>5. Known(r) /\ r.login = arg(s).login
    BY <2>3, <2>4 DEF Known
  <2> QED  BY <1>3, <1>5, <2>2, <2>5
<1>13. CASE \/ delete_deletes(s) \/ changepass_updates(s) \/ list_finds(s) \/ search_finds(s) \/ prints(s)
            \/ blocks(s) \/ unblocks(s) \/ commit_opens(s) \/ commit_closes(s) \/ rolls_back(s)
  <2>1. \/ \E message : Done(s, message)
        \/ Goto(s, "print") \/ Goto(s, "committing")
    <3>1. CASE delete_deletes(s) \/ changepass_updates(s) \/ list_finds(s) \/ search_finds(s) \/ prints(s)
      BY <3>1 DEF delete_deletes, changepass_updates, list_finds, search_finds, prints, Answer, Hold
    <3>2. CASE blocks(s) \/ unblocks(s) \/ commit_opens(s) \/ commit_closes(s) \/ rolls_back(s)
      BY <3>2 DEF blocks, unblocks, commit_opens, commit_closes, rolls_back, Answer, Continue
    <3> QED  BY <1>13, <3>1, <3>2
  <2> QED  BY <1>2, <1>3, <2>1 DEF Targeting
<1> QED  BY <1>6, <1>7, <1>8, <1>9, <1>10, <1>11, <1>12, <1>13 DEF Serve

LEMMA IdentityStart ==
  ASSUME TypeOK, UidsIncrease, user_table_init
  PROVE  OneUserPerUid' /\ UidsGiven'
<1>1. CASE heap' = <<WithUid(admin, 1001)>> /\ lastUid' = 1001
  <2>1. heap' = <<WithUid(admin, 1001)>> /\ lastUid' = 1001
    BY <1>1
  <2>2. DOMAIN heap' = {1} /\ heap'[1] = WithUid(admin, 1001)
    BY <2>1
  <2>3. heap'[1].uid = 1001
    BY <2>2 DEF WithUid
  <2> QED  BY <2>1, <2>2, <2>3 DEF OneUserPerUid, UidsGiven
<1>2. CASE heap' = <<>>
  <2>1. DOMAIN heap' = {}
    BY <1>2
  <2> QED  BY <2>1 DEF OneUserPerUid, UidsGiven
<1>3. CASE load_table(<<>>)
  BY <1>3, LoadedUsers
<1> QED  BY <1>1, <1>2, <1>3 DEF user_table_init

\* Nobody rolls back: last_uid only grows while the process runs, and a uid
\* that was given once is never given to another user.
LEMMA IdentityNext ==
  ASSUME \A r \in Requests : r.op # "rollback"
  PROVE  IdentityInv /\ [DbsNext]_allVars => IdentityInv'
<1> SUFFICES ASSUME IdentityInv, [DbsNext]_allVars PROVE IdentityInv'
  OBVIOUS
<1>1. /\ DbsTypeInv /\ ServeInv /\ TypeOK /\ Shape /\ UidsIncrease /\ OneUserPerUid /\ UidsGiven
      /\ \A s \in Sessions : Denotes(s)
  BY DEF IdentityInv, DbsTypeInv, ServeInv
<1>2. DbsTypeInv'
  BY <1>1, DbsTypeNext
<1>3. [Next]_vars
  BY <1>1, TableSteps
<1>4. UidsIncrease'
  BY <1>1, <1>3, UidsNext DEF UidsInv
<1>5. CASE UNCHANGED allVars
  <2>1. UNCHANGED <<pc, user, req, held, draft, heap, lastUid>>
    BY <1>5 DEF allVars, vars, dbsVars, sessionVars
  <2>2. OneUserPerUid' /\ UidsGiven'
    BY <1>1, <2>1 DEF OneUserPerUid, UidsGiven
  <2>3. \A s \in Sessions : Denotes(s)'
    BY <1>1, <2>1 DEF Denotes, Known, arg
  <2> QED  BY <1>2, <1>4, <2>2, <2>3 DEF IdentityInv
<1>6. CASE Start \/ Stop \/ \E s \in Sessions : faults(s)
  <2>1. OneUserPerUid' /\ UidsGiven'
    <3>1. CASE Start
      BY <1>1, <3>1, IdentityStart DEF Start
    <3>2. CASE Stop \/ \E s \in Sessions : faults(s)
      <4>1. \A positions : Fault(positions) => Forget
        BY DEF Fault, Crash, Undefined
      <4>2. Forget
        BY <3>2, <4>1 DEF Stop, Kill, faults, table_faults, stale_pointer, stale_params, insert_faults,
                          save_faults, rollback_faults, Crash, Undefined
      <4>3. heap' = <<>>
        BY <4>2 DEF Forget
      <4>4. DOMAIN heap' = {}
        BY <4>3
      <4> QED  BY <4>4 DEF OneUserPerUid, UidsGiven
    <3> QED  BY <1>6, <3>1, <3>2
  <2>2. \A s \in Sessions : pc'[s] = "closed" /\ user'[s] = NoRow
    <3>1. CASE Start
      <4>1. mode # "up" /\ pc' = pc /\ user' = user
        BY <3>1 DEF Start, user_table_init, dbsVars, sessionVars
      <4> QED  BY <1>1, <4>1 DEF DbsTypeInv, AllClosed
    <3>2. CASE Stop \/ \E s \in Sessions : faults(s)
      BY <3>2 DEF Stop, faults, Gone
    <3> QED  BY <1>6, <3>1, <3>2
  <2>3. \A s \in Sessions : Denotes(s)'
    BY <2>2 DEF Denotes
  <2> QED  BY <1>2, <1>4, <2>1, <2>3 DEF IdentityInv
<1>7. ASSUME NEW s \in Sessions,
             \/ Accept(s) \/ HangUp(s) \/ (\E r \in Requests : Receive(s, r))
             \/ Serve(s) \/ Send(s)
      PROVE  IdentityInv'
  <2>1. mode = "up" /\ mode' = "up"
    BY <1>7, StaysUp
  <2>2. RowsKept
    BY <1>1, <1>3, <2>1, RowsStay DEF RowsKept
  <2>3. OneUserPerUid' /\ UidsGiven'
    <3>1. CASE Accept(s) \/ HangUp(s) \/ (\E r \in Requests : Receive(s, r)) \/ Send(s)
      <4>1. heap' = heap /\ lastUid' = lastUid
        BY <3>1 DEF Accept, HangUp, Receive, Send, vars
      <4> QED  BY <1>1, <4>1 DEF OneUserPerUid, UidsGiven
    <3> QED  BY <1>7, <3>1, UsersServe
  <2>4. Denotes(s)'
    <3>1. user'[s] # NoRow => Known(user[s])'
      BY <1>7, <2>2, DenotesUser
    <3>2. Targets(s)'
      BY <1>7, TargetsStep
    <3> QED  BY <3>1, <3>2 DEF Denotes, Targets
  <2>5. ASSUME NEW t \in Sessions, t # s PROVE Denotes(t)'
    <3>1. /\ pc'[t] = pc[t] /\ user'[t] = user[t] /\ req'[t] = req[t] /\ held'[t] = held[t]
          /\ draft'[t] = draft[t]
      BY <1>1, <1>7, <2>5, Outside, Inside DEF OutsideStep, InsideStep, Others
    <3>2. Denotes(t) /\ Typed(t)
      BY <1>1 DEF DbsTypeInv
    <3>3. \A r : Known(r) =>
            \E n \in DOMAIN heap' : r.uid = heap'[n].uid /\ r.login = heap'[n].login /\ r.type = heap'[n].type
      BY <2>2, KnownStays
    <3>4. user'[t] # NoRow => Known(user[t])'
      BY <3>1, <3>2, <3>3 DEF Denotes, Known
    <3>5. pc[t] \in {"delete_uid", "changepass_copy"} => heap'[held[t][1]].login = arg(t).login
      BY <1>1, <2>2, <3>2, HoldsRow DEF Denotes, RowsKept, Reading
    <3>6. pc[t] \in {"delete_row", "changepass_update"} => Known(draft[t])' /\ draft[t].login = arg(t).login
      BY <3>1, <3>2, <3>3 DEF Denotes, Known
    <3> QED  BY <3>1, <3>2, <3>4, <3>5, <3>6 DEF Denotes, arg
  <2>6. \A t \in Sessions : Denotes(t)'
    BY <2>4, <2>5
  <2> QED  BY <1>2, <1>4, <2>3, <2>6 DEF IdentityInv
<1> QED  BY <1>5, <1>6, <1>7 DEF DbsNext

LEMMA IdentityInit == DbsInit => IdentityInv
<1> SUFFICES ASSUME DbsInit PROVE IdentityInv
  OBVIOUS
<1>1. DbsTypeInv
  BY DbsTypeInit
<1>2. /\ DOMAIN heap = {} /\ DOMAIN chain = {}
      /\ file # Missing => Increasing(file)
  BY FileAssumption DEF DbsInit, Init
<1>3. UidsIncrease /\ OneUserPerUid /\ UidsGiven
  BY <1>2 DEF UidsIncrease, OneUserPerUid, UidsGiven
<1>4. \A s \in Sessions : pc[s] = "closed" /\ user[s] = NoRow
  BY DEF DbsInit, AllClosed
<1>5. \A s \in Sessions : Denotes(s)
  BY <1>4 DEF Denotes
<1> QED  BY <1>1, <1>3, <1>5 DEF IdentityInv

LEMMA IdentityAlways ==
  ASSUME \A r \in Requests : r.op # "rollback"
  PROVE  DbsSpec => []IdentityInv
BY IdentityInit, IdentityNext, PTL DEF DbsSpec

\* Unless somebody rolls back, a session never acts for another user than the
\* one that logged in: a row with its uid has that user's login and type
\* (dbs_connect copies them once; insert gives out last_uid + 1).
THEOREM IdentityIsStable ==
  ASSUME \A r \in Requests : r.op # "rollback"
  PROVE  DbsSpec => []IdentityStable
<1>1. IdentityInv => IdentityStable
  <2> SUFFICES ASSUME IdentityInv, NEW s \in Sessions, NEW i \in DOMAIN chain,
                      in_session(s), Live(i), heap[chain[i]].uid = con(s)
               PROVE  heap[chain[i]].login = user[s].login /\ heap[chain[i]].type = user[s].type
    BY DEF IdentityStable
  <2>1. user[s] # NoRow /\ con(s) = user[s].uid
    BY DEF in_session, con
  <2>2. PICK n \in DOMAIN heap :
          user[s].uid = heap[n].uid /\ user[s].login = heap[n].login /\ user[s].type = heap[n].type
    BY <2>1 DEF IdentityInv, Denotes, Known
  <2>3. chain[i] \in DOMAIN heap
    BY Uids DEF IdentityInv, DbsTypeInv, ServeInv
  <2> QED  BY <2>1, <2>2, <2>3 DEF IdentityInv, OneUserPerUid
<1> QED  BY <1>1, IdentityAlways, PTL

\* A row that a delete or an update frees is of the user it was asked for.
LEMMA ActsOnNamed ==
  ASSUME IdentityInv, NEW s \in Sessions, delete_deletes(s) \/ changepass_updates(s)
  PROVE  \A n \in freed' \ freed : heap[n].login = arg(s).login
<1>1. TypeOK /\ Denotes(s) /\ OneUserPerUid
  BY DEF IdentityInv, DbsTypeInv, ServeInv
<1>2. pc[s] \in {"delete_row", "changepass_update"}
  BY DEF delete_deletes, changepass_updates, Step
<1>3. PICK m \in DOMAIN heap : draft[s].uid = heap[m].uid /\ heap[m].login = arg(s).login
  BY <1>1, <1>2 DEF Denotes, Known
<1>4. ASSUME NEW k \in 1..rows, FoundByUid(draft[s].uid, k), Sound(VisitedByUid(draft[s].uid))
      PROVE  heap[chain[k]].login = arg(s).login
  <2>1. k \in DOMAIN chain /\ heap[chain[k]].uid = draft[s].uid
    BY <1>1, <1>4, Found DEF Live
  <2>2. chain[k] \in DOMAIN heap
    BY <1>1, <2>1, Uids
  <2> QED  BY <1>1, <1>3, <2>1, <2>2 DEF OneUserPerUid
<1>5. \/ freed' = freed
      \/ \E k \in 1..rows : /\ FoundByUid(draft[s].uid, k) /\ Sound(VisitedByUid(draft[s].uid))
                            /\ freed' = freed \cup {chain[k]}
  <2>1. rows \in Nat
    BY <1>1 DEF TypeOK
  <2>2. CASE delete_deletes(s)
    <3>1. PICK ret : user_table_delete(draft[s].uid, ret)
      BY <2>2 DEF delete_deletes
    <3> QED  BY <2>1, <3>1 DEF user_table_delete
  <2>3. CASE changepass_updates(s)
    <3>1. PICK ret : user_table_update(draft[s], ret)
      BY <2>3 DEF changepass_updates
    <3> QED  BY <2>1, <3>1 DEF user_table_update
  <2> QED  BY <2>2, <2>3
<1> QED  BY <1>4, <1>5

\* Unless somebody rolls back, the row that a delete or a change of password
\* answered with OK has freed was of the user the request named, although the
\* mutex was released between the lookup, the copy and the change.
THEOREM OkActsOnItsUser ==
  ASSUME \A r \in Requests : r.op # "rollback"
  PROVE  DbsSpec => OkActsOnNamed
<1>1. IdentityInv /\ [DbsNext]_allVars =>
        [\A s \in Sessions :
           pc[s] \in {"delete_row", "changepass_update"} /\ result'[s] = "OK"
             => \A n \in freed' \ freed : heap[n].login = arg(s).login]_allVars
  <2> SUFFICES ASSUME IdentityInv, DbsNext, NEW s \in Sessions,
                      pc[s] \in {"delete_row", "changepass_update"}, result'[s] = "OK"
               PROVE  \A n \in freed' \ freed : heap[n].login = arg(s).login
    BY Zenon
  <2>1. DbsTypeInv /\ ServeInv /\ Shape /\ Typed(s) /\ Fit(s)
    BY DEF IdentityInv, DbsTypeInv, ServeInv, AllFit
  <2>2. result[s] = "none"
    BY <2>1 DEF Typed
  <2>3. CASE Start \/ Stop \/ \E t \in Sessions : faults(t)
    <3>1. result'[s] = "none"
      BY <2>2, <2>3 DEF Start, dbsVars, sessionVars, Stop, faults, Gone
    <3> QED  BY <3>1
  <2>4. ASSUME NEW t \in Sessions,
               \/ Accept(t) \/ HangUp(t) \/ (\E r \in Requests : Receive(t, r))
               \/ Serve(t) \/ Send(t)
        PROVE  t = s
    <3>1. Others(t)
      BY <2>1, <2>4, Outside, Inside DEF OutsideStep, InsideStep
    <3> QED  BY <2>2, <3>1 DEF Others
  <2>5. CASE \/ Accept(s) \/ HangUp(s) \/ (\E r \in Requests : Receive(s, r))
             \/ Serve(s) \/ Send(s)
    <3>1. delete_deletes(s) \/ changepass_updates(s)
      <4>1. ~(Accept(s) \/ HangUp(s) \/ (\E r \in Requests : Receive(s, r)) \/ Send(s))
        BY DEF Accept, HangUp, Receive, Send, Step
      <4>2. ~(\/ connect_reads_lock(s) \/ connect_finds_user(s) \/ connect_reads_user(s)
              \/ check_preconditions(s))
        BY DEF connect_reads_lock, connect_finds_user, connect_reads_user, check_preconditions, Step
      <4>3. ~(\/ create_finds_user(s) \/ create_finds_email(s) \/ create_inserts(s) \/ create_answers(s)
              \/ delete_finds(s) \/ delete_reads_uid(s) \/ changepass_finds(s) \/ changepass_copies(s))
        BY DEF create_finds_user, create_finds_email, create_inserts, create_answers, delete_finds,
               delete_reads_uid, changepass_finds, changepass_copies, Step
      <4>4. ~(\/ list_finds(s) \/ search_finds(s) \/ prints(s) \/ blocks(s) \/ unblocks(s)
              \/ commit_opens(s) \/ commit_closes(s) \/ rolls_back(s))
        BY DEF list_finds, search_finds, prints, blocks, unblocks, commit_opens, commit_closes, rolls_back, Step
      <4> QED  BY <2>5, <4>1, <4>2, <4>3, <4>4 DEF Serve
    <3> QED  BY <3>1, ActsOnNamed
  <2>6. CASE \E t \in Sessions : \/ Accept(t) \/ HangUp(t) \/ (\E r \in Requests : Receive(t, r))
                                 \/ Serve(t) \/ Send(t)
    BY <2>4, <2>5, <2>6
  <2> QED  BY <2>3, <2>6 DEF DbsNext
<1> QED  BY <1>1, IdentityAlways, PTL DEF DbsSpec, OkActsOnNamed

-----------------------------------------------------------------------------
(* Namesakes.                                                              *)

\* What the lookups of crear and cambiarclave found still holds of the list.
Clear(s) ==
  /\ pc[s] \in {"create_find_email", "create_insert"} => \A n \in LinkedRows : heap[n].login # arg(s).login
  /\ pc[s] = "create_insert" => \A n \in LinkedRows : heap[n].email # arg(s).email
  /\ pc[s] = "changepass_copy" => held[s][1] \in LinkedRows
  /\ pc[s] = "changepass_update" =>
       /\ OneWord(draft[s])
       /\ \E n \in LinkedRows : /\ draft[s].uid = heap[n].uid
                                /\ draft[s].login = heap[n].login /\ draft[s].email = heap[n].email

UniqueInv == /\ DbsTypeInv /\ UidsIncrease /\ RowsCountLive /\ Names
             /\ \A s \in Sessions : Clear(s)

\* The texts that come in from outside have no separator in them.
PlainTexts == (\A e \in Entries : OneWord(e)) /\ (\A p \in Passwords : Len(p) = 1)

\* Whatever a thread does to the table, it brings in no namesake.
LEMMA NamesServe ==
  ASSUME PlainTexts, UniqueInv, NEW s \in Sessions, Serve(s)
  PROVE  Names'
<1>1. TypeOK /\ Fit(s) /\ UidsInv /\ Names /\ Clear(s)
  BY DEF UniqueInv, DbsTypeInv, ServeInv, AllFit, UidsInv
<1>2. CASE create_inserts(s)
  <2>1. pc[s] = "create_insert" /\ user_table_insert(arg(s), Len(heap) + 1)
    BY <1>2 DEF create_inserts, Step
  <2>2. arg(s) \in Entry /\ OneWord(arg(s))
    BY <1>1, <2>1, EntriesAssumption DEF Fit, PlainTexts
  <2>3. \A n \in LinkedRows : NamesDiffer(heap[n], arg(s))
    BY <1>1, <2>1 DEF Clear, NamesDiffer
  <2> QED  BY <1>1, <2>1, <2>2, <2>3, NamesInsert
<1>3. CASE delete_deletes(s)
  <2>1. PICK ret \in {0, 1} : user_table_delete(draft[s].uid, ret)
    BY <1>3 DEF delete_deletes
  <2> QED  BY <1>1, <2>1, NamesDelete
<1>4. CASE changepass_updates(s)
  <2>1. pc[s] = "changepass_update" /\ draft[s] \in Drafts
    BY <1>1, <1>4 DEF changepass_updates, Step, Fit
  <2>2. PICK ret \in {0, 1} : user_table_update(draft[s], ret)
    BY <1>4 DEF changepass_updates
  <2>3. draft[s] \in Row
    BY <1>1, <2>1, DraftIsRow
  <2>4. OneWord(draft[s])
    BY <1>1, <2>1 DEF Clear
  <2>5. PICK n \in LinkedRows : /\ draft[s].uid = heap[n].uid
                                /\ draft[s].login = heap[n].login /\ draft[s].email = heap[n].email
    BY <1>1, <2>1 DEF Clear
  <2> QED  BY <1>1, <2>2, <2>3, <2>4, <2>5, NamesUpdate
<1>5. CASE UNCHANGED vars
  BY <1>1, <1>5 DEF vars, Names, RowsOneWord, UniqueRows, LinkedRows, UniqueFile
<1>6. CASE commit_opens(s) \/ commit_closes(s)
  <2>1. save_opens \/ save_closes \/ UNCHANGED vars
    BY <1>6 DEF commit_opens, commit_closes
  <2> QED  BY <1>1, <1>5, <2>1, NamesSave
<1>7. CASE rolls_back(s)
  <2>1. user_table_rollback(-1) \/ user_table_rollback(0)
    BY <1>7 DEF rolls_back
  <2> QED  BY <1>1, <2>1, NamesRollback
<1>8. CASE \/ connect_reads_lock(s) \/ connect_finds_user(s) \/ connect_reads_user(s)
           \/ check_preconditions(s)
  BY <1>5, <1>8 DEF connect_reads_lock, connect_finds_user, connect_reads_user, check_preconditions
<1>9. CASE \/ create_finds_user(s) \/ create_finds_email(s) \/ create_answers(s)
           \/ delete_finds(s) \/ delete_reads_uid(s) \/ changepass_finds(s) \/ changepass_copies(s)
  BY <1>5, <1>9 DEF create_finds_user, create_finds_email, create_answers, delete_finds,
              delete_reads_uid, changepass_finds, changepass_copies
<1>10. CASE list_finds(s) \/ search_finds(s) \/ prints(s) \/ blocks(s) \/ unblocks(s)
  BY <1>5, <1>10 DEF list_finds, search_finds, prints, blocks, unblocks
<1> QED  BY <1>2, <1>3, <1>4, <1>6, <1>7, <1>8, <1>9, <1>10 DEF Serve

Clearing == {"create_find_email", "create_insert", "changepass_copy", "changepass_update"}

\* A thread looks before it changes, and nobody else changes in between.
LEMMA ClearStep ==
  ASSUME PlainTexts, UniqueInv, NEW s \in Sessions,
         \/ Accept(s) \/ HangUp(s) \/ (\E r \in Requests : Receive(s, r)) \/ Send(s)
         \/ Serve(s)
  PROVE  Clear(s)'
<1>1. TypeOK /\ Shape /\ Fit(s) /\ Typed(s) /\ UidsInv /\ RowsCountLive /\ Names /\ Clear(s)
  BY DEF UniqueInv, DbsTypeInv, ServeInv, AllFit, UidsInv
<1>2. ASSUME NEW label, Goto(s, label), label \notin Clearing
      PROVE  Clear(s)'
  <2>1. pc'[s] = label
    BY <1>1, <1>2 DEF Goto, Shape, IsPerSession
  <2> QED  BY <1>2, <2>1 DEF Clear, Clearing
<1>3. ASSUME NEW message, Done(s, message) PROVE Clear(s)'
  BY <1>2, <1>3 DEF Done, Clearing
<1>4. CASE Accept(s) \/ HangUp(s) \/ (\E r \in Requests : Receive(s, r)) \/ Send(s)
  <2>1. CASE Accept(s) \/ HangUp(s) \/ Send(s)
    <3>1. Goto(s, "ready") \/ Goto(s, "closed")
      BY <2>1 DEF Accept, HangUp, Send, Continue, Close
    <3> QED  BY <1>2, <3>1 DEF Clearing
  <2>2. ASSUME NEW r \in Requests, Receive(s, r) PROVE Clear(s)'
    <3>1. \/ \E message : Done(s, message)
          \/ Goto(s, "farewell")
          \/ Goto(s, IF r.op = "conectar" THEN "dbs_connect" ELSE "_check_preconditions")
      BY <2>2 DEF Receive, Answer
    <3> QED  BY <1>2, <1>3, <3>1 DEF Clearing
  <2> QED  BY <1>4, <2>1, <2>2
<1>5. CASE connect_reads_lock(s) \/ connect_finds_user(s) \/ connect_reads_user(s)
  <2>1. \/ \E message : Done(s, message)
        \/ Goto(s, "connect_find") \/ Goto(s, "connect_login")
    BY <1>5 DEF connect_reads_lock, connect_finds_user, connect_reads_user, Answer, Continue, Hold
  <2> QED  BY <1>2, <1>3, <2>1 DEF Clearing
<1>6. CASE check_preconditions(s)
  <2>1. req[s] \in Requests /\ req[s].op \in Operations
    BY <1>1, <1>6 DEF check_preconditions, Step, Fit
  <2>2. FirstAccess(s) \notin Clearing
    BY <2>1 DEF FirstAccess, Operations, Clearing
  <2>3. (\E message : Done(s, message)) \/ Goto(s, FirstAccess(s))
    BY <1>6 DEF check_preconditions, Answer, Continue
  <2> QED  BY <1>2, <1>3, <2>2, <2>3
<1>7. CASE create_finds_user(s)
  <2>1. PICK n : /\ getby("login", arg(s).login, n)
                 /\ \/ \E message : Done(s, message)
                    \/ n = 0 /\ Continue(s, "create_find_email")
    BY <1>7 DEF create_finds_user, user_table_getbyuser, Answer
  <2>2. CASE n = 0 /\ Continue(s, "create_find_email")
    <3>1. \A m \in LinkedRows : heap[m].login # arg(s).login
      BY <1>1, <2>1, <2>2, Unfound
    <3>2. pc'[s] = "create_find_email" /\ req' = req /\ UNCHANGED vars
      BY <1>1, <1>7, <2>2 DEF Continue, Goto, Shape, IsPerSession, create_finds_user
    <3>3. LinkedRows' = LinkedRows /\ heap' = heap /\ arg(s)' = arg(s)
      BY <3>2 DEF vars, LinkedRows, arg
    <3>4. \A m \in LinkedRows' : heap'[m].login # arg(s)'.login
      BY <3>1, <3>3
    <3> QED  BY <3>2, <3>4 DEF Clear
  <2> QED  BY <1>3, <2>1, <2>2
<1>8. CASE create_finds_email(s)
  <2>1. PICK n : /\ getby("email", arg(s).email, n)
                 /\ \/ \E message : Done(s, message)
                    \/ n = 0 /\ Continue(s, "create_insert")
    BY <1>8 DEF create_finds_email, user_table_getbyemail, Answer
  <2>2. CASE n = 0 /\ Continue(s, "create_insert")
    <3>1. \A m \in LinkedRows : heap[m].email # arg(s).email
      BY <1>1, <2>1, <2>2, Unfound
    <3>2. \A m \in LinkedRows : heap[m].login # arg(s).login
      BY <1>1, <1>8 DEF create_finds_email, Step, Clear
    <3>3. pc'[s] = "create_insert" /\ req' = req /\ UNCHANGED vars
      BY <1>1, <1>8, <2>2 DEF Continue, Goto, Shape, IsPerSession, create_finds_email
    <3>4. LinkedRows' = LinkedRows /\ heap' = heap /\ arg(s)' = arg(s)
      BY <3>3 DEF vars, LinkedRows, arg
    <3>5. \A m \in LinkedRows' : heap'[m].login # arg(s)'.login /\ heap'[m].email # arg(s)'.email
      BY <3>1, <3>2, <3>4
    <3> QED  BY <3>3, <3>5 DEF Clear
  <2> QED  BY <1>3, <2>1, <2>2
<1>9. CASE changepass_finds(s)
  <2>1. PICK n : /\ getby("login", arg(s).login, n)
                 /\ \/ \E message : Done(s, message)
                    \/ n # 0 /\ Hold(s, "changepass_copy", <<n>>)
    BY <1>9 DEF changepass_finds, user_table_getbyuser, Answer
  <2>2. CASE n # 0 /\ Hold(s, "changepass_copy", <<n>>)
    <3>1. n \in LinkedRows
      BY <1>1, <2>1, <2>2, Looked DEF LinkedRows, Live
    <3>2. PICK users : users = <<n>> /\ Hold(s, "changepass_copy", users)
      BY <2>2
    <3>3. pc'[s] = "changepass_copy" /\ held'[s] = users /\ UNCHANGED vars
      BY <1>1, <1>9, <3>2 DEF Hold, Goto, Shape, IsPerSession, changepass_finds
    <3>4. LinkedRows' = LinkedRows
      BY <3>3 DEF vars, LinkedRows
    <3>5. held'[s][1] \in LinkedRows'
      BY <3>1, <3>2, <3>3, <3>4
    <3> QED  BY <3>3, <3>5 DEF Clear
  <2> QED  BY <1>3, <2>1, <2>2
<1>10. CASE changepass_copies(s)
  <2>1. PICK n : n = held[s][1]
    OBVIOUS
  <2>2. PICK r : r = [heap[n] EXCEPT !.pass = arg(s).new]
    OBVIOUS
  <2>3. /\ pc[s] = "changepass_copy" /\ UNCHANGED vars
        /\ (\E message : Done(s, message)) \/ Draft(s, "changepass_update", r)
    BY <1>10, <2>1, <2>2 DEF changepass_copies, Step, Answer
  <2>4. /\ n \in LinkedRows /\ n \in DOMAIN heap /\ heap[n] \in Row /\ OneWord(heap[n])
        /\ Len(arg(s).new) = 1
    BY <1>1, <2>1, <2>3, HoldsRow DEF Clear, Reading, Names, RowsOneWord, Fit, PlainTexts
  <2>5. r.uid = heap[n].uid /\ r.login = heap[n].login /\ r.email = heap[n].email /\ OneWord(r)
    BY <2>2, <2>4 DEF Row, OneWord
  <2>6. CASE Draft(s, "changepass_update", r)
    <3>1. pc'[s] = "changepass_update" /\ draft'[s] = r /\ heap' = heap /\ LinkedRows' = LinkedRows
      BY <1>1, <2>3, <2>6 DEF Draft, Goto, Shape, IsPerSession, vars, LinkedRows
    <3> QED  BY <2>4, <2>5, <3>1 DEF Clear
  <2> QED  BY <1>3, <2>3, <2>6
<1>11. CASE \/ create_inserts(s) \/ create_answers(s) \/ delete_finds(s) \/ delete_reads_uid(s)
            \/ delete_deletes(s) \/ changepass_updates(s)
  <2>1. \/ \E message : Done(s, message)
        \/ Goto(s, "create_answer") \/ Goto(s, "delete_uid") \/ Goto(s, "delete_row")
    BY <1>11 DEF create_inserts, create_answers, delete_finds, delete_reads_uid, delete_deletes,
                 changepass_updates, Answer, Hold, Draft
  <2> QED  BY <1>2, <1>3, <2>1 DEF Clearing
<1>12. CASE \/ list_finds(s) \/ search_finds(s) \/ prints(s) \/ blocks(s) \/ unblocks(s)
            \/ commit_opens(s) \/ commit_closes(s) \/ rolls_back(s)
  <2>1. (\E message : Done(s, message)) \/ Goto(s, "print") \/ Goto(s, "committing")
    <3>1. CASE list_finds(s) \/ search_finds(s) \/ prints(s)
      BY <3>1 DEF list_finds, search_finds, prints, Answer, Hold
    <3>2. CASE blocks(s) \/ unblocks(s) \/ commit_opens(s) \/ commit_closes(s) \/ rolls_back(s)
      BY <3>2 DEF blocks, unblocks, commit_opens, commit_closes, rolls_back, Answer, Continue
    <3> QED  BY <1>12, <3>1, <3>2
  <2> QED  BY <1>2, <1>3, <2>1 DEF Clearing
<1> QED
  BY <1>4, <1>5, <1>6, <1>7, <1>8, <1>9, <1>10, <1>11, <1>12 DEF Serve

LEMMA UniqueNext ==
  ASSUME PlainTexts, \A s, t \in Sessions : s = t
  PROVE  UniqueInv /\ [DbsNext]_allVars => UniqueInv'
<1> SUFFICES ASSUME UniqueInv, [DbsNext]_allVars PROVE UniqueInv'
  OBVIOUS
<1>1. /\ DbsTypeInv /\ ServeInv /\ TypeOK /\ UidsInv /\ CountInv /\ Names
      /\ \A s \in Sessions : Clear(s)
  BY DEF UniqueInv, DbsTypeInv, ServeInv, UidsInv, CountInv
<1>2. DbsTypeInv'
  BY <1>1, DbsTypeNext
<1>3. [Next]_vars
  BY <1>1, TableSteps
<1>4. UidsIncrease' /\ RowsCountLive'
  BY <1>1, <1>3, UidsNext, CountNext DEF UidsInv, CountInv
<1>5. CASE UNCHANGED allVars
  <2>1. UNCHANGED <<pc, req, held, draft, heap, chain, freed, file>>
    BY <1>5 DEF allVars, vars, dbsVars, sessionVars
  <2>2. Names' /\ LinkedRows' = LinkedRows
    BY <1>1, <2>1 DEF Names, RowsOneWord, UniqueRows, LinkedRows, UniqueFile
  <2>3. \A s \in Sessions : Clear(s)'
    BY <1>1, <2>1, <2>2 DEF Clear, arg
  <2> QED  BY <1>2, <1>4, <2>2, <2>3 DEF UniqueInv
<1>6. CASE Start \/ Stop \/ \E s \in Sessions : faults(s)
  <2>1. Names'
    <3>1. CASE Start
      BY <1>1, <3>1, NamesStart DEF Start
    <3>2. CASE Stop
      BY <1>1, <3>2, NamesKill DEF Stop
    <3>3. CASE \E s \in Sessions : faults(s)
      <4>1. \A positions : Fault(positions) => Forget /\ file' = file
        BY DEF Fault, Crash, Undefined
      <4>2. Forget /\ file' = file
        BY <3>3, <4>1 DEF faults, table_faults, stale_pointer, stale_params, insert_faults,
                          save_faults, rollback_faults, Crash, Undefined
      <4>3. UniqueFile'
        BY <1>1, <4>2 DEF Names, UniqueFile
      <4> QED  BY <4>2, <4>3, NamesForget
    <3> QED  BY <1>6, <3>1, <3>2, <3>3
  <2>2. \A s \in Sessions : pc'[s] = "closed"
    <3>1. CASE Start
      <4>1. mode # "up" /\ pc' = pc
        BY <3>1 DEF Start, user_table_init, dbsVars, sessionVars
      <4> QED  BY <1>1, <4>1 DEF DbsTypeInv, AllClosed
    <3>2. CASE Stop \/ \E s \in Sessions : faults(s)
      BY <3>2 DEF Stop, faults, Gone
    <3> QED  BY <1>6, <3>1, <3>2
  <2>3. \A s \in Sessions : Clear(s)'
    BY <2>2 DEF Clear
  <2> QED  BY <1>2, <1>4, <2>1, <2>3 DEF UniqueInv
<1>7. ASSUME NEW s \in Sessions,
             \/ Accept(s) \/ HangUp(s) \/ (\E r \in Requests : Receive(s, r))
             \/ Serve(s) \/ Send(s)
      PROVE  UniqueInv'
  <2>1. Names'
    <3>1. CASE Accept(s) \/ HangUp(s) \/ (\E r \in Requests : Receive(s, r)) \/ Send(s)
      <4>1. UNCHANGED <<heap, chain, freed, file>>
        BY <3>1 DEF Accept, HangUp, Receive, Send, vars
      <4> QED  BY <1>1, <4>1 DEF Names, RowsOneWord, UniqueRows, LinkedRows, UniqueFile
    <3> QED  BY <1>7, <3>1, NamesServe
  <2>2. Clear(s)'
    BY <1>7, ClearStep
  <2>3. \A t \in Sessions : Clear(t)'
    BY <2>2
  <2> QED  BY <1>2, <1>4, <2>1, <2>3 DEF UniqueInv
<1> QED  BY <1>5, <1>6, <1>7 DEF DbsNext

LEMMA UniqueInit ==
  ASSUME InitialFile # Missing => UniqueLines(InitialFile)
  PROVE  DbsInit => UniqueInv
<1> SUFFICES ASSUME DbsInit PROVE UniqueInv
  OBVIOUS
<1>1. DbsTypeInv
  BY DbsTypeInit
<1>2. DOMAIN heap = {} /\ DOMAIN chain = {} /\ file = InitialFile /\ rows = 0
  BY DEF DbsInit, Init
<1>3. UidsIncrease /\ RowsCountLive
  <2>1. LinkedRows = {}
    BY <1>2 DEF LinkedRows
  <2>2. (file # Missing => Increasing(file)) /\ mode = "down"
    BY FileAssumption DEF DbsInit, Init
  <2> QED  BY <1>2, <2>1, <2>2, FS_EmptySet DEF UidsIncrease, RowsCountLive
<1>4. Names
  BY <1>2 DEF Names, RowsOneWord, UniqueRows, LinkedRows, UniqueFile
<1>5. \A s \in Sessions : pc[s] = "closed"
  BY DEF DbsInit, AllClosed
<1>6. \A s \in Sessions : Clear(s)
  BY <1>5 DEF Clear
<1> QED  BY <1>1, <1>3, <1>4, <1>6 DEF UniqueInv

LEMMA UniqueAlways ==
  ASSUME PlainTexts, \A s, t \in Sessions : s = t, InitialFile # Missing => UniqueLines(InitialFile)
  PROVE  DbsSpec => []UniqueInv
BY UniqueInit, UniqueNext, PTL DEF DbsSpec

\* One thread at a time never lets in a namesake: no two users of the list have
\* the same login or the same email, whatever is created, deleted, renewed,
\* saved, cut off in the middle of a save, loaded again or rolled back
\* (dbs_create looks for both before it inserts, under one mutex each time; a
\* second thread between the two is what DbsDuplicate shows).  The texts have
\* no separator, and the file of the first start has no namesakes.
THEOREM UsersAreUnique ==
  ASSUME PlainTexts, \A s, t \in Sessions : s = t, InitialFile # Missing => UniqueLines(InitialFile)
  PROVE  DbsSpec => []UniqueUsers
<1>1. UniqueInv => UniqueUsers
  <2> SUFFICES ASSUME UniqueInv, NEW i \in DOMAIN chain, NEW j \in DOMAIN chain,
                      i # j, Live(i), Live(j)
               PROVE  NamesDiffer(heap[chain[i]], heap[chain[j]])
    BY DEF UniqueUsers, NamesDiffer
  <2>1. UidsInv /\ UniqueRows
    BY DEF UniqueInv, DbsTypeInv, ServeInv, UidsInv, Names
  <2>2. chain[i] # chain[j]
    BY <2>1, PlacesDiffer
  <2>3. chain[i] \in LinkedRows /\ chain[j] \in LinkedRows
    BY DEF LinkedRows, Live
  <2> QED  BY <2>1, <2>2, <2>3 DEF UniqueRows
<1> QED  BY <1>1, UniqueAlways, PTL
=============================================================================
