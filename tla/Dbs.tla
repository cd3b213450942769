--------------------------------- MODULE Dbs ---------------------------------
(***************************************************************************)
(* The database service (src/dbs/dbs.c) as the threads of the server       *)
(* (procesar in src/spr.c) run it: one thread per session, all of them     *)
(* over one user table and one connection_lock.                            *)
(*                                                                         *)
(* A thread takes mutex_user_table or mutex_dbs once per call, never both, *)
(* and carries what it read across them: the outcome of                    *)
(* _check_preconditions, the user_t pointers a lookup returned, the copy   *)
(* changepass prepared.  Each access to shared state is one action; the    *)
(* local code between two accesses goes with the first.  pc[s] names the   *)
(* access the thread of session s makes next.                              *)
(***************************************************************************)
EXTENDS UserTable

CONSTANTS
  Sessions,  \* the connections the server serves at once
  Requests,  \* the requests clients send: [op, arg, ok]
  NoRequest,
  NoRow

\* In a request, op is the operation, arg its parameters; ok is FALSE when the
\* body has fewer words than the operation takes.
ASSUME RequestsAssumption ==
  \A r \in Requests :
    /\ r.ok \/ r.op \in {"conectar", "crear", "cambiarclave", "borrar", "buscar"}
    /\ r.op = "crear" /\ r.ok => r.arg \in Entries
    /\ r.op = "cambiarclave" /\ r.ok => r.arg.new \in Passwords
    /\ r.op = "buscar" /\ r.ok => r.arg.field # "nombre"

VARIABLES
  pc,      \* the next step of the thread
  user,    \* the row dbs_connect copied con and user_type from, or NoRow
  req,     \* the request being served
  held,    \* the user_t pointers it holds
  draft,   \* the row dbs_changepass prepared, or the one dbs_delete read
  result,  \* connection->result, while it is being sent
  connection_lock

sessionVars == <<pc, user, req, held, draft, result>>
dbsVars     == <<sessionVars, connection_lock>>
allVars     == <<vars, dbsVars>>

stype_to_utype(t) == CASE t = <<"administrador">> -> "admin"
                       [] t = <<"operador">>      -> "operator"
                       [] t = <<"usuario">>       -> "user"
                       [] OTHER                   -> "none"

con(s)       == IF user[s] = NoRow THEN 0 ELSE user[s].uid
user_type(s) == IF user[s] = NoRow THEN "none" ELSE stype_to_utype(user[s].type)
in_session(s) == user[s] # NoRow
arg(s)       == req[s].arg

-----------------------------------------------------------------------------
(* Moves of one thread.                                                    *)

Goto(s, label) == pc' = [pc EXCEPT ![s] = label]

\* Go on with what the last access gave; the rest of the connection is as it was.
Continue(s, label) == Goto(s, label) /\ UNCHANGED <<user, req, held, draft, result, connection_lock>>
Hold(s, label, users) == /\ Goto(s, label)
                         /\ held' = [held EXCEPT ![s] = users]
                         /\ UNCHANGED <<user, req, draft, result, connection_lock>>
Draft(s, label, r) == /\ Goto(s, label)
                      /\ draft' = [draft EXCEPT ![s] = r]
                      /\ UNCHANGED <<user, req, held, result, connection_lock>>

\* The handler is done: its locals die and its result goes to the client.
Done(s, message) == /\ Goto(s, "answer")
                    /\ result' = [result EXCEPT ![s] = message]
                    /\ req' = [req EXCEPT ![s] = NoRequest]
                    /\ held' = [held EXCEPT ![s] = <<>>]
                    /\ draft' = [draft EXCEPT ![s] = NoRow]
Answer(s, message) == Done(s, message) /\ UNCHANGED <<user, connection_lock>>

\* thread_exit: the connection is freed; connection_lock is not looked at.
Close(s) == /\ Goto(s, "closed")
            /\ user' = [user EXCEPT ![s] = NoRow]
            /\ req' = [req EXCEPT ![s] = NoRequest]
            /\ held' = [held EXCEPT ![s] = <<>>]
            /\ draft' = [draft EXCEPT ![s] = NoRow]
            /\ result' = [result EXCEPT ![s] = "none"]
            /\ UNCHANGED connection_lock

\* The process is gone, and every thread with it.
AllClosed == /\ pc = [s \in Sessions |-> "closed"]
             /\ user = [s \in Sessions |-> NoRow]
             /\ req = [s \in Sessions |-> NoRequest]
             /\ held = [s \in Sessions |-> <<>>]
             /\ draft = [s \in Sessions |-> NoRow]
             /\ result = [s \in Sessions |-> "none"]
             /\ connection_lock = 0
Gone == /\ pc' = [s \in Sessions |-> "closed"]
        /\ user' = [s \in Sessions |-> NoRow]
        /\ req' = [s \in Sessions |-> NoRequest]
        /\ held' = [s \in Sessions |-> <<>>]
        /\ draft' = [s \in Sessions |-> NoRow]
        /\ result' = [s \in Sessions |-> "none"]
        /\ connection_lock' = 0

Step(s, label) == mode = "up" /\ pc[s] = label

-----------------------------------------------------------------------------
(* procesar.                                                               *)

Accept(s) == Step(s, "closed") /\ Continue(s, "ready") /\ UNCHANGED vars

\* The receive times out, or the client is gone.
HangUp(s) == /\ mode = "up" /\ pc[s] \in {"ready", "answer"}
             /\ Close(s) /\ UNCHANGED vars

Send(s) == /\ UNCHANGED vars
           /\ \/ /\ Step(s, "answer")
                 /\ Goto(s, "ready")
                 /\ result' = [result EXCEPT ![s] = "none"]
                 /\ UNCHANGED <<user, req, held, draft, connection_lock>>
              \/ Step(s, "farewell") /\ Close(s)

Operations == {"crear", "cambiarclave", "borrar", "buscar", "listar",
               "bloquear", "desbloquear", "commit", "rollback"}

\* A request arrives and the switch runs.  What needs no database access is
\* answered at once; salir ends the loop once its answer is sent.
Receive(s, r) ==
  /\ Step(s, "ready") /\ UNCHANGED vars
  /\ \/ /\ ~in_session(s) /\ r.op \notin {"conectar", "salir"}
        /\ Answer(s, "NOT_SESSION")
     \/ /\ in_session(s) /\ r.op \notin Operations \cup {"salir"}
        /\ Answer(s, "INVALID_OPERATION")
     \/ /\ r.op = "salir"
        /\ Goto(s, "farewell")
        /\ result' = [result EXCEPT ![s] = IF con(s) # 0 THEN "SUCCESS_CLOSE" ELSE "NOT_CONNECT"]
        /\ UNCHANGED <<user, req, held, draft, connection_lock>>
     \/ /\ \/ ~in_session(s) /\ r.op = "conectar"
           \/ in_session(s) /\ r.op \in Operations
        /\ Goto(s, IF r.op = "conectar" THEN "dbs_connect" ELSE "_check_preconditions")
        /\ req' = [req EXCEPT ![s] = r]
        /\ UNCHANGED <<user, held, draft, result, connection_lock>>

-----------------------------------------------------------------------------
(* dbs_connect.                                                            *)

\* Mutant: the lock is not looked at.
connect_skips_lock(s) ==
  /\ Step(s, "dbs_connect") /\ UNCHANGED vars
  /\ \/ ~req[s].ok /\ Answer(s, "INVALID_PARAMS")
     \/ req[s].ok /\ Continue(s, "connect_find")

\* connection_lock is read without mutex_dbs.
connect_reads_lock(s) ==
  /\ Step(s, "dbs_connect") /\ UNCHANGED vars
  /\ \/ connection_lock # 0 /\ Answer(s, "IS_BLOCKED")
     \/ connection_lock = 0 /\ ~req[s].ok /\ Answer(s, "INVALID_PARAMS")
     \/ connection_lock = 0 /\ req[s].ok /\ Continue(s, "connect_find")

connect_finds_user(s) ==
  /\ Step(s, "connect_find") /\ UNCHANGED vars
  /\ \E n \in 0..Len(heap) :
       /\ user_table_getbyuser(arg(s).login, n)
       /\ \/ n = 0 /\ Answer(s, "WRONG_USER_PASS")
          \/ n # 0 /\ Hold(s, "connect_login", <<n>>)

connect_reads_user(s) ==
  /\ Step(s, "connect_login") /\ UNCHANGED vars
  /\ held[s][1] \notin freed
  /\ LET u == heap[held[s][1]]
     IN  \/ u.pass # arg(s).pass /\ Answer(s, "WRONG_USER_PASS")
         \/ /\ u.pass = arg(s).pass
            /\ user' = [user EXCEPT ![s] = u]
            /\ Done(s, "SUCCESS_CONNECT") /\ UNCHANGED connection_lock

-----------------------------------------------------------------------------
(* _check_preconditions, and the local tests each handler makes after it.  *)

IsOperator(s) == user_type(s) \in {"admin", "operator"}

\* Where the handler goes when nothing local refuses the request.
FirstAccess(s) ==
  CASE req[s].op = "crear"        -> "create_find_user"
    [] req[s].op = "borrar"       -> "delete_find"
    [] req[s].op = "cambiarclave" -> "changepass_find"
    [] OTHER                      -> req[s].op

\* A session that logged in through a row with uid 0 counts as none.
Refusal(s) ==
  IF con(s) = 0 THEN "NOT_CONNECT"
  ELSE IF ~req[s].ok THEN "INVALID_PARAMS"
  ELSE CASE req[s].op = "crear" /\ stype_to_utype(arg(s).type) = "none" -> "INVALID_USERTYPE"
         [] req[s].op = "borrar" /\ user_type(s) # "admin" -> "NOT_ADMIN_PRIVILEGES"
         [] req[s].op \in {"buscar", "commit", "rollback"} /\ ~IsOperator(s) -> "NOT_PRIVILEGES"
         [] OTHER -> "none"

\* Mutant: the lock is not looked at.
check_skips_lock(s) ==
  /\ Step(s, "_check_preconditions") /\ UNCHANGED vars
  /\ \/ Refusal(s) # "none" /\ Answer(s, Refusal(s))
     \/ Refusal(s) = "none" /\ Continue(s, FirstAccess(s))

check_preconditions(s) ==
  /\ Step(s, "_check_preconditions") /\ UNCHANGED vars
  /\ \/ connection_lock \notin {0, con(s)} /\ Answer(s, "IS_BLOCKED")
     \/ /\ connection_lock \in {0, con(s)}
        /\ \/ Refusal(s) # "none" /\ Answer(s, Refusal(s))
           \/ Refusal(s) = "none" /\ Continue(s, FirstAccess(s))

-----------------------------------------------------------------------------
(* dbs_create.                                                             *)

\* Mutant: a login in use is not refused.
create_ignores_user(s) == Step(s, "create_find_user") /\ UNCHANGED vars /\ Continue(s, "create_find_email")

create_finds_user(s) ==
  /\ Step(s, "create_find_user") /\ UNCHANGED vars
  /\ \E n \in 0..Len(heap) :
       /\ user_table_getbyuser(arg(s).login, n)
       /\ \/ n # 0 /\ Answer(s, "USER_EXIST")
          \/ n = 0 /\ Continue(s, "create_find_email")

create_finds_email(s) ==
  /\ Step(s, "create_find_email") /\ UNCHANGED vars
  /\ \E n \in 0..Len(heap) :
       /\ user_table_getbyemail(arg(s).email, n)
       /\ \/ n # 0 /\ Answer(s, "EMAIL_EXIST")
          \/ n = 0 /\ user_type(s) # "admin" /\ Answer(s, "NOT_ADMIN_PRIVILEGES")
          \/ n = 0 /\ user_type(s) = "admin" /\ Continue(s, "create_insert")

create_inserts(s) ==
  /\ Step(s, "create_insert")
  /\ user_table_insert(arg(s), Len(heap) + 1)
  /\ Hold(s, "create_answer", <<Len(heap) + 1>>)

\* The answer prints u->uid, after the mutex was released.
create_answers(s) ==
  /\ Step(s, "create_answer") /\ UNCHANGED vars
  /\ held[s][1] \notin freed
  /\ Answer(s, "OK")

-----------------------------------------------------------------------------
(* dbs_delete.                                                             *)

delete_finds(s) ==
  /\ Step(s, "delete_find") /\ UNCHANGED vars
  /\ \E n \in 0..Len(heap) :
       /\ user_table_getbyuser(arg(s).login, n)
       /\ \/ n = 0 /\ Answer(s, "USER_NOT_EXIST")
          \/ n # 0 /\ Hold(s, "delete_uid", <<n>>)

delete_reads_uid(s) ==
  /\ Step(s, "delete_uid") /\ UNCHANGED vars
  /\ held[s][1] \notin freed
  /\ Draft(s, "delete_row", heap[held[s][1]])

\* Mutant: the answer prints the user deleted.
delete_prints_row(s) ==
  /\ Step(s, "delete_row")
  /\ \/ user_table_delete(draft[s].uid, 0) /\ Answer(s, "FAIL_DELETE")
     \/ user_table_delete(draft[s].uid, 1) /\ Hold(s, "print", held[s])

delete_deletes(s) ==
  /\ Step(s, "delete_row")
  /\ \/ user_table_delete(draft[s].uid, 0) /\ Answer(s, "FAIL_DELETE")
     \/ user_table_delete(draft[s].uid, 1) /\ Answer(s, "OK")

-----------------------------------------------------------------------------
(* dbs_changepass.                                                         *)

changepass_finds(s) ==
  /\ Step(s, "changepass_find") /\ UNCHANGED vars
  /\ \E n \in 0..Len(heap) :
       /\ user_table_getbyuser(arg(s).login, n)
       /\ \/ n = 0 /\ Answer(s, "USER_NOT_EXIST")
          \/ n # 0 /\ Hold(s, "changepass_copy", <<n>>)

\* Mutant: the new row gets the uid of the session.
changepass_copies_con(s) ==
  /\ Step(s, "changepass_copy") /\ UNCHANGED vars
  /\ held[s][1] \notin freed
  /\ Draft(s, "changepass_update", [heap[held[s][1]] EXCEPT !.uid = con(s), !.pass = arg(s).new])

\* The old password is compared with the new one, never with the stored one.
changepass_copies(s) ==
  /\ Step(s, "changepass_copy") /\ UNCHANGED vars
  /\ held[s][1] \notin freed
  /\ LET u == heap[held[s][1]]
     IN  \/ u.uid # con(s) /\ ~IsOperator(s) /\ Answer(s, "NOT_PRIVILEGES")
         \/ /\ u.uid = con(s) \/ IsOperator(s)
            /\ \/ arg(s).old = arg(s).new /\ Answer(s, "INVALID_PARAMS")
               \/ /\ arg(s).old # arg(s).new
                  /\ Draft(s, "changepass_update", [u EXCEPT !.pass = arg(s).new])

changepass_updates(s) ==
  /\ Step(s, "changepass_update")
  /\ \/ user_table_update(draft[s], 0) /\ Answer(s, "FAIL_CHANGEPASS")
     \/ user_table_update(draft[s], 1) /\ Answer(s, "OK")

-----------------------------------------------------------------------------
(* dbs_list and dbs_search.                                                *)

list_finds(s) ==
  /\ Step(s, "listar") /\ UNCHANGED vars
  /\ Idle /\ Sound(1..Limit)
  /\ Hold(s, "print", user_table_findall)

\* The columns of a search; the name column is not modelled.
column == [login |-> "login", email |-> "email", permisos |-> "type"]

\* A pattern that does not compile never reaches the table.
search_finds(s) ==
  /\ Step(s, "buscar") /\ UNCHANGED vars
  /\ LET field == arg(s).field
     IN  \/ Answer(s, "FAIL_PATTERN_SEARCH")
         \/ Idle /\ rows = 0 /\ Answer(s, "FAIL_PATTERN_SEARCH")
         \/ Idle /\ rows > 0 /\ field \notin DOMAIN column /\ Answer(s, "FAIL_FIELD_SEARCH")
         \/ /\ Idle /\ rows > 0 /\ field \in DOMAIN column
            /\ Sound(Searched(column[field], arg(s).pattern))
            /\ Hold(s, "print", user_table_findbyfield(column[field], arg(s).pattern))

\* The answer prints every row found, after the mutex was released.
prints(s) ==
  /\ Step(s, "print") /\ UNCHANGED vars
  /\ \A i \in DOMAIN held[s] : held[s][i] \notin freed
  /\ Answer(s, "OK")

-----------------------------------------------------------------------------
(* dbs_block, dbs_unblock: under mutex_dbs, but after _check_preconditions *)
(* released it.                                                            *)

blocks(s) ==
  /\ Step(s, "bloquear") /\ UNCHANGED vars
  /\ \/ connection_lock = con(s) /\ Answer(s, "WRONG_OPERATION")
     \/ /\ connection_lock # con(s)
        /\ connection_lock' = con(s)
        /\ Done(s, "SUCCESS_BLOCKED") /\ UNCHANGED user

unblocks(s) ==
  /\ Step(s, "desbloquear") /\ UNCHANGED vars
  /\ \/ connection_lock = 0 /\ Answer(s, "WRONG_OPERATION")
     \/ /\ connection_lock # 0
        /\ connection_lock' = 0
        /\ Done(s, "SUCCESS_UNBLOCKED") /\ UNCHANGED user

-----------------------------------------------------------------------------
(* dbs_commit and dbs_rollback.                                            *)

\* Mutant: a commit that fails leaves the mutex taken.
commit_leaks_mutex(s) ==
  /\ Step(s, "commit")
  /\ save_opens
  /\ Answer(s, "FAIL_COMMIT") \/ Continue(s, "committing")

commit_opens(s) ==
  /\ Step(s, "commit")
  /\ \/ Idle /\ UNCHANGED vars /\ Answer(s, "FAIL_COMMIT")
     \/ save_opens /\ Continue(s, "committing")

commit_closes(s) == Step(s, "committing") /\ save_closes /\ Answer(s, "OK")

rolls_back(s) ==
  /\ Step(s, "rollback")
  /\ \/ user_table_rollback(-1) /\ Answer(s, "FAIL_ROLLBACK")
     \/ user_table_rollback(0) /\ Answer(s, "OK")

-----------------------------------------------------------------------------
(* Faults end the process, or what can be said of it.                      *)

table_faults(s) ==
  \/ /\ Idle
     /\ \/ /\ pc[s] \in {"connect_find", "create_find_user", "delete_find", "changepass_find"}
           /\ Fault(Visited("login", arg(s).login, 1))
        \/ pc[s] = "create_find_email" /\ Fault(Visited("email", arg(s).email, 1))
        \/ pc[s] = "listar" /\ Fault(1..Limit)
        \/ /\ pc[s] = "buscar" /\ rows > 0 /\ arg(s).field \in DOMAIN column
           /\ Fault(Searched(column[arg(s).field], arg(s).pattern))
        \/ /\ pc[s] \in {"delete_row", "changepass_update"}
           /\ Fault(VisitedByUid(draft[s].uid))
  \/ pc[s] = "create_insert" /\ insert_faults
  \/ pc[s] = "committing" /\ save_faults
  \/ pc[s] = "rollback" /\ rollback_faults

\* The thread reads through a pointer whose row another thread has freed.
stale_pointer(s) ==
  /\ mode = "up"
  /\ pc[s] \in {"connect_login", "create_answer", "delete_uid", "changepass_copy", "print"}
  /\ \E i \in DOMAIN held[s] : held[s][i] \in freed
  /\ Undefined

\* requesttoparams sets only the parameters the body has words for; the others
\* are uninitialised, or point into an earlier request that was freed.
stale_params(s) ==
  /\ \/ pc[s] = "dbs_connect"
     \/ pc[s] = "_check_preconditions" /\ con(s) # 0
  /\ mode = "up" /\ connection_lock \in {0, con(s)} /\ ~req[s].ok
  /\ Undefined

faults(s) == (table_faults(s) \/ stale_pointer(s) \/ stale_params(s)) /\ Gone

Stop  == Kill /\ Gone
Start == user_table_init /\ UNCHANGED dbsVars

-----------------------------------------------------------------------------
DbsInit == Init /\ AllClosed

\* What the thread of s does by itself once a request is in.
Serve(s) ==
  \/ connect_reads_lock(s) \/ connect_finds_user(s) \/ connect_reads_user(s)
  \/ check_preconditions(s)
  \/ create_finds_user(s) \/ create_finds_email(s) \/ create_inserts(s) \/ create_answers(s)
  \/ delete_finds(s) \/ delete_reads_uid(s) \/ delete_deletes(s)
  \/ changepass_finds(s) \/ changepass_copies(s) \/ changepass_updates(s)
  \/ list_finds(s) \/ search_finds(s) \/ prints(s)
  \/ blocks(s) \/ unblocks(s)
  \/ commit_opens(s) \/ commit_closes(s) \/ rolls_back(s)

DbsNext ==
  \/ Start \/ Stop
  \/ \E s \in Sessions :
       \/ Accept(s) \/ HangUp(s) \/ (\E r \in Requests : Receive(s, r))
       \/ Serve(s) \/ Send(s) \/ faults(s)

DbsSpec == DbsInit /\ [][DbsNext]_allVars

\* A thread with a request goes on until its answer is ready; a client need not
\* read it.  Strong fairness, because the thread may find mutex_user_table held
\* by a commit again and again: no thread commits twice without a write to and
\* a read from its socket.
FairSpec == DbsSpec /\ \A s \in Sessions : SF_allVars(Serve(s) \/ faults(s))

-----------------------------------------------------------------------------
(* Properties.                                                             *)

Stages == {"closed", "ready", "answer", "farewell", "dbs_connect", "connect_find",
           "connect_login", "_check_preconditions", "create_find_user",
           "create_find_email", "create_insert", "create_answer", "delete_find",
           "delete_uid", "delete_row", "changepass_find", "changepass_copy",
           "changepass_update", "listar", "buscar", "print", "bloquear",
           "desbloquear", "commit", "committing", "rollback"}

\* What connection->result may be; OK stands for every listing and every result that begins so.
Messages == {"none", "NOT_SESSION", "INVALID_OPERATION", "NOT_CONNECT", "WRONG_USER_PASS",
             "SUCCESS_CONNECT", "INVALID_PARAMS", "WRONG_OPERATION", "IS_BLOCKED",
             "FAIL_DELETE", "FAIL_CHANGEPASS", "FAIL_COMMIT", "FAIL_ROLLBACK",
             "FAIL_FIELD_SEARCH", "FAIL_PATTERN_SEARCH", "USER_EXIST", "USER_NOT_EXIST",
             "EMAIL_EXIST", "INVALID_USERTYPE", "NOT_ADMIN_PRIVILEGES", "NOT_PRIVILEGES",
             "SUCCESS_BLOCKED", "SUCCESS_UNBLOCKED", "SUCCESS_CLOSE", "OK"}

\* Type invariant: between requests a thread holds no pointer and no message,
\* and it holds the table mutex across steps exactly while it commits.
DbsTypeOK ==
  /\ pc \in [Sessions -> Stages]
  /\ user \in [Sessions -> Row \cup {NoRow}]
  /\ req \in [Sessions -> Requests \cup {NoRequest}]
  /\ draft \in [Sessions -> Row \cup {NoRow}]
  /\ held \in [Sessions -> Seq(DOMAIN heap)]
  /\ result \in [Sessions -> Messages]
  /\ connection_lock \in Nat
  /\ \A s \in Sessions : pc[s] \in {"closed", "ready", "answer"} => held[s] = <<>> /\ req[s] = NoRequest
  /\ \A s \in Sessions : pc[s] \notin {"answer", "farewell"} => result[s] = "none"
  /\ saving <=> \E s \in Sessions : pc[s] = "committing"
  /\ mode # "up" => AllClosed

\* Every step the service makes is one the table allows its callers, so what
\* is shown of UserTable holds of the table inside the running service.
TableSpec == Spec

Serving(s) == pc[s] \notin {"closed", "ready", "answer", "farewell"}

\* The thread has passed the test of connection_lock of the request it serves.
PastGate(s) == Serving(s) /\ pc[s] \notin {"dbs_connect", "_check_preconditions"}

TableChanges == mode = "up" /\ mode' = "up" /\ <<chain, rows, lastUid, file>>' # <<chain, rows, lastUid, file>>
LockChanges  == mode = "up" /\ mode' = "up" /\ connection_lock' # connection_lock
ByHolder     == \E s \in Sessions : con(s) = connection_lock /\ pc'[s] # pc[s]

\* The system is blocked and every request of another user that passed the
\* test before it was has been answered.
Exclusive == /\ mode = "up" /\ connection_lock # 0
             /\ \A s \in Sessions : PastGate(s) => con(s) = connection_lock

\* From then on bloquear does what it is for: only a session of the holder
\* changes the table or the lock, and no other user gets in.
ExclusiveOnceDrained ==
  [][Exclusive => /\ TableChanges \/ LockChanges => ByHolder
                  /\ mode' = "up" => Exclusive' \/ connection_lock' = 0]_allVars

\* If moreover the holder has no open session (it left, or it timed out,
\* without desbloquear), the service is lost until the process restarts:
\* nobody can log in, the lock stays, the table no longer changes.
Orphaned == Exclusive /\ \A s \in Sessions : con(s) # connection_lock
OrphanLockIsForever ==
  [][Orphaned => \/ mode' # "up"
                 \/ Orphaned' /\ UNCHANGED <<heap, chain, rows, lastUid, file, connection_lock>>]_allVars

\* No two users have the same login or the same email.
UniqueUsers ==
  \A i, j \in DOMAIN chain :
    i # j /\ Live(i) /\ Live(j) => /\ heap[chain[i]].login # heap[chain[j]].login
                                /\ heap[chain[i]].email # heap[chain[j]].email

\* A thread about to read through a pointer holds no freed row.
HeldRowsAllocated ==
  \A s \in Sessions : \A i \in DOMAIN held[s] :
    pc[s] \in {"connect_login", "create_answer", "delete_uid", "changepass_copy", "print"}
      => held[s][i] \notin freed

\* As long as nobody rolls back, the uid a session acts for still denotes the
\* user that logged in, with the same privileges, or nobody.
IdentityStable ==
  \A s \in Sessions : \A i \in DOMAIN chain :
    in_session(s) /\ Live(i) /\ heap[chain[i]].uid = con(s)
      => /\ heap[chain[i]].login = user[s].login
         /\ heap[chain[i]].type = user[s].type

\* A deletion or a change of password takes effect on the user it names: the
\* uid read from that user's row has not become another user's in between.
\* True as long as nobody rolls back.
OkActsOnNamed ==
  [][\A s \in Sessions :
       pc[s] \in {"delete_row", "changepass_update"} /\ result'[s] = "OK"
         => \A n \in freed' \ freed : heap[n].login = arg(s).login]_allVars

\* Every request comes to an answer, or the process ends: no thread waits for a
\* mutex forever, whatever the others ask and whether or not their clients go on.
Answered == \A s \in Sessions : Serving(s) ~> ~Serving(s)

\* A block that is not lifted is effective sooner or later: the requests that
\* passed the test before it come to an end.
BlockTakesEffect ==
  \A uid \in 1001..MaxUid :
    (connection_lock = uid) ~> (connection_lock # uid \/ Exclusive)
=============================================================================
