-------------------------------- MODULE Session --------------------------------
(***************************************************************************)
(* One session: the client's main loop (src/client.c) and its thread in    *)
(* the server (procesar in src/spr.c) over one TCP connection, with the    *)
(* reads and writes of src/lib/socket.c.  The database is any source of    *)
(* results.                                                                *)
(*                                                                         *)
(* Both programs use the same library, so its state is a function of the   *)
(* end.  A read waits for its bytes, ends early at the end of the stream,  *)
(* or times out with part of them; a write may be short.  An end may die   *)
(* at any moment, and the kernel then closes its socket.                   *)
(***************************************************************************)
EXTENDS Wire

CONSTANTS
  MAX_BUFFER_DATA_SIZE,  \* the longest text read is one byte less
  Commands,              \* what the user may type: [op, data]
  Results,               \* what the database may answer: [op, data]
  SERVER_VERSION, NOT_SESSION, INVALID_OPERATION,  \* texts
  NULL

Text == Seq(1..255)

Operations == {OP_CREAR, OP_CAMBIARCLAVE, OP_BORRAR, OP_BUSCAR, OP_LISTAR,
               OP_BLOQUEAR, OP_DESBLOQUEAR, OP_COMMIT, OP_ROLLBACK}
Codes == Operations \cup {OP_CONECTAR, OP_SALIR}

\* A text that fits a buffer has a length that fits the header.
ASSUME BufferAssumption == MAX_BUFFER_DATA_SIZE \in Nat \ {0, 1} /\ MAX_BUFFER_DATA_SIZE - 1 \in Short
ASSUME NullAssumption   == NULL \notin Seq(Byte) \cup [op : Short, data : Text]
ASSUME CommandsAssumption ==
  \A c \in Commands : c.op \in Codes /\ c.data \in Text /\ Len(c.data) < MAX_BUFFER_DATA_SIZE
ASSUME ResultsAssumption ==
  \A r \in Results : r.op \in Codes /\ r.data \in Text /\ Len(r.data) \in Short \ {0}
ASSUME FixedTextsAssumption ==
  \A t \in {SERVER_VERSION, NOT_SESSION, INVALID_OPERATION} :
    t \in Text /\ Len(t) \in 1..(MAX_BUFFER_DATA_SIZE - 1)
\* A text too long for a buffer is a listing, and those begin with LIST_HEADER.
ASSUME ListingAssumption ==
  \A r \in Results : Len(r.data) >= MAX_BUFFER_DATA_SIZE =>
    SubSeq(r.data, 1, 2) = <<117, 105>>

VARIABLES
  pc,              \* the next step of each end
  open,            \* its socket is open
  in,              \* the bytes sent to it and not yet read
  out,             \* the bytes of its packet not yet written
  rst,             \* a reset of its connection: "no", "due" or "in"
  expire_timeout,  \* "no", "yes", or "garbage": true, but never assigned
  op, len, text,   \* the packet it has read
  in_session,      \* of the server's thread
  asked, answered, shown, spoilt  \* history: the request, its answer or NULL,
                                  \* the last text shown, one was not whole

socketVars  == <<open, in, out, rst, expire_timeout>>
historyVars == <<asked, answered, shown, spoilt>>
vars == <<pc, socketVars, op, len, text, in_session, historyVars>>

Ends == {"client", "server"}
Peer(e) == IF e = "client" THEN "server" ELSE "client"

Request(o, d) == [op |-> o, data |-> d]

Left  == {"left", "gave_up", "refused", "failed", "died", "killed"}
Ended == {"exit", "closed", "died", "killed", "corrupt"}
Running(e) == pc[e] \notin Left \cup Ended

Labels == {"hello", "hello_op", "hello_len", "hello_text", "granted", "prompt", "request", "show",
           "greet_op", "greet_len", "greet", "grant", "handle", "answer", "sent",
           "op", "len", "text"} \cup Left \cup Ended

Goto(e, label) == pc' = [pc EXCEPT ![e] = label]

-----------------------------------------------------------------------------
(* The socket library.                                                     *)

\* A bug: __readn tries again after an error and at the end of the stream.
Reads_again(e, n) == {r \in [taken : {n}, late : {FALSE}] : n <= Len(in[e])}

\* How a read of n bytes can end: how many it takes, and whether it timed out.
Reads(e, n) ==
  {r \in [taken : 0..n, late : BOOLEAN] :
     /\ r.taken <= Len(in[e])
     /\ r.late  => r.taken < n
     /\ ~r.late => \/ r.taken = n
                   \/ r.taken = Len(in[e]) /\ (~open[Peer(e)] \/ rst[e] = "in")}

\* A bug: the buffer is not cleared; -1 is a byte of an earlier read.
Buffer_used(e, r, n) == [i \in 1..n |-> IF i <= r.taken THEN in[e][i] ELSE -1]

\* The buffer, cleared before it is read into.
Buffer(e, r, n) == [i \in 1..n |-> IF i <= r.taken THEN in[e][i] ELSE 0]

Take(e, r) ==
  /\ in' = [in EXCEPT ![e] = SubSeq(@, r.taken + 1, Len(@))]
  /\ expire_timeout' = [expire_timeout EXCEPT ![e] = IF r.late THEN "yes" ELSE @]
  /\ UNCHANGED <<open, out, rst>>

\* The end of the thread or of the loop that every read may lead to.
Expired(e) == expire_timeout'[e] # "no"

reads_op(e, label, next, expired) ==
  /\ pc[e] = label
  /\ \E r \in Reads(e, 2) :
       /\ Take(e, r)
       /\ op' = [op EXCEPT ![e] = ntohs(Buffer(e, r, 2))]
  /\ Goto(e, IF Expired(e) THEN expired ELSE next)
  /\ UNCHANGED <<len, text, in_session, historyVars>>

reads_len(e, label, next, expired) ==
  /\ pc[e] = label
  /\ \E r \in Reads(e, 2) :
       /\ Take(e, r)
       /\ len' = [len EXCEPT ![e] = ntohs(Buffer(e, r, 2))]
  /\ Goto(e, IF Expired(e) THEN expired ELSE next)
  /\ UNCHANGED <<op, text, in_session, historyVars>>

\* A bug: expire_timeout is not looked at after the text.
reads_text_anyway(e, label, next, expired) ==
  /\ pc[e] = label
  /\ IF len[e] \in 1..(MAX_BUFFER_DATA_SIZE - 1)
     THEN \E r \in Reads(e, len[e]) :
            /\ Take(e, r)
            /\ text' = [text EXCEPT ![e] = Buffer(e, r, len[e])]
     ELSE text' = [text EXCEPT ![e] = NULL] /\ UNCHANGED socketVars
  /\ Goto(e, next)
  /\ UNCHANGED <<op, len, in_session, historyVars>>

\* socket_readnchar: a text of no bytes, or too long, is not read at all.
reads_text(e, label, next, expired) ==
  /\ pc[e] = label
  /\ IF len[e] \in 1..(MAX_BUFFER_DATA_SIZE - 1)
     THEN \E r \in Reads(e, len[e]) :
            /\ Take(e, r)
            /\ text' = [text EXCEPT ![e] = Buffer(e, r, len[e])]
     ELSE text' = [text EXCEPT ![e] = NULL] /\ UNCHANGED socketVars
  /\ Goto(e, IF Expired(e) THEN expired ELSE next)
  /\ UNCHANGED <<op, len, in_session, historyVars>>

\* A call of write(): the bytes reach the peer, or a peer that has closed
\* answers them with a reset.
writes(e, label, next) ==
  /\ pc[e] = label /\ rst[e] # "in"
  /\ \E k \in 1..Len(out[e]) :
       /\ out' = [out EXCEPT ![e] = SubSeq(@, k + 1, Len(@))]
       /\ in' = [in EXCEPT ![Peer(e)] = IF open[Peer(e)] THEN @ \o SubSeq(out[e], 1, k) ELSE @]
       /\ Goto(e, IF k = Len(out[e]) THEN next ELSE label)
  /\ rst' = [rst EXCEPT ![e] = IF open[Peer(e)] \/ @ # "no" THEN @ ELSE "due"]
  /\ UNCHANGED <<open, expire_timeout, op, len, text, in_session, historyVars>>

\* A bug: the server's loop forgets fatal_error.
write_fails_unseen(e, label, failed) ==
  /\ pc[e] = label /\ rst[e] = "in"
  /\ Goto(e, IF e = "server" THEN "op" ELSE failed) \/ Goto(e, "killed")
  /\ UNCHANGED <<socketVars, op, len, text, in_session, historyVars>>

\* On a connection that was reset, write() fails, or raises SIGPIPE, which
\* neither program handles.
write_fails(e, label, failed) ==
  /\ pc[e] = label /\ rst[e] = "in"
  /\ Goto(e, failed) \/ Goto(e, "killed")
  /\ UNCHANGED <<socketVars, op, len, text, in_session, historyVars>>

sends(e, packet) == out' = [out EXCEPT ![e] = packet] /\ UNCHANGED <<open, in, rst, expire_timeout>>

\* close(), or the kernel for a process that ended: bytes left unread make
\* it a reset.
closes(e) ==
  /\ open' = [open EXCEPT ![e] = FALSE]
  /\ in'   = [in EXCEPT ![e] = <<>>]
  /\ out'  = [out EXCEPT ![e] = <<>>]
  /\ rst'  = [rst EXCEPT ![Peer(e)] = IF in[e] # <<>> /\ @ = "no" THEN "due" ELSE @]
  /\ UNCHANGED <<expire_timeout, op, len, text, in_session, historyVars>>

\* The reset arrives; what was not read yet may be lost.
reset(e) ==
  /\ open[e] /\ rst[e] = "due"
  /\ rst' = [rst EXCEPT ![e] = "in"]
  /\ in' = in \/ in' = [in EXCEPT ![e] = <<>>]
  /\ UNCHANGED <<pc, open, out, expire_timeout, op, len, text, in_session, historyVars>>

-----------------------------------------------------------------------------
(* The server's thread.                                                    *)

\* conection_response: it does not look at expire_timeout.
greets(s) ==
  /\ pc[s] = "greet"
  /\ IF op[s] = OP_SOLICITUD_CONEXION /\ len[s] = 0
     THEN Goto(s, "grant") /\ sends(s, paquete_men(OP_CONCESION_CONEXION, SERVER_VERSION))
     ELSE Goto(s, "exit") /\ UNCHANGED socketVars
  /\ UNCHANGED <<op, len, text, in_session, historyVars>>

\* The answer is written under the code the request was read with, or ERROR.
answers(s, code, data) ==
  /\ Goto(s, "answer")
  /\ op' = [op EXCEPT ![s] = code]
  /\ sends(s, paquete_men(OP_RESPONSE(code), data))
  /\ answered' = Request(code, data)
  /\ UNCHANGED <<len, text, asked, shown, spoilt>>

\* The switch of procesar.
handles(s) ==
  /\ pc[s] = "handle"
  /\ \/ /\ ~in_session /\ op[s] \notin {OP_CONECTAR, OP_SALIR}
        /\ answers(s, op[s], NOT_SESSION) /\ UNCHANGED in_session
     \/ /\ in_session /\ op[s] = OP_CONECTAR
        /\ answers(s, op[s], INVALID_OPERATION) /\ UNCHANGED in_session
     \/ /\ ~in_session /\ op[s] = OP_CONECTAR
        /\ \E r \in Results : r.op = op[s] /\ answers(s, op[s], r.data)
        /\ in_session' \in BOOLEAN
     \/ /\ op[s] = OP_SALIR \/ (in_session /\ op[s] \in Operations)
        /\ \E r \in Results : r.op = op[s] /\ answers(s, op[s], r.data)
        /\ UNCHANGED in_session
     \/ /\ in_session /\ op[s] \notin Codes
        /\ answers(s, ERROR, INVALID_OPERATION) /\ UNCHANGED in_session

answer_sent(s) ==
  /\ pc[s] = "sent"
  /\ Goto(s, IF op[s] = OP_SALIR THEN "exit" ELSE "op")
  /\ UNCHANGED <<socketVars, op, len, text, in_session, historyVars>>

\* thread_exit.  socket_destroy frees the two addresses of the socket_t, which
\* socket_init never assigned: it may end the whole process.
thread_exit(s) ==
  /\ pc[s] = "exit"
  /\ Goto(s, "closed") \/ Goto(s, "corrupt")
  /\ closes(s)

server ==
  LET s == "server"
  IN  \/ reads_op(s, "greet_op", "greet_len", "greet_len")
      \/ reads_len(s, "greet_len", "greet", "greet")
      \/ greets(s) \/ writes(s, "grant", "op") \/ write_fails(s, "grant", "exit")
      \/ reads_op(s, "op", "len", "exit") \/ reads_len(s, "len", "text", "exit")
      \/ reads_text(s, "text", "handle", "exit")
      \/ handles(s) \/ writes(s, "answer", "sent") \/ write_fails(s, "answer", "exit")
      \/ answer_sent(s) \/ thread_exit(s)

-----------------------------------------------------------------------------
(* The client.                                                             *)

\* conection_request does not look at expire_timeout either.
granted(c) ==
  /\ pc[c] = "granted"
  /\ Goto(c, IF op[c] = OP_CONCESION_CONEXION THEN "prompt" ELSE "refused")
  /\ UNCHANGED <<socketVars, op, len, text, in_session, historyVars>>

types(c) ==
  /\ pc[c] = "prompt"
  /\ \E q \in Commands :
       /\ asked' = q /\ answered' = NULL
       /\ sends(c, paquete_men(q.op, q.data))
  /\ Goto(c, "request")
  /\ UNCHANGED <<op, len, text, in_session, shown, spoilt>>

\* A bug: the code of the answer is not compared.
shows_any(c) ==
  /\ pc[c] = "show"
  /\ shown' = text[c]
  /\ spoilt' = (spoilt \/ answered = NULL \/ text[c] # answered.data)
  /\ Goto(c, IF asked.op = OP_SALIR THEN "left" ELSE "prompt")
  /\ UNCHANGED <<socketVars, op, len, text, in_session, asked, answered>>

\* An answer with another code ends the client; salir ends it too.
shows(c) ==
  /\ pc[c] = "show"
  /\ \/ /\ OP_RESPONSE(op[c]) \notin {asked.op, ERROR}
        /\ Goto(c, "failed") /\ UNCHANGED <<shown, spoilt>>
     \/ /\ OP_RESPONSE(op[c]) \in {asked.op, ERROR}
        /\ shown' = text[c]
        /\ spoilt' = (spoilt \/ answered = NULL \/ text[c] # answered.data)
        /\ Goto(c, IF asked.op = OP_SALIR THEN "left" ELSE "prompt")
  /\ UNCHANGED <<socketVars, op, len, text, in_session, asked, answered>>

leaves(c) == pc[c] \in Left /\ open[c] /\ UNCHANGED pc /\ closes(c)

client ==
  LET c == "client"
  IN  \/ writes(c, "hello", "hello_op") \/ write_fails(c, "hello", "failed")
      \/ reads_op(c, "hello_op", "hello_len", "hello_len")
      \/ reads_len(c, "hello_len", "hello_text", "hello_text")
      \/ reads_text(c, "hello_text", "granted", "granted") \/ granted(c)
      \/ writes(c, "request", "op") \/ write_fails(c, "request", "failed")
      \/ reads_op(c, "op", "len", "gave_up") \/ reads_len(c, "len", "text", "gave_up")
      \/ reads_text(c, "text", "show", "gave_up")
      \/ shows(c) \/ leaves(c)

\* A process is killed, from outside or by another of its threads; the
\* client also by the end of its input (strcmp(NULL) in cmdtous).
dies(e) ==
  /\ Running(e) /\ Goto(e, "died")
  /\ UNCHANGED <<socketVars, op, len, text, in_session, historyVars>>

server_gone == pc["server"] \in {"died", "killed"} /\ open["server"] /\ UNCHANGED pc /\ closes("server")

-----------------------------------------------------------------------------
Init ==
  /\ pc = [client |-> "hello", server |-> "greet_op"]
  /\ open = [e \in Ends |-> TRUE]
  /\ in = [e \in Ends |-> <<>>]
  /\ out = [client |-> paquete_men(OP_SOLICITUD_CONEXION, <<>>), server |-> <<>>]
  /\ rst = [e \in Ends |-> "no"]
  \* socket_init clears expire_timeout, socket_create does not.
  /\ expire_timeout \in [client : {"no", "garbage"}, server : {"no"}]
  /\ op = [e \in Ends |-> 0] /\ len = [e \in Ends |-> 0]
  /\ text = [e \in Ends |-> NULL]
  /\ in_session = FALSE
  /\ asked = Request(OP_SOLICITUD_CONEXION, <<>>) /\ answered = NULL
  /\ shown = NULL /\ spoilt = FALSE

Next == \/ server \/ client \/ types("client") \/ server_gone
        \/ \E e \in Ends : dies(e) \/ reset(e)

Spec == Init /\ [][Next]_vars

\* Both programs run and the network delivers resets; the user need not type.
FairSpec == /\ Spec
            /\ WF_vars(server) /\ WF_vars(client) /\ WF_vars(server_gone)
            /\ \A e \in Ends : WF_vars(reset(e))

-----------------------------------------------------------------------------
(* Properties.                                                             *)

\* Type invariant.
SessionTypeOK ==
  /\ pc \in [Ends -> Labels]
  /\ open \in [Ends -> BOOLEAN]
  /\ in \in [Ends -> Seq(Byte)] /\ out \in [Ends -> Seq(Byte)]
  /\ rst \in [Ends -> {"no", "due", "in"}]
  /\ expire_timeout \in [Ends -> {"no", "yes", "garbage"}]
  /\ op \in [Ends -> Short] /\ len \in [Ends -> Short]
  /\ text \in [Ends -> {NULL} \cup Seq(Byte)]
  /\ in_session \in BOOLEAN /\ spoilt \in BOOLEAN

\* Text t is what remains of data when the connection is cut: the buffer was
\* cleared before.  A length cut after its first byte makes it shorter, and empty.
CutOf(t, data) ==
  \/ t = NULL
  \/ \E n \in 1..Len(data) : t = [i \in 1..n |-> 0]
  \/ \E k \in 1..(Len(data) - 1) : t = [i \in DOMAIN data |-> IF i <= k THEN data[i] ELSE 0]

\* The thread serves the request its client made, whole, in order and once.
\* The exception is a client that is gone: what had arrived of its last
\* request is served as if it were whole, and the end of the stream is
\* served as requests with code 0.
ServedIsAsked ==
  pc["server"] = "handle" =>
    \/ /\ answered = NULL
       /\ op["server"] = asked.op
       /\ text["server"] = IF asked.data = <<>> THEN NULL ELSE asked.data
    \/ /\ ~open["client"]
       /\ \/ op["server"] = 0 /\ text["server"] = NULL
          \/ op["server"] = asked.op /\ answered = NULL /\ CutOf(text["server"], asked.data)

\* A request ends: with its answer, or with the end of the client.
RequestEnds ==
  (pc["client"] \in {"request", "op", "len", "text", "show"}) ~> (pc["client"] \in {"prompt"} \cup Left)

\* Once the client has closed, its thread ends: it is no request of code 0
\* that stops it, but the failure of a write.
ThreadEnds == ~open["client"] ~> ~open["server"]

\* A client that stays silent is dropped.
IdleIsDropped == [](<>[](pc["client"] = "prompt") => <>(~open["server"]))
=============================================================================
