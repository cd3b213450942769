---------------------------------- MODULE Slr ----------------------------------
(***************************************************************************)
(* How the programs find each other: each server registers its resource    *)
(* with the SLR (register_resource_at_slr) before it listens, each client  *)
(* locates one (locate_resource_from_slr) and connects.  Both exchange two *)
(* datagrams with the SLR: for an id, then for the resource.               *)
(*                                                                         *)
(* All of them use the UDP port 3490 of their host.  A datagram may be     *)
(* lost, delayed, reordered or duplicated; it is sent once and its answer  *)
(* is awaited for ever.  The SLR is not part of the repository.            *)
(***************************************************************************)
EXTENDS Wire

CONSTANTS
  Servers, Clients,  \* programs; a program started again is another member
  HostOf,            \* the host of each
  AddressOf,         \* of a server: the address it registers and listens at
  ResourceOf,        \* what a server registers, what a client looks for
  Faults,            \* a subset of {"lose", "kill"}
  MaxDuplicates,     \* how many datagrams the network may duplicate
  Locator, None, Garbage

Programs  == Servers \cup Clients
Hosts     == {HostOf[p] : p \in Programs}
Addresses == {AddressOf[s] : s \in Servers}
Resources == {ResourceOf[p] : p \in Programs}

ASSUME ProgramsAssumption == Servers \cap Clients = {}
ASSUME LocatorAssumption  == Locator \notin Hosts
ASSUME AddressAssumption  == None \notin Addresses /\ Garbage \notin Addresses /\ None # Garbage
ASSUME DuplicatesAssumption == MaxDuplicates \in Nat

VARIABLES
  pc,          \* the next step of each program
  queue,       \* what its UDP socket has received
  net,         \* the datagrams under way
  registered,  \* of the SLR: the resources and their addresses
  located,     \* of a client: the address it was given, or None
  missed,      \* history: a datagram of this exchange went astray
  duplicated   \* how many datagrams were

vars == <<pc, queue, net, registered, located, missed, duplicated>>

\* Only a request for a resource, and the answer to it, have a name or an
\* address in them.  `by' tells whose exchange it is and `copy' that it is a
\* duplicate, which no program can see.
Datagram(to, op, body, by) == [to |-> to, op |-> op, body |-> body, by |-> by, copy |-> FALSE]

Goto(p, label) == pc' = [pc EXCEPT ![p] = label]

\* The socket is open: a program waits only for datagrams.
Bound(p)   == pc[p] \in {"ask_id", "id", "ask", "answer"}
Waiting(p) == pc[p] \in {"id", "answer"}

\* The end of a program, or of its exchange, closes the socket.
closes(p, label) == Goto(p, label) /\ queue' = [queue EXCEPT ![p] = <<>>]

-----------------------------------------------------------------------------
(* The exchange of a program with the SLR.                                 *)

\* socket_create: SO_REUSEADDR lets several programs bind the port.
opens(p) ==
  /\ pc[p] = "off"
  /\ Goto(p, "ask_id") \/ Goto(p, "failed")
  /\ UNCHANGED <<queue, net, registered, located, missed, duplicated>>

sends(p, op, body, label) ==
  /\ \/ Goto(p, label) /\ net' = net \cup {Datagram(Locator, op, body, p)} /\ UNCHANGED queue
     \/ closes(p, "failed") /\ UNCHANGED net
  /\ UNCHANGED <<registered, located, missed, duplicated>>

asks_id(p) == pc[p] = "ask_id" /\ sends(p, OP_PETICION_ID, None, "id")

asks(p) ==
  /\ pc[p] = "ask"
  /\ sends(p, IF p \in Servers THEN OP_PETICION_REG ELSE OP_PETICION_REC,
           IF p \in Servers THEN <<ResourceOf[p], AddressOf[p]>> ELSE ResourceOf[p], "answer")

\* A bug: any answer but ERROR is taken for the one expected.
slr_request_any(p, op_response) == IF Head(queue[p]).op = ERROR THEN "error" ELSE "ok"

\* A bug: an ERROR is taken for success by every caller.
slr_request_granted(p, op_response) ==
  IF Head(queue[p]).op \in {ERROR, op_response} THEN "ok" ELSE "corrupt"

\* __slr_request compares the code of the answer and nothing else.
slr_request(p, op_response) ==
  LET op == Head(queue[p]).op
  IN  CASE op = ERROR       -> "error"
        [] op = op_response -> "ok"
        [] OTHER            -> "corrupt"

\* A bug: an answer that was not expected is skipped, and the next awaited.
reads_id_again(p) ==
  /\ pc[p] = "id" /\ queue[p] # <<>>
  /\ Goto(p, IF slr_request(p, OP_CONCESION_ID) = "ok" THEN "ask" ELSE "id")
  /\ queue' = [queue EXCEPT ![p] = Tail(@)]
  /\ UNCHANGED <<net, registered, located, missed, duplicated>>

reads_id(p) ==
  /\ pc[p] = "id" /\ queue[p] # <<>>
  /\ IF slr_request(p, OP_CONCESION_ID) = "ok"
     THEN Goto(p, "ask") /\ queue' = [queue EXCEPT ![p] = Tail(@)]
     ELSE closes(p, "failed")
  /\ UNCHANGED <<net, registered, located, missed, duplicated>>

\* An ERROR does not stop a server.
registers(s) ==
  /\ pc[s] = "answer" /\ queue[s] # <<>>
  /\ closes(s, IF slr_request(s, OP_CONCESION_REG) = "corrupt" THEN "failed" ELSE "registered")
  /\ UNCHANGED <<net, registered, located, missed, duplicated>>

locates(c) ==
  /\ pc[c] = "answer" /\ queue[c] # <<>>
  /\ IF slr_request(c, OP_LOCALIZADOR_REC) = "ok"
     THEN closes(c, "located") /\ located' = [located EXCEPT ![c] = Head(queue[c]).body]
     ELSE closes(c, "failed") /\ UNCHANGED located
  /\ UNCHANGED <<net, registered, missed, duplicated>>

-----------------------------------------------------------------------------
(* The rest of both programs' start.                                       *)

\* main of spr.c: bind fails at an address in use, and may fail otherwise.
listens(s) ==
  /\ pc[s] = "registered"
  /\ \/ Goto(s, "failed")
     \/ /\ \A t \in Servers : pc[t] = "serving" => AddressOf[t] # AddressOf[s]
        /\ Goto(s, "serving")
  /\ UNCHANGED <<queue, net, registered, located, missed, duplicated>>

\* main of client.c: the connection comes from port 3490 again, so a host has
\* one to each server.  A failed socket_create is not looked at.
connects(c) ==
  /\ pc[c] = "located"
  /\ \/ Goto(c, "crashed")
     \/ IF /\ \E s \in Servers : pc[s] = "serving" /\ AddressOf[s] = located[c]
           /\ \A d \in Clients : pc[d] = "connected" /\ located[d] = located[c] => HostOf[d] # HostOf[c]
        THEN Goto(c, "connected")
        ELSE Goto(c, "failed")
  /\ UNCHANGED <<queue, net, registered, located, missed, duplicated>>

\* A session ends (module Session).
disconnects(c) ==
  /\ pc[c] = "connected" /\ Goto(c, "left")
  /\ UNCHANGED <<queue, net, registered, located, missed, duplicated>>

dies(p) ==
  /\ "kill" \in Faults
  /\ Bound(p) \/ pc[p] \in {"registered", "serving", "located", "connected"}
  /\ closes(p, "killed")
  /\ UNCHANGED <<net, registered, located, missed, duplicated>>

runs(p) ==
  \/ opens(p) \/ asks_id(p) \/ reads_id(p) \/ asks(p)
  \/ p \in Servers /\ (registers(p) \/ listens(p))
  \/ p \in Clients /\ (locates(p) \/ connects(p))

-----------------------------------------------------------------------------
(* The network and the SLR.                                                *)

Astray(d) == missed' = [missed EXCEPT ![d.by] = @ \/ ~d.copy]

\* Which of several sockets bound to a port gets a datagram is the kernel's
\* choice; without one it is dropped.
delivers(d) ==
  /\ d \in net /\ d.to \in Hosts
  /\ net' = net \ {d}
  /\ \/ \E p \in Programs :
          /\ Bound(p) /\ HostOf[p] = d.to
          /\ queue' = [queue EXCEPT ![p] = Append(@, d)]
          /\ IF p = d.by THEN UNCHANGED missed ELSE Astray(d)
     \/ /\ \A p \in Programs : Bound(p) => HostOf[p] # d.to
        /\ UNCHANGED queue /\ Astray(d)
  /\ UNCHANGED <<pc, registered, located, duplicated>>

loses(d) ==
  /\ "lose" \in Faults /\ d \in net
  /\ net' = net \ {d} /\ Astray(d)
  /\ UNCHANGED <<pc, queue, registered, located, duplicated>>

duplicates(d) ==
  /\ duplicated < MaxDuplicates /\ d \in net
  /\ net' = net \cup {[d EXCEPT !.copy = TRUE]}
  /\ duplicated' = duplicated + 1
  /\ UNCHANGED <<pc, queue, registered, located, missed>>

\* What the SLR may answer.  An answer without an address, read as one that
\* has it, gives the bytes that happen to be there.
Answers(d) ==
  {[op |-> ERROR, body |-> Garbage]} \cup
  CASE d.op = OP_PETICION_ID  -> {[op |-> OP_CONCESION_ID, body |-> Garbage]}
    [] d.op = OP_PETICION_REG -> {[op |-> OP_CONCESION_REG, body |-> Garbage]}
    [] d.op = OP_PETICION_REC ->
         {[op |-> OP_LOCALIZADOR_REC, body |-> a] : a \in {b \in Addresses : <<d.body, b>> \in registered}}

slr(d) ==
  /\ d \in net /\ d.to = Locator
  /\ \E a \in Answers(d) :
       /\ net' = (net \ {d}) \cup {[Datagram(HostOf[d.by], a.op, a.body, d.by) EXCEPT !.copy = d.copy]}
       /\ registered' = IF a.op = OP_CONCESION_REG THEN registered \cup {d.body} ELSE registered
  /\ UNCHANGED <<pc, queue, located, missed, duplicated>>

-----------------------------------------------------------------------------
Init ==
  /\ pc = [p \in Programs |-> "off"]
  /\ queue = [p \in Programs |-> <<>>]
  /\ net = {} /\ registered = {}
  /\ located = [c \in Clients |-> None]
  /\ missed = [p \in Programs |-> FALSE]
  /\ duplicated = 0

Next == \/ \E p \in Programs : runs(p) \/ dies(p)
        \/ \E c \in Clients : disconnects(c)
        \/ \E d \in net : delivers(d) \/ loses(d) \/ duplicates(d) \/ slr(d)

Spec == Init /\ [][Next]_vars

\* Programs run once started, what is not lost arrives, and the SLR answers.
FairSpec ==
  /\ Spec
  /\ \A p \in Programs : WF_vars(runs(p) /\ pc[p] # "off")
  \* Finitely many datagrams are sent: each of them gets its turn.
  /\ WF_vars(\E d \in net : delivers(d) \/ slr(d))

-----------------------------------------------------------------------------
(* Properties.                                                             *)

Codes == {OP_PETICION_ID, OP_PETICION_REG, OP_PETICION_REC,
          OP_CONCESION_ID, OP_CONCESION_REG, OP_LOCALIZADOR_REC, ERROR}

IsDatagram(d) == d \in [to : Hosts \cup {Locator}, op : Codes, body : {d.body}, by : Programs, copy : BOOLEAN]

IsRequest(d) ==
  /\ IsDatagram(d) /\ d.to = Locator
  /\ \/ d.op = OP_PETICION_ID
     \/ d.op = OP_PETICION_REG /\ d.body \in Resources \X Addresses
     \/ d.op = OP_PETICION_REC /\ d.body \in Resources

IsAnswer(d) ==
  /\ IsDatagram(d) /\ d.to = HostOf[d.by]
  /\ \/ d.op \in {OP_CONCESION_ID, OP_CONCESION_REG, ERROR}
     \/ d.op = OP_LOCALIZADOR_REC /\ d.body \in Addresses

Labels == {"off", "ask_id", "id", "ask", "answer", "registered", "serving",
           "located", "connected", "left", "failed", "crashed", "killed"}

Contents(q) == {q[i] : i \in DOMAIN q}
IsQueue(q)  == q \in Seq(Contents(q)) /\ \A i \in DOMAIN q : IsAnswer(q[i])

\* Type invariant.
SlrTypeOK ==
  /\ pc \in [Programs -> Labels]
  /\ DOMAIN queue = Programs
  /\ \A p \in Programs : IsQueue(queue[p])
  /\ \A d \in net : IsRequest(d) \/ IsAnswer(d)
  /\ registered \subseteq Resources \X Addresses
  /\ located \in [Clients -> Addresses \cup {None}]
  /\ missed \in [Programs -> BOOLEAN]
  /\ duplicated \in 0..MaxDuplicates

\* Whatever happens to the datagrams, the address a client tries was registered,
\* for a resource that a program of its host asked the SLR about.
FoundWasAsked ==
  \A c \in Clients : located[c] # None =>
    \E p \in Programs : HostOf[p] = HostOf[c] /\ <<ResourceOf[p], located[c]>> \in registered

\* The strengthening of FoundWasAsked: what the datagrams say is true.
Truthful(d) ==
  /\ d.op = OP_PETICION_REC    => d.body = ResourceOf[d.by]
  /\ d.op = OP_LOCALIZADOR_REC => <<ResourceOf[d.by], d.body>> \in registered
AnswersTrue ==
  /\ \A d \in net : Truthful(d)
  /\ \A p \in Programs : \A i \in DOMAIN queue[p] : queue[p][i].to = HostOf[p] /\ Truthful(queue[p][i])
  /\ FoundWasAsked

\* A program that waits for ever has lost a datagram: to the network, or to
\* another program of its host.
StuckOnlyIfMissed == \A p \in Programs : <>[]Waiting(p) => <>missed[p]
=============================================================================
