------------------------------- MODULE SlrProofs -------------------------------
(***************************************************************************)
(* Theorems about Slr, for any programs, hosts, resources and faults.      *)
(***************************************************************************)
EXTENDS Slr, SequenceTheorems, TLAPS

-----------------------------------------------------------------------------
(* Queues.                                                                 *)

LEMMA EmptyQueue == IsQueue(<<>>)
  BY DEF IsQueue, Contents

LEMMA SeqOfContents ==
  ASSUME NEW S, NEW q \in Seq(S)
  PROVE  q \in Seq(Contents(q))
  BY SeqOfRange, Z3 DEF Contents, Range

LEMMA AppendToQueue ==
  ASSUME NEW q, IsQueue(q), NEW d, IsAnswer(d)
  PROVE  /\ IsQueue(Append(q, d))
         /\ \A i \in DOMAIN Append(q, d) : \/ Append(q, d)[i] = d
                                           \/ i \in DOMAIN q /\ Append(q, d)[i] = q[i]
<1> DEFINE S == Contents(q) \cup {d}
<1>1. q \in Seq(Contents(q)) /\ \A i \in DOMAIN q : IsAnswer(q[i])
  BY DEF IsQueue
<1>2. q \in Seq(S) /\ d \in S
  BY <1>1, SeqMonotonic, Contents(q) \subseteq S
<1> HIDE DEF S
<1>3. /\ Append(q, d) \in Seq(S)
      /\ Len(Append(q, d)) = Len(q) + 1
      /\ \A i \in 1..Len(q) : Append(q, d)[i] = q[i]
      /\ Append(q, d)[Len(q) + 1] = d
  BY <1>2, AppendProperties
<1>4. DOMAIN Append(q, d) = 1..(Len(q) + 1) /\ DOMAIN q = 1..Len(q) /\ Len(q) \in Nat
  BY <1>2, <1>3, LenProperties
<1>5. Append(q, d) \in Seq(Contents(Append(q, d)))
  BY <1>3, SeqOfContents
<1>6. \A i \in DOMAIN Append(q, d) : \/ Append(q, d)[i] = d
                                     \/ i \in DOMAIN q /\ Append(q, d)[i] = q[i]
  BY <1>3, <1>4
<1>. QED  BY <1>1, <1>5, <1>6 DEF IsQueue

LEMMA TailOfQueue ==
  ASSUME NEW q, IsQueue(q), q # <<>>
  PROVE  /\ IsQueue(Tail(q))
         /\ \A i \in DOMAIN Tail(q) : i + 1 \in DOMAIN q /\ Tail(q)[i] = q[i + 1]
         /\ 1 \in DOMAIN q /\ Head(q) = q[1]
<1> DEFINE S == Contents(q)
<1>1. q \in Seq(S) /\ \A i \in DOMAIN q : IsAnswer(q[i])
  BY DEF IsQueue
<1> HIDE DEF S
<1>2. /\ Tail(q) \in Seq(S)
      /\ Len(Tail(q)) = Len(q) - 1
      /\ \A i \in 1..Len(Tail(q)) : Tail(q)[i] = q[i + 1]
  BY <1>1, HeadTailProperties
<1>3. /\ DOMAIN Tail(q) = 1..(Len(q) - 1) /\ DOMAIN q = 1..Len(q)
      /\ Len(q) \in Nat \ {0} /\ Head(q) = q[1]
  BY <1>1, <1>2, LenProperties, EmptySeq
<1>4. \A i \in DOMAIN Tail(q) : i + 1 \in DOMAIN q /\ Tail(q)[i] = q[i + 1]
  BY <1>2, <1>3
<1>5. Tail(q) \in Seq(Contents(Tail(q)))
  BY <1>2, SeqOfContents
<1>. QED  BY <1>1, <1>3, <1>4, <1>5 DEF IsQueue

-----------------------------------------------------------------------------
(* The invariant, and what the actions do to one part of it.               *)

\* The invariant that every step keeps: what is under way, received or found
\* is well formed, and what it says of registrations is true.
SlrInv == SlrTypeOK /\ AnswersTrue

LEMMA CodesDiffer ==
  /\ OP_PETICION_ID \notin {OP_PETICION_REG, OP_PETICION_REC, OP_CONCESION_ID, OP_CONCESION_REG, OP_LOCALIZADOR_REC, ERROR}
  /\ OP_PETICION_REG \notin {OP_PETICION_REC, OP_CONCESION_ID, OP_CONCESION_REG, OP_LOCALIZADOR_REC, ERROR}
  /\ OP_PETICION_REC \notin {OP_CONCESION_ID, OP_CONCESION_REG, OP_LOCALIZADOR_REC, ERROR}
  /\ OP_LOCALIZADOR_REC \notin {OP_CONCESION_ID, OP_CONCESION_REG, ERROR}
  /\ OP_CONCESION_REG \notin {OP_CONCESION_ID, ERROR}
  /\ OP_CONCESION_ID # ERROR
  BY DEF OP_PETICION_ID, OP_PETICION_REG, OP_PETICION_REC, OP_CONCESION_ID, OP_CONCESION_REG, OP_LOCALIZADOR_REC, ERROR

\* What a program's socket holds.
Queued(q, p) == IsQueue(q) /\ \A i \in DOMAIN q : q[i].to = HostOf[p] /\ Truthful(q[i])

LEMMA QueuedEmpty == ASSUME NEW p PROVE Queued(<<>>, p)
  BY EmptyQueue DEF Queued

LEMMA QueuedTail ==
  ASSUME NEW p, NEW q, Queued(q, p), q # <<>>
  PROVE  Queued(Tail(q), p)
  BY TailOfQueue DEF Queued

LEMMA QueuedAppend ==
  ASSUME NEW p, NEW q, Queued(q, p), NEW d, IsAnswer(d), Truthful(d), d.to = HostOf[p]
  PROVE  Queued(Append(q, d), p)
  BY AppendToQueue DEF Queued

\* What a step has to show.
LEMMA StepKeepsInv ==
  ASSUME SlrInv,
         pc' \in [Programs -> Labels],
         DOMAIN queue' = Programs,
         \A p \in Programs : Queued(queue'[p], p),
         \A d \in net' : IsRequest(d) \/ IsAnswer(d),
         \A d \in net' : Truthful(d)',
         registered \subseteq registered',
         registered' \subseteq Resources \X Addresses,
         \/ UNCHANGED located
         \/ \E c \in Clients : \E a \in Addresses : \E p \in Programs :
              /\ located' = [located EXCEPT ![c] = a]
              /\ HostOf[p] = HostOf[c]
              /\ <<ResourceOf[p], a>> \in registered,
         missed' \in [Programs -> BOOLEAN],
         duplicated' \in 0..MaxDuplicates
  PROVE  SlrInv'
<1>1. FoundWasAsked /\ located \in [Clients -> Addresses \cup {None}]
  BY DEF SlrInv, SlrTypeOK, AnswersTrue
<1>2. SlrTypeOK'
  <2>1. located' \in [Clients -> Addresses \cup {None}]
    BY <1>1
  <2>2. \A p \in Programs : IsQueue(queue'[p])
    BY DEF Queued
  <2>. QED  BY <2>1, <2>2 DEF SlrTypeOK
<1>3. FoundWasAsked'
  <2>1. CASE UNCHANGED located
    BY <1>1, <2>1 DEF FoundWasAsked
  <2>2. ASSUME NEW c \in Clients, NEW a \in Addresses, NEW p \in Programs,
               located' = [located EXCEPT ![c] = a],
               HostOf[p] = HostOf[c],
               <<ResourceOf[p], a>> \in registered
        PROVE  FoundWasAsked'
    <3>1. located'[c] = a /\ \A e \in Clients : e # c => located'[e] = located[e]
      BY <1>1, <2>2
    <3>2. <<ResourceOf[p], located'[c]>> \in registered'
      BY <2>2, <3>1
    <3>. QED  BY <1>1, <2>2, <3>1, <3>2 DEF FoundWasAsked
  <2>. QED  BY <2>1, <2>2
<1>4. \A p \in Programs : \A i \in DOMAIN queue'[p] :
        queue'[p][i].to = HostOf[p] /\ Truthful(queue'[p][i])
  BY DEF Queued
<1>5. AnswersTrue'
  BY <1>3, <1>4 DEF AnswersTrue, Truthful
<1>. QED  BY <1>2, <1>5 DEF SlrInv

\* A step that leaves the SLR and the addresses found alone.
LEMMA QuietStep ==
  ASSUME SlrInv, UNCHANGED <<registered, located>>,
         pc' \in [Programs -> Labels],
         DOMAIN queue' = Programs,
         \A p \in Programs : Queued(queue'[p], p),
         \A d \in net' : (IsRequest(d) \/ IsAnswer(d)) /\ Truthful(d),
         missed' \in [Programs -> BOOLEAN],
         duplicated' \in 0..MaxDuplicates
  PROVE  SlrInv'
<1>1. registered \subseteq registered' /\ registered' \subseteq Resources \X Addresses
  BY DEF SlrInv, SlrTypeOK
<1>2. \A d \in net' : Truthful(d)'
  BY DEF Truthful
<1>. QED  BY <1>1, <1>2, StepKeepsInv

LEMMA Parts ==
  ASSUME SlrInv
  PROVE  /\ pc \in [Programs -> Labels]
         /\ DOMAIN queue = Programs
         /\ \A p \in Programs : Queued(queue[p], p)
         /\ \A d \in net : (IsRequest(d) \/ IsAnswer(d)) /\ Truthful(d)
         /\ registered \subseteq Resources \X Addresses
         /\ located \in [Clients -> Addresses \cup {None}]
         /\ missed \in [Programs -> BOOLEAN]
         /\ duplicated \in 0..MaxDuplicates
  BY DEF SlrInv, SlrTypeOK, AnswersTrue, Queued

\* Closing a socket, or taking its first datagram, keeps the queues.
LEMMA QueuesKept ==
  ASSUME SlrInv, NEW p \in Programs, NEW q, Queued(q, p),
         queue' = [queue EXCEPT ![p] = q]
  PROVE  DOMAIN queue' = Programs /\ \A e \in Programs : Queued(queue'[e], e)
<1>1. DOMAIN queue = Programs /\ \A e \in Programs : Queued(queue[e], e)
  BY Parts
<1>2. DOMAIN queue' = DOMAIN queue
  OBVIOUS
<1>3. ASSUME NEW e \in Programs PROVE Queued(queue'[e], e)
  <2>1. CASE e = p
    BY <1>1, <2>1
  <2>2. CASE e # p
    <3>1. queue'[e] = queue[e]
      BY <1>1, <2>2
    <3>. QED  BY <1>1, <3>1
  <2>. QED  BY <2>1, <2>2
<1>. QED  BY <1>1, <1>2, <1>3

-----------------------------------------------------------------------------
(* The steps of the programs.                                              *)

\* A step that moves on and touches nothing else.
LEMMA MovesOn ==
  ASSUME SlrInv, NEW p \in Programs, NEW label \in Labels, Goto(p, label),
         UNCHANGED <<queue, net, registered, located, missed, duplicated>>
  PROVE  SlrInv'
<1>1. pc' \in [Programs -> Labels]
  BY Parts DEF Goto
<1>. QED  BY <1>1, Parts, QuietStep

\* A step that closes the socket and touches nothing else.
LEMMA ClosesOnly ==
  ASSUME SlrInv, NEW p \in Programs, NEW label \in Labels, closes(p, label),
         UNCHANGED <<net, registered, located, missed, duplicated>>
  PROVE  SlrInv'
<1>1. pc' \in [Programs -> Labels] /\ queue' = [queue EXCEPT ![p] = <<>>]
  BY Parts DEF Goto, closes, Labels
<1>2. DOMAIN queue' = Programs /\ \A e \in Programs : Queued(queue'[e], e)
  BY <1>1, QueuedEmpty, QueuesKept
<1>. QED  BY <1>1, <1>2, Parts, QuietStep

LEMMA SendsKeepsInv ==
  ASSUME SlrInv, NEW p \in Programs, NEW op, NEW body, NEW label \in Labels,
         sends(p, op, body, label),
         IsRequest(Datagram(Locator, op, body, p)),
         Truthful(Datagram(Locator, op, body, p))
  PROVE  SlrInv'
<1>1. CASE /\ Goto(p, label) /\ net' = net \cup {Datagram(Locator, op, body, p)}
           /\ UNCHANGED queue /\ UNCHANGED <<registered, located, missed, duplicated>>
  <2>1. pc' \in [Programs -> Labels]
    BY <1>1, Parts DEF Goto, Labels
  <2>2. \A d \in net' : (IsRequest(d) \/ IsAnswer(d)) /\ Truthful(d)
    BY <1>1, Parts
  <2>. QED  BY <1>1, <2>1, <2>2, Parts, QuietStep
<1>2. CASE /\ closes(p, "failed") /\ UNCHANGED net
           /\ UNCHANGED <<registered, located, missed, duplicated>>
  BY <1>2, ClosesOnly DEF Labels
<1>. QED  BY <1>1, <1>2 DEF sends

LEMMA DatagramType ==
  ASSUME NEW p \in Programs, NEW op \in Codes, NEW body
  PROVE  IsDatagram(Datagram(Locator, op, body, p))
  BY DEF IsDatagram, Datagram

LEMMA AsksIdKeepsInv ==
  ASSUME SlrInv, NEW p \in Programs, asks_id(p)
  PROVE  SlrInv'
<1> DEFINE d == Datagram(Locator, OP_PETICION_ID, None, p)
<1>1. d = [to |-> Locator, op |-> OP_PETICION_ID, body |-> None, by |-> p, copy |-> FALSE]
  BY DEF Datagram
<1>2. IsRequest(d)
  BY <1>1 DEF IsRequest, IsDatagram, Codes
<1>3. Truthful(d)
  BY <1>1, CodesDiffer DEF Truthful
<1>. QED  BY <1>2, <1>3, SendsKeepsInv DEF Labels, asks_id

LEMMA AsksKeepsInv ==
  ASSUME SlrInv, NEW p \in Programs, asks(p)
  PROVE  SlrInv'
<1>1. CASE p \in Servers
  <2> DEFINE d == Datagram(Locator, OP_PETICION_REG, <<ResourceOf[p], AddressOf[p]>>, p)
  <2>1. d = [to |-> Locator, op |-> OP_PETICION_REG, body |-> <<ResourceOf[p], AddressOf[p]>>,
             by |-> p, copy |-> FALSE]
    BY DEF Datagram
  <2>2. <<ResourceOf[p], AddressOf[p]>> \in Resources \X Addresses
    BY <1>1 DEF Resources, Addresses
  <2>3. d.op = OP_PETICION_REG /\ d.body \in Resources \X Addresses /\ d.to = Locator /\ IsDatagram(d)
    <3>1. IsDatagram(d)
      BY DatagramType DEF Codes
    <3>2. d.op = OP_PETICION_REG /\ d.body = <<ResourceOf[p], AddressOf[p]>> /\ d.to = Locator
      BY <2>1
    <3>. QED  BY <2>2, <3>1, <3>2
  <2>4. IsRequest(d) /\ Truthful(d)
    BY <2>3, CodesDiffer DEF IsRequest, Truthful
  <2>. QED  BY <1>1, <2>4, SendsKeepsInv DEF Labels, asks
<1>2. CASE p \notin Servers
  <2> DEFINE d == Datagram(Locator, OP_PETICION_REC, ResourceOf[p], p)
  <2>1. d = [to |-> Locator, op |-> OP_PETICION_REC, body |-> ResourceOf[p], by |-> p, copy |-> FALSE]
    BY DEF Datagram
  <2>2. ResourceOf[p] \in Resources
    BY DEF Resources
  <2>3. IsRequest(d)
    BY <2>1, <2>2 DEF IsRequest, IsDatagram, Codes
  <2>4. Truthful(d)
    BY <2>1, CodesDiffer DEF Truthful
  <2>. QED  BY <1>2, <2>3, <2>4, SendsKeepsInv DEF Labels, asks
<1>. QED  BY <1>1, <1>2

LEMMA ReadsIdKeepsInv ==
  ASSUME SlrInv, NEW p \in Programs, reads_id(p)
  PROVE  SlrInv'
<1>1. CASE Goto(p, "ask") /\ queue' = [queue EXCEPT ![p] = Tail(@)]
  <2>1. pc' \in [Programs -> Labels]
    BY <1>1, Parts DEF Goto, Labels
  <2>2. Queued(Tail(queue[p]), p)
    BY Parts, QueuedTail DEF reads_id
  <2>3. DOMAIN queue' = Programs /\ \A e \in Programs : Queued(queue'[e], e)
    BY <1>1, <2>2, QueuesKept
  <2>. QED  BY <2>1, <2>3, Parts, QuietStep DEF reads_id
<1>2. CASE closes(p, "failed")
  BY <1>2, ClosesOnly DEF Labels, reads_id
<1>. QED  BY <1>1, <1>2 DEF reads_id

LEMMA RegistersKeepsInv ==
  ASSUME SlrInv, NEW s \in Servers, registers(s)
  PROVE  SlrInv'
<1>1. s \in Programs
  BY DEF Programs
<1>2. closes(s, "failed") \/ closes(s, "registered")
  BY DEF registers
<1>. QED  BY <1>1, <1>2, ClosesOnly DEF Labels, registers

\* The address a client takes from an answer is one its host asked about.
LEMMA LocatesKeepsInv ==
  ASSUME SlrInv, NEW c \in Clients, locates(c)
  PROVE  SlrInv'
<1>1. c \in Programs
  BY DEF Programs
<1>2. CASE closes(c, "failed") /\ UNCHANGED located
  BY <1>1, <1>2, ClosesOnly DEF Labels, locates
<1>3. CASE /\ slr_request(c, OP_LOCALIZADOR_REC) = "ok"
           /\ closes(c, "located") /\ located' = [located EXCEPT ![c] = Head(queue[c]).body]
  <2> DEFINE d == Head(queue[c])
  <2>1. Queued(queue[c], c) /\ queue[c] # <<>>
    BY <1>1, Parts DEF locates
  <2>2. IsAnswer(d) /\ Truthful(d) /\ d.to = HostOf[c]
    BY <2>1, TailOfQueue DEF Queued, IsQueue
  <2>3. d.op = OP_LOCALIZADOR_REC
    BY <1>3, CodesDiffer DEF slr_request
  <2> HIDE DEF d
  <2>4. d.body \in Addresses /\ d.by \in Programs /\ HostOf[d.by] = HostOf[c]
    BY <2>2, <2>3, CodesDiffer DEF IsAnswer, IsDatagram
  <2>5. <<ResourceOf[d.by], d.body>> \in registered
    BY <2>2, <2>3 DEF Truthful
  <2>6. pc' \in [Programs -> Labels] /\ queue' = [queue EXCEPT ![c] = <<>>]
    BY <1>1, <1>3, Parts DEF Goto, closes, Labels
  <2>7. DOMAIN queue' = Programs /\ \A e \in Programs : Queued(queue'[e], e)
    BY <1>1, <2>6, QueuedEmpty, QueuesKept
  <2>8. \E e \in Clients : \E a \in Addresses : \E p \in Programs :
          /\ located' = [located EXCEPT ![e] = a]
          /\ HostOf[p] = HostOf[e]
          /\ <<ResourceOf[p], a>> \in registered
    BY <1>3, <2>4, <2>5 DEF d
  <2>9. UNCHANGED <<net, registered, missed, duplicated>>
    BY DEF locates
  <2>10. \A e \in net' : (IsRequest(e) \/ IsAnswer(e)) /\ Truthful(e)'
    BY <2>9, Parts DEF Truthful
  <2>. QED  BY <2>6, <2>7, <2>8, <2>9, <2>10, Parts, StepKeepsInv
<1>. QED  BY <1>2, <1>3 DEF locates

LEMMA ProgramsKeepInv ==
  ASSUME SlrInv, NEW p \in Programs, runs(p) \/ dies(p)
  PROVE  SlrInv'
<1>1. CASE opens(p)
  BY <1>1, MovesOn DEF Labels, opens
<1>2. CASE asks_id(p)
  BY <1>2, AsksIdKeepsInv
<1>3. CASE reads_id(p)
  BY <1>3, ReadsIdKeepsInv
<1>4. CASE asks(p)
  BY <1>4, AsksKeepsInv
<1>5. CASE p \in Servers /\ registers(p)
  BY <1>5, RegistersKeepsInv
<1>6. CASE p \in Servers /\ listens(p)
  BY <1>6, MovesOn DEF Labels, listens
<1>7. CASE p \in Clients /\ locates(p)
  BY <1>7, LocatesKeepsInv
<1>8. CASE p \in Clients /\ connects(p)
  BY <1>8, MovesOn DEF Labels, connects
<1>9. CASE dies(p)
  BY <1>9, ClosesOnly DEF Labels, dies
<1>. QED  BY <1>1, <1>2, <1>3, <1>4, <1>5, <1>6, <1>7, <1>8, <1>9 DEF runs

-----------------------------------------------------------------------------
(* The steps of the network and of the SLR.                                *)

LEMMA AstrayType ==
  ASSUME SlrInv, NEW d, Astray(d)
  PROVE  missed' \in [Programs -> BOOLEAN]
  BY Parts DEF Astray

LEMMA DeliversKeepsInv ==
  ASSUME SlrInv, NEW d \in net, delivers(d)
  PROVE  SlrInv'
<1>1. missed' \in [Programs -> BOOLEAN]
  BY AstrayType, Parts DEF delivers
<1>2. \A e \in net' : (IsRequest(e) \/ IsAnswer(e)) /\ Truthful(e)
  BY Parts DEF delivers
<1>3. DOMAIN queue' = Programs /\ \A e \in Programs : Queued(queue'[e], e)
  <2>1. CASE UNCHANGED queue
    BY <2>1, Parts
  <2>2. ASSUME NEW p \in Programs, HostOf[p] = d.to,
               queue' = [queue EXCEPT ![p] = Append(@, d)]
        PROVE  DOMAIN queue' = Programs /\ \A e \in Programs : Queued(queue'[e], e)
    <3>1. ~IsRequest(d)
      BY LocatorAssumption DEF delivers, IsRequest
    <3>2. IsAnswer(d) /\ Truthful(d)
      BY <3>1, Parts
    <3>3. Queued(Append(queue[p], d), p)
      BY <2>2, <3>2, Parts, QueuedAppend
    <3>. QED  BY <2>2, <3>3, QueuesKept
  <2>. QED  BY <2>1, <2>2 DEF delivers
<1>. QED  BY <1>1, <1>2, <1>3, Parts, QuietStep DEF delivers

LEMMA LosesKeepsInv ==
  ASSUME SlrInv, NEW d \in net, loses(d)
  PROVE  SlrInv'
<1>1. missed' \in [Programs -> BOOLEAN]
  BY AstrayType DEF loses
<1>2. \A e \in net' : (IsRequest(e) \/ IsAnswer(e)) /\ Truthful(e)
  BY Parts DEF loses
<1>. QED  BY <1>1, <1>2, Parts, QuietStep DEF loses

LEMMA DuplicatesKeepsInv ==
  ASSUME SlrInv, NEW d \in net, duplicates(d)
  PROVE  SlrInv'
<1> DEFINE e == [d EXCEPT !.copy = TRUE]
<1>1. IsDatagram(d) /\ Truthful(d) /\ (IsRequest(d) \/ IsAnswer(d))
  BY Parts DEF IsRequest, IsAnswer
<1>2. d \in [to : Hosts \cup {Locator}, op : Codes, body : {d.body}, by : Programs, copy : BOOLEAN]
  BY <1>1 DEF IsDatagram
<1>3. /\ e \in [to : Hosts \cup {Locator}, op : Codes, body : {e.body}, by : Programs, copy : BOOLEAN]
      /\ e.to = d.to /\ e.op = d.op /\ e.body = d.body /\ e.by = d.by
  BY <1>2
<1> HIDE DEF e
<1>4. IsRequest(e) \/ IsAnswer(e)
  BY <1>1, <1>3 DEF IsRequest, IsAnswer, IsDatagram
<1>5. Truthful(e)
  BY <1>1, <1>3 DEF Truthful
<1>6. \A f \in net' : (IsRequest(f) \/ IsAnswer(f)) /\ Truthful(f)
  BY <1>4, <1>5, Parts DEF duplicates, e
<1>7. duplicated' \in 0..MaxDuplicates
  BY Parts, DuplicatesAssumption DEF duplicates
<1>. QED  BY <1>6, <1>7, Parts, QuietStep DEF duplicates

\* The SLR answers with what was registered.
LEMMA AnswersAreTrue ==
  ASSUME SlrInv, NEW d \in net, d.to = Locator, NEW a \in Answers(d),
         NEW e, e = [to |-> HostOf[d.by], op |-> a.op, body |-> a.body, by |-> d.by, copy |-> d.copy]
  PROVE  /\ IsAnswer(e) /\ Truthful(e)
         /\ a.op = OP_CONCESION_REG => d.body \in Resources \X Addresses
<1>1. ~IsAnswer(d)
  BY LocatorAssumption DEF IsAnswer, IsDatagram, Hosts
<1>2. IsRequest(d) /\ Truthful(d)
  BY <1>1, Parts
<1>3. d.by \in Programs /\ d.copy \in BOOLEAN /\ HostOf[d.by] \in Hosts
  BY <1>2 DEF IsRequest, IsDatagram, Hosts
<1>4. \/ a.op \in {OP_CONCESION_ID, ERROR}
      \/ a.op = OP_CONCESION_REG /\ d.op = OP_PETICION_REG
      \/ /\ a.op = OP_LOCALIZADOR_REC /\ d.op = OP_PETICION_REC
         /\ a.body \in Addresses /\ <<d.body, a.body>> \in registered
  <2>1. CASE d.op = OP_PETICION_ID
    BY <2>1, CodesDiffer DEF Answers
  <2>2. CASE d.op = OP_PETICION_REG
    BY <2>2, CodesDiffer DEF Answers
  <2>3. CASE d.op = OP_PETICION_REC
    <3> DEFINE S == {b \in Addresses : <<d.body, b>> \in registered}
    <3>1. Answers(d) = {[op |-> ERROR, body |-> Garbage]} \cup {[op |-> OP_LOCALIZADOR_REC, body |-> b] : b \in S}
      BY <2>3, CodesDiffer DEF Answers
    <3>2. CASE a = [op |-> ERROR, body |-> Garbage]
      BY <3>2
    <3>3. ASSUME NEW b \in S, a = [op |-> OP_LOCALIZADOR_REC, body |-> b]
          PROVE  /\ a.op = OP_LOCALIZADOR_REC
                 /\ a.body \in Addresses /\ <<d.body, a.body>> \in registered
      BY <3>3
    <3> HIDE DEF S
    <3>. QED  BY <2>3, <3>1, <3>2, <3>3
  <2>. QED  BY <1>2, <2>1, <2>2, <2>3 DEF IsRequest
<1>5. e \in [to : Hosts \cup {Locator}, op : Codes, body : {e.body}, by : Programs, copy : BOOLEAN]
  BY <1>3, <1>4 DEF Codes
<1>6. IsAnswer(e)
  BY <1>3, <1>4, <1>5 DEF IsAnswer, IsDatagram
<1>7. Truthful(e)
  BY <1>2, <1>4, CodesDiffer DEF Truthful
<1>8. a.op = OP_CONCESION_REG => d.body \in Resources \X Addresses
  BY <1>2, <1>4, CodesDiffer DEF IsRequest
<1>. QED  BY <1>6, <1>7, <1>8

LEMMA SlrKeepsInv ==
  ASSUME SlrInv, NEW d \in net, slr(d)
  PROVE  SlrInv'
<1>1. PICK a \in Answers(d) :
        /\ net' = (net \ {d}) \cup {[Datagram(HostOf[d.by], a.op, a.body, d.by) EXCEPT !.copy = d.copy]}
        /\ registered' = IF a.op = OP_CONCESION_REG THEN registered \cup {d.body} ELSE registered
  BY DEF slr
<1>2. PICK e : e = [to |-> HostOf[d.by], op |-> a.op, body |-> a.body, by |-> d.by, copy |-> d.copy]
  OBVIOUS
<1>3. net' = (net \ {d}) \cup {e}
  BY <1>1, <1>2 DEF Datagram
<1>4. /\ IsAnswer(e) /\ Truthful(e)
      /\ a.op = OP_CONCESION_REG => d.body \in Resources \X Addresses
  BY <1>2, AnswersAreTrue DEF slr
<1>5. registered \subseteq registered' /\ registered' \subseteq Resources \X Addresses
  BY <1>1, <1>4, Parts
<1>6. \A f \in net' : (IsRequest(f) \/ IsAnswer(f)) /\ Truthful(f)
  BY <1>3, <1>4, Parts
<1>7. \A f \in net' : Truthful(f)'
  BY <1>5, <1>6 DEF Truthful
<1>. QED  BY <1>5, <1>6, <1>7, Parts, StepKeepsInv DEF slr

-----------------------------------------------------------------------------
(* The theorems.                                                           *)

LEMMA InitHasInv == Init => SlrInv
<1> SUFFICES ASSUME Init PROVE SlrInv
  OBVIOUS
<1>1. \A p \in Programs : Queued(queue[p], p)
  BY QueuedEmpty DEF Init
<1>2. SlrTypeOK
  BY <1>1, DuplicatesAssumption DEF Init, SlrTypeOK, Queued, Labels
<1>3. AnswersTrue
  BY <1>1 DEF Init, AnswersTrue, FoundWasAsked, Queued
<1>. QED  BY <1>2, <1>3 DEF SlrInv

LEMMA NextKeepsInv == SlrInv /\ [Next]_vars => SlrInv'
<1> SUFFICES ASSUME SlrInv, [Next]_vars PROVE SlrInv'
  OBVIOUS
<1>1. ASSUME NEW p \in Programs, runs(p) \/ dies(p) PROVE SlrInv'
  BY <1>1, ProgramsKeepInv
<1>2. ASSUME NEW c \in Clients, disconnects(c) PROVE SlrInv'
  BY <1>2, MovesOn DEF Labels, disconnects, Programs
<1>3. ASSUME NEW d \in net, delivers(d) PROVE SlrInv'
  BY <1>3, DeliversKeepsInv
<1>4. ASSUME NEW d \in net, loses(d) PROVE SlrInv'
  BY <1>4, LosesKeepsInv
<1>5. ASSUME NEW d \in net, duplicates(d) PROVE SlrInv'
  BY <1>5, DuplicatesKeepsInv
<1>6. ASSUME NEW d \in net, slr(d) PROVE SlrInv'
  BY <1>6, SlrKeepsInv
<1>7. CASE UNCHANGED vars
  BY <1>7, Parts, QuietStep DEF vars
<1>. QED  BY <1>1, <1>2, <1>3, <1>4, <1>5, <1>6, <1>7 DEF Next

LEMMA InvHolds == Spec => []SlrInv
  BY InitHasInv, NextKeepsInv, PTL DEF Spec

\* The type invariant, whatever the network does to the datagrams.
THEOREM ExchangesTypeCorrect == Spec => []SlrTypeOK
<1>1. SlrInv => SlrTypeOK
  BY DEF SlrInv
<1>. QED  BY <1>1, InvHolds, PTL

\* The address a client takes from locate_resource_from_slr was registered for a
\* resource a program of its host asked about: with any number of programs on a
\* host, and any datagrams lost, duplicated, reordered or delivered to the wrong
\* socket.
THEOREM FoundAlwaysAsked == Spec => []FoundWasAsked
<1>1. SlrInv => FoundWasAsked
  BY DEF SlrInv, AnswersTrue
<1>. QED  BY <1>1, InvHolds, PTL

\* "El cliente localiza el recurso en el slr." (slr.c:33): the address a client
\* takes is one of the resource it was asked to find.
LocatedIsAsked ==
  \A c \in Clients : located[c] # None => <<ResourceOf[c], located[c]>> \in registered

\* With one program to a host - the use the port 3490 of client.h and spr.h
\* leaves - a client finds the resource it looks for.
THEOREM LocatedAlwaysAsked ==
  ASSUME \A p, q \in Programs : HostOf[p] = HostOf[q] => p = q
  PROVE  Spec => []LocatedIsAsked
<1>1. FoundWasAsked => LocatedIsAsked
  BY DEF FoundWasAsked, LocatedIsAsked, Programs
<1>. QED  BY <1>1, FoundAlwaysAsked, PTL
=============================================================================
