----------------------------- MODULE SessionProofs -----------------------------
(***************************************************************************)
(* Proofs about Session for every set of commands and results, and texts   *)
(* of any length that the headers allow: the thread serves what the client *)
(* asked, and the session is a conversation as Exchange describes it.      *)
(*                                                                         *)
(* Both rest on SessionInv: where each end is in the packet it reads, what *)
(* of that packet is still to come, and who of the two has to speak.       *)
(***************************************************************************)
EXTENDS SessionContract, SequenceTheorems, TLAPS

-----------------------------------------------------------------------------
(* The inductive invariant.                                                *)

\* The bytes on their way to e, read in this order.
Coming(e) == in[e] \o out[Peer(e)]

\* Bytes a are those of p after the first k, or the first of them.
Rest(a, p, k) == Len(a) <= Len(p) - k /\ \A i \in 1..Len(a) : a[i] = p[k + i]

\* What comes to e is p after the first k bytes; some may be missing only
\* when the peer has closed.
Follows(e, p, k) == Rest(Coming(e), p, k) /\ (open[Peer(e)] => Len(Coming(e)) = Len(p) - k)

Hello    == Request(OP_SOLICITUD_CONEXION, <<>>)
Question == paquete_men(asked.op, asked.data)
Grant    == paquete_men(OP_CONCESION_CONEXION, SERVER_VERSION)
Reply    == paquete_men(OP_RESPONSE(answered.op), answered.data)

Greeting == {"greet_op", "greet_len", "greet"}
Serving  == {"grant", "op", "len", "text", "handle", "answer", "sent"}
Opening  == {"hello", "hello_op", "hello_len", "hello_text", "granted"}
Waiting  == {"request", "op", "len", "text", "show"}

\* An end that has closed is done, and only a connection closed by the peer
\* is reset.
Connected ==
  /\ pc["client"] \in Opening \cup Waiting \cup {"prompt"} \cup Left
  /\ pc["server"] \in Greeting \cup Serving \cup Ended
  /\ \A e \in Ends : /\ ~open[e] => in[e] = <<>> /\ out[e] = <<>> /\ ~Running(e)
                     /\ rst[e] # "no" => ~open[Peer(e)]

\* Who does not write has written everything.
Written ==
  /\ pc["server"] \in (Greeting \cup Serving) \ {"grant", "answer"} => out["server"] = <<>>
  /\ pc["client"] \in (Opening \cup Waiting \cup {"prompt"}) \ {"hello", "request"} => out["client"] = <<>>

\* Inside a packet no read has timed out.
Watched ==
  /\ pc["server"] \in Serving \ {"grant", "op"} => expire_timeout["server"] = "no"
  /\ pc["client"] \in {"len", "text", "show"} => expire_timeout["client"] = "no"

\* The history variables.
Recorded ==
  /\ asked \in Commands \cup {Hello}
  /\ pc["client"] \in Opening => asked = Hello /\ answered = NULL /\ ~spoilt
  /\ pc["client"] \in Waiting => asked \in Commands
  /\ answered \in {NULL} \cup [op : Short, data : Text]
  /\ open["client"] /\ answered # NULL =>
       /\ asked \in Commands /\ answered.op = asked.op
       /\ Len(answered.data) \in Short \ {0}
       /\ Len(answered.data) >= MAX_BUFFER_DATA_SIZE => SubSeq(answered.data, 1, 2) = <<117, 105>>

\* The question has not been answered.
Pending == answered = NULL /\ asked \in Commands

\* What comes to the server is the question of its client, from where the
\* thread is in it; of a client that is gone, the first bytes of it.
ServerInv ==
  LET s == "server"
  IN  /\ pc[s] \in Greeting => asked = Hello /\ Coming("client") = <<>>
      /\ pc[s] = "greet_op" => Rest(Coming(s), Question, 0)
      /\ pc[s] = "greet_len" /\ expire_timeout[s] = "no" => Rest(Coming(s), Question, 2)
      /\ pc[s] = "greet" /\ expire_timeout[s] = "no" => Coming(s) = <<>>
      /\ pc[s] \in {"grant", "op", "answer", "sent"} /\ expire_timeout[s] = "no" =>
           \/ Coming(s) = <<>>
           \/ Pending /\ Rest(Coming(s), Question, 0)
      /\ pc[s] = "len" =>
           \/ Pending /\ op[s] = asked.op /\ Rest(Coming(s), Question, 2)
           \/ ~open["client"] /\ Coming(s) = <<>> /\ op[s] = 0
      /\ pc[s] = "text" =>
           \/ /\ Pending /\ op[s] = asked.op /\ len[s] = Len(asked.data)
              /\ Rest(Coming(s), Question, 4)
           \/ /\ ~open["client"] /\ Coming(s) = <<>>
              /\ \/ op[s] = 0 /\ len[s] = 0
                 \/ Pending /\ op[s] = asked.op /\ len[s] <= Len(asked.data)
      /\ pc[s] = "handle" =>
           /\ Coming(s) = <<>>
           /\ \/ /\ Pending /\ op[s] = asked.op
                 /\ text[s] = IF asked.data = <<>> THEN NULL ELSE asked.data
              \/ /\ ~open["client"]
                 /\ \/ op[s] = 0 /\ text[s] = NULL
                    \/ Pending /\ op[s] = asked.op /\ CutOf(text[s], asked.data)

\* A code the client takes for no answer.
NoAnswer(code) == OP_RESPONSE(code) \notin Codes \cup {ERROR}

\* What comes to the client begins as a listing does.
Listing ==
  LET a == Coming("client")
  IN  /\ Len(a) >= 1 => a[1] = 117
      /\ Len(a) >= 2 => a[2] = 105
      /\ open["server"] => Len(a) >= 2

\* Once an answer was shown in part its rest is taken for the next header.
AfterSpoilt ==
  LET c == "client"
  IN  /\ pc[c] \in {"prompt", "request", "op"} => Listing
      /\ pc[c] \in {"len", "text", "show"} => NoAnswer(op[c])

\* Until then what comes to the client is the answer to its question, from
\* where it is in it.
BeforeSpoilt ==
  LET c == "client"
  IN  /\ pc[c] = "prompt" => Coming(c) = <<>>
      /\ pc[c] \in {"request", "op"} =>
           IF answered = NULL THEN Coming(c) = <<>> ELSE Follows(c, Reply, 0)
      /\ pc[c] \in {"len", "text", "show"} =>
           \/ NoAnswer(op[c])
           \/ /\ answered # NULL /\ op[c] = OP_RESPONSE(answered.op)
              /\ pc[c] = "len" => Follows(c, Reply, 2)
              /\ pc[c] = "text" =>
                   \/ len[c] = Len(answered.data) /\ Follows(c, Reply, 4)
                   \/ ~open["server"] /\ Coming(c) = <<>> /\ len[c] <= Len(answered.data)
              /\ pc[c] = "show" =>
                   \/ text[c] = answered.data /\ Coming(c) = <<>>
                   \/ text[c] = NULL /\ Listing
                   \/ ~open["server"] /\ Coming(c) = <<>> /\ CutOf(text[c], answered.data)

ClientInv ==
  LET c == "client"
  IN  /\ pc[c] \in {"hello", "hello_op"} => Rest(Coming(c), Grant, 0)
      /\ expire_timeout[c] = "no" =>
           /\ op[c] = OP_CONCESION_CONEXION =>
                /\ pc[c] = "hello_len" => Rest(Coming(c), Grant, 2)
                /\ pc[c] = "hello_text" =>
                     \/ len[c] = Len(SERVER_VERSION) /\ Rest(Coming(c), Grant, 4)
                     \/ ~open["server"] /\ Coming(c) = <<>>
                /\ pc[c] = "granted" => Coming(c) = <<>>
           /\ IF spoilt THEN AfterSpoilt ELSE BeforeSpoilt

\* The client has its answer, or has not asked yet.
Settled ==
  LET c == "client"
  IN  /\ open[c]
      /\ \/ answered # NULL \/ pc[c] = "prompt"
         \/ pc[c] \in {"hello_len", "hello_text", "granted"} /\ op[c] = OP_CONCESION_CONEXION

\* The thread has still to begin with the next request, and nothing of one came.
Awaiting ==
  LET s == "server"
  IN  /\ pc[s] \notin Greeting \cup {"len", "text", "handle"}
      /\ pc[s] \in {"grant", "op", "answer", "sent"} /\ expire_timeout[s] = "no" => Coming(s) = <<>>

\* The two take turns.
InTurn == Settled => Awaiting

SessionInv == /\ SessionTypeOK /\ Connected /\ Written /\ Watched /\ Recorded
              /\ ServerInv /\ ClientInv /\ InTurn

-----------------------------------------------------------------------------
(* Sequences and packets.                                                  *)

LEMMA Joined ==
  ASSUME NEW a \in Seq(Byte), NEW b \in Seq(Byte), NEW c, c = a \o b
  PROVE  /\ c \in Seq(Byte) /\ Len(a) \in Nat /\ Len(b) \in Nat /\ Len(c) = Len(a) + Len(b)
         /\ \A i \in 1..Len(a) : c[i] = a[i]
         /\ \A i \in 1..Len(b) : c[Len(a) + i] = b[i]
<1>1. c \in Seq(Byte) /\ Len(c) = Len(a) + Len(b)
  BY ConcatProperties
<1>2. \A i \in 1..(Len(a) + Len(b)) : c[i] = IF i <= Len(a) THEN a[i] ELSE b[i - Len(a)]
  BY ConcatProperties
<1>3. Len(a) \in Nat /\ Len(b) \in Nat
  BY LenProperties
<1>4. \A i \in 1..Len(a) : c[i] = a[i]
  BY <1>2, <1>3
<1>5. \A i \in 1..Len(b) : c[Len(a) + i] = b[i]
  BY <1>2, <1>3
<1> QED  BY <1>1, <1>3, <1>4, <1>5

LEMMA Halves ==
  ASSUME NEW n \in Int, 0 <= n, n < 65536,
         NEW x, x = (n \div 256) % 256, NEW y, y = n % 256
  PROVE  /\ x \in Int /\ 0 <= x /\ x <= 255
         /\ y \in Int /\ 0 <= y /\ y <= 255
         /\ 256 * x + y = n
<1>1. PICK q \in Int, r \in Int : q = n \div 256 /\ r = n % 256
  OBVIOUS
<1>2. n = 256 * q + r /\ 0 <= r /\ r <= 255
  BY <1>1
<1>3. 0 <= q /\ q <= 255
  BY <1>2
<1>4. q % 256 = q
  BY <1>3
<1>5. x = q /\ y = r
  BY <1>1, <1>4
<1> QED  BY <1>2, <1>3, <1>5

\* The header of a packet holds its numbers.
LEMMA Header ==
  ASSUME NEW n \in Short
  PROVE  /\ htons(n) \in Seq(Byte) /\ Len(htons(n)) = 2
         /\ htons(n)[1] \in Byte /\ htons(n)[2] \in Byte
         /\ 256 * htons(n)[1] + htons(n)[2] = n
<1>1. PICK x, y : x = (n \div 256) % 256 /\ y = n % 256
  OBVIOUS
<1>2. x \in Byte /\ y \in Byte /\ 256 * x + y = n
  <2>1. n \in Int /\ 0 <= n /\ n < 65536
    BY DEF Short
  <2>2. /\ x \in Int /\ 0 <= x /\ x <= 255
        /\ y \in Int /\ 0 <= y /\ y <= 255
        /\ 256 * x + y = n
    BY <1>1, <2>1, Halves
  <2> QED  BY <2>2 DEF Byte
<1>3. htons(n) = <<x, y>>
  BY <1>1 DEF htons
<1> QED  BY <1>2, <1>3

LEMMA Packet ==
  ASSUME NEW o \in Short, NEW d \in Text, Len(d) \in Short
  PROVE  LET p == paquete_men(o, d)
         IN  /\ p \in Seq(Byte) /\ Len(p) = 4 + Len(d)
             /\ 256 * p[1] + p[2] = o /\ p[1] \in Byte /\ p[2] \in Byte
             /\ 256 * p[3] + p[4] = Len(d) /\ p[3] \in Byte /\ p[4] \in Byte
             /\ \A i \in 1..Len(d) : p[4 + i] = d[i]
<1>1. PICK h : h = htons(o)
  OBVIOUS
<1>2. PICK l : l = htons(Len(d))
  OBVIOUS
<1>3. /\ h \in Seq(Byte) /\ Len(h) = 2 /\ 256 * h[1] + h[2] = o /\ h[1] \in Byte /\ h[2] \in Byte
      /\ l \in Seq(Byte) /\ Len(l) = 2 /\ 256 * l[1] + l[2] = Len(d) /\ l[1] \in Byte /\ l[2] \in Byte
  BY <1>1, <1>2, Header
<1>4. d \in Seq(Byte) /\ Len(d) \in Nat
  <2>1. 1..255 \subseteq Byte
    BY DEF Byte
  <2> QED  BY <2>1, SeqMonotonic, LenProperties DEF Text
<1>5. PICK hl : hl = h \o l
  OBVIOUS
<1>6. /\ hl \in Seq(Byte) /\ Len(hl) = Len(h) + Len(l)
      /\ \A i \in 1..Len(h) : hl[i] = h[i]
      /\ \A i \in 1..Len(l) : hl[Len(h) + i] = l[i]
  <2>1. h \in Seq(Byte) /\ l \in Seq(Byte)
    BY <1>3
  <2> QED  BY <2>1, <1>5, Joined
<1>7. Len(hl) = 4 /\ hl[1] = h[1] /\ hl[2] = h[2] /\ hl[3] = l[1] /\ hl[4] = l[2]
  <2>1. Len(h) = 2 /\ Len(l) = 2
    BY <1>3
  <2>2. 1 \in 1..2 /\ 2 \in 1..2 /\ 2 + 1 = 3 /\ 2 + 2 = 4
    OBVIOUS
  <2>3. Len(hl) = 4
    BY <1>6, <2>1, <2>2, Zenon
  <2>4. hl[1] = h[1] /\ hl[2] = h[2]
    BY <1>6, <2>1, <2>2, Zenon
  <2>5. hl[3] = l[1]
    BY <1>6, <2>1, <2>2, Zenon
  <2>6. hl[4] = l[2]
    BY <1>6, <2>1, <2>2, Zenon
  <2> QED  BY <2>3, <2>4, <2>5, <2>6, Zenon
<1>8. PICK p : p = hl \o d
  OBVIOUS
<1>9. /\ p \in Seq(Byte) /\ Len(p) = Len(hl) + Len(d)
      /\ \A i \in 1..Len(hl) : p[i] = hl[i]
      /\ \A i \in 1..Len(d) : p[Len(hl) + i] = d[i]
  <2>1. hl \in Seq(Byte) /\ d \in Seq(Byte)
    BY <1>4, <1>6
  <2> QED  BY <2>1, <1>8, Joined
<1>10. /\ Len(p) = 4 + Len(d) /\ p[1] = hl[1] /\ p[2] = hl[2] /\ p[3] = hl[3] /\ p[4] = hl[4]
       /\ \A i \in 1..Len(d) : p[4 + i] = d[i]
  <2>1. 1 \in 1..4 /\ 2 \in 1..4 /\ 3 \in 1..4 /\ 4 \in 1..4
    OBVIOUS
  <2> QED  BY <1>7, <1>9, <2>1, Zenon
<1>11. paquete_men(o, d) = p
  BY <1>1, <1>2, <1>5, <1>8 DEF paquete_men
<1>12. /\ 256 * p[1] + p[2] = o /\ p[1] \in Byte /\ p[2] \in Byte
       /\ 256 * p[3] + p[4] = Len(d) /\ p[3] \in Byte /\ p[4] \in Byte
  BY <1>3, <1>7, <1>10, Zenon
<1> QED  BY <1>9, <1>10, <1>11, <1>12, Zenon

-----------------------------------------------------------------------------
(* Types.                                                                  *)

SocketsOK ==
  /\ open \in [Ends -> BOOLEAN]
  /\ in \in [Ends -> Seq(Byte)] /\ out \in [Ends -> Seq(Byte)]
  /\ rst \in [Ends -> {"no", "due", "in"}]
  /\ expire_timeout \in [Ends -> {"no", "yes", "garbage"}]

LEMMA Bytes == 0 \in Byte /\ \A b \in Byte : b \in Nat /\ b <= 255
BY DEF Byte

LEMMA EndsAre == Ends = {"client", "server"} /\ Peer("client") = "server" /\ Peer("server") = "client"
BY DEF Ends, Peer

\* A number of two bytes is an unsigned short.
LEMMA ShortOfBytes ==
  ASSUME NEW b, b[1] \in Byte, b[2] \in Byte
  PROVE  ntohs(b) \in Short
<1>1. /\ b[1] \in Nat /\ b[1] <= 255
      /\ b[2] \in Nat /\ b[2] <= 255
  BY Bytes
<1>2. PICK x, y : x = b[1] /\ y = b[2]
  OBVIOUS
<1>3. 256 * x + y \in Nat /\ 256 * x + y < 65536
  BY <1>1, <1>2
<1> QED  BY <1>2, <1>3 DEF ntohs, Short

LEMMA BufferBytes ==
  ASSUME in \in [Ends -> Seq(Byte)], NEW e \in Ends, NEW n \in Nat, NEW r \in Reads(e, n)
  PROVE  /\ r.taken \in Nat /\ r.taken <= n /\ r.taken <= Len(in[e]) /\ r.late \in BOOLEAN
         /\ Buffer(e, r, n) \in Seq(Byte)
         /\ n = 2 => ntohs(Buffer(e, r, n)) \in Short
<1>1. r.taken \in Nat /\ r.taken <= n /\ r.taken <= Len(in[e]) /\ r.late \in BOOLEAN
  BY DEF Reads
<1>2. in[e] \in Seq(Byte)
  OBVIOUS
<1>3. \A i \in 1..Len(in[e]) : in[e][i] \in Byte
  BY <1>2, ElementOfSeq
<1>4. \A i \in 1..n : (IF i <= r.taken THEN in[e][i] ELSE 0) \in Byte
  <2>1. SUFFICES ASSUME NEW i \in 1..n, i <= r.taken
                 PROVE  in[e][i] \in Byte
    BY Bytes
  <2>2. Len(in[e]) \in Nat
    BY <1>2, LenProperties
  <2>3. i \in 1..Len(in[e])
    BY <1>1, <2>1, <2>2
  <2> QED  BY <1>3, <2>3
<1>5. Buffer(e, r, n) \in [1..n -> Byte]
  BY <1>4 DEF Buffer
<1>6. Buffer(e, r, n) \in Seq(Byte)
  BY <1>5, IsASeq
<1>7. n = 2 => ntohs(Buffer(e, r, n)) \in Short
  <2>1. SUFFICES ASSUME n = 2
                 PROVE  ntohs(Buffer(e, r, n)) \in Short
    OBVIOUS
  <2>2. 1 \in 1..n /\ 2 \in 1..n
    BY <2>1
  <2>3. Buffer(e, r, n)[1] \in Byte /\ Buffer(e, r, n)[2] \in Byte
    BY <1>5, <2>2
  <2> QED  BY <2>3, ShortOfBytes
<1> QED  BY <1>1, <1>6, <1>7

LEMMA TakeTypes ==
  ASSUME SocketsOK, NEW e \in Ends, NEW n \in Nat, NEW r \in Reads(e, n), Take(e, r)
  PROVE  SocketsOK'
<1>1. r.taken \in Nat /\ r.taken <= Len(in[e])
  BY BufferBytes DEF SocketsOK
<1>2. SubSeq(in[e], r.taken + 1, Len(in[e])) \in Seq(Byte)
  <2>1. in[e] \in Seq(Byte)
    BY DEF SocketsOK
  <2>2. Len(in[e]) \in Nat
    BY <2>1, LenProperties
  <2>3. \A i \in (r.taken + 1)..Len(in[e]) : i \in 1..Len(in[e])
    BY <1>1, <2>2
  <2> QED  BY <1>1, <2>1, <2>2, <2>3, SubSeqProperties
<1>3. in' \in [Ends -> Seq(Byte)]
  BY <1>2 DEF Take, SocketsOK
<1>4. expire_timeout' \in [Ends -> {"no", "yes", "garbage"}]
  BY DEF Take, SocketsOK
<1> QED  BY <1>3, <1>4 DEF Take, SocketsOK

LEMMA SendsTypes ==
  ASSUME SocketsOK, NEW e \in Ends, NEW p \in Seq(Byte), sends(e, p)
  PROVE  SocketsOK'
BY DEF sends, SocketsOK

LEMMA WritesTypes ==
  ASSUME SocketsOK, NEW e \in Ends, NEW label, NEW next, writes(e, label, next)
  PROVE  SocketsOK'
<1>1. PICK k \in 1..Len(out[e]) :
        /\ out' = [out EXCEPT ![e] = SubSeq(@, k + 1, Len(@))]
        /\ in' = [in EXCEPT ![Peer(e)] = IF open[Peer(e)] THEN @ \o SubSeq(out[e], 1, k) ELSE @]
  BY DEF writes
<1>2. out[e] \in Seq(Byte) /\ Len(out[e]) \in Nat
  <2>1. out[e] \in Seq(Byte)
    BY DEF SocketsOK
  <2> QED  BY <2>1, LenProperties
<1>3. SubSeq(out[e], k + 1, Len(out[e])) \in Seq(Byte) /\ SubSeq(out[e], 1, k) \in Seq(Byte)
  <2>1. \A i \in (k + 1)..Len(out[e]) : i \in 1..Len(out[e])
    BY <1>2
  <2>2. \A i \in 1..k : i \in 1..Len(out[e])
    BY <1>2
  <2>3. k \in Nat /\ k + 1 \in Nat
    BY <1>2
  <2> QED  BY <1>2, <2>1, <2>2, <2>3, SubSeqProperties
<1>4. Peer(e) \in Ends
  BY EndsAre
<1>5. in[Peer(e)] \o SubSeq(out[e], 1, k) \in Seq(Byte)
  <2>1. in[Peer(e)] \in Seq(Byte)
    BY <1>4 DEF SocketsOK
  <2> QED  BY <1>3, <2>1, ConcatProperties
<1>6. out' \in [Ends -> Seq(Byte)]
  BY <1>1, <1>3 DEF SocketsOK
<1>7. in' \in [Ends -> Seq(Byte)]
  BY <1>1, <1>4, <1>5 DEF SocketsOK
<1>8. rst' \in [Ends -> {"no", "due", "in"}] /\ UNCHANGED <<open, expire_timeout>>
  BY DEF writes, SocketsOK
<1> QED  BY <1>6, <1>7, <1>8 DEF SocketsOK

LEMMA ClosesTypes ==
  ASSUME SocketsOK, NEW e \in Ends, closes(e)
  PROVE  SocketsOK'
<1>1. Peer(e) \in Ends /\ <<>> \in Seq(Byte)
  BY EndsAre
<1> QED  BY <1>1 DEF closes, SocketsOK

LEMMA ResetTypes ==
  ASSUME SocketsOK, NEW e \in Ends, reset(e)
  PROVE  SocketsOK'
<1>1. <<>> \in Seq(Byte)
  OBVIOUS
<1> QED  BY <1>1 DEF reset, SocketsOK

\* The codes of the commands fit a byte, and no command is the greeting.
LEMMA CodesAre ==
  \A o \in Codes : o \in Nat /\ 9 <= o /\ o <= 22
BY DEF Codes, Operations, OP_CREAR, OP_CAMBIARCLAVE, OP_BORRAR, OP_BUSCAR, OP_LISTAR, OP_BLOQUEAR,
       OP_DESBLOQUEAR, OP_COMMIT, OP_ROLLBACK, OP_CONECTAR, OP_SALIR

LEMMA Shorts ==
  /\ Codes \cup {OP_SOLICITUD_CONEXION, OP_CONCESION_CONEXION, ERROR, 0} \subseteq Short
  /\ \A o \in Short : OP_RESPONSE(o) \in Short
<1>1. Codes \subseteq Short
  BY CodesAre DEF Short
<1>2. {OP_SOLICITUD_CONEXION, OP_CONCESION_CONEXION, ERROR, 0} \subseteq Short
  BY DEF OP_SOLICITUD_CONEXION, OP_CONCESION_CONEXION, ERROR, Short
<1>3. ASSUME NEW o \in Short
      PROVE  OP_RESPONSE(o) \in Short
  <2>1. o \in Nat
    BY DEF Short
  <2>2. PICK r \in Int : r = (o + 32768) % 65536
    BY <2>1
  <2>3. 0 <= r /\ r < 65536
    BY <2>1, <2>2
  <2> QED  BY <2>2, <2>3 DEF OP_RESPONSE, Short
<1> QED  BY <1>1, <1>2, <1>3

LEMMA EmptyText == <<>> \in Text /\ Len(<<>>) = 0
BY DEF Text

\* Every text that is sent has a length that fits the header.
LEMMA TextsFit ==
  /\ \A c \in Commands : c.op \in Codes /\ c.data \in Text /\ Len(c.data) \in Short /\ Len(c.data) < MAX_BUFFER_DATA_SIZE
  /\ \A r \in Results : r.op \in Codes /\ r.data \in Text /\ Len(r.data) \in Short \ {0}
  /\ \A t \in {SERVER_VERSION, NOT_SESSION, INVALID_OPERATION} :
       t \in Text /\ Len(t) \in Short \ {0} /\ Len(t) < MAX_BUFFER_DATA_SIZE
  /\ MAX_BUFFER_DATA_SIZE \in Nat /\ MAX_BUFFER_DATA_SIZE >= 2
<1>1. /\ MAX_BUFFER_DATA_SIZE \in Nat /\ MAX_BUFFER_DATA_SIZE >= 2
      /\ MAX_BUFFER_DATA_SIZE - 1 < 65536
  BY BufferAssumption DEF Short
<1>2. ASSUME NEW c \in Commands
      PROVE  c.op \in Codes /\ c.data \in Text /\ Len(c.data) \in Short /\ Len(c.data) < MAX_BUFFER_DATA_SIZE
  <2>1. c.op \in Codes /\ c.data \in Text /\ Len(c.data) < MAX_BUFFER_DATA_SIZE
    BY CommandsAssumption
  <2>2. Len(c.data) \in Nat
    BY <2>1, LenProperties DEF Text
  <2>3. Len(c.data) < 65536
    BY <1>1, <2>1, <2>2
  <2> QED  BY <2>1, <2>2, <2>3 DEF Short
<1>3. ASSUME NEW t \in {SERVER_VERSION, NOT_SESSION, INVALID_OPERATION}
      PROVE  t \in Text /\ Len(t) \in Short \ {0} /\ Len(t) < MAX_BUFFER_DATA_SIZE
  <2>1. t \in Text /\ Len(t) \in 1..(MAX_BUFFER_DATA_SIZE - 1)
    BY FixedTextsAssumption
  <2>2. Len(t) \in Nat /\ 1 <= Len(t) /\ Len(t) < MAX_BUFFER_DATA_SIZE
    BY <1>1, <2>1
  <2>3. Len(t) < 65536
    BY <1>1, <2>2
  <2> QED  BY <2>1, <2>2, <2>3 DEF Short
<1> QED  BY <1>1, <1>2, <1>3, ResultsAssumption

LEMMA PacketBytes ==
  ASSUME NEW o \in Short, NEW d \in Text, Len(d) \in Short
  PROVE  paquete_men(o, d) \in Seq(Byte) /\ Len(paquete_men(o, d)) = 4 + Len(d)
BY Packet

LEMMA LabelsAre ==
  /\ {"hello", "hello_op", "hello_len", "hello_text", "granted", "prompt", "request", "show"} \subseteq Labels
  /\ {"greet_op", "greet_len", "greet", "grant", "handle", "answer", "sent"} \subseteq Labels
  /\ {"op", "len", "text", "exit", "closed", "corrupt"} \subseteq Labels
  /\ {"left", "gave_up", "refused", "failed", "died", "killed"} \subseteq Labels
BY DEF Labels, Left, Ended

\* An end goes to its next step and leaves the sockets alone.
LEMMA StillTypes ==
  ASSUME SessionTypeOK, NEW e \in Ends, NEW l \in Labels, Goto(e, l),
         UNCHANGED <<socketVars, op, len, text, in_session>>, spoilt' \in BOOLEAN
  PROVE  SessionTypeOK'
<1>1. pc' \in [Ends -> Labels]
  BY DEF SessionTypeOK, Goto
<1> QED  BY <1>1 DEF SessionTypeOK, socketVars

\* The reads keep the types, whatever they are and wherever they lead.
LEMMA ReadTypes ==
  ASSUME SessionTypeOK, NEW e \in Ends, NEW label, NEW next \in Labels, NEW expired \in Labels,
         \/ reads_op(e, label, next, expired)
         \/ reads_len(e, label, next, expired)
         \/ reads_text(e, label, next, expired)
  PROVE  SessionTypeOK'
<1>1. SocketsOK
  BY DEF SessionTypeOK, SocketsOK
<1>2. pc' \in [Ends -> Labels]
  BY DEF SessionTypeOK, reads_op, reads_len, reads_text, Goto
<1>3. CASE reads_op(e, label, next, expired)
  <2>1. PICK r \in Reads(e, 2) : Take(e, r) /\ op' = [op EXCEPT ![e] = ntohs(Buffer(e, r, 2))]
    BY <1>3 DEF reads_op
  <2>2. ntohs(Buffer(e, r, 2)) \in Short
    BY <1>1, BufferBytes DEF SocketsOK
  <2>3. SocketsOK'
    BY <1>1, <2>1, TakeTypes
  <2>4. op' \in [Ends -> Short]
    BY <2>1, <2>2 DEF SessionTypeOK
  <2> QED  BY <1>2, <1>3, <2>3, <2>4 DEF reads_op, SessionTypeOK, SocketsOK, historyVars
<1>4. CASE reads_len(e, label, next, expired)
  <2>1. PICK r \in Reads(e, 2) : Take(e, r) /\ len' = [len EXCEPT ![e] = ntohs(Buffer(e, r, 2))]
    BY <1>4 DEF reads_len
  <2>2. ntohs(Buffer(e, r, 2)) \in Short
    BY <1>1, BufferBytes DEF SocketsOK
  <2>3. SocketsOK'
    BY <1>1, <2>1, TakeTypes
  <2>4. len' \in [Ends -> Short]
    BY <2>1, <2>2 DEF SessionTypeOK
  <2> QED  BY <1>2, <1>4, <2>3, <2>4 DEF reads_len, SessionTypeOK, SocketsOK, historyVars
<1>5. CASE reads_text(e, label, next, expired)
  <2>1. UNCHANGED <<op, len, in_session, historyVars>>
    BY <1>5 DEF reads_text
  <2>2. CASE len[e] \in 1..(MAX_BUFFER_DATA_SIZE - 1)
    <3>1. PICK r \in Reads(e, len[e]) : Take(e, r) /\ text' = [text EXCEPT ![e] = Buffer(e, r, len[e])]
      BY <1>5, <2>2 DEF reads_text
    <3>2. len[e] \in Nat
      BY DEF SessionTypeOK, Short
    <3>3. Buffer(e, r, len[e]) \in Seq(Byte)
      BY <1>1, <3>2, BufferBytes DEF SocketsOK
    <3>4. SocketsOK'
      BY <1>1, <3>1, <3>2, TakeTypes
    <3>5. text' \in [Ends -> {NULL} \cup Seq(Byte)]
      BY <3>1, <3>3 DEF SessionTypeOK
    <3> QED  BY <1>2, <2>1, <3>4, <3>5 DEF SessionTypeOK, SocketsOK, historyVars
  <2>3. CASE len[e] \notin 1..(MAX_BUFFER_DATA_SIZE - 1)
    <3>1. text' = [text EXCEPT ![e] = NULL] /\ UNCHANGED socketVars
      BY <1>5, <2>3 DEF reads_text
    <3>2. text' \in [Ends -> {NULL} \cup Seq(Byte)]
      BY <3>1 DEF SessionTypeOK
    <3> QED  BY <1>2, <2>1, <3>1, <3>2 DEF SessionTypeOK, socketVars, historyVars
  <2> QED  BY <2>2, <2>3
<1> QED  BY <1>3, <1>4, <1>5

\* Nor does anything else that an end does by itself change a type.
LEMMA OwnTypes ==
  ASSUME SessionTypeOK, NEW e \in Ends, NEW label, NEW next \in Labels,
         \/ writes(e, label, next) /\ label \in Labels
         \/ write_fails(e, label, next)
         \/ dies(e)
  PROVE  SessionTypeOK'
<1>1. SocketsOK
  BY DEF SessionTypeOK, SocketsOK
<1>2. CASE writes(e, label, next) /\ label \in Labels
  <2>1. SocketsOK'
    BY <1>1, <1>2, WritesTypes
  <2>2. pc' \in [Ends -> Labels]
    BY <1>2 DEF writes, Goto, SessionTypeOK
  <2>3. UNCHANGED <<op, len, text, in_session, historyVars>>
    BY <1>2 DEF writes
  <2> QED  BY <2>1, <2>2, <2>3 DEF SocketsOK, SessionTypeOK, historyVars
<1>3. CASE write_fails(e, label, next)
  <2>1. PICK l \in {next, "killed"} : Goto(e, l)
    BY <1>3 DEF write_fails
  <2>2. l \in Labels
    BY <2>1, LabelsAre
  <2>3. UNCHANGED <<socketVars, op, len, text, in_session>> /\ spoilt' \in BOOLEAN
    BY <1>3 DEF write_fails, historyVars, SessionTypeOK
  <2> QED  BY <2>1, <2>2, <2>3, StillTypes
<1>4. CASE dies(e)
  <2>1. Goto(e, "died") /\ "died" \in Labels
    BY <1>4, LabelsAre DEF dies
  <2>2. UNCHANGED <<socketVars, op, len, text, in_session>> /\ spoilt' \in BOOLEAN
    BY <1>4 DEF dies, historyVars, SessionTypeOK
  <2> QED  BY <2>1, <2>2, StillTypes
<1> QED  BY <1>2, <1>3, <1>4

LEMMA CloseTypes ==
  ASSUME SessionTypeOK, NEW e \in Ends,
         \/ closes(e) /\ (UNCHANGED pc \/ Goto(e, "closed") \/ Goto(e, "corrupt"))
         \/ reset(e)
  PROVE  SessionTypeOK'
<1>1. SocketsOK
  BY DEF SessionTypeOK, SocketsOK
<1>2. CASE closes(e) /\ (UNCHANGED pc \/ Goto(e, "closed") \/ Goto(e, "corrupt"))
  <2>1. SocketsOK'
    BY <1>1, <1>2, ClosesTypes
  <2>2. pc' \in [Ends -> Labels]
    BY <1>2, LabelsAre DEF Goto, SessionTypeOK
  <2>3. UNCHANGED <<op, len, text, in_session, historyVars>>
    BY <1>2 DEF closes
  <2> QED  BY <2>1, <2>2, <2>3 DEF SocketsOK, SessionTypeOK, historyVars
<1>3. CASE reset(e)
  <2>1. SocketsOK'
    BY <1>1, <1>3, ResetTypes
  <2> QED  BY <1>3, <2>1 DEF reset, SocketsOK, SessionTypeOK, historyVars
<1> QED  BY <1>2, <1>3

\* What an end sends is a packet.
LEMMA SendTypes ==
  ASSUME SessionTypeOK, NEW p \in Seq(Byte), NEW e \in Ends, sends(e, p),
         NEW l \in Labels, Goto(e, l), op' \in [Ends -> Short],
         in_session' \in BOOLEAN, spoilt' \in BOOLEAN, UNCHANGED <<len, text>>
  PROVE  SessionTypeOK'
<1>1. SocketsOK
  BY DEF SessionTypeOK, SocketsOK
<1>2. SocketsOK'
  BY <1>1, SendsTypes
<1>3. pc' \in [Ends -> Labels]
  BY DEF SessionTypeOK, Goto
<1> QED  BY <1>2, <1>3 DEF SessionTypeOK, SocketsOK

LEMMA AnswerTypes ==
  ASSUME SessionTypeOK, NEW s \in Ends, NEW code \in Short, NEW data \in Text, Len(data) \in Short,
         answers(s, code, data), in_session' \in BOOLEAN
  PROVE  SessionTypeOK'
<1>1. PICK p : p = paquete_men(OP_RESPONSE(code), data)
  OBVIOUS
<1>2. p \in Seq(Byte)
  BY <1>1, Shorts, PacketBytes
<1>3. sends(s, p) /\ Goto(s, "answer") /\ UNCHANGED <<len, text, spoilt>>
  BY <1>1 DEF answers
<1>4. op' \in [Ends -> Short] /\ spoilt' \in BOOLEAN
  BY DEF answers, SessionTypeOK
<1> QED  BY <1>2, <1>3, <1>4, LabelsAre, SendTypes

\* What the switch answers, and with which code.
LEMMA Handled ==
  ASSUME handles("server")
  PROVE  \E code, data :
           /\ answers("server", code, data)
           /\ data \in Text /\ Len(data) \in Short \ {0}
           /\ \/ code = op["server"]
              \/ code = ERROR /\ op["server"] \notin Codes
           /\ Len(data) < MAX_BUFFER_DATA_SIZE \/ \E r \in Results : data = r.data
           /\ in_session' \in BOOLEAN \/ UNCHANGED in_session
BY TextsFit DEF handles

LEMMA ServerTypes ==
  ASSUME SessionTypeOK, server
  PROVE  SessionTypeOK'
<1>1. "server" \in Ends
  BY EndsAre
<1>2. CASE greets("server")
  <2>1. CASE op["server"] = OP_SOLICITUD_CONEXION /\ len["server"] = 0
    <3>1. PICK p : p = paquete_men(OP_CONCESION_CONEXION, SERVER_VERSION)
      OBVIOUS
    <3>2. p \in Seq(Byte)
      BY <3>1, Shorts, TextsFit, PacketBytes
    <3>3. sends("server", p) /\ Goto("server", "grant") /\ UNCHANGED <<op, len, text, in_session, historyVars>>
      BY <1>2, <2>1, <3>1 DEF greets
    <3>4. op' \in [Ends -> Short] /\ in_session' \in BOOLEAN /\ spoilt' \in BOOLEAN
      BY <3>3 DEF SessionTypeOK, historyVars
    <3> QED  BY <1>1, <3>2, <3>3, <3>4, LabelsAre, SendTypes
  <2>2. CASE ~(op["server"] = OP_SOLICITUD_CONEXION /\ len["server"] = 0)
    <3>1. Goto("server", "exit") /\ UNCHANGED <<socketVars, op, len, text, in_session, historyVars>>
      BY <1>2, <2>2 DEF greets
    <3>2. spoilt' \in BOOLEAN
      BY <3>1 DEF SessionTypeOK, historyVars
    <3> QED  BY <1>1, <3>1, <3>2, LabelsAre, StillTypes
  <2> QED  BY <2>1, <2>2
<1>3. CASE handles("server")
  <2>1. PICK code, data :
          /\ answers("server", code, data)
          /\ data \in Text /\ Len(data) \in Short \ {0}
          /\ code = op["server"] \/ code = ERROR
          /\ in_session' \in BOOLEAN \/ UNCHANGED in_session
    BY <1>3, Handled
  <2>2. code \in Short /\ in_session' \in BOOLEAN
    BY <1>1, <2>1, Shorts DEF SessionTypeOK
  <2> QED  BY <1>1, <2>1, <2>2, AnswerTypes
<1>4. CASE answer_sent("server")
  <2>1. PICK l \in {"exit", "op"} : Goto("server", l)
    BY <1>4 DEF answer_sent
  <2>2. UNCHANGED <<socketVars, op, len, text, in_session>> /\ spoilt' \in BOOLEAN
    BY <1>4 DEF answer_sent, historyVars, SessionTypeOK
  <2>3. l \in Labels
    BY LabelsAre
  <2> QED  BY <1>1, <2>1, <2>2, <2>3, StillTypes
<1>5. CASE thread_exit("server")
  BY <1>1, <1>5, CloseTypes DEF thread_exit
<1>6. CASE reads_op("server", "greet_op", "greet_len", "greet_len")
  BY <1>1, <1>6, LabelsAre, ReadTypes
<1>7. CASE reads_len("server", "greet_len", "greet", "greet")
  BY <1>1, <1>7, LabelsAre, ReadTypes
<1>8. CASE writes("server", "grant", "op")
  BY <1>1, <1>8, LabelsAre, OwnTypes
<1>9. CASE write_fails("server", "grant", "exit")
  BY <1>1, <1>9, LabelsAre, OwnTypes
<1>10. CASE reads_op("server", "op", "len", "exit")
  BY <1>1, <1>10, LabelsAre, ReadTypes
<1>11. CASE reads_len("server", "len", "text", "exit")
  BY <1>1, <1>11, LabelsAre, ReadTypes
<1>12. CASE reads_text("server", "text", "handle", "exit")
  BY <1>1, <1>12, LabelsAre, ReadTypes
<1>13. CASE writes("server", "answer", "sent")
  BY <1>1, <1>13, LabelsAre, OwnTypes
<1>14. CASE write_fails("server", "answer", "exit")
  BY <1>1, <1>14, LabelsAre, OwnTypes
<1> QED  BY <1>2, <1>3, <1>4, <1>5, <1>6, <1>7, <1>8, <1>9, <1>10, <1>11, <1>12, <1>13, <1>14 DEF server

LEMMA ClientTypes ==
  ASSUME SessionTypeOK, client \/ types("client")
  PROVE  SessionTypeOK'
<1>1. "client" \in Ends
  BY EndsAre
<1>2. CASE types("client")
  <2>1. PICK q \in Commands : sends("client", paquete_men(q.op, q.data))
    BY <1>2 DEF types
  <2>2. PICK p : p = paquete_men(q.op, q.data)
    OBVIOUS
  <2>3. p \in Seq(Byte)
    BY <2>2, Shorts, TextsFit, PacketBytes
  <2>4. Goto("client", "request") /\ UNCHANGED <<op, len, text, in_session, spoilt>>
    BY <1>2 DEF types
  <2>5. op' \in [Ends -> Short] /\ in_session' \in BOOLEAN /\ spoilt' \in BOOLEAN
    BY <2>4 DEF SessionTypeOK
  <2> QED  BY <1>1, <2>1, <2>2, <2>3, <2>4, <2>5, LabelsAre, SendTypes
<1>3. CASE granted("client")
  <2>1. PICK l \in {"prompt", "refused"} : Goto("client", l)
    BY <1>3 DEF granted
  <2>2. UNCHANGED <<socketVars, op, len, text, in_session>> /\ spoilt' \in BOOLEAN
    BY <1>3 DEF granted, historyVars, SessionTypeOK
  <2>3. l \in Labels
    BY LabelsAre
  <2> QED  BY <1>1, <2>1, <2>2, <2>3, StillTypes
<1>4. CASE shows("client")
  <2>1. spoilt' \in BOOLEAN
    BY <1>4 DEF shows, SessionTypeOK
  <2>2. PICK l \in {"failed", "left", "prompt"} : Goto("client", l)
    BY <1>4 DEF shows
  <2>3. l \in Labels
    BY LabelsAre
  <2>4. UNCHANGED <<socketVars, op, len, text, in_session>>
    BY <1>4 DEF shows
  <2> QED  BY <1>1, <2>1, <2>2, <2>3, <2>4, StillTypes
<1>5. CASE leaves("client")
  BY <1>1, <1>5, CloseTypes DEF leaves
<1>6. CASE writes("client", "hello", "hello_op")
  BY <1>1, <1>6, LabelsAre, OwnTypes
<1>7. CASE write_fails("client", "hello", "failed")
  BY <1>1, <1>7, LabelsAre, OwnTypes
<1>8. CASE reads_op("client", "hello_op", "hello_len", "hello_len")
  BY <1>1, <1>8, LabelsAre, ReadTypes
<1>9. CASE reads_len("client", "hello_len", "hello_text", "hello_text")
  BY <1>1, <1>9, LabelsAre, ReadTypes
<1>10. CASE reads_text("client", "hello_text", "granted", "granted")
  BY <1>1, <1>10, LabelsAre, ReadTypes
<1>11. CASE writes("client", "request", "op")
  BY <1>1, <1>11, LabelsAre, OwnTypes
<1>12. CASE write_fails("client", "request", "failed")
  BY <1>1, <1>12, LabelsAre, OwnTypes
<1>13. CASE reads_op("client", "op", "len", "gave_up")
  BY <1>1, <1>13, LabelsAre, ReadTypes
<1>14. CASE reads_len("client", "len", "text", "gave_up")
  BY <1>1, <1>14, LabelsAre, ReadTypes
<1>15. CASE reads_text("client", "text", "show", "gave_up")
  BY <1>1, <1>15, LabelsAre, ReadTypes
<1> QED  BY <1>2, <1>3, <1>4, <1>5, <1>6, <1>7, <1>8, <1>9, <1>10, <1>11, <1>12, <1>13, <1>14, <1>15 DEF client

LEMMA TypeStep ==
  ASSUME SessionTypeOK, [Next]_vars
  PROVE  SessionTypeOK'
<1>1. CASE UNCHANGED vars
  BY <1>1 DEF vars, socketVars, historyVars, SessionTypeOK
<1>2. ASSUME \/ server_gone
             \/ \E e \in Ends : dies(e) \/ reset(e)
      PROVE  SessionTypeOK'
  <2>1. CASE server_gone
    BY <2>1, EndsAre, CloseTypes DEF server_gone
  <2>2. ASSUME NEW e \in Ends, dies(e) \/ reset(e)
        PROVE  SessionTypeOK'
    BY <2>2, LabelsAre, OwnTypes, CloseTypes
  <2> QED  BY <1>2, <2>1, <2>2
<1> QED  BY <1>1, <1>2, ServerTypes, ClientTypes DEF Next

LEMMA BothEnds ==
  ASSUME NEW S, NEW a \in S, NEW b \in S
  PROVE  [client |-> a, server |-> b] \in [Ends -> S]
BY EndsAre

LEMMA TypeInit ==
  ASSUME Init
  PROVE  SessionTypeOK
<1>1. Hello = Request(OP_SOLICITUD_CONEXION, <<>>) /\ <<>> \in Seq(Byte)
  BY DEF Hello
<1>2. PICK p : p = paquete_men(OP_SOLICITUD_CONEXION, <<>>)
  OBVIOUS
<1>3. p \in Seq(Byte)
  BY <1>2, EmptyText, Shorts, PacketBytes
<1>4. pc \in [Ends -> Labels]
  BY EndsAre, LabelsAre DEF Init
<1>5. out \in [Ends -> Seq(Byte)]
  <2>1. out = [client |-> p, server |-> <<>>]
    BY <1>2 DEF Init
  <2> QED  BY <1>1, <1>3, <2>1, BothEnds
<1>6. expire_timeout \in [Ends -> {"no", "yes", "garbage"}]
  <2>1. PICK x \in {"no", "garbage"}, y \in {"no"} : expire_timeout = [client |-> x, server |-> y]
    BY DEF Init
  <2> QED  BY <2>1, EndsAre
<1>7. 0 \in Short
  BY Shorts
<1> QED  BY <1>1, <1>4, <1>5, <1>6, <1>7 DEF Init, SessionTypeOK

\* The types of the session: every number it reads off the wire fits an
\* unsigned short, whatever part of it had come.
THEOREM SessionTypeCorrect == Spec => []SessionTypeOK
<1>1. Init => SessionTypeOK
  BY TypeInit
<1>2. SessionTypeOK /\ [Next]_vars => SessionTypeOK'
  BY TypeStep
<1> QED  BY <1>1, <1>2, PTL DEF Spec

-----------------------------------------------------------------------------
(* What is read of a packet.                                               *)

\* The first n bytes of a, with zeros for those that do not come.
Begin(a, n) == [i \in 1..n |-> IF i <= Len(a) THEN a[i] ELSE 0]

LEMMA RestOfRest ==
  ASSUME NEW a \in Seq(Byte), NEW b \in Seq(Byte), NEW p \in Seq(Byte), NEW k \in Nat, NEW n \in Nat,
         Rest(a, p, k), Rest(b, a, n)
  PROVE  Rest(b, p, k + n)
<1>1. Len(a) \in Nat /\ Len(b) \in Nat /\ Len(p) \in Nat
  BY LenProperties
<1>2. Len(a) <= Len(p) - k /\ Len(b) <= Len(a) - n
  BY DEF Rest
<1>3. ASSUME NEW i \in 1..Len(b)
      PROVE  b[i] = p[k + n + i]
  <2>1. n + i \in 1..Len(a)
    BY <1>1, <1>2
  <2>2. b[i] = a[n + i]
    BY DEF Rest
  <2>3. a[n + i] = p[k + (n + i)]
    BY <2>1 DEF Rest
  <2>4. k + (n + i) = k + n + i
    OBVIOUS
  <2> QED  BY <2>2, <2>3, <2>4
<1>4. Len(b) <= Len(p) - (k + n)
  BY <1>1, <1>2
<1> QED  BY <1>3, <1>4 DEF Rest

\* Of nothing, nothing is left; of as much as there is, all of it.
LEMMA RestOfAll ==
  ASSUME NEW p \in Seq(Byte), NEW k \in Nat
  PROVE  /\ k <= Len(p) => Rest(<<>>, p, k)
         /\ Rest(p, p, 0)
         /\ \A b \in Seq(Byte) : Rest(b, p, k) /\ Len(p) <= k => b = <<>>
<1>1. Len(p) \in Nat /\ Len(<<>>) = 0
  BY LenProperties
<1>2. k <= Len(p) => Rest(<<>>, p, k)
  BY <1>1 DEF Rest
<1>3. Rest(p, p, 0)
  BY <1>1 DEF Rest
<1>4. ASSUME NEW b \in Seq(Byte), Rest(b, p, k), Len(p) <= k
      PROVE  b = <<>>
  <2>1. Len(b) \in Nat /\ Len(b) <= Len(p) - k
    BY <1>4, LenProperties DEF Rest
  <2>2. Len(b) = 0
    BY <1>1, <1>4, <2>1
  <2> QED  BY <2>2, EmptySeq
<1> QED  BY <1>2, <1>3, <1>4

\* A header number: whole, the number itself; its first byte alone, the number
\* rounded down to a multiple of 256; nothing, zero.
LEMMA ReadNumber ==
  ASSUME NEW a \in Seq(Byte), NEW p \in Seq(Byte), NEW k \in {0, 2}, Rest(a, p, k), k + 2 <= Len(p),
         NEW m \in Nat, 256 * p[k + 1] + p[k + 2] = m, p[k + 1] \in Byte, p[k + 2] \in Byte
  PROVE  LET x == ntohs(Begin(a, 2))
         IN  /\ Len(a) >= 2 => x = m
             /\ Len(a) = 1 => x = 256 * p[k + 1] /\ x <= m /\ m <= x + 255
             /\ Len(a) = 0 => x = 0
             /\ Len(a) < 2 => x <= m
<1>1. Len(a) \in Nat
  BY LenProperties
<1>2. PICK u, v : u = p[k + 1] /\ v = p[k + 2]
  OBVIOUS
<1>3. u \in Nat /\ v \in Nat /\ u <= 255 /\ v <= 255 /\ 256 * u + v = m
  BY <1>2, Bytes
<1>4. \A i \in 1..Len(a) : a[i] = p[k + i]
  BY DEF Rest
<1>5. PICK x, y : x = (IF 1 <= Len(a) THEN a[1] ELSE 0) /\ y = (IF 2 <= Len(a) THEN a[2] ELSE 0)
  OBVIOUS
<1>6. PICK z : z = ntohs(Begin(a, 2))
  OBVIOUS
<1>7. z = 256 * x + y
  <2>1. Begin(a, 2)[1] = x /\ Begin(a, 2)[2] = y
    BY <1>5 DEF Begin
  <2> QED  BY <1>6, <2>1 DEF ntohs
<1>8. 256 * u \in Nat /\ 256 * u <= m /\ m <= 256 * u + 255
  BY <1>3
<1>9. ASSUME Len(a) >= 2
      PROVE  z = m
  <2>1. 1 \in 1..Len(a) /\ 2 \in 1..Len(a)
    BY <1>1, <1>9
  <2>2. x = u /\ y = v
    BY <1>2, <1>4, <1>5, <1>9, <2>1
  <2> QED  BY <1>3, <1>7, <2>2
<1>10. ASSUME Len(a) = 1
       PROVE  z = 256 * u
  <2>1. 1 \in 1..Len(a)
    BY <1>10
  <2>2. x = u /\ y = 0
    BY <1>2, <1>4, <1>5, <1>10, <2>1
  <2> QED  BY <1>3, <1>7, <2>2
<1>11. ASSUME Len(a) = 0
       PROVE  z = 0
  <2>1. x = 0 /\ y = 0
    BY <1>5, <1>11
  <2> QED  BY <1>7, <2>1
<1>12. Len(a) < 2 => z <= m
  <2>1. Len(a) < 2 => Len(a) = 0 \/ Len(a) = 1
    <3>1. \A w \in Nat : w < 2 => w = 0 \/ w = 1
      OBVIOUS
    <3> QED  BY <1>1, <3>1, Zenon
  <2>2. 0 <= m
    OBVIOUS
  <2> QED  BY <1>8, <1>10, <1>11, <2>1, <2>2
<1>13. Len(a) = 1 => z = 256 * u /\ z <= m /\ m <= z + 255
  BY <1>8, <1>10
<1>14. Len(a) = 1 => z = 256 * p[k + 1]
  BY <1>2, <1>10
<1> QED  BY <1>6, <1>9, <1>11, <1>12, <1>13, <1>14, Zenon

LEMMA ReadCode ==
  ASSUME NEW a \in Seq(Byte), NEW o \in Short, NEW d \in Text, Len(d) \in Short,
         Rest(a, paquete_men(o, d), 0)
  PROVE  LET x == ntohs(Begin(a, 2))
         IN  /\ Len(a) >= 2 => x = o
             /\ Len(a) < 2 => \E y \in Nat : x = 256 * y /\ (x = 0 \/ (x <= o /\ o <= x + 255))
<1>1. PICK p : p = paquete_men(o, d)
  OBVIOUS
<1>2. /\ p \in Seq(Byte) /\ Len(p) = 4 + Len(d)
      /\ 256 * p[1] + p[2] = o /\ p[1] \in Byte /\ p[2] \in Byte
  BY <1>1, Packet
<1>3. 0 + 2 <= Len(p) /\ 0 + 1 = 1 /\ 0 + 2 = 2 /\ o \in Nat
  BY <1>2 DEF Short
<1>4. Rest(a, p, 0)
  BY <1>1
<1>5. PICK x : x = ntohs(Begin(a, 2))
  OBVIOUS
<1>6. /\ Len(a) >= 2 => x = o
      /\ Len(a) = 1 => x = 256 * p[1] /\ x <= o /\ o <= x + 255
      /\ Len(a) = 0 => x = 0
  BY <1>2, <1>3, <1>4, <1>5, ReadNumber
<1>7. p[1] \in Nat
  BY <1>2, Bytes
<1>8. ASSUME Len(a) < 2
      PROVE  \E y \in Nat : x = 256 * y /\ (x = 0 \/ (x <= o /\ o <= x + 255))
  <2>1. Len(a) = 0 \/ Len(a) = 1
    BY <1>8, LenProperties
  <2>2. CASE Len(a) = 0
    <3>1. x = 0 /\ 256 * 0 = 0 /\ 0 \in Nat
      BY <1>6, <2>2
    <3> QED  BY <3>1
  <2>3. CASE Len(a) = 1
    BY <1>6, <1>7, <2>3, Zenon
  <2> QED  BY <2>1, <2>2, <2>3
<1> QED  BY <1>5, <1>6, <1>8, Zenon

LEMMA ReadLength ==
  ASSUME NEW a \in Seq(Byte), NEW o \in Short, NEW d \in Text, Len(d) \in Short,
         Rest(a, paquete_men(o, d), 2)
  PROVE  LET x == ntohs(Begin(a, 2))
         IN  /\ Len(a) >= 2 => x = Len(d)
             /\ Len(a) < 2 => x <= Len(d)
<1>1. PICK p : p = paquete_men(o, d)
  OBVIOUS
<1>2. /\ p \in Seq(Byte) /\ Len(p) = 4 + Len(d)
      /\ 256 * p[3] + p[4] = Len(d) /\ p[3] \in Byte /\ p[4] \in Byte
  BY <1>1, Packet
<1>3. 2 + 2 <= Len(p) /\ 2 + 1 = 3 /\ 2 + 2 = 4 /\ Len(d) \in Nat
  BY <1>2 DEF Short
<1>4. Rest(a, p, 2)
  BY <1>1
<1> QED  BY <1>2, <1>3, <1>4, ReadNumber

\* Of nothing, a number read is zero, and a text read is zeros.
LEMMA ReadNothing ==
  /\ ntohs(Begin(<<>>, 2)) = 0
  /\ \A n \in Nat : Begin(<<>>, n) = [i \in 1..n |-> 0]
<1>1. Len(<<>>) = 0
  OBVIOUS
<1>2. \A n \in Nat : Begin(<<>>, n) = [i \in 1..n |-> 0]
  BY <1>1 DEF Begin
<1>3. Begin(<<>>, 2)[1] = 0 /\ Begin(<<>>, 2)[2] = 0
  BY <1>2
<1> QED  BY <1>2, <1>3 DEF ntohs

LEMMA ReadText ==
  ASSUME NEW a \in Seq(Byte), NEW o \in Short, NEW d \in Text, Len(d) \in Short, Len(d) > 0,
         Rest(a, paquete_men(o, d), 4)
  PROVE  /\ Len(a) >= Len(d) => Begin(a, Len(d)) = d
         /\ Len(a) < Len(d) => CutOf(Begin(a, Len(d)), d)
<1>1. PICK p : p = paquete_men(o, d)
  OBVIOUS
<1>2. Len(p) = 4 + Len(d) /\ \A i \in 1..Len(d) : p[4 + i] = d[i]
  BY <1>1, Packet
<1>3. Len(a) \in Nat
  BY LenProperties
<1>4. Len(d) \in Nat /\ DOMAIN d = 1..Len(d)
  BY LenProperties DEF Text
<1>5. Rest(a, p, 4)
  BY <1>1
<1>6. Len(a) <= Len(d)
  BY <1>2, <1>3, <1>4, <1>5 DEF Rest
<1>7. \A i \in 1..Len(a) : a[i] = d[i]
  BY <1>2, <1>3, <1>4, <1>5, <1>6 DEF Rest
<1>8. \A k \in Nat : k = Len(a) => Begin(a, Len(d)) = [i \in 1..Len(d) |-> IF i <= k THEN d[i] ELSE 0]
  BY <1>3, <1>4, <1>6, <1>7 DEF Begin
<1>9. ASSUME Len(a) >= Len(d)
      PROVE  Begin(a, Len(d)) = d
  <2>1. Len(a) = Len(d)
    BY <1>3, <1>4, <1>6, <1>9
  <2>2. Begin(a, Len(d)) = [i \in 1..Len(d) |-> d[i]]
    BY <1>7, <2>1 DEF Begin
  <2>3. d \in [1..Len(d) -> 1..255]
    BY LenProperties DEF Text
  <2> QED  BY <2>2, <2>3
<1>10. ASSUME Len(a) < Len(d)
       PROVE  CutOf(Begin(a, Len(d)), d)
  <2>1. CASE Len(a) = 0
    <3>1. Begin(a, Len(d)) = [i \in 1..Len(d) |-> 0]
      BY <1>4, <2>1 DEF Begin
    <3>2. Len(d) \in 1..Len(d)
      BY <1>4
    <3> QED  BY <3>1, <3>2 DEF CutOf
  <2>2. CASE Len(a) > 0
    <3>1. Len(a) \in 1..(Len(d) - 1)
      BY <1>3, <1>4, <1>10, <2>2
    <3>2. Begin(a, Len(d)) = [i \in DOMAIN d |-> IF i <= Len(a) THEN d[i] ELSE 0]
      BY <1>3, <1>4, <1>8
    <3> QED  BY <3>1, <3>2 DEF CutOf
  <2> QED  BY <1>3, <2>1, <2>2
<1> QED  BY <1>9, <1>10

\* What a number read in part, or out of a listing, is no code of an answer.
LEMMA NoAnswers ==
  /\ NoAnswer(0)
  /\ \A o \in Codes, x, y \in Nat :
       x = 256 * y /\ (x = 0 \/ (x <= OP_RESPONSE(o) /\ OP_RESPONSE(o) <= x + 255)) => NoAnswer(x)
  /\ NoAnswer(256 * 117) /\ NoAnswer(256 * 117 + 105)
<1>1. ASSUME NEW r \in Nat, r = 0 \/ (r > 22 /\ r < 65535)
      PROVE  r \notin Codes \cup {ERROR}
  BY <1>1, CodesAre DEF ERROR
<1>2. NoAnswer(0)
  <2>1. (0 + 32768) % 65536 = 32768
    OBVIOUS
  <2> QED  BY <1>1, <2>1 DEF NoAnswer, OP_RESPONSE
<1>3. (256 * 117 + 32768) % 65536 = 62720 /\ (256 * 117 + 105 + 32768) % 65536 = 62825
  OBVIOUS
<1>4. NoAnswer(256 * 117) /\ NoAnswer(256 * 117 + 105)
  BY <1>1, <1>3 DEF NoAnswer, OP_RESPONSE
<1>5. ASSUME NEW o \in Codes, NEW x \in Nat, NEW y \in Nat, x = 256 * y,
             x <= OP_RESPONSE(o) /\ OP_RESPONSE(o) <= x + 255
      PROVE  NoAnswer(x)
  <2>1. o \in Nat /\ 9 <= o /\ o <= 22
    BY CodesAre
  <2>2. (o + 32768) % 65536 = o + 32768
    BY <2>1
  <2>3. 256 * y <= o + 32768 /\ o + 32768 <= 256 * y + 255
    BY <1>5, <2>2 DEF OP_RESPONSE
  <2>4. y = 128
    BY <2>1, <2>3
  <2>5. x = 32768
    BY <1>5, <2>4
  <2>6. (32768 + 32768) % 65536 = 0
    OBVIOUS
  <2> QED  BY <1>1, <2>5, <2>6 DEF NoAnswer, OP_RESPONSE
<1> QED  BY <1>2, <1>4, <1>5

-----------------------------------------------------------------------------
(* What the steps of the socket library do to what comes to either end.    *)

LEMMA Comings ==
  ASSUME SessionTypeOK, NEW e \in Ends
  PROVE  /\ in[e] \in Seq(Byte) /\ out[Peer(e)] \in Seq(Byte) /\ Coming(e) \in Seq(Byte)
         /\ Len(in[e]) \in Nat /\ Len(out[Peer(e)]) \in Nat
         /\ Len(Coming(e)) = Len(in[e]) + Len(out[Peer(e)])
         /\ \A i \in 1..Len(in[e]) : Coming(e)[i] = in[e][i]
         /\ \A i \in 1..Len(out[Peer(e)]) : Coming(e)[Len(in[e]) + i] = out[Peer(e)][i]
         /\ out[Peer(e)] = <<>> => Coming(e) = in[e]
         /\ in[e] = <<>> => Coming(e) = out[Peer(e)]
         /\ Coming(e) = <<>> => in[e] = <<>> /\ out[Peer(e)] = <<>>
<1>1. PICK a \in Seq(Byte), b \in Seq(Byte) : a = in[e] /\ b = out[Peer(e)]
  BY EndsAre DEF SessionTypeOK
<1>2. PICK c : c = a \o b
  OBVIOUS
<1>3. c = Coming(e)
  BY <1>1, <1>2 DEF Coming
<1>4. /\ c \in Seq(Byte) /\ Len(a) \in Nat /\ Len(b) \in Nat /\ Len(c) = Len(a) + Len(b)
      /\ \A i \in 1..Len(a) : c[i] = a[i]
      /\ \A i \in 1..Len(b) : c[Len(a) + i] = b[i]
  BY <1>2, Joined
<1>5. b = <<>> => c = a
  BY <1>2, ConcatEmptySeq
<1>6. a = <<>> => c = b
  BY <1>2, ConcatEmptySeq
<1>7. c = <<>> => a = <<>> /\ b = <<>>
  <2>1. c = <<>> => Len(a) = 0 /\ Len(b) = 0
    BY <1>4
  <2>2. \A s \in Seq(Byte) : Len(s) = 0 => s = <<>>
    BY EmptySeq
  <2> QED  BY <2>1, <2>2
<1> QED  BY <1>1, <1>3, <1>4, <1>5, <1>6, <1>7, Zenon

LEMMA Dropped ==
  ASSUME NEW a \in Seq(Byte), NEW k \in Nat, k <= Len(a)
  PROVE  /\ SubSeq(a, k + 1, Len(a)) \in Seq(Byte) /\ Len(SubSeq(a, k + 1, Len(a))) = Len(a) - k
         /\ \A i \in 1..(Len(a) - k) : SubSeq(a, k + 1, Len(a))[i] = a[k + i]
<1>1. Len(a) \in Nat
  BY LenProperties
<1>2. \A i \in (k + 1)..Len(a) : a[i] \in Byte
  BY <1>1, ElementOfSeq
<1>3. k + 1 \in Int /\ Len(a) \in Int
  BY <1>1
<1>4. /\ SubSeq(a, k + 1, Len(a)) \in Seq(Byte)
      /\ Len(SubSeq(a, k + 1, Len(a))) = IF k + 1 <= Len(a) THEN Len(a) - (k + 1) + 1 ELSE 0
      /\ \A i \in 1..(Len(a) - (k + 1) + 1) : SubSeq(a, k + 1, Len(a))[i] = a[(k + 1) + i - 1]
  BY <1>2, <1>3, SubSeqProperties
<1>5. Len(SubSeq(a, k + 1, Len(a))) = Len(a) - k
  BY <1>1, <1>4
<1>6. ASSUME NEW i \in 1..(Len(a) - k)
      PROVE  SubSeq(a, k + 1, Len(a))[i] = a[k + i]
  <2>1. i \in 1..(Len(a) - (k + 1) + 1) /\ (k + 1) + i - 1 = k + i
    BY <1>1
  <2> QED  BY <1>4, <2>1
<1> QED  BY <1>4, <1>5, <1>6

LEMMA ComingsNext ==
  ASSUME SessionTypeOK', NEW e \in Ends
  PROVE  Coming(e)' \in Seq(Byte) /\ Len(Coming(e)') \in Nat
<1>1. in'[e] \in Seq(Byte) /\ out'[Peer(e)] \in Seq(Byte)
  BY EndsAre DEF SessionTypeOK
<1>2. \A a, b \in Seq(Byte) : a \o b \in Seq(Byte)
  BY ConcatProperties
<1>3. Coming(e)' \in Seq(Byte)
  BY <1>1, <1>2 DEF Coming
<1> QED  BY <1>3, LenProperties

\* Taking the first k bytes off the first of two sequences.
LEMMA Taking ==
  ASSUME NEW a \in Seq(Byte), NEW b \in Seq(Byte), NEW k \in Nat, k <= Len(a)
  PROVE  LET c == a \o b
             d == SubSeq(a, k + 1, Len(a)) \o b
         IN  d \in Seq(Byte) /\ Len(d) = Len(c) - k /\ Rest(d, c, k)
<1>1. PICK f : f = SubSeq(a, k + 1, Len(a))
  OBVIOUS
<1>2. PICK c, d : c = a \o b /\ d = f \o b
  OBVIOUS
<1>3. f \in Seq(Byte) /\ Len(f) = Len(a) - k /\ \A i \in 1..(Len(a) - k) : f[i] = a[k + i]
  BY <1>1, Dropped
<1>4. /\ Len(a) \in Nat /\ Len(b) \in Nat /\ Len(c) = Len(a) + Len(b)
      /\ \A i \in 1..Len(a) : c[i] = a[i]
      /\ \A i \in 1..Len(b) : c[Len(a) + i] = b[i]
  BY <1>2, Joined
<1>5. /\ d \in Seq(Byte) /\ Len(d) = Len(f) + Len(b) /\ Len(f) \in Nat
      /\ \A i \in 1..Len(f) : d[i] = f[i]
      /\ \A i \in 1..Len(b) : d[Len(f) + i] = b[i]
  <2>1. f \in Seq(Byte) /\ d = f \o b
    BY <1>2, <1>3
  <2> QED  BY <2>1, Joined
<1>6. Len(d) = Len(c) - k
  BY <1>3, <1>4, <1>5
<1>7. ASSUME NEW i \in 1..Len(d)
      PROVE  d[i] = c[k + i]
  <2>1. i \in Int /\ Len(f) \in Int /\ i - Len(f) \in Int
    BY <1>4, <1>5
  <2>2. CASE i <= Len(f)
    <3>1. i \in 1..Len(f) /\ i \in 1..(Len(a) - k) /\ k + i \in 1..Len(a)
      BY <1>3, <1>4, <2>1, <2>2
    <3>2. d[i] = f[i] /\ f[i] = a[k + i] /\ c[k + i] = a[k + i]
      BY <1>3, <1>4, <1>5, <3>1
    <3> QED  BY <3>2
  <2>3. CASE i > Len(f)
    <3>1. PICK j \in Int : j = i - Len(f)
      BY <2>1
    <3>2. j \in 1..Len(b) /\ i = Len(f) + j /\ k + i = Len(a) + j
      BY <1>3, <1>4, <1>5, <2>1, <2>3, <3>1
    <3>3. d[i] = b[j] /\ c[k + i] = b[j]
      BY <1>4, <1>5, <3>2
    <3> QED  BY <3>3
  <2> QED  BY <2>1, <2>2, <2>3
<1>8. Rest(d, c, k)
  BY <1>4, <1>6, <1>7 DEF Rest
<1> QED  BY <1>1, <1>2, <1>5, <1>6, <1>8

\* A read takes the first bytes that come.  When it does not time out it fills
\* the buffer with them, with zeros in the place of those that the peer, which
\* has closed, did not write.
LEMMA Reading ==
  ASSUME SessionTypeOK, Connected, NEW e \in Ends, NEW n \in Nat, NEW r \in Reads(e, n), Take(e, r)
  PROVE  /\ Coming(e)' \in Seq(Byte)
         /\ in'[Peer(e)] = in[Peer(e)] /\ Coming(Peer(e))' = Coming(Peer(e))
         /\ expire_timeout'[Peer(e)] = expire_timeout[Peer(e)]
         /\ Coming(e) = <<>> => Coming(e)' = <<>> /\ Buffer(e, r, n) = Begin(<<>>, n)
         /\ open[e] \/ in'[e] = <<>>
         /\ expire_timeout'[e] = "no" =>
              /\ expire_timeout[e] = "no"
              /\ Buffer(e, r, n) = Begin(Coming(e), n)
              /\ Len(Coming(e)) >= n => Len(Coming(e)') = Len(Coming(e)) - n /\ Rest(Coming(e)', Coming(e), n)
              /\ Len(Coming(e)) < n => ~open[Peer(e)] /\ Coming(e)' = <<>>
<1>1. PICK a, b, k : a = in[e] /\ b = out[Peer(e)] /\ k = r.taken
  OBVIOUS
<1>2. PICK c, d : c = Coming(e) /\ d = Coming(e)'
  OBVIOUS
<1>3. Peer(e) \in Ends /\ Peer(e) # e /\ Peer(Peer(e)) = e
  BY EndsAre
<1>4. /\ a \in Seq(Byte) /\ b \in Seq(Byte) /\ c \in Seq(Byte)
      /\ Len(a) \in Nat /\ Len(b) \in Nat /\ Len(c) = Len(a) + Len(b)
      /\ \A i \in 1..Len(a) : c[i] = a[i]
      /\ b = <<>> => c = a
      /\ c = <<>> => a = <<>>
  BY <1>1, <1>2, Comings
<1>5. /\ k \in Nat /\ k <= n /\ k <= Len(a)
      /\ r.late => k < n
      /\ ~r.late => k = n \/ (k = Len(a) /\ (~open[Peer(e)] \/ rst[e] = "in"))
  BY <1>1 DEF Reads
<1>6. in'[e] = SubSeq(a, k + 1, Len(a)) /\ in'[Peer(e)] = in[Peer(e)] /\ UNCHANGED <<open, out, rst>>
  BY <1>1, <1>3 DEF Take, SessionTypeOK
<1>7. /\ expire_timeout'[e] = IF r.late THEN "yes" ELSE expire_timeout[e]
      /\ expire_timeout'[Peer(e)] = expire_timeout[Peer(e)]
  BY <1>3 DEF Take, SessionTypeOK
<1>8. Coming(Peer(e))' = Coming(Peer(e))
  BY <1>3, <1>6 DEF Coming
<1>9. PICK f : f = SubSeq(a, k + 1, Len(a))
  OBVIOUS
<1>10. c = a \o b /\ d = f \o b
  BY <1>1, <1>2, <1>6, <1>9 DEF Coming
<1>11. d \in Seq(Byte) /\ Len(d) = Len(c) - k /\ Rest(d, c, k)
  BY <1>4, <1>5, <1>9, <1>10, Taking
<1>12. Len(d) \in Nat /\ Len(c) \in Nat
  BY <1>4, <1>11, LenProperties
<1>13. Len(d) = 0 => d = <<>>
  BY <1>11, EmptySeq
<1>14. c = <<>> => d = <<>> /\ Buffer(e, r, n) = Begin(<<>>, n)
  <2>1. SUFFICES ASSUME c = <<>>
                 PROVE  d = <<>> /\ Buffer(e, r, n) = Begin(<<>>, n)
    OBVIOUS
  <2>2. a = <<>> /\ Len(<<>>) = 0 /\ Len(c) = 0
    BY <1>4, <2>1
  <2>3. k = 0
    BY <1>5, <2>2
  <2>4. Buffer(e, r, n) = Begin(<<>>, n)
    <3>1. \A i \in 1..n : ~(i <= k) /\ ~(i <= Len(<<>>))
      BY <2>2, <2>3
    <3>2. Buffer(e, r, n) = [i \in 1..n |-> 0]
      BY <1>1, <3>1 DEF Buffer
    <3>3. Begin(<<>>, n) = [i \in 1..n |-> 0]
      BY <3>1 DEF Begin
    <3> QED  BY <3>2, <3>3
  <2>5. d = <<>>
    BY <1>11, <1>12, <1>13, <2>2, <2>3
  <2> QED  BY <2>4, <2>5
<1>15. open[e] \/ in'[e] = <<>>
  <2>1. SUFFICES ASSUME ~open[e]
                 PROVE  in'[e] = <<>>
    OBVIOUS
  <2>2. a = <<>>
    BY <1>1, <2>1 DEF Connected
  <2>3. Len(a) = 0 /\ k = 0
    BY <1>5, <2>2
  <2> QED  BY <1>6, <2>3, SubSeqEmpty
<1>16. ASSUME expire_timeout'[e] = "no"
       PROVE  /\ expire_timeout[e] = "no"
              /\ Buffer(e, r, n) = Begin(c, n)
              /\ Len(c) >= n => Len(d) = Len(c) - n /\ Rest(d, c, n)
              /\ Len(c) < n => ~open[Peer(e)] /\ d = <<>>
  <2>1. ~r.late /\ expire_timeout[e] = "no"
    BY <1>7, <1>16
  <2>2. CASE k = n
    <3>1. Len(c) >= n
      BY <1>4, <1>5, <2>2
    <3>2. \A i \in 1..n : i <= k /\ i <= Len(c) /\ i \in 1..Len(a)
      BY <1>4, <1>5, <2>2
    <3>3. Buffer(e, r, n) = Begin(c, n)
      BY <1>1, <1>4, <3>2 DEF Buffer, Begin
    <3> QED  BY <1>11, <1>12, <2>1, <2>2, <3>1, <3>3
  <2>3. CASE k # n
    <3>1. k = Len(a) /\ (~open[Peer(e)] \/ rst[e] = "in") /\ k < n
      BY <1>5, <2>1, <2>3
    <3>2. ~open[Peer(e)]
      BY <3>1 DEF Connected
    <3>3. c = a /\ b = <<>>
      BY <1>1, <1>3, <1>4, <3>2 DEF Connected
    <3>4. Buffer(e, r, n) = Begin(c, n)
      BY <1>1, <3>1, <3>3 DEF Buffer, Begin
    <3>5. d = <<>> /\ Len(c) < n
      BY <1>11, <1>12, <1>13, <3>1, <3>3
    <3> QED  BY <1>12, <2>1, <3>2, <3>4, <3>5
  <2> QED  BY <2>2, <2>3
<1> QED  BY <1>2, <1>6, <1>7, <1>8, <1>11, <1>14, <1>15, <1>16, Zenon

\* What is written comes to the peer, if it is there, in the order of the packet.
LEMMA Writing ==
  ASSUME SessionTypeOK, NEW e \in Ends, NEW label, NEW next, writes(e, label, next)
  PROVE  /\ UNCHANGED <<open, expire_timeout, op, len, text, in_session, historyVars>>
         /\ pc[e] = label /\ pc'[Peer(e)] = pc[Peer(e)]
         /\ pc'[e] = label \/ (pc'[e] = next /\ out'[e] = <<>>)
         /\ in'[e] = in[e] /\ out'[Peer(e)] = out[Peer(e)] /\ Coming(e)' = Coming(e)
         /\ rst'[Peer(e)] = rst[Peer(e)]
         /\ open[Peer(e)] => Coming(Peer(e))' = Coming(Peer(e)) /\ rst'[e] = rst[e]
         /\ ~open[Peer(e)] => in'[Peer(e)] = in[Peer(e)]
<1>1. PICK k \in 1..Len(out[e]) :
        /\ out' = [out EXCEPT ![e] = SubSeq(@, k + 1, Len(@))]
        /\ in' = [in EXCEPT ![Peer(e)] = IF open[Peer(e)] THEN @ \o SubSeq(out[e], 1, k) ELSE @]
        /\ Goto(e, IF k = Len(out[e]) THEN next ELSE label)
  BY DEF writes
<1>2. Peer(e) \in Ends /\ Peer(e) # e /\ Peer(Peer(e)) = e
  BY EndsAre
<1>3. PICK o, a, f, g : /\ o = out[e] /\ a = in[Peer(e)]
                        /\ f = SubSeq(o, 1, k) /\ g = SubSeq(o, k + 1, Len(o))
  OBVIOUS
<1>4. o \in Seq(Byte) /\ a \in Seq(Byte)
  BY <1>2, <1>3 DEF SessionTypeOK
<1>5. Len(o) \in Nat /\ k \in Nat /\ 1 <= k /\ k <= Len(o)
  BY <1>3, <1>4, LenProperties
<1>6. f \in Seq(Byte) /\ g \in Seq(Byte)
  <2>1. \A i \in 1..k : o[i] \in Byte
    BY <1>4, <1>5, ElementOfSeq
  <2>2. f \in Seq(Byte)
    BY <1>3, <1>5, <2>1, SubSeqProperties
  <2>3. g \in Seq(Byte)
    BY <1>3, <1>4, <1>5, Dropped
  <2> QED  BY <2>2, <2>3
<1>7. f \o g = o
  <2>1. SubSeq(o, 1, k) \o SubSeq(o, k + 1, Len(o)) = SubSeq(o, 1, Len(o))
    BY <1>4, <1>5, ConcatAdjacentSubSeq
  <2> QED  BY <1>3, <1>4, <2>1, SubSeqFull
<1>8. (a \o f) \o g = a \o o
  <2>1. \A x, y, z \in Seq(Byte) : (x \o y) \o z = x \o (y \o z)
    BY ConcatAssociative
  <2> QED  BY <1>4, <1>6, <1>7, <2>1, Zenon
<1>9. /\ out'[e] = g /\ out'[Peer(e)] = out[Peer(e)]
      /\ in'[Peer(e)] = (IF open[Peer(e)] THEN a \o f ELSE a) /\ in'[e] = in[e]
      /\ rst'[Peer(e)] = rst[Peer(e)] /\ (open[Peer(e)] => rst'[e] = rst[e])
  BY <1>1, <1>2, <1>3 DEF writes, SessionTypeOK
<1>10. Coming(e)' = Coming(e)
  BY <1>2, <1>9 DEF Coming
<1>11. open[Peer(e)] => Coming(Peer(e))' = Coming(Peer(e))
  BY <1>2, <1>3, <1>8, <1>9 DEF Coming
<1>12. k = Len(o) => g = <<>>
  BY <1>3, <1>5, SubSeqEmpty
<1>13. pc'[Peer(e)] = pc[Peer(e)] /\ (pc'[e] = label \/ (pc'[e] = next /\ out'[e] = <<>>))
  BY <1>1, <1>2, <1>3, <1>9, <1>12 DEF Goto, SessionTypeOK
<1>14. pc[e] = label /\ UNCHANGED <<open, expire_timeout, op, len, text, in_session, historyVars>>
  BY DEF writes
<1> QED  BY <1>3, <1>9, <1>10, <1>11, <1>13, <1>14

LEMMA Closing ==
  ASSUME SessionTypeOK, NEW e \in Ends, closes(e)
  PROVE  /\ UNCHANGED <<expire_timeout, op, len, text, in_session, historyVars>>
         /\ ~open'[e] /\ in'[e] = <<>> /\ out'[e] = <<>> /\ rst'[e] = rst[e]
         /\ open'[Peer(e)] = open[Peer(e)] /\ in'[Peer(e)] = in[Peer(e)] /\ out'[Peer(e)] = out[Peer(e)]
         /\ Rest(Coming(Peer(e))', Coming(Peer(e)), 0)
         /\ Coming(e)' = out[Peer(e)]
<1>1. Peer(e) \in Ends /\ Peer(e) # e /\ Peer(Peer(e)) = e
  BY EndsAre
<1>2. /\ ~open'[e] /\ in'[e] = <<>> /\ out'[e] = <<>> /\ rst'[e] = rst[e]
      /\ open'[Peer(e)] = open[Peer(e)] /\ in'[Peer(e)] = in[Peer(e)] /\ out'[Peer(e)] = out[Peer(e)]
      /\ UNCHANGED <<expire_timeout, op, len, text, in_session, historyVars>>
  BY <1>1 DEF closes, SessionTypeOK
<1>3. PICK a, b, c : a = in[Peer(e)] /\ b = out[Peer(e)] /\ c = Coming(Peer(e))
  OBVIOUS
<1>4. /\ a \in Seq(Byte) /\ c \in Seq(Byte) /\ Len(c) = Len(a) + Len(out[e])
      /\ Len(a) \in Nat /\ Len(out[e]) \in Nat
      /\ \A i \in 1..Len(a) : c[i] = a[i]
  BY <1>1, <1>3, Comings
<1>5. b \in Seq(Byte)
  BY <1>1, <1>3 DEF SessionTypeOK
<1>6. Coming(Peer(e))' = a \o <<>> /\ Coming(e)' = <<>> \o b
  BY <1>1, <1>2, <1>3 DEF Coming
<1>7. a \o <<>> = a /\ <<>> \o b = b
  BY <1>4, <1>5, ConcatEmptySeq
<1>8. Rest(a, c, 0)
  BY <1>4 DEF Rest
<1> QED  BY <1>2, <1>3, <1>6, <1>7, <1>8

LEMMA Resetting ==
  ASSUME SessionTypeOK, Connected, NEW e \in Ends, reset(e)
  PROVE  /\ UNCHANGED <<pc, open, out, expire_timeout, op, len, text, in_session, historyVars>>
         /\ open[e] /\ ~open[Peer(e)]
         /\ in'[Peer(e)] = in[Peer(e)] /\ rst'[Peer(e)] = rst[Peer(e)]
         /\ Coming(Peer(e))' = Coming(Peer(e))
         /\ Rest(Coming(e)', Coming(e), 0)
<1>1. Peer(e) \in Ends /\ Peer(e) # e /\ Peer(Peer(e)) = e
  BY EndsAre
<1>2. /\ UNCHANGED <<pc, open, out, expire_timeout, op, len, text, in_session, historyVars>>
      /\ open[e] /\ rst[e] = "due"
      /\ in'[Peer(e)] = in[Peer(e)] /\ rst'[Peer(e)] = rst[Peer(e)]
      /\ in'[e] = in[e] \/ in'[e] = <<>>
  BY <1>1 DEF reset, SessionTypeOK
<1>3. ~open[Peer(e)] /\ out[Peer(e)] = <<>>
  BY <1>1, <1>2 DEF Connected
<1>4. in[e] \in Seq(Byte) /\ Coming(e) = in[e]
  BY <1>3, Comings
<1>5. Coming(e)' = in'[e]
  <2>1. Coming(e)' = in'[e] \o <<>>
    BY <1>2, <1>3 DEF Coming
  <2>2. in'[e] \in Seq(Byte)
    BY <1>2, <1>4, EmptySeq
  <2>3. \A q \in Seq(Byte) : q \o <<>> = q
    BY ConcatEmptySeq
  <2> QED  BY <2>1, <2>2, <2>3
<1>6. Rest(in[e], in[e], 0) /\ Rest(<<>>, in[e], 0)
  <2>1. 0 \in Nat /\ Len(in[e]) \in Nat
    BY <1>4, LenProperties
  <2> QED  BY <1>4, <2>1, RestOfAll
<1>7. Coming(Peer(e))' = Coming(Peer(e))
  BY <1>1, <1>2 DEF Coming
<1> QED  BY <1>2, <1>3, <1>4, <1>5, <1>6, <1>7

-----------------------------------------------------------------------------
(* The packets of the conversation.                                        *)

LEMMA GreetingIsNoCommand == Hello \notin Commands
<1>1. Hello.op = 7
  BY DEF Hello, Request, OP_SOLICITUD_CONEXION
<1>2. \A c \in Commands : c.op # 7
  BY TextsFit, CodesAre
<1> QED  BY <1>1, <1>2

LEMMA QuestionIs ==
  ASSUME Recorded
  PROVE  /\ asked.op \in Short /\ asked.data \in Text /\ Len(asked.data) \in Short
         /\ Len(asked.data) < MAX_BUFFER_DATA_SIZE
         /\ Question \in Seq(Byte) /\ Len(Question) = 4 + Len(asked.data) /\ Len(asked.data) \in Nat
         /\ asked \in Commands => asked.op \in Codes
         /\ asked = Hello => Len(asked.data) = 0
<1>1. Hello.op = OP_SOLICITUD_CONEXION /\ Hello.data = <<>>
  BY DEF Hello, Request
<1>2. CASE asked \in Commands
  <2>1. asked.op \in Codes /\ asked.data \in Text /\ Len(asked.data) \in Short /\ Len(asked.data) < MAX_BUFFER_DATA_SIZE
    BY <1>2, TextsFit
  <2>2. asked.op \in Short
    BY <2>1, Shorts
  <2>3. Question \in Seq(Byte) /\ Len(Question) = 4 + Len(asked.data)
    BY <2>1, <2>2, PacketBytes DEF Question
  <2>4. Len(asked.data) \in Nat
    BY <2>1 DEF Short
  <2> QED  BY <1>2, <2>1, <2>2, <2>3, <2>4, GreetingIsNoCommand
<1>3. CASE asked = Hello
  <2>1. asked.op \in Short /\ asked.data \in Text /\ Len(asked.data) = 0 /\ Len(asked.data) \in Short
    BY <1>1, <1>3, Shorts, EmptyText
  <2>2. Question \in Seq(Byte) /\ Len(Question) = 4 + Len(asked.data)
    BY <2>1, PacketBytes DEF Question
  <2>3. 0 < MAX_BUFFER_DATA_SIZE
    BY TextsFit
  <2> QED  BY <1>3, <2>1, <2>2, <2>3, GreetingIsNoCommand
<1> QED  BY <1>2, <1>3 DEF Recorded

LEMMA GrantIs ==
  /\ SERVER_VERSION \in Text /\ Len(SERVER_VERSION) \in Short /\ Len(SERVER_VERSION) \in 1..(MAX_BUFFER_DATA_SIZE - 1)
  /\ OP_CONCESION_CONEXION \in Short
  /\ Grant \in Seq(Byte) /\ Len(Grant) = 4 + Len(SERVER_VERSION) /\ Len(SERVER_VERSION) \in Nat
<1>1. SERVER_VERSION \in Text /\ Len(SERVER_VERSION) \in Short /\ Len(SERVER_VERSION) \in 1..(MAX_BUFFER_DATA_SIZE - 1)
  BY TextsFit, FixedTextsAssumption
<1>2. OP_CONCESION_CONEXION \in Short
  BY Shorts
<1>3. Grant \in Seq(Byte) /\ Len(Grant) = 4 + Len(SERVER_VERSION)
  BY <1>1, <1>2, PacketBytes DEF Grant
<1>4. Len(SERVER_VERSION) \in Nat
  BY <1>1 DEF Short
<1> QED  BY <1>1, <1>2, <1>3, <1>4

LEMMA ReplyIs ==
  ASSUME Recorded, open["client"], answered # NULL
  PROVE  /\ asked \in Commands /\ answered.op = asked.op /\ answered.op \in Codes
         /\ answered.op \in Short /\ OP_RESPONSE(answered.op) \in Short
         /\ answered.data \in Text /\ Len(answered.data) \in Short \ {0} /\ Len(answered.data) \in Nat
         /\ Len(answered.data) >= MAX_BUFFER_DATA_SIZE => SubSeq(answered.data, 1, 2) = <<117, 105>>
         /\ Reply \in Seq(Byte) /\ Len(Reply) = 4 + Len(answered.data)
<1>1. /\ asked \in Commands /\ answered.op = asked.op /\ Len(answered.data) \in Short \ {0}
      /\ Len(answered.data) >= MAX_BUFFER_DATA_SIZE => SubSeq(answered.data, 1, 2) = <<117, 105>>
      /\ answered.data \in Text
  BY DEF Recorded
<1>2. answered.op \in Codes
  BY <1>1, TextsFit
<1>3. answered.op \in Short /\ OP_RESPONSE(answered.op) \in Short
  BY <1>2, Shorts
<1>4. Reply \in Seq(Byte) /\ Len(Reply) = 4 + Len(answered.data)
  BY <1>1, <1>3, PacketBytes DEF Reply
<1>5. Len(answered.data) \in Nat
  BY <1>1 DEF Short
<1> QED  BY <1>1, <1>2, <1>3, <1>4, <1>5

-----------------------------------------------------------------------------
(* What an end knows is kept while only the other one moves, or while it    *)
(* goes on writing.                                                        *)

Speaking == {"grant", "op", "answer", "sent"}

LEMMA ServerFrame ==
  ASSUME SessionTypeOK, SessionTypeOK', Recorded, ServerInv,
         \/ pc'["server"] = pc["server"] 
         \/ pc["server"] \in Speaking /\ pc'["server"] \in Speaking,
         expire_timeout'["server"] = expire_timeout["server"], op'["server"] = op["server"],
         len'["server"] = len["server"], text'["server"] = text["server"],
         UNCHANGED <<asked, answered>>,
         Rest(Coming("server")', Coming("server"), 0),
         \/ pc["server"] \notin Greeting
         \/ Coming("client") = <<>> => Coming("client")' = <<>>,
         open'["client"] => open["client"]
  PROVE  ServerInv'
<1>1. PICK c, d, q : c = Coming("server") /\ d = Coming("server")' /\ q = Question
  OBVIOUS
<1>2. c \in Seq(Byte) /\ d \in Seq(Byte)
  BY <1>1, EndsAre, Comings, ComingsNext
<1>3. q \in Seq(Byte) /\ q = Question'
  BY <1>1, QuestionIs DEF Question
<1>4. \A k \in {0, 2, 4} : Rest(c, q, k) => Rest(d, q, k)
  <2>1. ASSUME NEW k \in Nat, Rest(c, q, k)
        PROVE  Rest(d, q, k)
    <3>1. Rest(d, q, k + 0)
      BY <1>1, <1>2, <1>3, <2>1, RestOfRest
    <3> QED  BY <3>1
  <2> QED  BY <2>1
<1>5. c = <<>> => d = <<>>
  <2>1. Rest(d, c, 0) /\ (c = <<>> => Len(c) <= 0) /\ 0 \in Nat
    BY <1>1
  <2> QED  BY <1>2, <2>1, RestOfAll
<1>6. pc["server"] \in Speaking => pc["server"] \notin Greeting \cup {"len", "text", "handle"}
  BY DEF Speaking, Greeting
<1>7. CASE pc'["server"] = pc["server"]
  BY <1>1, <1>3, <1>4, <1>5, <1>7 DEF ServerInv, Pending
<1>8. CASE pc["server"] \in Speaking /\ pc'["server"] \in Speaking
  BY <1>1, <1>3, <1>4, <1>5, <1>8 DEF ServerInv, Pending, Speaking, Greeting
<1> QED  BY <1>7, <1>8

LEMMA ServerDone ==
  ASSUME pc'["server"] \in Ended
  PROVE  ServerInv'
BY DEF ServerInv, Ended, Greeting

LEMMA ClientDone ==
  ASSUME pc'["client"] \in Left
  PROVE  ClientInv'
BY DEF ClientInv, Left, AfterSpoilt, BeforeSpoilt

LEMMA ClientFrame ==
  ASSUME SessionTypeOK, SessionTypeOK', Connected, Recorded, ClientInv,
         \/ pc'["client"] = pc["client"]
         \/ pc["client"] = "hello" /\ pc'["client"] = "hello_op"
         \/ pc["client"] = "request" /\ pc'["client"] = "op",
         expire_timeout'["client"] = expire_timeout["client"], op'["client"] = op["client"],
         len'["client"] = len["client"], text'["client"] = text["client"],
         UNCHANGED <<asked, answered, spoilt>>,
         Rest(Coming("client")', Coming("client"), 0),
         open'["server"] => open["server"] /\ Coming("client")' = Coming("client")
  PROVE  ClientInv'
<1>1. PICK c, d : c = Coming("client") /\ d = Coming("client")'
  OBVIOUS
<1>2. c \in Seq(Byte) /\ d \in Seq(Byte) /\ Len(c) \in Nat /\ Len(d) \in Nat
  <2>1. c \in Seq(Byte) /\ d \in Seq(Byte)
    BY <1>1, EndsAre, Comings, ComingsNext
  <2> QED  BY <2>1, LenProperties
<1>3. Rest(d, c, 0) /\ Len(d) <= Len(c) /\ \A i \in 1..Len(d) : d[i] = c[i]
  BY <1>1, <1>2 DEF Rest
<1>4. ASSUME NEW p \in Seq(Byte), NEW k \in Nat, Rest(c, p, k)
      PROVE  Rest(d, p, k)
  <2>1. Rest(d, p, k + 0)
    BY <1>2, <1>3, <1>4, RestOfRest
  <2> QED  BY <2>1
<1>5. c = <<>> => d = <<>>
  <2>1. c = <<>> => Len(d) = 0
    BY <1>2, <1>3
  <2> QED  BY <1>2, <2>1, EmptySeq
<1>6. \A k \in {0, 2, 4} : Rest(c, Grant, k) => Rest(d, Grant, k)
  BY <1>4, GrantIs
<1>7. open'["server"] => open["server"] /\ d = c
  BY <1>1
<1>8. CASE pc["client"] \in Left
  BY <1>8, ClientDone DEF Left
<1>9. CASE pc["client"] \notin Left
  <2>1. Listing => Listing'
    BY <1>1, <1>2, <1>3, <1>7 DEF Listing
  <2>2. AfterSpoilt => AfterSpoilt'
    BY <2>1 DEF AfterSpoilt
  <2>3. \A k \in {0, 2, 4} : answered # NULL /\ Follows("client", Reply, k) => Follows("client", Reply, k)'
    <3>1. ASSUME NEW k \in {0, 2, 4}, answered # NULL, Follows("client", Reply, k)
          PROVE  Follows("client", Reply, k)'
      <4>1. open["client"]
        BY <1>9, EndsAre DEF Connected, Running, Opening, Waiting, Ended, Left
      <4>2. Reply \in Seq(Byte) /\ Reply' = Reply
        BY <3>1, <4>1, ReplyIs DEF Reply
      <4>3. Rest(d, Reply, k)
        BY <1>1, <1>4, <3>1, <4>2 DEF Follows
      <4> QED  BY <1>1, <1>7, <3>1, <4>2, <4>3, EndsAre DEF Follows
    <3> QED  BY <3>1
  <2>4. Reply' = Reply
    BY DEF Reply
  <2>5. BeforeSpoilt => BeforeSpoilt'
    BY <1>1, <1>5, <1>7, <2>1, <2>3, <2>4 DEF BeforeSpoilt
  <2> QED  BY <1>1, <1>5, <1>6, <1>7, <2>2, <2>5 DEF ClientInv
<1> QED  BY <1>8, <1>9

-----------------------------------------------------------------------------
(* The invariant, when one end moves and the other one does not.           *)

AtServer == Greeting \cup Serving \cup Ended
AtClient == Opening \cup Waiting \cup {"prompt"} \cup Left

LEMMA RunningIsOpen ==
  ASSUME Connected
  PROVE  /\ pc["server"] \in Greeting \cup Serving => open["server"]
         /\ pc["client"] \in Opening \cup Waiting \cup {"prompt"} => open["client"]
         /\ ~open["server"] => pc["server"] \in Ended
         /\ ~open["client"] => pc["client"] \in Left
<1>1. /\ ~open["server"] => ~Running("server")
      /\ ~open["client"] => ~Running("client")
  BY EndsAre DEF Connected
<1>2. pc["server"] \in Greeting \cup Serving => Running("server")
  BY DEF Running, Greeting, Serving, Left, Ended
<1>3. pc["client"] \in Opening \cup Waiting \cup {"prompt"} => Running("client")
  BY DEF Running, Opening, Waiting, Left, Ended
<1> QED  BY <1>1, <1>2, <1>3 DEF Connected

\* The sockets after a step of e that closes none of them.
LEMMA ConnectedMove ==
  ASSUME SessionTypeOK, Connected, NEW e \in Ends, open[e], UNCHANGED open,
         pc'[Peer(e)] = pc[Peer(e)],
         in'[Peer(e)] = in[Peer(e)] \/ open[Peer(e)], out'[Peer(e)] = out[Peer(e)],
         rst'[Peer(e)] = rst[Peer(e)], rst'[e] = rst[e] \/ ~open[Peer(e)],
         e = "server" => pc'[e] \in AtServer, e = "client" => pc'[e] \in AtClient
  PROVE  Connected'
<1>1. Peer(e) \in Ends /\ Peer(e) # e /\ Peer(Peer(e)) = e /\ \A x \in Ends : x = e \/ x = Peer(e)
  BY EndsAre
<1>2. pc'["client"] \in AtClient /\ pc'["server"] \in AtServer
  BY EndsAre DEF Connected, AtClient, AtServer
<1>3. ~open[Peer(e)] => in'[Peer(e)] = <<>> /\ out'[Peer(e)] = <<>> /\ ~Running(Peer(e))'
  BY <1>1 DEF Connected, Running
<1>4. rst'[e] # "no" => ~open[Peer(e)]
  BY <1>1 DEF Connected
<1>5. rst'[Peer(e)] # "no" => ~open[e]
  BY <1>1 DEF Connected
<1> QED  BY <1>1, <1>2, <1>3, <1>4, <1>5 DEF Connected, AtClient, AtServer

LEMMA ServerMoves ==
  ASSUME SessionInv, SessionTypeOK', pc["server"] \in Greeting \cup Serving,
         UNCHANGED <<open, asked, answered, spoilt>>,
         pc'["client"] = pc["client"], expire_timeout'["client"] = expire_timeout["client"],
         op'["client"] = op["client"], len'["client"] = len["client"], text'["client"] = text["client"],
         in'["client"] = in["client"] \/ open["client"], out'["client"] = out["client"],
         rst'["client"] = rst["client"], rst'["server"] = rst["server"] \/ ~open["client"],
         open["client"] => Coming("client")' = Coming("client") \/ ClientInv',
         pc'["server"] \in AtServer,
         pc'["server"] \in (Greeting \cup Serving) \ {"grant", "answer"} => out'["server"] = <<>>,
         pc'["server"] \in Serving \ {"grant", "op"} => expire_timeout'["server"] = "no",
         ServerInv', open["client"] /\ Awaiting => Awaiting'
  PROVE  SessionInv'
<1>1. Connected'
  BY RunningIsOpen, EndsAre, ConnectedMove DEF SessionInv
<1>2. Written'
  BY DEF SessionInv, Written
<1>3. Watched'
  BY DEF SessionInv, Watched
<1>4. Recorded'
  BY DEF SessionInv, Recorded
<1>5. ClientInv'
  <2>1. CASE ~open["client"]
    BY <2>1, RunningIsOpen, ClientDone DEF SessionInv
  <2>2. CASE open["client"] /\ Coming("client")' = Coming("client")
    <3>1. Rest(Coming("client")', Coming("client"), 0)
      <4>1. Coming("client") \in Seq(Byte) /\ Len(Coming("client")) \in Nat /\ 0 \in Nat
        BY EndsAre, Comings, LenProperties DEF SessionInv
      <4> QED  BY <2>2, <4>1, RestOfAll
    <3> QED  BY <2>2, <3>1, ClientFrame DEF SessionInv
  <2> QED  BY <2>1, <2>2
<1>6. InTurn'
  <2>1. Settled' => Settled /\ open["client"]
    BY DEF Settled
  <2> QED  BY <2>1 DEF InTurn, SessionInv
<1> QED  BY <1>1, <1>2, <1>3, <1>4, <1>5, <1>6 DEF SessionInv

LEMMA ClientMoves ==
  ASSUME SessionInv, SessionTypeOK', pc["client"] \in Opening \cup Waiting \cup {"prompt"},
         UNCHANGED <<open, asked, answered>>,
         pc'["server"] = pc["server"], expire_timeout'["server"] = expire_timeout["server"],
         op'["server"] = op["server"], len'["server"] = len["server"], text'["server"] = text["server"],
         in'["server"] = in["server"] \/ open["server"], out'["server"] = out["server"],
         rst'["server"] = rst["server"], rst'["client"] = rst["client"] \/ ~open["server"],
         open["server"] => Coming("server")' = Coming("server"),
         Coming("client") = <<>> => Coming("client")' = <<>>,
         pc'["client"] \in AtClient,
         pc'["client"] \in Opening => pc["client"] \in Opening /\ UNCHANGED spoilt,
         pc'["client"] \in Waiting => pc["client"] \in Waiting,
         pc'["client"] \in (Opening \cup Waiting \cup {"prompt"}) \ {"hello", "request"} => out'["client"] = <<>>,
         pc'["client"] \in {"len", "text", "show"} => expire_timeout'["client"] = "no",
         ClientInv', Settled' => Settled \/ Awaiting
  PROVE  SessionInv'
<1>1. Connected'
  BY RunningIsOpen, EndsAre, ConnectedMove DEF SessionInv
<1>2. Written'
  BY DEF SessionInv, Written
<1>3. Watched'
  BY DEF SessionInv, Watched
<1>4. Recorded'
  BY DEF SessionInv, Recorded
<1>5. ServerInv' /\ (Awaiting => Awaiting')
  <2>1. CASE ~open["server"]
    <3>1. pc'["server"] \in Ended
      BY <2>1, RunningIsOpen DEF SessionInv
    <3> QED  BY <3>1, ServerDone DEF Awaiting, Ended, Greeting
  <2>2. CASE open["server"]
    <3>1. Rest(Coming("server")', Coming("server"), 0)
      <4>1. Coming("server") \in Seq(Byte) /\ Len(Coming("server")) \in Nat /\ 0 \in Nat
        BY EndsAre, Comings, LenProperties DEF SessionInv
      <4> QED  BY <2>2, <4>1, RestOfAll
    <3>2. ServerInv'
      BY <3>1, ServerFrame DEF SessionInv
    <3> QED  BY <2>2, <3>2 DEF Awaiting
  <2> QED  BY <2>1, <2>2
<1>6. InTurn'
  BY <1>5 DEF InTurn, SessionInv
<1> QED  BY <1>1, <1>2, <1>3, <1>4, <1>5, <1>6 DEF SessionInv

-----------------------------------------------------------------------------
(* The reads.                                                              *)

\* A read of e leaves the other end alone.
Quiet(e) ==
  /\ UNCHANGED <<open, out, rst, in_session, historyVars>>
  /\ pc'[Peer(e)] = pc[Peer(e)] /\ expire_timeout'[Peer(e)] = expire_timeout[Peer(e)]
  /\ op'[Peer(e)] = op[Peer(e)] /\ len'[Peer(e)] = len[Peer(e)] /\ text'[Peer(e)] = text[Peer(e)]
  /\ in'[Peer(e)] = in[Peer(e)] /\ Coming(Peer(e))' = Coming(Peer(e))
  /\ Coming(e)' \in Seq(Byte) /\ (Coming(e) = <<>> => Coming(e)' = <<>>)

\* What comes to e after a read of n bytes that did not time out.
AfterRead(e, n) ==
  /\ expire_timeout[e] = "no"
  /\ Len(Coming(e)) >= n => Len(Coming(e)') = Len(Coming(e)) - n /\ Rest(Coming(e)', Coming(e), n)
  /\ Len(Coming(e)) < n => ~open[Peer(e)] /\ Coming(e)' = <<>>

LEMMA ReadsOp ==
  ASSUME SessionTypeOK, Connected, NEW e \in Ends, NEW label, NEW next \in Labels, NEW expired \in Labels,
         reads_op(e, label, next, expired)
  PROVE  /\ Coming(e) = <<>> => op'[e] = 0
         /\ SessionTypeOK' /\ Quiet(e) /\ len'[e] = len[e] /\ text'[e] = text[e]
         /\ pc[e] = label /\ pc'[e] = IF expire_timeout'[e] # "no" THEN expired ELSE next
         /\ expire_timeout'[e] = "no" => AfterRead(e, 2) /\ op'[e] = ntohs(Begin(Coming(e), 2))
<1>1. PICK r \in Reads(e, 2) : Take(e, r) /\ op' = [op EXCEPT ![e] = ntohs(Buffer(e, r, 2))]
  BY DEF reads_op
<1>2. Peer(e) \in Ends /\ Peer(e) # e
  BY EndsAre
<1>3. SessionTypeOK'
  BY ReadTypes
<1>4. /\ pc[e] = label /\ pc'[e] = (IF expire_timeout'[e] # "no" THEN expired ELSE next)
      /\ pc'[Peer(e)] = pc[Peer(e)] /\ UNCHANGED <<len, text, in_session, historyVars>>
  BY <1>2 DEF reads_op, Goto, Expired, SessionTypeOK
<1>5. op'[e] = ntohs(Buffer(e, r, 2)) /\ op'[Peer(e)] = op[Peer(e)]
  BY <1>1, <1>2 DEF SessionTypeOK
<1>6. UNCHANGED <<open, out, rst>>
  BY <1>1 DEF Take
<1>7. /\ Coming(e)' \in Seq(Byte)
      /\ in'[Peer(e)] = in[Peer(e)] /\ Coming(Peer(e))' = Coming(Peer(e))
      /\ expire_timeout'[Peer(e)] = expire_timeout[Peer(e)]
      /\ Coming(e) = <<>> => Coming(e)' = <<>> /\ Buffer(e, r, 2) = Begin(<<>>, 2)
      /\ expire_timeout'[e] = "no" => AfterRead(e, 2) /\ Buffer(e, r, 2) = Begin(Coming(e), 2)
  BY <1>1, Reading DEF AfterRead
<1>8. Coming(e) = <<>> => op'[e] = 0
  BY <1>5, <1>7, ReadNothing
<1> QED  BY <1>3, <1>4, <1>5, <1>6, <1>7, <1>8 DEF Quiet

LEMMA ReadsLen ==
  ASSUME SessionTypeOK, Connected, NEW e \in Ends, NEW label, NEW next \in Labels, NEW expired \in Labels,
         reads_len(e, label, next, expired)
  PROVE  /\ SessionTypeOK' /\ Quiet(e) /\ op'[e] = op[e] /\ text'[e] = text[e]
         /\ pc[e] = label /\ pc'[e] = IF expire_timeout'[e] # "no" THEN expired ELSE next
         /\ expire_timeout'[e] = "no" => AfterRead(e, 2) /\ len'[e] = ntohs(Begin(Coming(e), 2))
<1>1. PICK r \in Reads(e, 2) : Take(e, r) /\ len' = [len EXCEPT ![e] = ntohs(Buffer(e, r, 2))]
  BY DEF reads_len
<1>2. Peer(e) \in Ends /\ Peer(e) # e
  BY EndsAre
<1>3. SessionTypeOK'
  BY ReadTypes
<1>4. /\ pc[e] = label /\ pc'[e] = (IF expire_timeout'[e] # "no" THEN expired ELSE next)
      /\ pc'[Peer(e)] = pc[Peer(e)] /\ UNCHANGED <<op, text, in_session, historyVars>>
  BY <1>2 DEF reads_len, Goto, Expired, SessionTypeOK
<1>5. len'[e] = ntohs(Buffer(e, r, 2)) /\ len'[Peer(e)] = len[Peer(e)]
  BY <1>1, <1>2 DEF SessionTypeOK
<1>6. UNCHANGED <<open, out, rst>>
  BY <1>1 DEF Take
<1>7. /\ Coming(e)' \in Seq(Byte)
      /\ in'[Peer(e)] = in[Peer(e)] /\ Coming(Peer(e))' = Coming(Peer(e))
      /\ expire_timeout'[Peer(e)] = expire_timeout[Peer(e)]
      /\ Coming(e) = <<>> => Coming(e)' = <<>>
      /\ expire_timeout'[e] = "no" => AfterRead(e, 2) /\ Buffer(e, r, 2) = Begin(Coming(e), 2)
  BY <1>1, Reading DEF AfterRead
<1> QED  BY <1>3, <1>4, <1>5, <1>6, <1>7 DEF Quiet

LEMMA ReadsText ==
  ASSUME SessionTypeOK, Connected, NEW e \in Ends, NEW label, NEW next \in Labels, NEW expired \in Labels,
         reads_text(e, label, next, expired)
  PROVE  /\ SessionTypeOK' /\ Quiet(e) /\ op'[e] = op[e] /\ len'[e] = len[e]
         /\ pc[e] = label /\ pc'[e] = IF expire_timeout'[e] # "no" THEN expired ELSE next
         /\ expire_timeout'[e] = "no" =>
              IF len[e] \in 1..(MAX_BUFFER_DATA_SIZE - 1)
              THEN AfterRead(e, len[e]) /\ text'[e] = Begin(Coming(e), len[e])
              ELSE expire_timeout[e] = "no" /\ Coming(e)' = Coming(e) /\ text'[e] = NULL
<1>1. Peer(e) \in Ends /\ Peer(e) # e
  BY EndsAre
<1>2. SessionTypeOK'
  BY ReadTypes
<1>3. /\ pc[e] = label /\ pc'[e] = (IF expire_timeout'[e] # "no" THEN expired ELSE next)
      /\ pc'[Peer(e)] = pc[Peer(e)] /\ UNCHANGED <<op, len, in_session, historyVars>>
  BY <1>1 DEF reads_text, Goto, Expired, SessionTypeOK
<1>4. CASE len[e] \in 1..(MAX_BUFFER_DATA_SIZE - 1)
  <2>1. PICK r \in Reads(e, len[e]) : Take(e, r) /\ text' = [text EXCEPT ![e] = Buffer(e, r, len[e])]
    BY <1>4 DEF reads_text
  <2>2. text'[e] = Buffer(e, r, len[e]) /\ text'[Peer(e)] = text[Peer(e)]
    BY <1>1, <2>1 DEF SessionTypeOK
  <2>3. UNCHANGED <<open, out, rst>>
    BY <2>1 DEF Take
  <2>4. len[e] \in Nat
    BY DEF SessionTypeOK, Short
  <2>5. /\ Coming(e)' \in Seq(Byte)
        /\ in'[Peer(e)] = in[Peer(e)] /\ Coming(Peer(e))' = Coming(Peer(e))
        /\ expire_timeout'[Peer(e)] = expire_timeout[Peer(e)]
        /\ Coming(e) = <<>> => Coming(e)' = <<>>
        /\ expire_timeout'[e] = "no" => AfterRead(e, len[e]) /\ Buffer(e, r, len[e]) = Begin(Coming(e), len[e])
    BY <2>1, <2>4, Reading DEF AfterRead
  <2> QED  BY <1>2, <1>3, <1>4, <2>2, <2>3, <2>5 DEF Quiet
<1>5. CASE len[e] \notin 1..(MAX_BUFFER_DATA_SIZE - 1)
  <2>1. text' = [text EXCEPT ![e] = NULL] /\ UNCHANGED socketVars
    BY <1>5 DEF reads_text
  <2>2. text'[e] = NULL /\ text'[Peer(e)] = text[Peer(e)]
    BY <1>1, <2>1 DEF SessionTypeOK
  <2>3. Coming(e)' = Coming(e) /\ Coming(Peer(e))' = Coming(Peer(e)) /\ Coming(e) \in Seq(Byte)
    BY <2>1, Comings DEF Coming, socketVars
  <2> QED  BY <1>2, <1>3, <1>5, <2>1, <2>2, <2>3 DEF Quiet, socketVars
<1> QED  BY <1>4, <1>5

LEMMA ServerReads ==
  ASSUME SessionInv, SessionTypeOK', Quiet("server"),
         pc["server"] \in (Greeting \cup Serving) \ {"grant", "answer"}, pc'["server"] \in AtServer,
         pc'["server"] \in Serving \ {"grant", "op"} => expire_timeout'["server"] = "no",
         ServerInv', open["client"] /\ Awaiting => Awaiting'
  PROVE  SessionInv'
<1>1. Peer("server") = "client"
  BY EndsAre
<1>2. out'["server"] = <<>>
  BY DEF SessionInv, Written, Quiet
<1> QED  BY <1>1, <1>2, ServerMoves DEF Quiet, historyVars

\* The first header of all: the client's greeting is on its way, or part of it.
LEMMA GreetOpStep ==
  ASSUME SessionInv, reads_op("server", "greet_op", "greet_len", "greet_len")
  PROVE  SessionInv'
<1>1. /\ SessionTypeOK' /\ Quiet("server")
      /\ pc["server"] = "greet_op" /\ pc'["server"] = "greet_len"
      /\ expire_timeout'["server"] = "no" => AfterRead("server", 2)
  BY EndsAre, LabelsAre, ReadsOp DEF SessionInv
<1>2. PICK c, d, q : c = Coming("server") /\ d = Coming("server")' /\ q = Question
  OBVIOUS
<1>3. c \in Seq(Byte) /\ d \in Seq(Byte) /\ q \in Seq(Byte) /\ Len(q) >= 4 /\ Question' = q
  <2>1. c \in Seq(Byte) /\ d \in Seq(Byte)
    BY <1>1, <1>2, EndsAre, Comings DEF Quiet, SessionInv
  <2>2. q \in Seq(Byte) /\ Len(q) >= 4
    BY <1>2, QuestionIs DEF SessionInv
  <2> QED  BY <1>1, <1>2, <2>1, <2>2 DEF Question, Quiet, historyVars
<1>4. asked = Hello /\ Coming("client") = <<>> /\ Rest(c, q, 0)
  BY <1>1, <1>2 DEF SessionInv, ServerInv, Greeting
<1>5. ASSUME expire_timeout'["server"] = "no"
      PROVE  Rest(d, q, 2)
  <2>1. CASE Len(c) >= 2
    <3>1. Rest(d, c, 2)
      BY <1>1, <1>2, <1>5, <2>1 DEF AfterRead
    <3>2. Rest(d, q, 0 + 2)
      BY <1>3, <1>4, <3>1, RestOfRest
    <3> QED  BY <3>2
  <2>2. CASE Len(c) < 2
    <3>1. d = <<>>
      BY <1>1, <1>2, <1>5, <2>2 DEF AfterRead
    <3>2. 2 \in Nat /\ 2 <= Len(q)
      BY <1>3, LenProperties
    <3> QED  BY <1>3, <3>1, <3>2, RestOfAll
  <2>3. Len(c) \in Nat
    BY <1>3, LenProperties
  <2> QED  BY <2>1, <2>2, <2>3
<1>6. asked' = Hello /\ Coming("client")' = <<>>
  BY <1>1, <1>4, EndsAre DEF Quiet, historyVars, Hello
<1>7. ServerInv'
  BY <1>1, <1>2, <1>3, <1>5, <1>6 DEF ServerInv, Greeting, Hello
<1>8. ~Awaiting
  BY <1>1 DEF Awaiting, Greeting
<1> QED  BY <1>1, <1>7, <1>8, ServerReads DEF AtServer, Greeting, Serving

LEMMA GreetLenStep ==
  ASSUME SessionInv, reads_len("server", "greet_len", "greet", "greet")
  PROVE  SessionInv'
<1>1. /\ SessionTypeOK' /\ Quiet("server")
      /\ pc["server"] = "greet_len" /\ pc'["server"] = "greet"
      /\ expire_timeout'["server"] = "no" => AfterRead("server", 2)
  BY EndsAre, LabelsAre, ReadsLen DEF SessionInv
<1>2. PICK c, d, q : c = Coming("server") /\ d = Coming("server")' /\ q = Question
  OBVIOUS
<1>3. c \in Seq(Byte) /\ d \in Seq(Byte) /\ Len(c) \in Nat /\ Len(d) \in Nat
  <2>1. c \in Seq(Byte) /\ d \in Seq(Byte)
    BY <1>1, <1>2, EndsAre, Comings DEF Quiet, SessionInv
  <2> QED  BY <2>1, LenProperties
<1>4. asked = Hello /\ Coming("client") = <<>> /\ (expire_timeout["server"] = "no" => Rest(c, q, 2))
  BY <1>1, <1>2 DEF SessionInv, ServerInv, Greeting
<1>5. Len(q) = 4
  <2>1. Len(q) = 4 + Len(asked.data) /\ Len(asked.data) = 0
    BY <1>2, <1>4, QuestionIs, Zenon DEF SessionInv
  <2> QED  BY <2>1
<1>6. ASSUME expire_timeout'["server"] = "no"
      PROVE  d = <<>>
  <2>1. Len(c) <= 2
    <3>1. Rest(c, q, 2)
      BY <1>1, <1>4, <1>6 DEF AfterRead
    <3> QED  BY <1>3, <1>5, <3>1 DEF Rest
  <2>2. d = <<>> \/ Len(d) = 0
    BY <1>1, <1>2, <1>3, <1>6, <2>1 DEF AfterRead
  <2> QED  BY <1>3, <2>2, EmptySeq
<1>7. asked' = Hello /\ Coming("client")' = <<>>
  BY <1>1, <1>4, EndsAre DEF Quiet, historyVars, Hello
<1>8. ServerInv'
  BY <1>1, <1>2, <1>6, <1>7 DEF ServerInv, Greeting, Hello
<1>9. ~Awaiting
  BY <1>1 DEF Awaiting, Greeting
<1> QED  BY <1>1, <1>8, <1>9, ServerReads DEF AtServer, Greeting, Serving

\* The code of a request: whole, it is the one asked; of a client that is gone
\* it is 0, which no command has.
LEMMA OpStep ==
  ASSUME SessionInv, reads_op("server", "op", "len", "exit")
  PROVE  SessionInv'
<1>1. /\ SessionTypeOK' /\ Quiet("server")
      /\ pc["server"] = "op" /\ pc'["server"] = (IF expire_timeout'["server"] # "no" THEN "exit" ELSE "len")
      /\ expire_timeout'["server"] = "no" => AfterRead("server", 2) /\ op'["server"] = ntohs(Begin(Coming("server"), 2))
  BY EndsAre, LabelsAre, ReadsOp DEF SessionInv
<1>2. PICK c, d, q, x : c = Coming("server") /\ d = Coming("server")' /\ q = Question /\ x = ntohs(Begin(Coming("server"), 2))
  OBVIOUS
<1>3. c \in Seq(Byte) /\ d \in Seq(Byte) /\ Len(c) \in Nat
  <2>1. c \in Seq(Byte) /\ d \in Seq(Byte)
    BY <1>1, <1>2, EndsAre, Comings DEF Quiet, SessionInv
  <2> QED  BY <2>1, LenProperties
<1>4. CASE expire_timeout'["server"] # "no"
  <2>1. pc'["server"] = "exit"
    BY <1>1, <1>4
  <2>2. ServerInv' /\ Awaiting'
    BY <2>1, ServerDone DEF Awaiting, Ended, Greeting
  <2> QED  BY <1>1, <2>1, <2>2, ServerReads DEF AtServer, Greeting, Serving, Ended
<1>5. CASE expire_timeout'["server"] = "no"
  <2>1. pc'["server"] = "len" /\ AfterRead("server", 2) /\ op'["server"] = x
    BY <1>1, <1>2, <1>5
  <2>2. c = <<>> \/ (Pending /\ Rest(c, q, 0))
    BY <1>1, <1>2, <2>1 DEF SessionInv, ServerInv, AfterRead
  <2>3. /\ Len(c) >= 2 => Rest(d, c, 2)
        /\ Len(c) < 2 => ~open["client"] /\ d = <<>>
    BY <1>2, <2>1, EndsAre DEF AfterRead
  <2>4. \/ Pending /\ x = asked.op /\ Rest(d, q, 2)
        \/ ~open["client"] /\ d = <<>> /\ x = 0
    <3>1. CASE c = <<>>
      <4>1. Len(c) = 0 /\ x = 0
        BY <1>2, <3>1, ReadNothing
      <4> QED  BY <2>3, <4>1
    <3>2. CASE Pending /\ Rest(c, q, 0)
      <4>1. /\ asked.op \in Short /\ asked.data \in Text /\ Len(asked.data) \in Short
            /\ asked.op \in Codes /\ q \in Seq(Byte)
        BY <1>2, <3>2, QuestionIs DEF SessionInv, Pending
      <4>2. /\ Len(c) >= 2 => x = asked.op
            /\ Len(c) < 2 => \E y \in Nat : x = 256 * y /\ (x = 0 \/ (x <= asked.op /\ asked.op <= x + 255))
        BY <1>2, <1>3, <3>2, <4>1, ReadCode DEF Question
      <4>3. CASE Len(c) >= 2
        <5>1. Rest(d, q, 0 + 2)
          BY <1>3, <2>3, <3>2, <4>1, <4>3, RestOfRest
        <5> QED  BY <3>2, <4>2, <4>3, <5>1
      <4>4. CASE Len(c) < 2
        <5>1. PICK y \in Nat : x = 256 * y /\ (x = 0 \/ (x <= asked.op /\ asked.op <= x + 255))
          BY <4>2, <4>4
        <5>2. asked.op \in Nat /\ asked.op <= 22
          BY <4>1, CodesAre
        <5>3. x = 0
          BY <5>1, <5>2
        <5> QED  BY <2>3, <4>4, <5>3
      <4> QED  BY <1>3, <4>3, <4>4
    <3> QED  BY <2>2, <3>1, <3>2
  <2>5. ServerInv'
    <3>1. UNCHANGED <<asked, answered, open>>
      BY <1>1 DEF Quiet, historyVars
    <3>2. \/ Pending' /\ op'["server"] = asked'.op /\ Rest(Coming("server")', Question', 2)
          \/ ~open'["client"] /\ Coming("server")' = <<>> /\ op'["server"] = 0
      BY <1>2, <2>1, <2>4, <3>1 DEF Pending, Question
    <3> QED  BY <2>1, <3>2 DEF ServerInv, Greeting
  <2>6. ~(open["client"] /\ Awaiting)
    <3>1. SUFFICES ASSUME open["client"], Awaiting
                   PROVE  FALSE
      OBVIOUS
    <3>2. c = <<>>
      BY <1>1, <1>2, <2>1, <3>1 DEF Awaiting, AfterRead
    <3>3. Len(c) = 0
      BY <3>2
    <3> QED  BY <2>3, <3>1, <3>3
  <2> QED  BY <1>1, <1>5, <2>1, <2>5, <2>6, ServerReads DEF AtServer, Greeting, Serving
<1> QED  BY <1>4, <1>5

\* The length of a request: cut after its first byte it is shorter.
LEMMA LenStep ==
  ASSUME SessionInv, reads_len("server", "len", "text", "exit")
  PROVE  SessionInv'
<1>1. /\ SessionTypeOK' /\ Quiet("server") /\ op'["server"] = op["server"]
      /\ pc["server"] = "len" /\ pc'["server"] = (IF expire_timeout'["server"] # "no" THEN "exit" ELSE "text")
      /\ expire_timeout'["server"] = "no" => AfterRead("server", 2) /\ len'["server"] = ntohs(Begin(Coming("server"), 2))
  BY EndsAre, LabelsAre, ReadsLen DEF SessionInv
<1>2. PICK c, d, q, x : c = Coming("server") /\ d = Coming("server")' /\ q = Question /\ x = ntohs(Begin(Coming("server"), 2))
  OBVIOUS
<1>3. c \in Seq(Byte) /\ d \in Seq(Byte) /\ Len(c) \in Nat
  <2>1. c \in Seq(Byte) /\ d \in Seq(Byte)
    BY <1>1, <1>2, EndsAre, Comings DEF Quiet, SessionInv
  <2> QED  BY <2>1, LenProperties
<1>4. CASE expire_timeout'["server"] # "no"
  <2>1. pc'["server"] = "exit"
    BY <1>1, <1>4
  <2>2. ServerInv' /\ Awaiting'
    BY <2>1, ServerDone DEF Awaiting, Ended, Greeting
  <2> QED  BY <1>1, <2>1, <2>2, ServerReads DEF AtServer, Greeting, Serving, Ended
<1>5. CASE expire_timeout'["server"] = "no"
  <2>1. pc'["server"] = "text" /\ AfterRead("server", 2) /\ len'["server"] = x
    BY <1>1, <1>2, <1>5
  <2>2. \/ Pending /\ op["server"] = asked.op /\ Rest(c, q, 2)
        \/ ~open["client"] /\ c = <<>> /\ op["server"] = 0
    BY <1>1, <1>2 DEF SessionInv, ServerInv
  <2>3. /\ Len(c) >= 2 => Rest(d, c, 2)
        /\ Len(c) < 2 => ~open["client"] /\ d = <<>>
    BY <1>2, <2>1, EndsAre DEF AfterRead
  <2>4. \/ Pending /\ op["server"] = asked.op /\ x = Len(asked.data) /\ Rest(d, q, 4)
        \/ ~open["client"] /\ d = <<>> /\ op["server"] = 0 /\ x = 0
        \/ ~open["client"] /\ d = <<>> /\ Pending /\ op["server"] = asked.op /\ x <= Len(asked.data)
    <3>1. CASE ~open["client"] /\ c = <<>> /\ op["server"] = 0
      <4>1. Len(c) = 0 /\ x = 0
        BY <1>2, <3>1, ReadNothing
      <4> QED  BY <2>3, <3>1, <4>1
    <3>2. CASE Pending /\ op["server"] = asked.op /\ Rest(c, q, 2)
      <4>1. asked.op \in Short /\ asked.data \in Text /\ Len(asked.data) \in Short /\ q \in Seq(Byte)
        BY <1>2, QuestionIs DEF SessionInv
      <4>2. /\ Len(c) >= 2 => x = Len(asked.data)
            /\ Len(c) < 2 => x <= Len(asked.data)
        BY <1>2, <1>3, <3>2, <4>1, ReadLength DEF Question
      <4>3. CASE Len(c) >= 2
        <5>1. Rest(d, q, 2 + 2)
          BY <1>3, <2>3, <3>2, <4>1, <4>3, RestOfRest
        <5> QED  BY <3>2, <4>2, <4>3, <5>1
      <4>4. CASE Len(c) < 2
        BY <2>3, <3>2, <4>2, <4>4
      <4> QED  BY <1>3, <4>3, <4>4
    <3> QED  BY <2>2, <3>1, <3>2
  <2>5. ServerInv'
    <3>1. UNCHANGED <<asked, answered, open>>
      BY <1>1 DEF Quiet, historyVars
    <3>2. \/ /\ Pending' /\ op'["server"] = asked'.op /\ len'["server"] = Len(asked'.data)
             /\ Rest(Coming("server")', Question', 4)
          \/ /\ ~open'["client"] /\ Coming("server")' = <<>>
             /\ \/ op'["server"] = 0 /\ len'["server"] = 0
                \/ Pending' /\ op'["server"] = asked'.op /\ len'["server"] <= Len(asked'.data)
      BY <1>1, <1>2, <2>1, <2>4, <3>1 DEF Pending, Question
    <3> QED  BY <2>1, <3>2 DEF ServerInv, Greeting
  <2>6. ~Awaiting
    BY <1>1 DEF Awaiting
  <2> QED  BY <1>1, <1>5, <2>1, <2>5, <2>6, ServerReads DEF AtServer, Greeting, Serving
<1> QED  BY <1>4, <1>5

\* The text of a request: whole, it is the one asked; of a client that is gone
\* the thread makes up what did not come.
LEMMA TextStep ==
  ASSUME SessionInv, reads_text("server", "text", "handle", "exit")
  PROVE  SessionInv'
<1>1. /\ SessionTypeOK' /\ Quiet("server") /\ op'["server"] = op["server"]
      /\ pc["server"] = "text" /\ pc'["server"] = (IF expire_timeout'["server"] # "no" THEN "exit" ELSE "handle")
      /\ expire_timeout'["server"] = "no" =>
           IF len["server"] \in 1..(MAX_BUFFER_DATA_SIZE - 1)
           THEN AfterRead("server", len["server"]) /\ text'["server"] = Begin(Coming("server"), len["server"])
           ELSE expire_timeout["server"] = "no" /\ Coming("server")' = Coming("server") /\ text'["server"] = NULL
  BY EndsAre, LabelsAre, ReadsText DEF SessionInv
<1>2. PICK c, d, q, n, t : c = Coming("server") /\ d = Coming("server")' /\ q = Question /\ n = len["server"] /\ t = text'["server"]
  OBVIOUS
<1>3. c \in Seq(Byte) /\ d \in Seq(Byte) /\ Len(c) \in Nat /\ n \in Nat
  <2>1. c \in Seq(Byte) /\ d \in Seq(Byte)
    BY <1>1, <1>2, EndsAre, Comings DEF Quiet, SessionInv
  <2>2. n \in Nat
    BY <1>2, EndsAre DEF SessionInv, SessionTypeOK, Short
  <2> QED  BY <2>1, <2>2, LenProperties
<1>4. CASE expire_timeout'["server"] # "no"
  <2>1. pc'["server"] = "exit"
    BY <1>1, <1>4
  <2>2. ServerInv' /\ Awaiting'
    BY <2>1, ServerDone DEF Awaiting, Ended, Greeting
  <2> QED  BY <1>1, <2>1, <2>2, ServerReads DEF AtServer, Greeting, Serving, Ended
<1>5. CASE expire_timeout'["server"] = "no"
  <2>1. pc'["server"] = "handle"
    BY <1>1, <1>5
  <2>2. \/ Pending /\ op["server"] = asked.op /\ n = Len(asked.data) /\ Rest(c, q, 4)
        \/ ~open["client"] /\ c = <<>> /\ op["server"] = 0 /\ n = 0
        \/ ~open["client"] /\ c = <<>> /\ Pending /\ op["server"] = asked.op /\ n <= Len(asked.data)
    BY <1>1, <1>2 DEF SessionInv, ServerInv
  <2>3. /\ asked.op \in Short /\ asked.data \in Text /\ Len(asked.data) \in Short /\ Len(asked.data) \in Nat
        /\ Len(asked.data) < MAX_BUFFER_DATA_SIZE
        /\ q \in Seq(Byte) /\ Len(q) = 4 + Len(asked.data)
    BY <1>2, QuestionIs DEF SessionInv
  <2>4. n = 0 => d = c /\ t = NULL
    BY <1>1, <1>2, <1>5
  <2>5. n > 0 /\ n <= Len(asked.data) =>
          /\ t = Begin(c, n)
          /\ Len(c) >= n => Len(d) = Len(c) - n
          /\ Len(c) < n => ~open["client"] /\ d = <<>>
    <3>1. n > 0 /\ n <= Len(asked.data) => n \in 1..(MAX_BUFFER_DATA_SIZE - 1)
      BY <1>3, <2>3, TextsFit
    <3>2. n \in 1..(MAX_BUFFER_DATA_SIZE - 1) => AfterRead("server", n) /\ t = Begin(c, n)
      BY <1>1, <1>2, <1>5
    <3> QED  BY <1>2, <3>1, <3>2, EndsAre DEF AfterRead
  <2>6. /\ d = <<>>
        /\ \/ Pending /\ op["server"] = asked.op /\ t = IF asked.data = <<>> THEN NULL ELSE asked.data
           \/ ~open["client"] /\ op["server"] = 0 /\ t = NULL
           \/ ~open["client"] /\ Pending /\ op["server"] = asked.op /\ CutOf(t, asked.data)
    <3>1. CASE Pending /\ op["server"] = asked.op /\ n = Len(asked.data) /\ Rest(c, q, 4)
      <4>1. Len(c) <= n
        BY <1>3, <2>3, <3>1 DEF Rest
      <4>2. CASE n = 0
        <5>1. c = <<>>
          BY <1>3, <4>1, <4>2, EmptySeq
        <5>2. asked.data = <<>>
          BY <2>3, <3>1, <4>2, EmptySeq DEF Text
        <5> QED  BY <2>4, <3>1, <4>2, <5>1, <5>2
      <4>3. CASE n > 0
        <5>1. asked.data # <<>>
          BY <3>1, <4>3
        <5>2. Rest(c, paquete_men(asked.op, asked.data), 4)
          BY <1>2, <3>1 DEF Question
        <5>3. /\ Len(c) >= n => Begin(c, n) = asked.data
              /\ Len(c) < n => CutOf(Begin(c, n), asked.data)
          BY <1>3, <2>3, <3>1, <4>3, <5>2, ReadText
        <5>4. t = Begin(c, n)
          BY <2>3, <2>5, <3>1, <4>3
        <5>5. CASE Len(c) >= n
          <6>1. Len(d) = 0
            BY <1>3, <2>3, <2>5, <3>1, <4>1, <4>3, <5>5
          <6>2. d = <<>>
            BY <1>3, <6>1, EmptySeq
          <6> QED  BY <3>1, <5>1, <5>3, <5>4, <5>5, <6>2
        <5>6. CASE Len(c) < n
          <6>1. ~open["client"] /\ d = <<>>
            BY <2>3, <2>5, <3>1, <4>3, <5>6
          <6> QED  BY <3>1, <5>3, <5>4, <5>6, <6>1
        <5> QED  BY <1>3, <5>5, <5>6
      <4> QED  BY <1>3, <4>2, <4>3
    <3>2. CASE ~open["client"] /\ c = <<>> /\ op["server"] = 0 /\ n = 0
      BY <2>4, <3>2
    <3>3. CASE ~open["client"] /\ c = <<>> /\ Pending /\ op["server"] = asked.op /\ n <= Len(asked.data)
      <4>1. CASE n = 0
        BY <2>4, <3>3, <4>1 DEF CutOf
      <4>2. CASE n > 0
        <5>1. Len(c) < n
          BY <3>3, <4>2
        <5>2. t = [i \in 1..n |-> 0] /\ d = <<>>
          BY <1>3, <2>5, <3>3, <4>2, <5>1, ReadNothing
        <5>3. n \in 1..Len(asked.data)
          BY <1>3, <2>3, <3>3, <4>2
        <5>4. CutOf(t, asked.data)
          BY <5>2, <5>3 DEF CutOf
        <5> QED  BY <3>3, <5>2, <5>4
      <4> QED  BY <1>3, <4>1, <4>2
    <3> QED  BY <2>2, <3>1, <3>2, <3>3
  <2>7. ServerInv'
    <3>1. UNCHANGED <<asked, answered, open>>
      BY <1>1 DEF Quiet, historyVars
    <3>2. /\ Coming("server")' = <<>>
          /\ \/ Pending' /\ op'["server"] = asked'.op /\ text'["server"] = IF asked'.data = <<>> THEN NULL ELSE asked'.data
             \/ ~open'["client"] /\ op'["server"] = 0 /\ text'["server"] = NULL
             \/ ~open'["client"] /\ Pending' /\ op'["server"] = asked'.op /\ CutOf(text'["server"], asked'.data)
      BY <1>1, <1>2, <2>6, <3>1 DEF Pending
    <3> QED  BY <2>1, <3>2 DEF ServerInv, Greeting
  <2>8. ~Awaiting
    BY <1>1 DEF Awaiting
  <2> QED  BY <1>1, <1>5, <2>1, <2>7, <2>8, ServerReads DEF AtServer, Greeting, Serving
<1> QED  BY <1>4, <1>5

-----------------------------------------------------------------------------
(* The other steps of the server.                                          *)

LEMMA SameIsRest ==
  ASSUME SessionTypeOK, NEW e \in Ends, Coming(e)' = Coming(e)
  PROVE  Rest(Coming(e)', Coming(e), 0)
<1>1. Coming(e) \in Seq(Byte) /\ 0 \in Nat
  BY Comings
<1> QED  BY <1>1, RestOfAll

LEMMA ServerWrites ==
  ASSUME SessionInv, NEW label, NEW next, writes("server", label, next),
         (label = "grant" /\ next = "op") \/ (label = "answer" /\ next = "sent")
  PROVE  SessionInv'
<1>1. /\ UNCHANGED <<open, expire_timeout, op, len, text, in_session, historyVars>>
      /\ pc["server"] = label /\ pc'["client"] = pc["client"]
      /\ pc'["server"] = label \/ (pc'["server"] = next /\ out'["server"] = <<>>)
      /\ out'["client"] = out["client"] /\ Coming("server")' = Coming("server")
      /\ rst'["client"] = rst["client"]
      /\ open["client"] => Coming("client")' = Coming("client") /\ rst'["server"] = rst["server"]
      /\ ~open["client"] => in'["client"] = in["client"]
  BY EndsAre, Writing DEF SessionInv
<1>2. SessionTypeOK'
  BY EndsAre, LabelsAre, OwnTypes DEF SessionInv
<1>3. pc["server"] \in Speaking /\ pc'["server"] \in Speaking
  BY <1>1 DEF Speaking
<1>4. Rest(Coming("server")', Coming("server"), 0)
  BY <1>1, EndsAre, SameIsRest DEF SessionInv
<1>5. ServerInv'
  BY <1>1, <1>2, <1>3, <1>4, ServerFrame DEF SessionInv, Speaking, Greeting, historyVars
<1>6. Awaiting => Awaiting'
  BY <1>1, <1>3 DEF Awaiting, Speaking, Greeting
<1>7. /\ pc'["server"] \in (Greeting \cup Serving) \ {"grant", "answer"} => out'["server"] = <<>>
      /\ pc'["server"] \in Serving \ {"grant", "op"} => expire_timeout'["server"] = "no"
  BY <1>1 DEF SessionInv, Watched, Serving
<1>8. pc["server"] \in Greeting \cup Serving /\ pc'["server"] \in AtServer
  BY <1>1 DEF AtServer, Serving
<1> QED  BY <1>1, <1>2, <1>5, <1>6, <1>7, <1>8, ServerMoves DEF historyVars

\* The thread goes to its end, or is ended.
LEMMA ServerStops ==
  ASSUME SessionInv, pc["server"] \in Greeting \cup Serving,
         NEW l \in {"exit", "died", "killed"}, Goto("server", l),
         UNCHANGED <<socketVars, op, len, text, in_session, historyVars>>
  PROVE  SessionInv'
<1>1. pc'["server"] = l /\ pc'["client"] = pc["client"]
  BY EndsAre DEF Goto, SessionInv, SessionTypeOK
<1>2. SessionTypeOK'
  BY EndsAre, LabelsAre, StillTypes DEF SessionInv, SessionTypeOK, historyVars
<1>3. pc'["server"] \in Ended /\ pc'["server"] \notin Greeting \cup Serving
  BY <1>1 DEF Ended, Greeting, Serving
<1>4. ServerInv' /\ Awaiting'
  BY <1>1, <1>3, ServerDone DEF Awaiting, Greeting
<1>5. Coming("client")' = Coming("client")
  BY DEF Coming, socketVars
<1> QED  BY <1>1, <1>2, <1>3, <1>4, <1>5, ServerMoves DEF AtServer, socketVars, historyVars

\* After an answer the thread reads the next request.
LEMMA AnswerSentStep ==
  ASSUME SessionInv, answer_sent("server")
  PROVE  SessionInv'
<1>1. /\ pc["server"] = "sent" /\ UNCHANGED <<socketVars, op, len, text, in_session, historyVars>>
      /\ Goto("server", "exit") \/ Goto("server", "op")
  BY DEF answer_sent
<1>2. pc["server"] \in Greeting \cup Serving
  BY <1>1 DEF Serving
<1>3. CASE Goto("server", "exit")
  BY <1>1, <1>2, <1>3, ServerStops
<1>4. CASE Goto("server", "op")
  <2>1. pc'["server"] = "op" /\ pc'["client"] = pc["client"]
    BY <1>4, EndsAre DEF Goto, SessionInv, SessionTypeOK
  <2>2. SessionTypeOK'
    BY <1>1, <1>4, EndsAre, LabelsAre, StillTypes DEF SessionInv, SessionTypeOK, historyVars
  <2>3. Coming("server")' = Coming("server") /\ Coming("client")' = Coming("client")
    BY <1>1 DEF Coming, socketVars
  <2>4. Rest(Coming("server")', Coming("server"), 0)
    BY <2>3, EndsAre, SameIsRest DEF SessionInv
  <2>5. ServerInv'
    BY <1>1, <2>1, <2>2, <2>4, ServerFrame DEF SessionInv, Speaking, Greeting, historyVars, socketVars
  <2>6. Awaiting => Awaiting'
    BY <1>1, <2>1, <2>3 DEF Awaiting, Greeting, socketVars
  <2>7. out'["server"] = <<>> /\ pc'["server"] \in AtServer /\ pc'["server"] \notin Serving \ {"grant", "op"}
    BY <1>1, <2>1 DEF SessionInv, Written, Serving, AtServer, socketVars
  <2> QED  BY <1>1, <1>2, <2>1, <2>2, <2>3, <2>5, <2>6, <2>7, ServerMoves DEF historyVars, socketVars
<1> QED  BY <1>1, <1>3, <1>4

\* The greeting: nothing had been sent to the client.
LEMMA GreetsStep ==
  ASSUME SessionInv, greets("server")
  PROVE  SessionInv'
<1>1. pc["server"] = "greet" /\ UNCHANGED <<op, len, text, in_session, historyVars>>
  BY DEF greets
<1>2. pc["server"] \in Greeting \cup Serving
  BY <1>1 DEF Greeting
<1>3. CASE Goto("server", "exit") /\ UNCHANGED socketVars
  BY <1>1, <1>2, <1>3, ServerStops
<1>4. CASE Goto("server", "grant") /\ sends("server", Grant)
  <2>1. /\ pc'["server"] = "grant" /\ pc'["client"] = pc["client"]
        /\ out'["server"] = Grant /\ out'["client"] = out["client"]
        /\ UNCHANGED <<open, in, rst, expire_timeout>>
    BY <1>4, EndsAre DEF Goto, sends, SessionInv, SessionTypeOK
  <2>2. SessionTypeOK'
    <3>1. op' \in [Ends -> Short] /\ in_session' \in BOOLEAN /\ spoilt' \in BOOLEAN
      BY <1>1 DEF SessionInv, SessionTypeOK, historyVars
    <3> QED  BY <1>1, <1>4, <3>1, EndsAre, LabelsAre, GrantIs, SendTypes DEF SessionInv
  <2>3. asked = Hello /\ Coming("client") = <<>> /\ (expire_timeout["server"] = "no" => Coming("server") = <<>>)
    BY <1>1 DEF SessionInv, ServerInv, Greeting
  <2>4. Coming("server")' = Coming("server")
    BY <2>1, EndsAre DEF Coming
  <2>5. Coming("client")' = Grant
    <3>1. in["client"] = <<>>
      BY <2>3, EndsAre, Comings DEF SessionInv
    <3>2. Coming("client")' = <<>> \o Grant
      BY <2>1, <3>1, EndsAre DEF Coming
    <3>3. <<>> \o Grant = Grant
      BY GrantIs, ConcatEmptySeq
    <3> QED  BY <3>2, <3>3
  <2>6. ServerInv'
    BY <2>1, <2>3, <2>4 DEF ServerInv, Greeting
  <2>7. ~Awaiting
    BY <1>1 DEF Awaiting, Greeting
  <2>8. ClientInv'
    <3>1. CASE ~open["client"]
      BY <2>1, <3>1, RunningIsOpen, ClientDone DEF SessionInv
    <3>2. CASE open["client"]
      <4>1. pc["client"] \notin Waiting /\ answered = NULL
        BY <2>3, <3>2, GreetingIsNoCommand DEF SessionInv, Recorded
      <4>2. pc["client"] # "prompt" /\ ~(pc["client"] \in {"hello_len", "hello_text", "granted"} /\ op["client"] = OP_CONCESION_CONEXION)
        BY <2>7, <3>2 DEF SessionInv, InTurn, Settled
      <4>3. CASE pc["client"] \in Left
        BY <2>1, <4>3, ClientDone
      <4>4. CASE pc["client"] \in Opening
        <5>1. ~spoilt'
          BY <1>1, <4>4 DEF SessionInv, Recorded, historyVars
        <5>2. Rest(Grant, Grant, 0) /\ Grant' = Grant
          BY GrantIs, RestOfAll DEF Grant
        <5>3. BeforeSpoilt'
          BY <2>1, <4>4 DEF BeforeSpoilt, Opening
        <5> QED  BY <1>1, <2>1, <2>5, <4>2, <5>1, <5>2, <5>3 DEF ClientInv
      <4> QED  BY <4>1, <4>2, <4>3, <4>4 DEF SessionInv, Connected
    <3> QED  BY <3>1, <3>2
  <2>9. pc'["server"] \in AtServer /\ pc'["server"] \notin (Greeting \cup Serving) \ {"grant", "answer"}
        /\ pc'["server"] \notin Serving \ {"grant", "op"}
    BY <2>1 DEF AtServer, Serving
  <2> QED  BY <1>1, <1>2, <2>1, <2>2, <2>6, <2>7, <2>8, <2>9, ServerMoves DEF historyVars
<1> QED  BY <1>3, <1>4 DEF greets, Grant

\* The answer: the client that waits for it has nothing else to come, unless
\* what is left of an answer shown in part is before it.
LEMMA HandlesStep ==
  ASSUME SessionInv, handles("server")
  PROVE  SessionInv'
<1>1. PICK code, data :
        /\ answers("server", code, data)
        /\ data \in Text /\ Len(data) \in Short \ {0}
        /\ code = op["server"] \/ (code = ERROR /\ op["server"] \notin Codes)
        /\ Len(data) < MAX_BUFFER_DATA_SIZE \/ \E r \in Results : data = r.data
        /\ in_session' \in BOOLEAN \/ UNCHANGED in_session
  BY Handled
<1>2. pc["server"] = "handle" /\ pc["server"] \in Greeting \cup Serving
  BY DEF handles, Serving
<1>3. code \in Short
  BY <1>1, Shorts, EndsAre DEF SessionInv, SessionTypeOK
<1>4. SessionTypeOK'
  <2>1. in_session' \in BOOLEAN
    BY <1>1 DEF SessionInv, SessionTypeOK
  <2> QED  BY <1>1, <1>3, <2>1, EndsAre, AnswerTypes DEF SessionInv
<1>5. PICK p : p = paquete_men(OP_RESPONSE(code), data)
  OBVIOUS
<1>6. /\ pc'["server"] = "answer" /\ pc'["client"] = pc["client"]
      /\ op'["server"] = code /\ op'["client"] = op["client"]
      /\ out'["server"] = p /\ out'["client"] = out["client"]
      /\ UNCHANGED <<open, in, rst, expire_timeout, len, text, asked, shown, spoilt>>
      /\ answered' = Request(code, data)
  BY <1>1, <1>5, EndsAre DEF answers, Goto, sends, SessionInv, SessionTypeOK
<1>7. answered'.op = code /\ answered'.data = data /\ answered' \in [op : Short, data : Text] /\ answered' # NULL
  <2>1. answered'.op = code /\ answered'.data = data /\ answered' \in [op : Short, data : Text]
    BY <1>1, <1>3, <1>6 DEF Request
  <2> QED  BY <2>1, NullAssumption
<1>8. p \in Seq(Byte) /\ p = Reply'
  BY <1>1, <1>3, <1>5, <1>7, Shorts, PacketBytes DEF Reply
<1>9. Coming("server") = <<>> /\ Coming("server")' = <<>>
  BY <1>2, <1>6, EndsAre DEF SessionInv, ServerInv, Coming
<1>10. open["client"] => Pending /\ op["server"] = asked.op
  BY <1>2 DEF SessionInv, ServerInv
<1>11. open["client"] => code = asked.op
  BY <1>1, <1>10, TextsFit DEF Pending
<1>12. open["client"] => pc["client"] \in Waiting \cup Left
  <2>1. open["client"] => pc["client"] # "prompt"
    BY <1>2 DEF SessionInv, InTurn, Settled, Awaiting
  <2>2. open["client"] => pc["client"] \notin Opening
    BY <1>10, GreetingIsNoCommand DEF SessionInv, Recorded, Pending
  <2> QED  BY <2>1, <2>2 DEF SessionInv, Connected
<1>13. out["server"] = <<>> /\ open["server"]
  BY <1>2, RunningIsOpen DEF SessionInv, Written
<1>14. Connected'
  <2>1. pc'["server"] \in AtServer
    BY <1>6 DEF AtServer, Serving
  <2> QED  BY <1>6, <1>13, <2>1, EndsAre, ConnectedMove DEF SessionInv
<1>15. Written'
  BY <1>6 DEF SessionInv, Written
<1>16. Watched'
  BY <1>2, <1>6 DEF SessionInv, Watched, Serving
<1>17. Recorded'
  <2>1. pc'["client"] \notin Opening
    <3>1. pc["client"] \in Opening => open["client"]
      BY RunningIsOpen DEF SessionInv
    <3> QED  BY <1>6, <1>12, <3>1 DEF Opening, Waiting, Left
  <2>2. Len(data) >= MAX_BUFFER_DATA_SIZE => SubSeq(data, 1, 2) = <<117, 105>>
    <3>1. Len(data) \in Nat
      BY <1>1 DEF Short
    <3> QED  BY <1>1, <3>1, TextsFit, ListingAssumption
  <2>3. asked' \in Commands \cup {Hello'} /\ (pc'["client"] \in Waiting => asked' \in Commands)
    BY <1>6 DEF SessionInv, Recorded, Hello
  <2> QED  BY <1>1, <1>6, <1>7, <1>10, <1>11, <2>1, <2>2, <2>3 DEF Recorded, Pending
<1>18. ServerInv'
  BY <1>6, <1>9 DEF ServerInv, Greeting
<1>19. InTurn'
  BY <1>6, <1>9 DEF InTurn, Awaiting, Greeting
<1>20. ClientInv'
  <2>1. CASE ~open["client"] \/ pc["client"] \in Left
    <3>1. pc["client"] \in Left
      BY <2>1, RunningIsOpen DEF SessionInv
    <3> QED  BY <1>6, <3>1, ClientDone
  <2>2. CASE open["client"] /\ pc["client"] \in Waiting
    <3>1. PICK a, b : a = Coming("client") /\ b = Coming("client")'
      OBVIOUS
    <3>2. a = in["client"] /\ a \in Seq(Byte)
      BY <1>13, <3>1, EndsAre, Comings DEF SessionInv
    <3>3. b = a \o p
      BY <1>6, <3>1, <3>2, EndsAre DEF Coming
    <3>4. answered = NULL
      BY <1>10, <2>2 DEF Pending
    <3>5. CASE spoilt
      <4>1. Listing => Listing'
        <5>1. /\ Len(a) \in Nat /\ Len(p) \in Nat /\ Len(b) = Len(a) + Len(p)
              /\ \A i \in 1..Len(a) : b[i] = a[i]
          BY <1>8, <3>2, <3>3, Joined
        <5>2. ASSUME Listing
              PROVE  /\ Len(b) >= 1 => b[1] = 117
                     /\ Len(b) >= 2 => b[2] = 105
                     /\ Len(b) >= 2
          <6>1. Len(a) >= 2 /\ a[1] = 117 /\ a[2] = 105
            BY <1>13, <3>1, <5>1, <5>2 DEF Listing
          <6>2. 1 \in 1..Len(a) /\ 2 \in 1..Len(a)
            BY <5>1, <6>1
          <6> QED  BY <5>1, <6>1, <6>2
        <5> QED  BY <3>1, <5>2 DEF Listing
      <4>2. AfterSpoilt => AfterSpoilt'
        BY <1>6, <4>1 DEF AfterSpoilt, NoAnswer
      <4> QED  BY <1>6, <2>2, <3>5, <4>2 DEF SessionInv, ClientInv, Waiting
    <3>6. CASE ~spoilt
      <4>1. Coming("client") = <<>> => Follows("client", Reply, 0)'
        <5>1. SUFFICES ASSUME a = <<>>
                       PROVE  Follows("client", Reply, 0)'
          BY <3>1
        <5>2. b = p
          BY <1>8, <3>3, <5>1, ConcatEmptySeq
        <5>3. Rest(p, p, 0) /\ Len(p) = Len(p) - 0
          <6>1. Rest(p, p, 0) /\ Len(p) \in Nat
            BY <1>8, RestOfAll, LenProperties
          <6> QED  BY <6>1
        <5> QED  BY <1>8, <3>1, <5>2, <5>3 DEF Follows
      <4>2. BeforeSpoilt => BeforeSpoilt'
        BY <1>6, <1>7, <2>2, <3>4, <4>1 DEF BeforeSpoilt, NoAnswer, Waiting
      <4> QED  BY <1>6, <2>2, <3>6, <4>2 DEF SessionInv, ClientInv, Waiting
    <3> QED  BY <3>5, <3>6
  <2> QED  BY <1>12, <2>1, <2>2
<1> QED  BY <1>4, <1>14, <1>15, <1>16, <1>17, <1>18, <1>19, <1>20 DEF SessionInv

-----------------------------------------------------------------------------
(* Sockets that close, connections that are reset.                         *)

LEMMA ServerCloses ==
  ASSUME SessionInv, SessionTypeOK', closes("server"), pc'["client"] = pc["client"], pc'["server"] \in Ended
  PROVE  SessionInv'
<1>1. /\ UNCHANGED <<expire_timeout, op, len, text, in_session, historyVars>>
      /\ ~open'["server"] /\ in'["server"] = <<>> /\ out'["server"] = <<>> /\ rst'["server"] = rst["server"]
      /\ open'["client"] = open["client"] /\ in'["client"] = in["client"] /\ out'["client"] = out["client"]
      /\ Rest(Coming("client")', Coming("client"), 0)
  BY EndsAre, Closing DEF SessionInv
<1>2. pc'["server"] \notin Greeting \cup Serving
  BY DEF Greeting, Serving, Ended
<1>3. Connected'
  <2>1. ~Running("server")'
    BY DEF Running
  <2>2. ~open["client"] => ~Running("client")'
    BY EndsAre DEF SessionInv, Connected, Running
  <2> QED  BY <1>1, <2>1, <2>2, EndsAre DEF SessionInv, Connected
<1>4. Written'
  BY <1>1, <1>2 DEF SessionInv, Written
<1>5. Watched'
  BY <1>1, <1>2 DEF SessionInv, Watched
<1>6. Recorded'
  BY <1>1 DEF SessionInv, Recorded, historyVars
<1>7. ClientInv'
  BY <1>1, ClientFrame DEF SessionInv, historyVars
<1>8. ServerInv' /\ Awaiting'
  BY <1>2, ServerDone DEF Awaiting, Ended
<1> QED  BY <1>3, <1>4, <1>5, <1>6, <1>7, <1>8 DEF SessionInv, InTurn

LEMMA ClientCloses ==
  ASSUME SessionInv, SessionTypeOK', closes("client"), UNCHANGED pc, pc["client"] \in Left
  PROVE  SessionInv'
<1>1. /\ UNCHANGED <<expire_timeout, op, len, text, in_session, historyVars>>
      /\ ~open'["client"] /\ in'["client"] = <<>> /\ out'["client"] = <<>> /\ rst'["client"] = rst["client"]
      /\ open'["server"] = open["server"] /\ in'["server"] = in["server"] /\ out'["server"] = out["server"]
      /\ Rest(Coming("server")', Coming("server"), 0)
      /\ Coming("client")' = out["server"]
  BY EndsAre, Closing DEF SessionInv
<1>2. pc["client"] \notin Opening \cup Waiting \cup {"prompt"}
  BY DEF Opening, Waiting, Left
<1>3. Connected'
  <2>1. ~Running("client")'
    BY DEF Running
  <2>2. ~open["server"] => ~Running("server")'
    BY EndsAre DEF SessionInv, Connected, Running
  <2> QED  BY <1>1, <2>1, <2>2, EndsAre DEF SessionInv, Connected
<1>4. Written'
  BY <1>1, <1>2 DEF SessionInv, Written
<1>5. Watched'
  BY <1>1 DEF SessionInv, Watched
<1>6. Recorded'
  BY <1>1, <1>2 DEF SessionInv, Recorded, historyVars, Hello
<1>7. ServerInv'
  <2>1. Coming("client") = <<>> => Coming("client")' = <<>>
    BY <1>1, EndsAre, Comings DEF SessionInv
  <2> QED  BY <1>1, <2>1, ServerFrame DEF SessionInv, historyVars
<1>8. ClientInv'
  BY ClientDone
<1>9. InTurn'
  BY <1>1 DEF InTurn, Settled
<1> QED  BY <1>3, <1>4, <1>5, <1>6, <1>7, <1>8, <1>9 DEF SessionInv

LEMMA ResetStep ==
  ASSUME SessionInv, NEW e \in Ends, reset(e)
  PROVE  SessionInv'
<1>1. /\ UNCHANGED <<pc, open, out, expire_timeout, op, len, text, in_session, historyVars>>
      /\ open[e] /\ ~open[Peer(e)]
      /\ in'[Peer(e)] = in[Peer(e)] /\ rst'[Peer(e)] = rst[Peer(e)]
      /\ Coming(Peer(e))' = Coming(Peer(e))
      /\ Rest(Coming(e)', Coming(e), 0)
  BY Resetting DEF SessionInv
<1>2. SessionTypeOK'
  BY CloseTypes DEF SessionInv
<1>3. (e = "client" /\ Peer(e) = "server") \/ (e = "server" /\ Peer(e) = "client")
  BY EndsAre
<1>4. Connected'
  <2>1. pc'[e] = pc[e] /\ (e = "server" => pc'[e] \in AtServer) /\ (e = "client" => pc'[e] \in AtClient)
    BY <1>1, <1>3 DEF SessionInv, Connected, AtServer, AtClient
  <2>2. pc'[Peer(e)] = pc[Peer(e)] /\ out'[Peer(e)] = out[Peer(e)] /\ UNCHANGED open
    BY <1>1
  <2>3. SessionTypeOK /\ Connected
    BY DEF SessionInv
  <2> QED  BY <1>1, <2>1, <2>2, <2>3, ConnectedMove, Zenon
<1>5. Written' /\ Watched'
  BY <1>1 DEF SessionInv, Written, Watched
<1>6. Recorded'
  BY <1>1 DEF SessionInv, Recorded, historyVars, Hello
<1>7. Rest(Coming(Peer(e))', Coming(Peer(e)), 0)
  BY <1>1, EndsAre, SameIsRest DEF SessionInv
<1>8. Coming(e) = <<>> => Coming(e)' = <<>>
  <2>1. Coming(e)' \in Seq(Byte) /\ Len(Coming(e)') \in Nat
    BY <1>2, ComingsNext
  <2>2. Coming(e) = <<>> => Len(Coming(e)') = 0
    BY <1>1, <2>1 DEF Rest
  <2> QED  BY <2>1, <2>2, EmptySeq
<1>9. ServerInv'
  BY <1>1, <1>2, <1>3, <1>7, <1>8, ServerFrame DEF SessionInv, historyVars
<1>10. ClientInv'
  BY <1>1, <1>2, <1>3, <1>7, ClientFrame DEF SessionInv, historyVars
<1>11. InTurn'
  <2>1. Settled' => Settled
    BY <1>1 DEF Settled, historyVars
  <2>2. Awaiting => Awaiting'
    BY <1>1, <1>3, <1>8 DEF Awaiting
  <2> QED  BY <2>1, <2>2 DEF SessionInv, InTurn
<1> QED  BY <1>2, <1>4, <1>5, <1>6, <1>9, <1>10, <1>11 DEF SessionInv

LEMMA ServerStep ==
  ASSUME SessionInv, server \/ dies("server") \/ server_gone
  PROVE  SessionInv'
<1>1. "server" \in Ends /\ SessionTypeOK
  BY EndsAre DEF SessionInv
<1>2. ASSUME NEW label \in {"grant", "answer"}, write_fails("server", label, "exit")
      PROVE  SessionInv'
  <2>1. PICK l \in {"exit", "killed"} : Goto("server", l)
    BY <1>2 DEF write_fails
  <2>2. pc["server"] \in Greeting \cup Serving /\ UNCHANGED <<socketVars, op, len, text, in_session, historyVars>>
    BY <1>2 DEF write_fails, Serving
  <2> QED  BY <2>1, <2>2, ServerStops
<1>3. CASE dies("server")
  <2>1. Goto("server", "died") /\ UNCHANGED <<socketVars, op, len, text, in_session, historyVars>>
    BY <1>3 DEF dies
  <2>2. pc["server"] \in Greeting \cup Serving
    BY <1>3 DEF dies, Running, SessionInv, Connected
  <2> QED  BY <2>1, <2>2, ServerStops
<1>4. CASE thread_exit("server")
  <2>1. closes("server") /\ (Goto("server", "closed") \/ Goto("server", "corrupt"))
    BY <1>4 DEF thread_exit
  <2>2. SessionTypeOK'
    BY <1>1, <2>1, CloseTypes
  <2>3. pc'["client"] = pc["client"] /\ pc'["server"] \in Ended
    BY <1>1, <2>1, EndsAre DEF Goto, Ended, SessionTypeOK
  <2> QED  BY <2>1, <2>2, <2>3, ServerCloses
<1>5. CASE server_gone
  <2>1. closes("server") /\ UNCHANGED pc /\ pc["server"] \in Ended
    BY <1>5 DEF server_gone, Ended
  <2>2. SessionTypeOK'
    BY <1>1, <2>1, CloseTypes
  <2> QED  BY <2>1, <2>2, ServerCloses
<1>6. CASE writes("server", "grant", "op") \/ writes("server", "answer", "sent")
  BY <1>6, ServerWrites
<1> QED
  <2>1. CASE server
    BY <1>2, <1>4, <1>6, <2>1, GreetOpStep, GreetLenStep, GreetsStep, OpStep, LenStep, TextStep,
       HandlesStep, AnswerSentStep, Zenon DEF server
  <2> QED  BY <1>3, <1>5, <2>1

-----------------------------------------------------------------------------
(* The steps of the client.                                                *)

LEMMA ClientWrites ==
  ASSUME SessionInv, NEW label, NEW next, writes("client", label, next),
         (label = "hello" /\ next = "hello_op") \/ (label = "request" /\ next = "op")
  PROVE  SessionInv'
<1>1. /\ UNCHANGED <<open, expire_timeout, op, len, text, in_session, historyVars>>
      /\ pc["client"] = label /\ pc'["server"] = pc["server"]
      /\ pc'["client"] = label \/ (pc'["client"] = next /\ out'["client"] = <<>>)
      /\ out'["server"] = out["server"] /\ Coming("client")' = Coming("client")
      /\ rst'["server"] = rst["server"]
      /\ open["server"] => Coming("server")' = Coming("server") /\ rst'["client"] = rst["client"]
      /\ ~open["server"] => in'["server"] = in["server"]
  BY EndsAre, Writing DEF SessionInv
<1>2. SessionTypeOK'
  BY EndsAre, LabelsAre, OwnTypes DEF SessionInv
<1>3. Rest(Coming("client")', Coming("client"), 0)
  BY <1>1, EndsAre, SameIsRest DEF SessionInv
<1>4. ClientInv'
  BY <1>1, <1>2, <1>3, ClientFrame DEF SessionInv, historyVars
<1>5. Settled' => Settled
  BY <1>1 DEF Settled, historyVars
<1>6. /\ pc'["client"] \in Opening => pc["client"] \in Opening
      /\ pc'["client"] \in Waiting => pc["client"] \in Waiting
      /\ pc'["client"] \in (Opening \cup Waiting \cup {"prompt"}) \ {"hello", "request"} => out'["client"] = <<>>
      /\ pc'["client"] \notin {"len", "text", "show"}
      /\ pc["client"] \in Opening \cup Waiting \cup {"prompt"} /\ pc'["client"] \in AtClient
  BY <1>1 DEF Opening, Waiting, AtClient
<1> QED  BY <1>1, <1>2, <1>4, <1>5, <1>6, ClientMoves DEF historyVars

LEMMA ClientStops ==
  ASSUME SessionInv, pc["client"] \in Opening \cup Waiting \cup {"prompt"},
         NEW l \in Left, Goto("client", l),
         UNCHANGED <<socketVars, op, len, text, in_session, asked, answered>>, spoilt' \in BOOLEAN
  PROVE  SessionInv'
<1>1. pc'["client"] = l /\ pc'["server"] = pc["server"]
  BY EndsAre DEF Goto, SessionInv, SessionTypeOK
<1>2. SessionTypeOK'
  <2>1. l \in Labels
    BY LabelsAre DEF Left
  <2> QED  BY <2>1, EndsAre, StillTypes DEF SessionInv
<1>3. /\ pc'["client"] \notin Opening \cup Waiting \cup {"prompt"} /\ pc'["client"] \notin {"len", "text", "show"}
      /\ pc'["client"] \in AtClient
  BY <1>1 DEF Opening, Waiting, Left, AtClient
<1>4. ClientInv' /\ (Settled' => Settled)
  BY <1>1, <1>3, ClientDone DEF Settled, socketVars, Opening
<1>5. Coming("server")' = Coming("server") /\ Coming("client")' = Coming("client")
  BY DEF Coming, socketVars
<1> QED  BY <1>1, <1>2, <1>3, <1>4, <1>5, ClientMoves DEF socketVars

LEMMA ClientReads ==
  ASSUME SessionInv, SessionTypeOK', Quiet("client"),
         pc["client"] \in (Opening \cup Waiting) \ {"hello", "request"}, pc'["client"] \in AtClient,
         pc'["client"] \in Opening => pc["client"] \in Opening,
         pc'["client"] \in Waiting => pc["client"] \in Waiting,
         pc'["client"] \in {"len", "text", "show"} => expire_timeout'["client"] = "no",
         ClientInv', Settled' => Settled \/ Awaiting
  PROVE  SessionInv'
<1>1. Peer("client") = "server"
  BY EndsAre
<1>2. out'["client"] = <<>>
  BY DEF SessionInv, Written, Quiet
<1> QED  BY <1>1, <1>2, ClientMoves DEF Quiet, historyVars

\* The answer to the greeting is read only when the server has sent it: then it
\* has read the greeting.
LEMMA HelloOpStep ==
  ASSUME SessionInv, reads_op("client", "hello_op", "hello_len", "hello_len")
  PROVE  SessionInv'
<1>1. /\ SessionTypeOK' /\ Quiet("client")
      /\ pc["client"] = "hello_op" /\ pc'["client"] = "hello_len"
      /\ Coming("client") = <<>> => op'["client"] = 0
      /\ expire_timeout'["client"] = "no" => AfterRead("client", 2) /\ op'["client"] = ntohs(Begin(Coming("client"), 2))
  BY EndsAre, LabelsAre, ReadsOp DEF SessionInv
<1>2. PICK c, d : c = Coming("client") /\ d = Coming("client")'
  OBVIOUS
<1>3. c \in Seq(Byte) /\ d \in Seq(Byte) /\ Len(c) \in Nat
  <2>1. c \in Seq(Byte) /\ d \in Seq(Byte)
    BY <1>1, <1>2, EndsAre, Comings DEF Quiet, SessionInv
  <2> QED  BY <2>1, LenProperties
<1>4. Rest(c, Grant, 0)
  BY <1>1, <1>2 DEF SessionInv, ClientInv
<1>5. ASSUME expire_timeout'["client"] = "no"
      PROVE  Rest(d, Grant, 2)
  <2>1. CASE Len(c) >= 2
    <3>1. Rest(d, c, 2)
      BY <1>1, <1>2, <1>5, <2>1 DEF AfterRead
    <3>2. Rest(d, Grant, 0 + 2)
      BY <1>3, <1>4, <3>1, GrantIs, RestOfRest
    <3> QED  BY <3>2
  <2>2. CASE Len(c) < 2
    <3>1. d = <<>>
      BY <1>1, <1>2, <1>5, <2>2 DEF AfterRead
    <3>2. 2 \in Nat /\ 2 <= Len(Grant)
      BY GrantIs
    <3> QED  BY <3>1, <3>2, GrantIs, RestOfAll
  <2> QED  BY <1>3, <2>1, <2>2
<1>6. ~spoilt /\ asked = Hello /\ answered = NULL
  BY <1>1 DEF SessionInv, Recorded, Opening
<1>7. ClientInv'
  <2>1. BeforeSpoilt'
    BY <1>1 DEF BeforeSpoilt
  <2>2. ~spoilt'
    BY <1>1, <1>6 DEF Quiet, historyVars
  <2>3. expire_timeout'["client"] = "no" => Rest(Coming("client")', Grant', 2)
    BY <1>2, <1>5 DEF Grant
  <2> QED  BY <1>1, <2>1, <2>2, <2>3 DEF ClientInv
<1>8. Settled' => Awaiting
  <2>1. SUFFICES ASSUME Settled'
                 PROVE  Awaiting
    OBVIOUS
  <2>2. open["client"] /\ op'["client"] = OP_CONCESION_CONEXION
    BY <1>1, <1>6, <2>1 DEF Settled, Quiet, historyVars
  <2>3. ~Pending
    BY <1>6, GreetingIsNoCommand DEF Pending
  <2>4. pc["server"] \notin Greeting
    <3>1. pc["server"] \in Greeting => op'["client"] = 0
      BY <1>1 DEF SessionInv, ServerInv
    <3> QED  BY <2>2, <3>1 DEF OP_CONCESION_CONEXION
  <2>5. pc["server"] \notin {"len", "text", "handle"}
    BY <2>2, <2>3 DEF SessionInv, ServerInv
  <2>6. pc["server"] \in Speaking /\ expire_timeout["server"] = "no" => Coming("server") = <<>>
    BY <2>3 DEF SessionInv, ServerInv, Speaking
  <2> QED  BY <2>4, <2>5, <2>6 DEF Awaiting, Speaking
<1>9. pc["client"] \in (Opening \cup Waiting) \ {"hello", "request"} /\ pc["client"] \in Opening
  BY <1>1 DEF Opening
<1>10. pc'["client"] \in AtClient /\ pc'["client"] \notin Waiting
  BY <1>1 DEF AtClient, Opening, Waiting
<1> QED  BY <1>1, <1>7, <1>8, <1>9, <1>10, ClientReads

LEMMA HelloLenStep ==
  ASSUME SessionInv, reads_len("client", "hello_len", "hello_text", "hello_text")
  PROVE  SessionInv'
<1>1. /\ SessionTypeOK' /\ Quiet("client") /\ op'["client"] = op["client"]
      /\ pc["client"] = "hello_len" /\ pc'["client"] = "hello_text"
      /\ expire_timeout'["client"] = "no" => AfterRead("client", 2) /\ len'["client"] = ntohs(Begin(Coming("client"), 2))
  BY EndsAre, LabelsAre, ReadsLen DEF SessionInv
<1>2. PICK c, d, x : c = Coming("client") /\ d = Coming("client")' /\ x = ntohs(Begin(Coming("client"), 2))
  OBVIOUS
<1>3. c \in Seq(Byte) /\ d \in Seq(Byte) /\ Len(c) \in Nat
  <2>1. c \in Seq(Byte) /\ d \in Seq(Byte)
    BY <1>1, <1>2, EndsAre, Comings DEF Quiet, SessionInv
  <2> QED  BY <2>1, LenProperties
<1>4. ASSUME expire_timeout'["client"] = "no", op["client"] = OP_CONCESION_CONEXION
      PROVE  \/ x = Len(SERVER_VERSION) /\ Rest(d, Grant, 4)
             \/ ~open["server"] /\ d = <<>>
  <2>1. AfterRead("client", 2) /\ Rest(c, Grant, 2)
    BY <1>1, <1>2, <1>4 DEF SessionInv, ClientInv, AfterRead
  <2>2. CASE Len(c) >= 2
    <3>1. x = Len(SERVER_VERSION)
      BY <1>2, <1>3, <2>1, <2>2, GrantIs, ReadLength DEF Grant
    <3>2. Rest(d, Grant, 2 + 2)
      BY <1>2, <1>3, <2>1, <2>2, GrantIs, RestOfRest DEF AfterRead
    <3> QED  BY <3>1, <3>2
  <2>3. CASE Len(c) < 2
    BY <1>2, <2>1, <2>3, EndsAre DEF AfterRead
  <2> QED  BY <1>3, <2>2, <2>3
<1>5. ClientInv'
  <2>1. BeforeSpoilt' /\ ~spoilt'
    BY <1>1 DEF SessionInv, Recorded, Opening, BeforeSpoilt, Quiet, historyVars
  <2>2. expire_timeout'["client"] = "no" /\ op'["client"] = OP_CONCESION_CONEXION =>
          \/ len'["client"] = Len(SERVER_VERSION) /\ Rest(Coming("client")', Grant', 4)
          \/ ~open'["server"] /\ Coming("client")' = <<>>
    BY <1>1, <1>2, <1>4 DEF Grant, Quiet, AfterRead
  <2> QED  BY <1>1, <2>1, <2>2 DEF ClientInv
<1>6. Settled' => Settled
  BY <1>1 DEF Settled, Quiet, historyVars
<1>7. /\ pc["client"] \in (Opening \cup Waiting) \ {"hello", "request"} /\ pc["client"] \in Opening
      /\ pc'["client"] \in AtClient /\ pc'["client"] \notin Waiting
  BY <1>1 DEF AtClient, Opening, Waiting
<1> QED  BY <1>1, <1>5, <1>6, <1>7, ClientReads

LEMMA HelloTextStep ==
  ASSUME SessionInv, reads_text("client", "hello_text", "granted", "granted")
  PROVE  SessionInv'
<1>1. /\ SessionTypeOK' /\ Quiet("client") /\ op'["client"] = op["client"]
      /\ pc["client"] = "hello_text" /\ pc'["client"] = "granted"
      /\ expire_timeout'["client"] = "no" =>
           IF len["client"] \in 1..(MAX_BUFFER_DATA_SIZE - 1)
           THEN AfterRead("client", len["client"])
           ELSE expire_timeout["client"] = "no" /\ Coming("client")' = Coming("client")
  BY EndsAre, LabelsAre, ReadsText DEF SessionInv
<1>2. PICK c, d, n : c = Coming("client") /\ d = Coming("client")' /\ n = len["client"]
  OBVIOUS
<1>3. c \in Seq(Byte) /\ d \in Seq(Byte) /\ Len(c) \in Nat /\ Len(d) \in Nat
  <2>1. c \in Seq(Byte) /\ d \in Seq(Byte)
    BY <1>1, <1>2, EndsAre, Comings DEF Quiet, SessionInv
  <2> QED  BY <2>1, LenProperties
<1>4. ASSUME expire_timeout'["client"] = "no", op["client"] = OP_CONCESION_CONEXION
      PROVE  d = <<>>
  <2>1. \/ n = Len(SERVER_VERSION) /\ Rest(c, Grant, 4)
        \/ c = <<>>
    <3>1. expire_timeout["client"] = "no"
      BY <1>1, <1>4 DEF AfterRead
    <3> QED  BY <1>1, <1>2, <1>4, <3>1 DEF SessionInv, ClientInv
  <2>2. CASE c = <<>>
    BY <1>1, <1>2, <2>2 DEF Quiet
  <2>3. CASE n = Len(SERVER_VERSION) /\ Rest(c, Grant, 4)
    <3>1. n \in Nat /\ n \in 1..(MAX_BUFFER_DATA_SIZE - 1)
      BY <2>3, GrantIs
    <3>2. Len(c) <= n
      BY <1>3, <2>3, GrantIs DEF Rest
    <3>3. AfterRead("client", n)
      BY <1>1, <1>2, <1>4, <3>1
    <3>4. d = <<>> \/ Len(d) = Len(c) - n
      BY <1>2, <1>3, <3>1, <3>3 DEF AfterRead
    <3>5. d = <<>> \/ Len(d) = 0
      BY <1>3, <3>1, <3>2, <3>4
    <3> QED  BY <1>3, <3>5, EmptySeq
  <2> QED  BY <2>1, <2>2, <2>3
<1>5. ClientInv'
  <2>1. BeforeSpoilt' /\ ~spoilt'
    BY <1>1 DEF SessionInv, Recorded, Opening, BeforeSpoilt, Quiet, historyVars
  <2>2. expire_timeout'["client"] = "no" /\ op'["client"] = OP_CONCESION_CONEXION => Coming("client")' = <<>>
    BY <1>1, <1>2, <1>4
  <2> QED  BY <1>1, <2>1, <2>2 DEF ClientInv
<1>6. Settled' => Settled
  BY <1>1 DEF Settled, Quiet, historyVars
<1>7. /\ pc["client"] \in (Opening \cup Waiting) \ {"hello", "request"} /\ pc["client"] \in Opening
      /\ pc'["client"] \in AtClient /\ pc'["client"] \notin Waiting
  BY <1>1 DEF AtClient, Opening, Waiting
<1> QED  BY <1>1, <1>5, <1>6, <1>7, ClientReads

\* Nothing is left of the greeting when the client begins to ask.
LEMMA GrantedStep ==
  ASSUME SessionInv, granted("client")
  PROVE  SessionInv'
<1>1. /\ pc["client"] = "granted" /\ UNCHANGED <<socketVars, op, len, text, in_session, historyVars>>
      /\ Goto("client", IF op["client"] = OP_CONCESION_CONEXION THEN "prompt" ELSE "refused")
  BY DEF granted
<1>2. pc["client"] \in Opening
  BY <1>1 DEF Opening
<1>3. CASE op["client"] # OP_CONCESION_CONEXION
  <2>1. Goto("client", "refused") /\ "refused" \in Left /\ spoilt' \in BOOLEAN
    BY <1>1, <1>3 DEF Left, SessionInv, SessionTypeOK, historyVars
  <2> QED  BY <1>1, <1>2, <2>1, ClientStops DEF historyVars
<1>4. CASE op["client"] = OP_CONCESION_CONEXION
  <2>1. pc'["client"] = "prompt" /\ pc'["server"] = pc["server"]
    BY <1>1, <1>4, EndsAre DEF Goto, SessionInv, SessionTypeOK
  <2>2. SessionTypeOK'
    <3>1. Goto("client", "prompt") /\ spoilt' \in BOOLEAN
      BY <1>1, <1>4 DEF SessionInv, SessionTypeOK, historyVars
    <3> QED  BY <1>1, <3>1, EndsAre, LabelsAre, StillTypes DEF SessionInv
  <2>3. Coming("server")' = Coming("server") /\ Coming("client")' = Coming("client")
    BY <1>1 DEF Coming, socketVars
  <2>4. ~spoilt' /\ UNCHANGED <<asked, answered, spoilt>>
    BY <1>1, <1>2 DEF SessionInv, Recorded, historyVars
  <2>5. expire_timeout'["client"] = "no" => Coming("client")' = <<>>
    BY <1>1, <1>4, <2>3 DEF SessionInv, ClientInv, socketVars
  <2>6. ClientInv'
    BY <2>1, <2>4, <2>5 DEF ClientInv, BeforeSpoilt
  <2>7. Settled' => Settled
    BY <1>1, <1>4 DEF Settled, socketVars
  <2>8. out'["client"] = <<>>
    BY <1>1 DEF SessionInv, Written, Opening, socketVars
  <2>9. pc'["client"] \in AtClient /\ pc'["client"] \notin Opening \cup Waiting \cup {"len", "text", "show"}
    BY <2>1 DEF AtClient, Opening, Waiting
  <2> QED  BY <1>1, <1>2, <2>1, <2>2, <2>3, <2>4, <2>6, <2>7, <2>8, <2>9, ClientMoves DEF socketVars
<1> QED  BY <1>3, <1>4

\* A question is written when nothing of an earlier one is on its way.
LEMMA TypesStep ==
  ASSUME SessionInv, types("client")
  PROVE  SessionInv'
<1>1. PICK q \in Commands : asked' = q /\ answered' = NULL /\ sends("client", paquete_men(q.op, q.data))
  BY DEF types
<1>2. /\ pc["client"] = "prompt" /\ Goto("client", "request")
      /\ UNCHANGED <<op, len, text, in_session, shown, spoilt>>
  BY DEF types
<1>3. PICK p : p = paquete_men(q.op, q.data)
  OBVIOUS
<1>4. /\ pc'["client"] = "request" /\ pc'["server"] = pc["server"]
      /\ out'["client"] = p /\ out'["server"] = out["server"] /\ UNCHANGED <<open, in, rst, expire_timeout>>
  BY <1>1, <1>2, <1>3, EndsAre DEF Goto, sends, SessionInv, SessionTypeOK
<1>5. p \in Seq(Byte) /\ p = Question'
  BY <1>1, <1>3, Shorts, TextsFit, PacketBytes DEF Question
<1>6. SessionTypeOK'
  BY ClientTypes DEF SessionInv
<1>7. open["client"] /\ out["client"] = <<>>
  BY <1>2, RunningIsOpen DEF SessionInv, Written
<1>8. Awaiting
  BY <1>2, <1>7 DEF SessionInv, InTurn, Settled
<1>9. Connected'
  <2>1. pc'["client"] \in AtClient
    BY <1>4 DEF AtClient, Waiting
  <2> QED  BY <1>4, <1>7, <2>1, EndsAre, ConnectedMove DEF SessionInv
<1>10. Written'
  BY <1>4 DEF SessionInv, Written
<1>11. Watched'
  BY <1>4 DEF SessionInv, Watched
<1>12. Recorded'
  BY <1>1, <1>4 DEF Recorded, Opening
<1>13. Pending'
  BY <1>1 DEF Pending
<1>14. ServerInv'
  <2>1. Coming("server") = <<>> => Rest(Coming("server")', Question', 0)
    <3>1. SUFFICES ASSUME Coming("server") = <<>>
                   PROVE  Rest(Coming("server")', Question', 0)
      OBVIOUS
    <3>2. in["server"] = <<>>
      BY <3>1, EndsAre, Comings DEF SessionInv
    <3>3. Coming("server")' = <<>> \o p
      BY <1>4, <3>2, EndsAre DEF Coming
    <3>4. <<>> \o p = p
      BY <1>5, ConcatEmptySeq
    <3>5. Rest(p, p, 0)
      BY <1>5, RestOfAll
    <3> QED  BY <1>5, <3>3, <3>4, <3>5
  <2>2. pc["server"] \notin Greeting \cup {"len", "text", "handle"}
    BY <1>8 DEF Awaiting
  <2>3. pc["server"] \in {"grant", "op", "answer", "sent"} /\ expire_timeout["server"] = "no" => Coming("server") = <<>>
    BY <1>8 DEF Awaiting
  <2> QED  BY <1>4, <1>13, <2>1, <2>2, <2>3 DEF ServerInv, Greeting
<1>15. ClientInv'
  <2>1. Coming("client")' = Coming("client")
    BY <1>4, EndsAre DEF Coming
  <2>2. expire_timeout["client"] = "no" => IF spoilt THEN Listing ELSE Coming("client") = <<>>
    BY <1>2 DEF SessionInv, ClientInv, AfterSpoilt, BeforeSpoilt
  <2>3. Listing => Listing'
    BY <1>4, <2>1 DEF Listing
  <2> QED  BY <1>1, <1>2, <1>4, <2>1, <2>2, <2>3 DEF ClientInv, AfterSpoilt, BeforeSpoilt
<1>16. InTurn'
  BY <1>1, <1>4 DEF InTurn, Settled
<1> QED  BY <1>6, <1>9, <1>10, <1>11, <1>12, <1>14, <1>15, <1>16 DEF SessionInv

\* The client gives up a read that timed out.
LEMMA ClientGivesUp ==
  ASSUME SessionInv, SessionTypeOK', Quiet("client"), pc["client"] \in {"op", "len", "text"},
         pc'["client"] = "gave_up"
  PROVE  SessionInv'
<1>1. /\ pc["client"] \in (Opening \cup Waiting) \ {"hello", "request"}
      /\ pc'["client"] \in AtClient /\ pc'["client"] \notin Opening \cup Waiting \cup {"len", "text", "show"}
  BY DEF AtClient, Opening, Waiting, Left
<1>2. ClientInv'
  BY ClientDone DEF Left
<1>3. Settled' => Settled
  BY DEF Settled, Quiet, historyVars
<1> QED  BY <1>1, <1>2, <1>3, ClientReads

\* The client is in the answer.
LEMMA ClientReadsOn ==
  ASSUME SessionInv, SessionTypeOK', Quiet("client"), pc["client"] \in {"op", "len", "text"},
         pc'["client"] \in {"len", "text", "show"}, expire_timeout'["client"] = "no",
         IF spoilt THEN AfterSpoilt' ELSE BeforeSpoilt'
  PROVE  SessionInv'
<1>1. /\ pc["client"] \in (Opening \cup Waiting) \ {"hello", "request"} /\ pc["client"] \in Waiting
      /\ pc'["client"] \in AtClient /\ pc'["client"] \notin Opening
  BY DEF AtClient, Opening, Waiting
<1>2. ClientInv'
  BY DEF ClientInv, Quiet, historyVars
<1>3. Settled' => Settled
  BY DEF Settled, Quiet, historyVars
<1> QED  BY <1>1, <1>2, <1>3, ClientReads

\* The code of an answer: cut, it is taken for no answer.
LEMMA ClientOpStep ==
  ASSUME SessionInv, reads_op("client", "op", "len", "gave_up")
  PROVE  SessionInv'
<1>1. /\ SessionTypeOK' /\ Quiet("client")
      /\ pc["client"] = "op" /\ pc'["client"] = (IF expire_timeout'["client"] # "no" THEN "gave_up" ELSE "len")
      /\ expire_timeout'["client"] = "no" => AfterRead("client", 2) /\ op'["client"] = ntohs(Begin(Coming("client"), 2))
  BY EndsAre, LabelsAre, ReadsOp DEF SessionInv
<1>2. CASE expire_timeout'["client"] # "no"
  BY <1>1, <1>2, ClientGivesUp
<1>3. CASE expire_timeout'["client"] = "no"
  <2>1. PICK c, d, x : c = Coming("client") /\ d = Coming("client")' /\ x = ntohs(Begin(Coming("client"), 2))
    OBVIOUS
  <2>2. c \in Seq(Byte) /\ d \in Seq(Byte) /\ Len(c) \in Nat /\ Len(d) \in Nat
    <3>1. c \in Seq(Byte) /\ d \in Seq(Byte)
      BY <1>1, <2>1, EndsAre, Comings DEF Quiet, SessionInv
    <3> QED  BY <3>1, LenProperties
  <2>3. pc'["client"] = "len" /\ AfterRead("client", 2) /\ op'["client"] = x
    BY <1>1, <1>3, <2>1
  <2>4. /\ Len(c) >= 2 => Len(d) = Len(c) - 2 /\ Rest(d, c, 2)
        /\ Len(c) < 2 => ~open["server"] /\ d = <<>>
    BY <2>1, <2>3, EndsAre DEF AfterRead
  <2>5. c = <<>> => x = 0
    BY <2>1, ReadNothing
  <2>6. ASSUME spoilt
        PROVE  NoAnswer(x)
    <3>1. /\ Len(c) >= 1 => c[1] = 117
          /\ Len(c) >= 2 => c[2] = 105
      BY <1>1, <2>1, <2>3, <2>6 DEF SessionInv, ClientInv, AfterSpoilt, AfterRead, Listing
    <3>2. x = 256 * Begin(c, 2)[1] + Begin(c, 2)[2]
      BY <2>1 DEF ntohs
    <3>3. /\ Begin(c, 2)[1] = IF 1 <= Len(c) THEN c[1] ELSE 0
          /\ Begin(c, 2)[2] = IF 2 <= Len(c) THEN c[2] ELSE 0
      BY DEF Begin
    <3>4. CASE Len(c) >= 2
      <4>1. x = 256 * 117 + 105
        BY <2>2, <3>1, <3>2, <3>3, <3>4
      <4> QED  BY <4>1, NoAnswers
    <3>5. CASE Len(c) = 1
      <4>1. x = 256 * 117
        BY <3>1, <3>2, <3>3, <3>5
      <4> QED  BY <4>1, NoAnswers
    <3>6. CASE Len(c) = 0
      <4>1. x = 0
        BY <2>2, <2>5, <3>6, EmptySeq
      <4> QED  BY <4>1, NoAnswers
    <3>7. Len(c) = 0 \/ Len(c) = 1 \/ Len(c) >= 2
      <4>1. \A w \in Nat : w = 0 \/ w = 1 \/ w >= 2
        OBVIOUS
      <4> QED  BY <2>2, <4>1, Zenon
    <3> QED  BY <3>4, <3>5, <3>6, <3>7, Zenon
  <2>7. ASSUME ~spoilt
        PROVE  \/ NoAnswer(x)
               \/ /\ answered # NULL /\ x = OP_RESPONSE(answered.op)
                  /\ Rest(d, Reply, 2) /\ (open["server"] => Len(d) = Len(Reply) - 2)
    <3>1. IF answered = NULL THEN c = <<>> ELSE Follows("client", Reply, 0)
      BY <1>1, <2>1, <2>3, <2>7 DEF SessionInv, ClientInv, BeforeSpoilt, AfterRead
    <3>2. CASE answered = NULL
      BY <2>5, <3>1, <3>2, NoAnswers
    <3>3. CASE answered # NULL
      <4>1. Rest(c, Reply, 0) /\ (open["server"] => Len(c) = Len(Reply) - 0)
        BY <2>1, <3>1, <3>3, EndsAre DEF Follows
      <4>2. open["client"]
        BY <1>1, RunningIsOpen DEF SessionInv, Waiting
      <4>3. /\ answered.op \in Codes /\ OP_RESPONSE(answered.op) \in Short
            /\ answered.data \in Text /\ Len(answered.data) \in Short
            /\ Reply \in Seq(Byte)
        BY <3>3, <4>2, ReplyIs DEF SessionInv
      <4>4. /\ Len(c) >= 2 => x = OP_RESPONSE(answered.op)
            /\ Len(c) < 2 => \E y \in Nat : x = 256 * y /\ (x = 0 \/ (x <= OP_RESPONSE(answered.op) /\ OP_RESPONSE(answered.op) <= x + 255))
        BY <2>1, <2>2, <4>1, <4>3, ReadCode DEF Reply
      <4>5. CASE Len(c) >= 2
        <5>1. Rest(d, Reply, 0 + 2)
          BY <2>2, <2>4, <4>1, <4>3, <4>5, RestOfRest
        <5>2. open["server"] => Len(d) = Len(Reply) - 2
          BY <2>2, <2>4, <4>1, <4>5
        <5> QED  BY <3>3, <4>4, <4>5, <5>1, <5>2
      <4>6. CASE Len(c) < 2
        <5>1. PICK y \in Nat : x = 256 * y /\ (x = 0 \/ (x <= OP_RESPONSE(answered.op) /\ OP_RESPONSE(answered.op) <= x + 255))
          BY <4>4, <4>6
        <5>2. x \in Nat
          BY <5>1
        <5> QED  BY <4>3, <5>1, <5>2, NoAnswers
      <4> QED  BY <2>2, <4>5, <4>6
    <3> QED  BY <3>2, <3>3
  <2>8. spoilt => AfterSpoilt'
    BY <2>3, <2>6 DEF AfterSpoilt, NoAnswer
  <2>9. ~spoilt => BeforeSpoilt'
    <3>1. UNCHANGED <<answered, open>> /\ Reply' = Reply
      BY <1>1 DEF Quiet, historyVars, Reply
    <3>2. SUFFICES ASSUME ~spoilt
                   PROVE  BeforeSpoilt'
      OBVIOUS
    <3>3. \/ NoAnswer(op["client"])'
          \/ answered' # NULL /\ op'["client"] = OP_RESPONSE(answered'.op) /\ Follows("client", Reply, 2)'
      BY <2>1, <2>3, <2>7, <3>1, <3>2, EndsAre DEF Follows, NoAnswer
    <3> QED  BY <2>3, <3>3 DEF BeforeSpoilt
  <2> QED  BY <1>1, <1>3, <2>3, <2>8, <2>9, ClientReadsOn
<1> QED  BY <1>2, <1>3

\* Its length, cut, leaves nothing to read of the text.
LEMMA ClientLenStep ==
  ASSUME SessionInv, reads_len("client", "len", "text", "gave_up")
  PROVE  SessionInv'
<1>1. /\ SessionTypeOK' /\ Quiet("client") /\ op'["client"] = op["client"]
      /\ pc["client"] = "len" /\ pc'["client"] = (IF expire_timeout'["client"] # "no" THEN "gave_up" ELSE "text")
      /\ expire_timeout'["client"] = "no" => AfterRead("client", 2) /\ len'["client"] = ntohs(Begin(Coming("client"), 2))
  BY EndsAre, LabelsAre, ReadsLen DEF SessionInv
<1>2. CASE expire_timeout'["client"] # "no"
  BY <1>1, <1>2, ClientGivesUp
<1>3. CASE expire_timeout'["client"] = "no"
  <2>1. PICK c, d, x : c = Coming("client") /\ d = Coming("client")' /\ x = ntohs(Begin(Coming("client"), 2))
    OBVIOUS
  <2>2. c \in Seq(Byte) /\ d \in Seq(Byte) /\ Len(c) \in Nat /\ Len(d) \in Nat
    <3>1. c \in Seq(Byte) /\ d \in Seq(Byte)
      BY <1>1, <2>1, EndsAre, Comings DEF Quiet, SessionInv
    <3> QED  BY <3>1, LenProperties
  <2>3. pc'["client"] = "text" /\ AfterRead("client", 2) /\ len'["client"] = x
    BY <1>1, <1>3, <2>1
  <2>4. /\ Len(c) >= 2 => Len(d) = Len(c) - 2 /\ Rest(d, c, 2)
        /\ Len(c) < 2 => ~open["server"] /\ d = <<>>
    BY <2>1, <2>3, EndsAre DEF AfterRead
  <2>5. ASSUME ~spoilt
        PROVE  \/ NoAnswer(op["client"])
               \/ /\ answered # NULL /\ op["client"] = OP_RESPONSE(answered.op)
                  /\ \/ /\ x = Len(answered.data)
                        /\ Rest(d, Reply, 4) /\ (open["server"] => Len(d) = Len(Reply) - 4)
                     \/ ~open["server"] /\ d = <<>> /\ x <= Len(answered.data)
    <3>1. \/ NoAnswer(op["client"])
          \/ answered # NULL /\ op["client"] = OP_RESPONSE(answered.op) /\ Follows("client", Reply, 2)
      BY <1>1, <2>3, <2>5 DEF SessionInv, ClientInv, BeforeSpoilt, AfterRead
    <3>2. CASE answered # NULL /\ op["client"] = OP_RESPONSE(answered.op) /\ Follows("client", Reply, 2)
      <4>1. Rest(c, Reply, 2) /\ (open["server"] => Len(c) = Len(Reply) - 2)
        BY <2>1, <3>2, EndsAre DEF Follows
      <4>2. open["client"]
        BY <1>1, RunningIsOpen DEF SessionInv, Waiting
      <4>3. /\ OP_RESPONSE(answered.op) \in Short
            /\ answered.data \in Text /\ Len(answered.data) \in Short
            /\ Reply \in Seq(Byte) /\ Len(Reply) = 4 + Len(answered.data) /\ Len(answered.data) \in Nat
        BY <3>2, <4>2, ReplyIs DEF SessionInv
      <4>4. /\ Len(c) >= 2 => x = Len(answered.data)
            /\ Len(c) < 2 => x <= Len(answered.data)
        BY <2>1, <2>2, <4>1, <4>3, ReadLength DEF Reply
      <4>5. CASE Len(c) >= 2
        <5>1. Rest(d, Reply, 2 + 2)
          BY <2>2, <2>4, <4>1, <4>3, <4>5, RestOfRest
        <5>2. open["server"] => Len(d) = Len(Reply) - 4
          BY <2>2, <2>4, <4>1, <4>3, <4>5
        <5> QED  BY <3>2, <4>4, <4>5, <5>1, <5>2
      <4>6. CASE Len(c) < 2
        BY <2>4, <3>2, <4>4, <4>6
      <4> QED  BY <2>2, <4>5, <4>6
    <3> QED  BY <3>1, <3>2
  <2>6. spoilt => AfterSpoilt'
    <3>1. spoilt => NoAnswer(op["client"])
      BY <1>1, <2>3 DEF SessionInv, ClientInv, AfterSpoilt, AfterRead
    <3> QED  BY <1>1, <2>3, <3>1 DEF AfterSpoilt, NoAnswer
  <2>7. ~spoilt => BeforeSpoilt'
    <3>1. UNCHANGED <<answered, open>> /\ Reply' = Reply
      BY <1>1 DEF Quiet, historyVars, Reply
    <3>2. SUFFICES ASSUME ~spoilt
                   PROVE  BeforeSpoilt'
      OBVIOUS
    <3>3. \/ NoAnswer(op["client"])'
          \/ /\ answered' # NULL /\ op'["client"] = OP_RESPONSE(answered'.op)
             /\ \/ len'["client"] = Len(answered'.data) /\ Follows("client", Reply, 4)'
                \/ ~open'["server"] /\ Coming("client")' = <<>> /\ len'["client"] <= Len(answered'.data)
      BY <1>1, <2>1, <2>3, <2>5, <3>1, <3>2, EndsAre DEF Follows, NoAnswer
    <3> QED  BY <2>3, <3>3 DEF BeforeSpoilt
  <2> QED  BY <1>1, <1>3, <2>3, <2>6, <2>7, ClientReadsOn
<1> QED  BY <1>2, <1>3

LEMMA FirstTwo ==
  ASSUME NEW S, NEW t \in Seq(S), Len(t) >= 2
  PROVE  SubSeq(t, 1, 2)[1] = t[1] /\ SubSeq(t, 1, 2)[2] = t[2]
<1>1. Len(t) \in Nat
  BY LenProperties
<1>2. \A i \in 1..2 : t[i] \in S
  <2>1. \A i \in 1..2 : i \in 1..Len(t)
    BY <1>1
  <2> QED  BY <2>1, ElementOfSeq
<1>3. \A i \in 1..(2 - 1 + 1) : SubSeq(t, 1, 2)[i] = t[1 + i - 1]
  <2>1. 1 \in Int /\ 2 \in Int
    OBVIOUS
  <2>2. \A m \in Int, n \in Int : (\A i \in m..n : t[i] \in S) => \A i \in 1..(n - m + 1) : SubSeq(t, m, n)[i] = t[m + i - 1]
    BY SubSeqProperties
  <2> QED  BY <1>2, <2>1, <2>2, Zenon
<1>4. 1 \in 1..(2 - 1 + 1) /\ 2 \in 1..(2 - 1 + 1) /\ 1 + 1 - 1 = 1 /\ 1 + 2 - 1 = 2
  OBVIOUS
<1>5. SubSeq(t, 1, 2)[1] = t[1] /\ SubSeq(t, 1, 2)[2] = t[2]
  <2>1. SubSeq(t, 1, 2)[1] = t[1 + 1 - 1] /\ SubSeq(t, 1, 2)[2] = t[1 + 2 - 1]
    BY <1>3, <1>4, Zenon
  <2> QED  BY <1>4, <2>1, Zenon
<1> QED  BY <1>5

\* What is left of a text that was not read is a listing.
LEMMA LeftIsListing ==
  ASSUME Recorded, open["client"], answered # NULL, Len(answered.data) >= MAX_BUFFER_DATA_SIZE,
         Coming("client") \in Seq(Byte), Follows("client", Reply, 4)
  PROVE  Listing
<1>1. PICK c, t : c = Coming("client") /\ t = answered.data
  OBVIOUS
<1>2. /\ t \in Text /\ Len(t) \in Nat /\ Len(t) \in Short /\ OP_RESPONSE(answered.op) \in Short
      /\ SubSeq(t, 1, 2) = <<117, 105>> /\ Len(Reply) = 4 + Len(t)
  BY <1>1, ReplyIs
<1>3. Len(t) >= 2 /\ Len(c) \in Nat
  BY <1>1, <1>2, TextsFit, LenProperties
<1>4. t[1] = 117 /\ t[2] = 105
  <2>1. PICK u : u = SubSeq(t, 1, 2)
    OBVIOUS
  <2>2. u[1] = t[1] /\ u[2] = t[2]
    BY <1>2, <1>3, <2>1, FirstTwo DEF Text
  <2>3. u = <<117, 105>>
    BY <1>2, <2>1, Zenon
  <2>4. u[1] = 117 /\ u[2] = 105
    BY ONLY <2>3
  <2> QED  BY ONLY <2>2, <2>4
<1>5. \A i \in 1..Len(t) : Reply[4 + i] = t[i]
  BY <1>1, <1>2, Packet DEF Reply
<1>6. Reply[4 + 1] = 117 /\ Reply[4 + 2] = 105
  <2>1. 1 \in 1..Len(t) /\ 2 \in 1..Len(t)
    BY <1>2, <1>3
  <2> QED  BY <1>4, <1>5, <2>1, Zenon
<1>7. /\ \A i \in 1..Len(c) : c[i] = Reply[4 + i]
      /\ open["server"] => Len(c) = Len(Reply) - 4
  BY <1>1, EndsAre DEF Follows, Rest
<1>8. /\ Len(c) >= 1 => c[1] = Reply[4 + 1]
      /\ Len(c) >= 2 => c[2] = Reply[4 + 2]
  <2>1. /\ Len(c) >= 1 => 1 \in 1..Len(c)
        /\ Len(c) >= 2 => 2 \in 1..Len(c)
    BY <1>3
  <2> QED  BY <1>7, <2>1, Zenon
<1>9. open["server"] => Len(c) >= 2
  BY <1>2, <1>3, <1>7
<1> QED  BY <1>1, <1>6, <1>8, <1>9 DEF Listing

\* The text of the answer: whole, it is the one given; too long for the buffer
\* it stays where it is; of a server that is gone the client makes up the rest.
LEMMA ClientTextStep ==
  ASSUME SessionInv, reads_text("client", "text", "show", "gave_up")
  PROVE  SessionInv'
<1>1. /\ SessionTypeOK' /\ Quiet("client") /\ op'["client"] = op["client"]
      /\ pc["client"] = "text" /\ pc'["client"] = (IF expire_timeout'["client"] # "no" THEN "gave_up" ELSE "show")
      /\ expire_timeout'["client"] = "no" =>
           IF len["client"] \in 1..(MAX_BUFFER_DATA_SIZE - 1)
           THEN AfterRead("client", len["client"]) /\ text'["client"] = Begin(Coming("client"), len["client"])
           ELSE expire_timeout["client"] = "no" /\ Coming("client")' = Coming("client") /\ text'["client"] = NULL
  BY EndsAre, LabelsAre, ReadsText DEF SessionInv
<1>2. CASE expire_timeout'["client"] # "no"
  BY <1>1, <1>2, ClientGivesUp
<1>3. CASE expire_timeout'["client"] = "no"
  <2>1. PICK c, d, n, t : c = Coming("client") /\ d = Coming("client")' /\ n = len["client"] /\ t = text'["client"]
    OBVIOUS
  <2>2. c \in Seq(Byte) /\ d \in Seq(Byte) /\ Len(c) \in Nat /\ Len(d) \in Nat /\ n \in Nat
    <3>1. c \in Seq(Byte) /\ d \in Seq(Byte)
      BY <1>1, <2>1, EndsAre, Comings DEF Quiet, SessionInv
    <3>2. n \in Nat
      BY <2>1, EndsAre DEF SessionInv, SessionTypeOK, Short
    <3> QED  BY <3>1, <3>2, LenProperties
  <2>3. pc'["client"] = "show" /\ expire_timeout["client"] = "no"
    BY <1>1, <1>3 DEF AfterRead
  <2>4. n \in 1..(MAX_BUFFER_DATA_SIZE - 1) =>
          /\ t = Begin(c, n)
          /\ Len(c) >= n => Len(d) = Len(c) - n
          /\ Len(c) < n => ~open["server"] /\ d = <<>>
    BY <1>1, <1>3, <2>1, EndsAre DEF AfterRead
  <2>5. n \notin 1..(MAX_BUFFER_DATA_SIZE - 1) => d = c /\ t = NULL
    BY <1>1, <1>3, <2>1
  <2>6. c = <<>> => d = <<>>
    BY <1>1, <2>1 DEF Quiet
  <2>7. open["client"] /\ Recorded
    BY <1>1, RunningIsOpen DEF SessionInv, Waiting
  <2>8. ASSUME ~spoilt
        PROVE  \/ NoAnswer(op["client"])
               \/ /\ answered # NULL /\ op["client"] = OP_RESPONSE(answered.op)
                  /\ \/ t = answered.data /\ d = <<>>
                     \/ t = NULL /\ d = c /\ Listing
                     \/ ~open["server"] /\ d = <<>> /\ CutOf(t, answered.data)
    <3>1. \/ NoAnswer(op["client"])
          \/ /\ answered # NULL /\ op["client"] = OP_RESPONSE(answered.op)
             /\ \/ n = Len(answered.data) /\ Follows("client", Reply, 4)
                \/ ~open["server"] /\ c = <<>> /\ n <= Len(answered.data)
      BY <1>1, <2>1, <2>3, <2>8 DEF SessionInv, ClientInv, BeforeSpoilt
    <3>2. CASE answered # NULL /\ op["client"] = OP_RESPONSE(answered.op) /\ n = Len(answered.data) /\ Follows("client", Reply, 4)
      <4>1. /\ OP_RESPONSE(answered.op) \in Short
            /\ answered.data \in Text /\ Len(answered.data) \in Short \ {0} /\ Len(answered.data) \in Nat
            /\ Len(Reply) = 4 + Len(answered.data)
        BY <2>7, <3>2, ReplyIs
      <4>2. Rest(c, Reply, 4) /\ Len(c) <= n
        BY <2>1, <2>2, <3>2, <4>1 DEF Follows, Rest
      <4>3. CASE n \in 1..(MAX_BUFFER_DATA_SIZE - 1)
        <5>1. Rest(c, paquete_men(OP_RESPONSE(answered.op), answered.data), 4)
          BY <4>2 DEF Reply
        <5>2. Len(answered.data) > 0
          BY <4>1
        <5>3. /\ Len(c) >= n => Begin(c, n) = answered.data
              /\ Len(c) < n => CutOf(Begin(c, n), answered.data)
          BY <2>2, <3>2, <4>1, <5>1, <5>2, ReadText
        <5>4. CASE Len(c) >= n
          <6>1. Len(d) = 0
            BY <2>2, <2>4, <4>2, <4>3, <5>4
          <6>2. d = <<>>
            BY <2>2, <6>1, EmptySeq
          <6> QED  BY <2>4, <3>2, <4>3, <5>3, <5>4, <6>2
        <5>5. CASE Len(c) < n
          BY <2>4, <3>2, <4>3, <5>3, <5>5
        <5> QED  BY <2>2, <5>4, <5>5
      <4>4. CASE n \notin 1..(MAX_BUFFER_DATA_SIZE - 1)
        <5>1. Len(answered.data) >= MAX_BUFFER_DATA_SIZE
          <6>1. n # 0
            BY <3>2, <4>1
          <6> QED  BY <2>2, <3>2, <4>4, <6>1, TextsFit
        <5>2. Coming("client") \in Seq(Byte) /\ Follows("client", Reply, 4) /\ answered # NULL
          BY <2>1, <2>2, <3>2
        <5>3. Listing
          BY <2>7, <5>1, <5>2, LeftIsListing
        <5> QED  BY <2>5, <3>2, <4>4, <5>3
      <4> QED  BY <4>3, <4>4
    <3>3. CASE answered # NULL /\ op["client"] = OP_RESPONSE(answered.op) /\ ~open["server"] /\ c = <<>> /\ n <= Len(answered.data)
      <4>1. CASE n \in 1..(MAX_BUFFER_DATA_SIZE - 1)
        <5>1. t = [i \in 1..n |-> 0]
          BY <2>2, <2>4, <3>3, <4>1, ReadNothing
        <5>2. n \in 1..Len(answered.data)
          <6>1. Len(answered.data) \in Nat
            BY <2>7, <3>3, ReplyIs
          <6> QED  BY <2>2, <3>3, <4>1, <6>1
        <5>3. CutOf(t, answered.data)
          BY <5>1, <5>2 DEF CutOf
        <5> QED  BY <2>6, <3>3, <5>3
      <4>2. CASE n \notin 1..(MAX_BUFFER_DATA_SIZE - 1)
        BY <2>5, <2>6, <3>3, <4>2 DEF CutOf
      <4> QED  BY <4>1, <4>2
    <3> QED  BY <3>1, <3>2, <3>3
  <2>9. spoilt => AfterSpoilt'
    <3>1. spoilt => NoAnswer(op["client"])
      BY <1>1, <2>3 DEF SessionInv, ClientInv, AfterSpoilt
    <3> QED  BY <1>1, <2>3, <3>1 DEF AfterSpoilt, NoAnswer
  <2>10. ~spoilt => BeforeSpoilt'
    <3>1. UNCHANGED <<answered, open>>
      BY <1>1 DEF Quiet, historyVars
    <3>2. SUFFICES ASSUME ~spoilt
                   PROVE  BeforeSpoilt'
      OBVIOUS
    <3>3. d = c /\ Listing => Listing'
      BY <2>1, <3>1 DEF Listing
    <3>4. \/ NoAnswer(op["client"])'
          \/ /\ answered' # NULL /\ op'["client"] = OP_RESPONSE(answered'.op)
             /\ \/ text'["client"] = answered'.data /\ Coming("client")' = <<>>
                \/ text'["client"] = NULL /\ Listing'
                \/ ~open'["server"] /\ Coming("client")' = <<>> /\ CutOf(text'["client"], answered'.data)
      BY <1>1, <2>1, <2>8, <3>1, <3>2, <3>3 DEF NoAnswer
    <3> QED  BY <2>3, <3>4 DEF BeforeSpoilt
  <2> QED  BY <1>1, <1>3, <2>3, <2>9, <2>10, ClientReadsOn
<1> QED  BY <1>2, <1>3

\* What the client shows: the answer, or what is left of it.
LEMMA Showing ==
  ASSUME SessionInv, pc["client"] = "show", OP_RESPONSE(op["client"]) \in {asked.op, ERROR}
  PROVE  /\ ~spoilt /\ answered # NULL /\ open["client"]
         /\ answered \in [op : Short, data : Text] /\ answered.data # NULL
         /\ \/ text["client"] = answered.data /\ Coming("client") = <<>>
            \/ text["client"] = NULL /\ Listing
            \/ CutOf(text["client"], answered.data) /\ Coming("client") = <<>> /\ ~open["server"]
<1>1. asked \in Commands /\ expire_timeout["client"] = "no"
  BY DEF SessionInv, Recorded, Watched, Waiting
<1>2. open["client"] /\ Recorded
  BY RunningIsOpen DEF SessionInv, Waiting
<1>3. ~NoAnswer(op["client"])
  BY <1>1, TextsFit DEF NoAnswer
<1>4. ~spoilt /\ BeforeSpoilt
  BY <1>1, <1>3 DEF SessionInv, ClientInv, AfterSpoilt
<1>5. /\ answered # NULL
      /\ \/ text["client"] = answered.data /\ Coming("client") = <<>>
         \/ text["client"] = NULL /\ Listing
         \/ CutOf(text["client"], answered.data) /\ Coming("client") = <<>> /\ ~open["server"]
  BY <1>3, <1>4 DEF BeforeSpoilt
<1>6. answered \in [op : Short, data : Text]
  BY <1>2, <1>5 DEF Recorded
<1>7. answered.data # NULL
  <2>1. answered.data \in Text
    BY <1>6
  <2>2. answered.data \in Seq(Byte)
    <3>1. 1..255 \subseteq Byte
      BY DEF Byte
    <3> QED  BY <2>1, <3>1, SeqMonotonic DEF Text
  <2> QED  BY <2>2, NullAssumption
<1> QED  BY <1>2, <1>4, <1>5, <1>6, <1>7

LEMMA ShowsStep ==
  ASSUME SessionInv, shows("client")
  PROVE  SessionInv'
<1>1. pc["client"] = "show" /\ UNCHANGED <<socketVars, op, len, text, in_session, asked, answered>>
  BY DEF shows
<1>2. pc["client"] \in Opening \cup Waiting \cup {"prompt"} /\ pc["client"] \in Waiting
  BY <1>1 DEF Waiting
<1>3. spoilt' \in BOOLEAN
  BY DEF shows, SessionInv, SessionTypeOK
<1>4. CASE Goto("client", "failed") \/ Goto("client", "left")
  <2>1. PICK l \in Left : Goto("client", l)
    BY <1>4 DEF Left
  <2> QED  BY <1>1, <1>2, <1>3, <2>1, ClientStops
<1>5. CASE /\ OP_RESPONSE(op["client"]) \in {asked.op, ERROR} /\ Goto("client", "prompt")
           /\ spoilt' = (spoilt \/ answered = NULL \/ text["client"] # answered.data)
  <2>1. /\ ~spoilt /\ answered # NULL /\ open["client"] /\ answered.data # NULL
        /\ \/ text["client"] = answered.data /\ Coming("client") = <<>>
           \/ text["client"] = NULL /\ Listing
           \/ CutOf(text["client"], answered.data) /\ Coming("client") = <<>> /\ ~open["server"]
    BY <1>1, <1>5, Showing
  <2>2. pc'["client"] = "prompt" /\ pc'["server"] = pc["server"]
    BY <1>5, EndsAre DEF Goto, SessionInv, SessionTypeOK
  <2>3. SessionTypeOK'
    BY <1>1, <1>3, <1>5, EndsAre, LabelsAre, StillTypes DEF SessionInv
  <2>4. Coming("server")' = Coming("server") /\ Coming("client")' = Coming("client") /\ UNCHANGED open
    BY <1>1 DEF Coming, socketVars
  <2>5. (Coming("client") = <<>> /\ ~open["server"]) \/ Listing => Listing'
    <3>1. Len(<<>>) = 0
      OBVIOUS
    <3> QED  BY <2>4, <3>1 DEF Listing
  <2>6. IF spoilt' THEN Listing' ELSE Coming("client")' = <<>>
    <3>1. CASE text["client"] = answered.data
      BY <1>5, <2>1, <2>4, <3>1
    <3>2. CASE text["client"] # answered.data
      BY <1>5, <2>1, <2>5, <3>2
    <3> QED  BY <3>1, <3>2
  <2>7. ClientInv'
    BY <2>2, <2>6 DEF ClientInv, AfterSpoilt, BeforeSpoilt
  <2>8. Settled' => Settled
    BY <2>1 DEF Settled
  <2>9. out'["client"] = <<>>
    BY <1>1 DEF SessionInv, Written, Waiting, socketVars
  <2>10. pc'["client"] \in AtClient /\ pc'["client"] \notin Opening \cup Waiting \cup {"len", "text", "show"}
    BY <2>2 DEF AtClient, Opening, Waiting
  <2> QED  BY <1>1, <1>2, <2>2, <2>3, <2>4, <2>7, <2>8, <2>9, <2>10, ClientMoves DEF socketVars
<1> QED  BY <1>4, <1>5 DEF shows

LEMMA ClientStep ==
  ASSUME SessionInv, client \/ types("client") \/ dies("client")
  PROVE  SessionInv'
<1>1. "client" \in Ends /\ SessionTypeOK
  BY EndsAre DEF SessionInv
<1>2. ASSUME NEW label \in {"hello", "request"}, write_fails("client", label, "failed")
      PROVE  SessionInv'
  <2>1. PICK l \in Left : Goto("client", l)
    BY <1>2 DEF write_fails, Left
  <2>2. pc["client"] \in Opening \cup Waiting \cup {"prompt"} /\ UNCHANGED <<socketVars, op, len, text, in_session, historyVars>>
    BY <1>2 DEF write_fails, Opening, Waiting
  <2>3. spoilt' \in BOOLEAN
    BY <1>1, <2>2 DEF SessionTypeOK, historyVars
  <2> QED  BY <2>1, <2>2, <2>3, ClientStops DEF historyVars
<1>3. CASE dies("client")
  <2>1. Goto("client", "died") /\ "died" \in Left /\ UNCHANGED <<socketVars, op, len, text, in_session, historyVars>>
    BY <1>3 DEF dies, Left
  <2>2. pc["client"] \in Opening \cup Waiting \cup {"prompt"}
    BY <1>3 DEF dies, Running, SessionInv, Connected
  <2>3. spoilt' \in BOOLEAN
    BY <1>1, <2>1 DEF SessionTypeOK, historyVars
  <2> QED  BY <2>1, <2>2, <2>3, ClientStops DEF historyVars
<1>4. CASE leaves("client")
  <2>1. closes("client") /\ UNCHANGED pc /\ pc["client"] \in Left
    BY <1>4 DEF leaves
  <2>2. SessionTypeOK'
    BY <1>1, <2>1, CloseTypes
  <2> QED  BY <2>1, <2>2, ClientCloses
<1>5. CASE writes("client", "hello", "hello_op") \/ writes("client", "request", "op")
  BY <1>5, ClientWrites
<1> QED
  <2>1. CASE client
    BY <1>2, <1>4, <1>5, <2>1, HelloOpStep, HelloLenStep, HelloTextStep, GrantedStep, ClientOpStep,
       ClientLenStep, ClientTextStep, ShowsStep, Zenon DEF client
  <2> QED  BY <1>3, <2>1, TypesStep

-----------------------------------------------------------------------------
(* The invariant, and what it says of the request that is served.          *)

LEMMA SessionInit ==
  ASSUME Init
  PROVE  SessionInv
<1>1. SessionTypeOK
  BY TypeInit
<1>2. /\ pc["client"] = "hello" /\ pc["server"] = "greet_op"
      /\ \A e \in Ends : open[e] /\ in[e] = <<>> /\ rst[e] = "no"
      /\ asked = Hello /\ answered = NULL /\ spoilt = FALSE
  BY EndsAre DEF Init, Hello
<1>3. out["client"] = Question /\ out["server"] = <<>>
  <2>1. /\ out = [client |-> paquete_men(OP_SOLICITUD_CONEXION, <<>>), server |-> <<>>]
        /\ asked.op = OP_SOLICITUD_CONEXION /\ asked.data = <<>>
    BY <1>2 DEF Init, Hello, Request
  <2> QED  BY <2>1 DEF Question
<1>4. Recorded
  BY <1>2 DEF Recorded, Waiting
<1>5. Coming("server") = Question /\ Coming("client") = <<>>
  <2>1. in["server"] = <<>> /\ in["client"] = <<>>
    BY <1>2, EndsAre
  <2> QED  BY <1>1, <1>3, <2>1, EndsAre, Comings
<1>6. Rest(Question, Question, 0) /\ Rest(<<>>, Grant, 0)
  <2>1. Rest(Question, Question, 0)
    BY <1>4, QuestionIs, RestOfAll
  <2>2. 0 \in Nat /\ 0 <= Len(Grant)
    BY GrantIs
  <2> QED  BY <2>1, <2>2, GrantIs, RestOfAll
<1>7. Connected
  BY <1>2 DEF Connected, Opening, Greeting
<1>8. Written
  BY <1>2, <1>3 DEF Written
<1>9. Watched
  BY <1>2 DEF Watched, Serving
<1>10. ServerInv
  BY <1>2, <1>5, <1>6 DEF ServerInv
<1>11. ClientInv
  BY <1>2, <1>5, <1>6 DEF ClientInv, BeforeSpoilt
<1>12. InTurn
  BY <1>2 DEF InTurn, Settled
<1> QED  BY <1>1, <1>4, <1>7, <1>8, <1>9, <1>10, <1>11, <1>12 DEF SessionInv

LEMMA SessionStep ==
  ASSUME SessionInv, [Next]_vars
  PROVE  SessionInv'
<1>1. CASE UNCHANGED vars
  <2>1. UNCHANGED <<pc, open, in, out, rst, expire_timeout, op, len, text, in_session, asked, answered, shown, spoilt>>
    BY <1>1 DEF vars, socketVars, historyVars
  <2>2. SessionTypeOK' /\ Connected' /\ Written' /\ Watched' /\ Recorded'
    BY <2>1 DEF SessionInv, SessionTypeOK, Connected, Written, Watched, Recorded, Running, Hello
  <2>3. /\ Coming("client")' = Coming("client") /\ Coming("server")' = Coming("server")
        /\ Question' = Question /\ Grant' = Grant /\ Reply' = Reply
    BY <2>1 DEF Coming, Question, Grant, Reply
  <2>4. ServerInv'
    BY <2>1, <2>3 DEF SessionInv, ServerInv, Pending, Hello
  <2>5. Listing' = Listing
    BY <2>1, <2>3 DEF Listing
  <2>6. ClientInv'
    BY <2>1, <2>3, <2>5 DEF SessionInv, ClientInv, AfterSpoilt, BeforeSpoilt, Follows, NoAnswer
  <2>7. InTurn'
    BY <2>1, <2>3 DEF SessionInv, InTurn, Settled, Awaiting
  <2> QED  BY <2>2, <2>4, <2>6, <2>7 DEF SessionInv
<1>2. CASE Next
  <2>1. CASE \E e \in Ends : dies(e) \/ reset(e)
    <3>1. PICK e \in Ends : dies(e) \/ reset(e)
      BY <2>1
    <3> QED  BY <3>1, EndsAre, ResetStep, ServerStep, ClientStep
  <2> QED  BY <1>2, <2>1, ServerStep, ClientStep DEF Next
<1> QED  BY <1>1, <1>2

\* The invariant of the session: in every state what is on its way is what is
\* left of the packet its reader is in, and the two ends take turns.
THEOREM SessionInvariant == Spec => []SessionInv
<1>1. Init => SessionInv
  BY SessionInit
<1>2. SessionInv /\ [Next]_vars => SessionInv'
  BY SessionStep
<1> QED  BY <1>1, <1>2, PTL DEF Spec

\* Whatever reads and writes are cut, late or short, the thread handles the
\* request of its client as it was asked, once; only what a client that is gone
\* left of one is handled otherwise (procesar in src/spr.c).
THEOREM ServedCorrect == Spec => []ServedIsAsked
<1>1. SessionInv => ServedIsAsked
  BY DEF SessionInv, ServerInv, Pending, ServedIsAsked
<1> QED  BY <1>1, SessionInvariant, PTL

-----------------------------------------------------------------------------
(* The refinement of Exchange.                                             *)

\* The state of the exchange, as SessionContract has it.
PhaseOf(label, a) ==
  CASE label \in Left -> "over"
    [] label = "prompt" -> "idle"
    [] label \in {"request", "op", "len", "text", "show"} -> IF a = NULL THEN "asked" ELSE "answered"
    [] OTHER -> "opening"
SeenBy(label, a) == IF label \in Left THEN NULL ELSE a

LEMMA Phases ==
  \A label, a :
    /\ label \in Left => PhaseOf(label, a) = "over" /\ SeenBy(label, a) = NULL
    /\ label = "prompt" => PhaseOf(label, a) = "idle" /\ SeenBy(label, a) = a
    /\ label \in Waiting => PhaseOf(label, a) = (IF a = NULL THEN "asked" ELSE "answered") /\ SeenBy(label, a) = a
    /\ label \in Opening => PhaseOf(label, a) = "opening" /\ SeenBy(label, a) = a
BY DEF PhaseOf, SeenBy, Left, Waiting, Opening

\* The actions of Exchange, in those terms.
LEMMA Exchanges ==
  ASSUME NEW x, x = PhaseOf(pc["client"], answered), NEW y, y = PhaseOf(pc'["client"], answered'),
         NEW a, a = SeenBy(pc["client"], answered), NEW b, b = SeenBy(pc'["client"], answered')
  PROVE  /\ x = "opening" /\ a = NULL /\ shown = NULL /\ spoilt = FALSE => Exchanging!Init
         /\ x = y /\ a = b /\ UNCHANGED <<asked, shown, spoilt>> => UNCHANGED Exchanging!vars
         /\ x = "opening" /\ y = "idle" /\ a = b /\ UNCHANGED <<asked, shown, spoilt>> => Exchanging!Open
         /\ x = "idle" /\ y = "asked" /\ asked' \in Commands /\ b = NULL /\ UNCHANGED <<shown, spoilt>> => Exchanging!Ask
         /\ x = "asked" /\ y = "answered" /\ b # NULL /\ b.op = asked.op /\ UNCHANGED <<asked, shown, spoilt>> =>
              Exchanging!Answer
         /\ x = "answered" /\ ~spoilt /\ y \in {"idle", "over"} /\ shown' = a.data /\
              b = (IF y = "over" THEN NULL ELSE a) /\ UNCHANGED <<asked, spoilt>> => Exchanging!Show
         /\ x = "answered" /\ ~spoilt /\ y \in {"idle", "over"} /\ CutOf(shown', a.data) /\ spoilt' = TRUE /\
              b = (IF y = "over" THEN NULL ELSE a) /\ UNCHANGED asked => Exchanging!ShowPart
         /\ y = "over" /\ b = NULL /\ UNCHANGED <<asked, shown, spoilt>> => Exchanging!Over
<1>1. x = "opening" /\ a = NULL /\ shown = NULL /\ spoilt = FALSE => Exchanging!Init
  BY DEF PhaseOf, SeenBy, Exchanging!Init
<1>2. x = y /\ a = b /\ UNCHANGED <<asked, shown, spoilt>> => UNCHANGED Exchanging!vars
  BY DEF PhaseOf, SeenBy, Exchanging!vars
<1>3. x = "opening" /\ y = "idle" /\ a = b /\ UNCHANGED <<asked, shown, spoilt>> => Exchanging!Open
  BY DEF PhaseOf, SeenBy, Exchanging!Open
<1>4. x = "idle" /\ y = "asked" /\ asked' \in Commands /\ b = NULL /\ UNCHANGED <<shown, spoilt>> => Exchanging!Ask
  BY DEF PhaseOf, SeenBy, Exchanging!Ask
<1>5. x = "asked" /\ y = "answered" /\ b # NULL /\ b.op = asked.op /\ UNCHANGED <<asked, shown, spoilt>> =>
        Exchanging!Answer
  BY DEF PhaseOf, SeenBy, Exchanging!Answer
<1>6. x = "answered" /\ ~spoilt /\ y \in {"idle", "over"} /\ shown' = a.data /\
      b = (IF y = "over" THEN NULL ELSE a) /\ UNCHANGED <<asked, spoilt>> => Exchanging!Show
  BY DEF PhaseOf, SeenBy, Exchanging!Show
<1>7. x = "answered" /\ ~spoilt /\ y \in {"idle", "over"} /\ CutOf(shown', a.data) /\ spoilt' = TRUE /\
      b = (IF y = "over" THEN NULL ELSE a) /\ UNCHANGED asked => Exchanging!ShowPart
  BY DEF PhaseOf, SeenBy, CutOf, Exchanging!ShowPart
<1>8. y = "over" /\ b = NULL /\ UNCHANGED <<asked, shown, spoilt>> => Exchanging!Over
  BY DEF PhaseOf, SeenBy, Exchanging!Over
<1> QED  BY <1>1, <1>2, <1>3, <1>4, <1>5, <1>6, <1>7, <1>8, Zenon

\* A step that leaves the user's view alone.
LEMMA Unseen ==
  ASSUME pc'["client"] = pc["client"] \/ (pc["client"] \in Opening /\ pc'["client"] \in Opening)
           \/ (pc["client"] \in Waiting /\ pc'["client"] \in Waiting),
         UNCHANGED historyVars
  PROVE  UNCHANGED Exchanging!vars
<1>1. PICK x, y, a, b : /\ x = PhaseOf(pc["client"], answered) /\ y = PhaseOf(pc'["client"], answered')
                        /\ a = SeenBy(pc["client"], answered) /\ b = SeenBy(pc'["client"], answered')
  OBVIOUS
<1>2. UNCHANGED <<asked, answered, shown, spoilt>>
  BY DEF historyVars
<1>3. x = y /\ a = b
  BY <1>1, <1>2, Phases
<1> QED  BY <1>1, <1>2, <1>3, Exchanges

\* A step that ends the client.
LEMMA Ending ==
  ASSUME pc'["client"] \in Left, UNCHANGED <<asked, shown, spoilt>>
  PROVE  Exchanging!Over
<1>1. PICK x, y, a, b : /\ x = PhaseOf(pc["client"], answered) /\ y = PhaseOf(pc'["client"], answered')
                        /\ a = SeenBy(pc["client"], answered) /\ b = SeenBy(pc'["client"], answered')
  OBVIOUS
<1>2. y = "over" /\ b = NULL
  BY <1>1, Phases
<1> QED  BY <1>1, <1>2, Exchanges

\* The answer is given to a client that waits for it, or has left.
LEMMA Answering ==
  ASSUME SessionInv, handles("server")
  PROVE  Exchanging!Answer \/ UNCHANGED Exchanging!vars
<1>1. PICK code, data :
        /\ answers("server", code, data)
        /\ data \in Text /\ Len(data) \in Short \ {0}
        /\ code = op["server"] \/ (code = ERROR /\ op["server"] \notin Codes)
  BY Handled
<1>2. pc["server"] = "handle" /\ code \in Short
  BY <1>1, Shorts, EndsAre DEF handles, SessionInv, SessionTypeOK
<1>3. /\ pc'["client"] = pc["client"] /\ UNCHANGED <<asked, shown, spoilt>>
      /\ answered' = Request(code, data)
  BY <1>1, EndsAre DEF answers, Goto, SessionInv, SessionTypeOK
<1>4. answered'.op = code /\ answered' # NULL
  <2>1. answered' \in [op : Short, data : Text] /\ answered'.op = code
    BY <1>1, <1>2, <1>3 DEF Request
  <2> QED  BY <2>1, NullAssumption
<1>5. PICK x, y, a, b : /\ x = PhaseOf(pc["client"], answered) /\ y = PhaseOf(pc'["client"], answered')
                        /\ a = SeenBy(pc["client"], answered) /\ b = SeenBy(pc'["client"], answered')
  OBVIOUS
<1>6. CASE pc["client"] \in Left
  <2>1. x = y /\ a = b
    BY <1>3, <1>5, <1>6, Phases
  <2> QED  BY <1>3, <1>5, <2>1, Exchanges
<1>7. CASE pc["client"] \notin Left
  <2>1. open["client"]
    BY <1>7, RunningIsOpen DEF SessionInv
  <2>2. Pending /\ op["server"] = asked.op
    BY <1>2, <2>1 DEF SessionInv, ServerInv
  <2>3. code = asked.op
    BY <1>1, <2>2, TextsFit DEF Pending
  <2>4. pc["client"] # "prompt"
    BY <1>2, <2>1 DEF SessionInv, InTurn, Settled, Awaiting
  <2>5. pc["client"] \notin Opening
    BY <2>2, GreetingIsNoCommand DEF SessionInv, Recorded, Pending
  <2>6. pc["client"] \in Waiting
    BY <1>7, <2>4, <2>5 DEF SessionInv, Connected
  <2>7. x = "asked" /\ y = "answered" /\ b = answered'
    BY <1>3, <1>4, <1>5, <2>2, <2>6, Phases DEF Pending
  <2> QED  BY <1>3, <1>4, <1>5, <2>3, <2>7, Exchanges
<1> QED  BY <1>6, <1>7

\* What is shown is the answer, or what came of it.
LEMMA Shown ==
  ASSUME SessionInv, shows("client")
  PROVE  Exchanging!Show \/ Exchanging!ShowPart \/ Exchanging!Over
<1>1. pc["client"] = "show" /\ UNCHANGED <<asked, answered>>
  BY DEF shows
<1>2. CASE Goto("client", "failed") /\ UNCHANGED <<shown, spoilt>>
  <2>1. pc'["client"] \in Left
    BY <1>2, EndsAre DEF Goto, Left, SessionInv, SessionTypeOK
  <2> QED  BY <1>1, <1>2, <2>1, Ending
<1>3. CASE /\ OP_RESPONSE(op["client"]) \in {asked.op, ERROR}
           /\ shown' = text["client"]
           /\ spoilt' = (spoilt \/ answered = NULL \/ text["client"] # answered.data)
           /\ Goto("client", "left") \/ Goto("client", "prompt")
  <2>1. /\ ~spoilt /\ answered # NULL
        /\ \/ text["client"] = answered.data
           \/ text["client"] = NULL
           \/ CutOf(text["client"], answered.data)
    BY <1>1, <1>3, Showing
  <2>2. CutOf(NULL, answered.data)
    BY DEF CutOf
  <2>3. pc'["client"] \in Left \/ pc'["client"] = "prompt"
    BY <1>3, EndsAre DEF Goto, Left, SessionInv, SessionTypeOK
  <2>4. PICK x, y, a, b : /\ x = PhaseOf(pc["client"], answered) /\ y = PhaseOf(pc'["client"], answered')
                          /\ a = SeenBy(pc["client"], answered) /\ b = SeenBy(pc'["client"], answered')
    OBVIOUS
  <2>5. x = "answered" /\ a = answered
    <3>1. pc["client"] \in Waiting
      BY <1>1 DEF Waiting
    <3> QED  BY <2>1, <2>4, <3>1, Phases
  <2>6. y \in {"idle", "over"} /\ b = (IF y = "over" THEN NULL ELSE a)
    BY <1>1, <2>3, <2>4, <2>5, Phases
  <2>7. CASE text["client"] = answered.data
    <3>1. spoilt' = spoilt
      <4>1. spoilt \in BOOLEAN
        BY DEF SessionInv, SessionTypeOK
      <4> QED  BY <1>3, <2>1, <2>7, <4>1
    <3> QED  BY <1>1, <1>3, <2>1, <2>4, <2>5, <2>6, <2>7, <3>1, Exchanges
  <2>8. CASE text["client"] # answered.data
    <3>1. spoilt' = TRUE /\ CutOf(shown', a.data)
      BY <1>3, <2>1, <2>2, <2>5, <2>8
    <3> QED  BY <1>1, <2>1, <2>4, <2>5, <2>6, <3>1, Exchanges
  <2> QED  BY <2>7, <2>8
<1> QED  BY <1>2, <1>3 DEF shows

LEMMA ExchangeServer ==
  ASSUME SessionInv, server \/ server_gone
  PROVE  Exchanging!Answer \/ UNCHANGED Exchanging!vars
<1>1. CASE handles("server")
  BY <1>1, Answering
<1>2. ASSUME pc'["client"] = pc["client"], UNCHANGED historyVars
      PROVE  UNCHANGED Exchanging!vars
  BY <1>2, Unseen
<1>3. \A l : Goto("server", l) => pc'["client"] = pc["client"]
  BY EndsAre DEF Goto, SessionInv, SessionTypeOK
<1>4. \A label, next, expired :
        /\ reads_op("server", label, next, expired) => pc'["client"] = pc["client"] /\ UNCHANGED historyVars
        /\ reads_len("server", label, next, expired) => pc'["client"] = pc["client"] /\ UNCHANGED historyVars
        /\ reads_text("server", label, next, expired) => pc'["client"] = pc["client"] /\ UNCHANGED historyVars
  BY <1>3 DEF reads_op, reads_len, reads_text
<1>5. \A label, next :
        /\ writes("server", label, next) => pc'["client"] = pc["client"] /\ UNCHANGED historyVars
        /\ write_fails("server", label, next) => pc'["client"] = pc["client"] /\ UNCHANGED historyVars
  BY <1>3 DEF writes, write_fails
<1>6. greets("server") \/ answer_sent("server") => pc'["client"] = pc["client"] /\ UNCHANGED historyVars
  BY <1>3 DEF greets, answer_sent
<1>7. thread_exit("server") \/ server_gone => pc'["client"] = pc["client"] /\ UNCHANGED historyVars
  BY <1>3 DEF thread_exit, server_gone, closes
<1>8. CASE server /\ ~handles("server")
  <2>1. pc'["client"] = pc["client"] /\ UNCHANGED historyVars
    BY <1>4, <1>5, <1>6, <1>7, <1>8, Zenon DEF server
  <2> QED  BY <1>2, <2>1
<1>9. CASE server_gone
  BY <1>2, <1>7, <1>9
<1> QED  BY <1>1, <1>8, <1>9

LEMMA ExchangeClient ==
  ASSUME SessionInv, client \/ types("client")
  PROVE  Exchanging!Next \/ UNCHANGED Exchanging!vars
<1>1. \A l : Goto("client", l) => pc'["client"] = l
  BY EndsAre DEF Goto, SessionInv, SessionTypeOK
<1>2. PICK x, y, a, b : /\ x = PhaseOf(pc["client"], answered) /\ y = PhaseOf(pc'["client"], answered')
                        /\ a = SeenBy(pc["client"], answered) /\ b = SeenBy(pc'["client"], answered')
  OBVIOUS
<1>3. CASE types("client")
  <2>1. /\ pc["client"] = "prompt" /\ pc'["client"] = "request"
        /\ asked' \in Commands /\ answered' = NULL /\ UNCHANGED <<shown, spoilt>>
    BY <1>1, <1>3 DEF types
  <2>2. x = "idle" /\ y = "asked" /\ b = NULL
    BY <1>2, <2>1, Phases DEF Waiting
  <2> QED  BY <1>2, <2>1, <2>2, Exchanges DEF Exchanging!Next
<1>4. CASE granted("client")
  <2>1. pc["client"] = "granted" /\ UNCHANGED <<asked, answered, shown, spoilt>>
    BY <1>4 DEF granted, historyVars
  <2>2. pc'["client"] = "prompt" \/ pc'["client"] = "refused"
    BY <1>1, <1>4 DEF granted
  <2>3. CASE pc'["client"] = "prompt"
    <3>1. x = "opening" /\ y = "idle" /\ a = b
      BY <1>2, <2>1, <2>3, Phases DEF Opening
    <3> QED  BY <1>2, <2>1, <3>1, Exchanges DEF Exchanging!Next
  <2>4. CASE pc'["client"] = "refused"
    BY <2>1, <2>4, Ending DEF Left, Exchanging!Next
  <2> QED  BY <2>2, <2>3, <2>4
<1>5. CASE shows("client")
  BY <1>5, Shown DEF Exchanging!Next
<1>6. CASE leaves("client")
  <2>1. pc'["client"] = pc["client"] /\ UNCHANGED historyVars
    BY <1>6 DEF leaves, closes
  <2> QED  BY <2>1, Unseen
<1>7. ASSUME NEW label, NEW next, NEW expired,
             \/ reads_op("client", label, next, expired)
             \/ reads_len("client", label, next, expired)
             \/ reads_text("client", label, next, expired)
      PROVE  /\ pc["client"] = label /\ UNCHANGED historyVars
             /\ pc'["client"] = next \/ pc'["client"] = expired
  <2>1. pc["client"] = label /\ UNCHANGED historyVars /\ (Goto("client", next) \/ Goto("client", expired))
    BY <1>7 DEF reads_op, reads_len, reads_text
  <2> QED  BY <1>1, <2>1
<1>8. ASSUME NEW label, NEW next, writes("client", label, next)
      PROVE  /\ pc["client"] = label /\ UNCHANGED historyVars
             /\ pc'["client"] = next \/ pc'["client"] = label
  <2>1. pc["client"] = label /\ UNCHANGED historyVars /\ (Goto("client", next) \/ Goto("client", label))
    BY <1>8 DEF writes
  <2> QED  BY <1>1, <2>1
<1>9. ASSUME NEW label, write_fails("client", label, "failed")
      PROVE  Exchanging!Over
  <2>1. UNCHANGED historyVars /\ (Goto("client", "failed") \/ Goto("client", "killed"))
    BY <1>9 DEF write_fails
  <2>2. pc'["client"] = "failed" \/ pc'["client"] = "killed"
    BY <1>1, <2>1
  <2> QED  BY <2>1, <2>2, Ending DEF Left, historyVars
<1>10. CASE \/ writes("client", "hello", "hello_op")
            \/ reads_op("client", "hello_op", "hello_len", "hello_len")
            \/ reads_len("client", "hello_len", "hello_text", "hello_text")
            \/ reads_text("client", "hello_text", "granted", "granted")
  <2>1. pc["client"] \in Opening /\ pc'["client"] \in Opening /\ UNCHANGED historyVars
    <3>1. CASE writes("client", "hello", "hello_op")
      BY <1>8, <3>1 DEF Opening
    <3>2. CASE reads_op("client", "hello_op", "hello_len", "hello_len")
      BY <1>7, <3>2 DEF Opening
    <3>3. CASE reads_len("client", "hello_len", "hello_text", "hello_text")
      BY <1>7, <3>3 DEF Opening
    <3>4. CASE reads_text("client", "hello_text", "granted", "granted")
      BY <1>7, <3>4 DEF Opening
    <3> QED  BY <1>10, <3>1, <3>2, <3>3, <3>4
  <2> QED  BY <2>1, Unseen
<1>11. CASE \/ writes("client", "request", "op")
            \/ reads_op("client", "op", "len", "gave_up")
            \/ reads_len("client", "len", "text", "gave_up")
            \/ reads_text("client", "text", "show", "gave_up")
  <2>1. /\ pc["client"] \in Waiting /\ UNCHANGED historyVars
        /\ pc'["client"] \in Waiting \/ pc'["client"] = "gave_up"
    <3>1. CASE writes("client", "request", "op")
      BY <1>8, <3>1 DEF Waiting
    <3>2. CASE reads_op("client", "op", "len", "gave_up")
      BY <1>7, <3>2 DEF Waiting
    <3>3. CASE reads_len("client", "len", "text", "gave_up")
      BY <1>7, <3>3 DEF Waiting
    <3>4. CASE reads_text("client", "text", "show", "gave_up")
      BY <1>7, <3>4 DEF Waiting
    <3> QED  BY <1>11, <3>1, <3>2, <3>3, <3>4
  <2>2. CASE pc'["client"] \in Waiting
    BY <2>1, <2>2, Unseen
  <2>3. CASE pc'["client"] = "gave_up"
    BY <2>1, <2>3, Ending DEF Left, historyVars, Exchanging!Next
  <2> QED  BY <2>1, <2>2, <2>3
<1>12. CASE write_fails("client", "hello", "failed") \/ write_fails("client", "request", "failed")
  BY <1>9, <1>12 DEF Exchanging!Next
<1>13. CASE client
  BY <1>4, <1>5, <1>6, <1>10, <1>11, <1>12, <1>13, Zenon DEF client
<1> QED  BY <1>3, <1>13

LEMMA ExchangeStep ==
  ASSUME SessionInv, [Next]_vars
  PROVE  [Exchanging!Next]_(Exchanging!vars)
<1>1. CASE UNCHANGED vars
  BY <1>1, Unseen DEF vars
<1>2. CASE server \/ server_gone
  BY <1>2, ExchangeServer DEF Exchanging!Next
<1>3. CASE client \/ types("client")
  BY <1>3, ExchangeClient
<1>4. ASSUME NEW e \in Ends, dies(e)
      PROVE  [Exchanging!Next]_(Exchanging!vars)
  <2>1. UNCHANGED historyVars /\ Goto(e, "died")
    BY <1>4 DEF dies
  <2>2. pc'["client"] = pc["client"] \/ pc'["client"] = "died"
    BY <2>1, EndsAre DEF Goto, SessionInv, SessionTypeOK
  <2>3. CASE pc'["client"] = pc["client"]
    BY <2>1, <2>3, Unseen
  <2>4. CASE pc'["client"] = "died"
    BY <2>1, <2>4, Ending DEF Left, historyVars, Exchanging!Next
  <2> QED  BY <2>2, <2>3, <2>4
<1>5. ASSUME NEW e \in Ends, reset(e)
      PROVE  [Exchanging!Next]_(Exchanging!vars)
  <2>1. pc'["client"] = pc["client"] /\ UNCHANGED historyVars
    BY <1>5 DEF reset
  <2> QED  BY <2>1, Unseen
<1> QED  BY <1>1, <1>2, <1>3, <1>4, <1>5 DEF Next

\* The client shows the answer to the command it sent, never another one; an
\* answer that came in part is the last text it shows (src/client.c).
THEOREM SessionIsExchange == Spec => ExchangeSpec
<1>1. Init => Exchanging!Init
  <2>1. SUFFICES ASSUME Init
                 PROVE  Exchanging!Init
    OBVIOUS
  <2>2. PICK x, y, a, b : /\ x = PhaseOf(pc["client"], answered) /\ y = PhaseOf(pc'["client"], answered')
                          /\ a = SeenBy(pc["client"], answered) /\ b = SeenBy(pc'["client"], answered')
    OBVIOUS
  <2>3. pc["client"] = "hello" /\ answered = NULL /\ shown = NULL /\ spoilt = FALSE
    BY <2>1 DEF Init
  <2>4. x = "opening" /\ a = NULL
    BY <2>2, <2>3, Phases DEF Opening
  <2> QED  BY <2>2, <2>3, <2>4, Exchanges
<1>2. SessionInv /\ [Next]_vars => [Exchanging!Next]_(Exchanging!vars)
  BY ExchangeStep
<1> QED  BY <1>1, <1>2, SessionInvariant, PTL DEF Spec, ExchangeSpec, Exchanging!Spec
=============================================================================
