------------------------------ MODULE CommandLine ------------------------------
(***************************************************************************)
(* From the line the user types to the parameters the database is called   *)
(* with: prompt_read_command (prompt.c), cmdtous (common.c), the body of   *)
(* the request (Session has its transport), requesttoparams (spr.c).       *)
(*                                                                         *)
(* A text is a sequence of characters.  A command word is its place in the *)
(* alphabet: the commands are the even places, other words are odd.        *)
(***************************************************************************)
EXTENDS Wire, SequencesExt

CONSTANTS
  Lines,     \* what may be typed: [word, tail, eof]
  Junk,      \* what may follow a body in memory, before a zero
  NULL, Uninitialised, Freed

bloquea     == 2
borra       == 4
buscar      == 6
cambiaclave == 8
commit      == 10
conecta     == 12
crea        == 14
desbloquea  == 16
listado     == 18
rollback    == 20
salir       == 22

Words == 1..23
Chars == {"a", "b", " ", "\t"}

MAX_TOKEN_PARAMS == 5

\* White space, for scanf and for requesttoparams.
Separator(c) == c \in {" ", "\n", "\t"}

ASSUME LinesAssumption == \A l \in Lines :
  /\ l.word \in Words /\ l.tail \in Seq(Chars) /\ l.eof \in BOOLEAN
  /\ l.tail # <<>> => Separator(Head(l.tail))
ASSUME JunkAssumption  == Junk \subseteq Seq(Chars)
\* What a slot of params may hold is told from a text.
ASSUME SlotAssumption  == {NULL, Uninitialised, Freed} \cap Seq(Chars) = {}

VARIABLES
  pc,
  line,     \* history: the line typed
  op,       \* the code of its command
  body,     \* the body of the request, a C string, or NULL
  params    \* the array of procesar, from 0

NoLine == [word |-> 1, tail |-> <<>>, eof |-> FALSE]

vars == <<pc, line, op, body, params>>

-----------------------------------------------------------------------------
(* The client.                                                             *)

\* The spaces after the command are skipped, not other white space.
Skipped(tail) ==
  LET spaces == {k \in 0..Len(tail) : \A i \in 1..k : tail[i] = " "}
  IN  SubSeq(tail, (CHOOSE k \in spaces : \A j \in spaces : j <= k) + 1, Len(tail))

\* A bug: the result of fgets is not looked at.
prompt_unchecked(l) ==
  LET rest == Skipped(l.tail)
  IN  IF Len(rest) = 0 THEN NULL ELSE IF l.eof THEN Front(rest) ELSE rest

\* prompt_read_command removes the last character that fgets read, which at
\* the end of the input is no newline.
prompt_read_command(l) ==
  LET rest == Skipped(l.tail)
  IN  IF Len(rest) = 0 \/ (l.eof /\ Len(rest) = 1) THEN NULL
      ELSE IF l.eof THEN Front(rest) ELSE rest

OpOf == [w \in {bloquea, borra, buscar, cambiaclave, commit, conecta,
                crea, desbloquea, listado, rollback, salir} |->
  CASE w = bloquea -> OP_BLOQUEAR [] w = borra  -> OP_BORRAR [] w = buscar  -> OP_BUSCAR
    [] w = commit  -> OP_COMMIT   [] w = conecta -> OP_CONECTAR [] w = cambiaclave -> OP_CAMBIARCLAVE
    [] w = crea    -> OP_CREAR    [] w = listado -> OP_LISTAR   [] w = desbloquea  -> OP_DESBLOQUEAR
    [] w = rollback -> OP_ROLLBACK [] w = salir  -> OP_SALIR]

\* The comparisons of cmdtous: down from conecta, or up from it.
Before == <<commit, cambiaclave, buscar, borra, bloquea>>

\* A bug: two comparisons are swapped.
After_swapped == <<crea, desbloquea, rollback, listado, salir>>

After == <<crea, desbloquea, listado, rollback, salir>>

cmdtous(w) ==
  LET down(k) == \A j \in 1..(k - 1) : w < Before[j]
      up(k)   == \A j \in 1..(k - 1) : w > After[j]
  IN  IF \/ w = conecta
         \/ w < conecta /\ \E k \in DOMAIN Before : down(k) /\ w = Before[k]
         \/ w > conecta /\ \E k \in DOMAIN After : up(k) /\ w = After[k]
      THEN OpOf[w] ELSE OP_UNKNOW

\* Without another word to read the command is NULL, which cmdtous compares.
Prompt(l) == IF l.eof THEN "crashed" ELSE "prompt"

types ==
  /\ pc = "prompt"
  /\ \E l \in Lines :
       /\ line' = l
       /\ op' = cmdtous(l.word)
       /\ IF cmdtous(l.word) = OP_UNKNOW
          THEN pc' = Prompt(l) /\ UNCHANGED body
          ELSE /\ pc' = "received"
               /\ LET text == prompt_read_command(l)
                  IN  IF text = NULL THEN body' = NULL
                      \* socket_readnchar allocates the bytes of the text and no zero.
                      ELSE \E j \in Junk : body' = text \o j
  /\ UNCHANGED params

-----------------------------------------------------------------------------
(* The server.                                                             *)

\* The parameters each operation asks requesttoparams for.
NParams == [o \in {OP_CONECTAR, OP_CREAR, OP_CAMBIARCLAVE, OP_BORRAR, OP_BUSCAR} |->
  CASE o \in {OP_CONECTAR, OP_BUSCAR} -> 2 [] o = OP_CREAR -> 5
    [] o = OP_CAMBIARCLAVE -> 3        [] o = OP_BORRAR -> 1]

\* A bug: nparams is not decremented.
Split_more(str, n) ==
  LET loop[i \in 0..Len(str)] ==
        IF i = 0 THEN [starts |-> <<1>>, cuts |-> {}]
        ELSE IF Len(loop[i - 1].starts) <= n /\ Separator(str[i])
        THEN [cuts   |-> loop[i - 1].cuts \cup {i},
              starts |-> loop[i - 1].starts \o (IF i < Len(str) THEN <<i + 1>> ELSE <<>>)]
        ELSE loop[i - 1]
  IN  loop[Len(str)]

\* The loop of requesttoparams: where the parameters start, and which
\* separators became zeros.
Split(str, n) ==
  LET loop[i \in 0..Len(str)] ==
        IF i = 0 THEN [starts |-> <<1>>, cuts |-> {}]
        ELSE IF Len(loop[i - 1].starts) < n /\ Separator(str[i])
        THEN [cuts   |-> loop[i - 1].cuts \cup {i},
              starts |-> loop[i - 1].starts \o (IF i < Len(str) THEN <<i + 1>> ELSE <<>>)]
        ELSE loop[i - 1]
  IN  loop[Len(str)]

\* The C string that starts at i.
StringAt(str, cuts, i) ==
  LET ends == {e \in cuts \cup {Len(str) + 1} : e >= i}
  IN  SubSeq(str, i, (CHOOSE e \in ends : \A f \in ends : e <= f) - 1)

\* A parameter without a word keeps what the slot held.
requesttoparams(str, n) ==
  params' = [k \in DOMAIN params |->
    IF k >= n THEN NULL
    ELSE IF str # NULL /\ k < Len(Split(str, n).starts)
    THEN StringAt(str, Split(str, n).cuts, Split(str, n).starts[k + 1])
    ELSE params[k]]

splits ==
  /\ pc = "received" /\ op \in DOMAIN NParams
  /\ requesttoparams(body, NParams[op])
  /\ pc' = "serve"
  /\ UNCHANGED <<line, op, body>>

\* Operations without parameters, or refused before they are looked at.
passes ==
  /\ pc = "received" /\ pc' = "serve_plain"
  /\ UNCHANGED <<line, op, body, params>>

\* free(request): the parameters point into it, and are not cleared.
answers ==
  /\ pc \in {"serve", "serve_plain"} /\ pc' = Prompt(line)
  /\ params' = [k \in DOMAIN params |-> IF params[k] \in {NULL, Uninitialised} THEN params[k] ELSE Freed]
  /\ body' = NULL /\ line' = NoLine /\ op' = OP_UNKNOW

-----------------------------------------------------------------------------
Init ==
  /\ pc = "prompt" /\ line = NoLine
  /\ op = OP_UNKNOW /\ body = NULL
  /\ params = [k \in 0..(MAX_TOKEN_PARAMS - 1) |-> Uninitialised]

Next == types \/ splits \/ passes \/ answers

Spec == Init /\ [][Next]_vars

-----------------------------------------------------------------------------
(* Properties.                                                             *)

IsText(p) == p \in Seq(Chars)

\* Type invariant.
CommandTypeOK ==
  /\ pc \in {"prompt", "received", "serve", "serve_plain", "crashed"}
  /\ line \in Lines \cup {NoLine}
  /\ op \in {OpOf[w] : w \in DOMAIN OpOf} \cup {OP_UNKNOW}
  /\ body = NULL \/ body \in Seq(Chars) \ {<<>>}
  /\ params \in [0..(MAX_TOKEN_PARAMS - 1) -> Seq(Chars) \cup {NULL, Uninitialised, Freed}]

Plain(str)  == [i \in DOMAIN str |-> IF Separator(str[i]) THEN " " ELSE str[i]]
IsWord(str) == \A i \in DOMAIN str : ~Separator(str[i])
Texts       == {k \in DOMAIN params : IsText(params[k])}

\* The texts of the parameters in order, with a space before each.
Arrived ==
  LET joined[k \in 0..MAX_TOKEN_PARAMS] ==
        IF k = 0 THEN <<>>
        ELSE IF k - 1 \in Texts THEN joined[k - 1] \o <<" ">> \o params[k - 1]
        ELSE joined[k - 1]
  IN  joined[MAX_TOKEN_PARAMS]

\* The parameters an operation is called with are the body cut at its first
\* separators: nothing is lost but one at its end, and only the last of as
\* many as were asked for keeps separators.
SplitIsExact ==
  pc = "serve" /\ body # NULL =>
    /\ \E n \in 1..NParams[op] : Texts = 0..(n - 1)
    /\ Plain(<<" ">> \o body) \in {Plain(Arrived), Plain(Arrived) \o <<" ">>}
    /\ \A k \in Texts : k + 1 < NParams[op] => IsWord(params[k])

\* A line of words with one space before each of them.
Regular(tail) ==
  /\ tail # <<>> => Head(tail) = " " /\ Last(tail) # " "
  /\ \A i \in DOMAIN tail : tail[i] # "\t"
  /\ \A i \in 2..Len(tail) : tail[i] = " " => tail[i - 1] # " "

\* The user's command and words reach the database: every command is found,
\* and its words are the parameters, in order, the last one being the rest.
\* It goes on with what follows the body in memory, unless that is a zero.
TypedWordsArrive ==
  /\ op = IF line.word \in DOMAIN OpOf THEN OpOf[line.word] ELSE OP_UNKNOW
  /\ pc = "serve" /\ Regular(line.tail) /\ line.tail # <<>> /\ ~line.eof =>
       /\ IsPrefix(line.tail, Arrived)
       /\ body = Tail(line.tail) => Arrived = line.tail
=============================================================================
