------------------------------- MODULE Exchange -------------------------------
(***************************************************************************)
(* What a session promises its user, without bytes: a question, its answer *)
(* shown, the next question.  One answer may be shown in part (too long    *)
(* for the client's buffer, or cut by the end of the server); nothing is   *)
(* shown after it.                                                         *)
(***************************************************************************)
EXTENDS Integers, Sequences

CONSTANTS Questions, None

VARIABLES
  phase,     \* "opening", "idle", "asked", "answered", "over"
  question,
  answer,    \* the server's answer to question, or None
  shown,     \* the last text shown to the user
  spoilt     \* an answer was shown in part

vars == <<phase, question, answer, shown, spoilt>>

Init == phase = "opening" /\ answer = None /\ shown = None /\ spoilt = FALSE

Open == phase = "opening" /\ phase' = "idle" /\ UNCHANGED <<question, answer, shown, spoilt>>

Ask == /\ phase = "idle" /\ phase' = "asked"
       /\ question' \in Questions /\ answer' = None
       /\ UNCHANGED <<shown, spoilt>>

Answer == /\ phase = "asked" /\ phase' = "answered"
          /\ answer' # None /\ answer'.op = question.op
          /\ UNCHANGED <<question, shown, spoilt>>

\* The answer, and no other, is shown; with salir the session is over.
Show == /\ phase = "answered" /\ ~spoilt
        /\ phase' \in {"idle", "over"}
        /\ shown' = answer.data
        /\ answer' = IF phase' = "over" THEN None ELSE answer
        /\ UNCHANGED <<question, spoilt>>

ShowPart == /\ phase = "answered" /\ ~spoilt
            /\ phase' \in {"idle", "over"}
            /\ \/ shown' = None
               \/ \E n \in 1..Len(answer.data) : shown' = [i \in 1..n |-> 0]
               \/ \E k \in 1..(Len(answer.data) - 1) :
                    shown' = [i \in DOMAIN answer.data |-> IF i <= k THEN answer.data[i] ELSE 0]
            /\ spoilt' = TRUE
            /\ answer' = IF phase' = "over" THEN None ELSE answer
            /\ UNCHANGED question

Over == /\ phase' = "over" /\ answer' = None
        /\ UNCHANGED <<question, shown, spoilt>>

Next == Open \/ Ask \/ Answer \/ Show \/ ShowPart \/ Over

Spec == Init /\ [][Next]_vars
=============================================================================
