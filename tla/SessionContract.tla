---------------------------- MODULE SessionContract ----------------------------
(***************************************************************************)
(* Session implements Exchange, as the user of the client sees it.         *)
(***************************************************************************)
EXTENDS Session

Exchanging == INSTANCE Exchange WITH
  Questions <- Commands,
  None      <- NULL,
  phase     <- CASE pc["client"] \in Left -> "over"
                 [] pc["client"] = "prompt" -> "idle"
                 [] pc["client"] \in {"request", "op", "len", "text", "show"} ->
                      IF answered = NULL THEN "asked" ELSE "answered"
                 [] OTHER -> "opening",
  question  <- asked,
  answer    <- IF pc["client"] \in Left THEN NULL ELSE answered

\* The client shows the answer to the command it sent, never to another one;
\* an answer that comes in part is the last text it shows.
ExchangeSpec == Exchanging!Spec
=============================================================================
