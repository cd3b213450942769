------------------------------- MODULE MCSession -------------------------------
(***************************************************************************)
(* Instances of SessionContract for TLC: texts of a few bytes, and a       *)
(* buffer that some of them do not fit.                                    *)
(***************************************************************************)
EXTENDS SessionContract

\* A command without a body, with a body, and the last one.
TypedCommands == {Request(OP_LISTAR, <<>>), Request(OP_CONECTAR, <<97, 32>>), Request(OP_SALIR, <<>>)}

\* Short answers, a listing that is read and one that is too long.
ManyResults ==
  {Request(OP_CONECTAR, <<49>>), Request(OP_SALIR, <<50>>),
   Request(OP_LISTAR, <<117, 105, 10>>), Request(OP_LISTAR, <<117, 105, 10, 10, 10>>)}

Version   == <<86>>
NoSession == <<78>>
Invalid   == <<73>>
=============================================================================
