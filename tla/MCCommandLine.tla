----------------------------- MODULE MCCommandLine -----------------------------
(***************************************************************************)
(* Instances of CommandLine for TLC: every command, alone or followed by   *)
(* any few characters, one line after another.                             *)
(***************************************************************************)
EXTENDS CommandLine

Tails(n) == {<<>>} \cup {t \in BoundedSeq(Chars, n) : t # <<>> /\ Separator(Head(t))}

Typed(words, tails) == [word : words, tail : tails, eof : BOOLEAN]

LongLines  == Typed({borra, conecta, cambiaclave, crea}, Tails(5)) \cup Typed(Words, {<<>>})

SomeJunk == {<<>>, <<"b">>, <<" ", "b">>}
=============================================================================
