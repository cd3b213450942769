----------------------------- MODULE MCUserTable -----------------------------
(***************************************************************************)
(* Instances of UserTable for TLC.                                         *)
(***************************************************************************)
EXTENDS UserTableContract

Named(login, email) == [login |-> login, email |-> email,
                        pass |-> <<"p">>, type |-> <<"usuario">>]

\* Words without a separator, a text with '|' in it, and an empty text.
Ana   == Named(<<"ana">>, <<"a@x">>)
Piped == Named(<<"b", "c">>, <<"b@x">>)
Blank == Named(<<"">>, <<"d@x">>)

PlainEntries == {Ana}
RawEntries   == {Piped, Blank}
NewPasswords == {<<"q">>}

\* The password users have: a row replaced then differs by its place only.
OldPasswords == {<<"p">>}

Lines(n) == [i \in 1..n |-> LineOf(WithUid(IF i = 1 THEN admin ELSE Ana, 1000 + i))]
NoFile   == Missing
TwoLines == Lines(2)
ThreeLines == Lines(3)
=============================================================================
