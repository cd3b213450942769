---------------------------- MODULE MCUserTableHeap ----------------------------
(***************************************************************************)
(* An instance of UserTableHeap for TLC: the table file has three lines.   *)
(***************************************************************************)
EXTENDS UserTableHeap

Ana == [login |-> <<"ana">>, email |-> <<"a@x">>, pass |-> <<"p">>, type |-> <<"usuario">>]

Plain == {Ana}

\* The password all have: what a row holds does not move the pointers.
OldPasswords == {<<"p">>}

Line(uid, login) == [uid |-> uid, pieces |-> <<login, login, "p", "usuario">>]
ThreeLines == <<Line(1001, "adm"), Line(1002, "eva"), Line(1003, "ana")>>
=============================================================================
