--------------------------------- MODULE MCSlr ---------------------------------
(***************************************************************************)
(* An instance of Slr for TLC: a server and a client on one host, where    *)
(* each can receive the other's datagrams.                                 *)
(***************************************************************************)
EXTENDS Slr

CONSTANTS s1, c1

OneServer == {s1}
OneClient == {c1}

OneHost    == [p \in Servers \cup Clients |-> "shared"]
TheirPorts == [s \in Servers |-> <<s, 7000>>]
OneName    == [p \in Servers \cup Clients |-> "users"]
=============================================================================
