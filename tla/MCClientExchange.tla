-------------------------- MODULE MCClientExchange --------------------------
(***************************************************************************)
(* Instances of ClientExchange: the servers the library's documentation    *)
(* names (ximc speaks protocol 1, urpc 2, the server of this repository    *)
(* 2 and 3, and it says so), and one that speaks a later protocol only.    *)
(***************************************************************************)
EXTENDS ClientExchange

CONSTANT a

ximc == [speaks |-> {1}, names |-> {}]
urpc == [speaks |-> {2}, names |-> {}]
xibridge == [speaks |-> {2, 3}, names |-> {3}]
later == [speaks |-> {4}, names |-> {4}]

AllServers == {ximc, urpc, xibridge, later}
AnyBase == Versions
=============================================================================
