-------------------------- MODULE MCLibraryClients --------------------------
(* Library clients: two connections that use one device.                   *)
EXTENDS LibraryClients, TLC

CONSTANTS c1, c2, d0, d1, h1, h2

TwoOnOne == c1 :> {d1} @@ c2 :> {d1}
=============================================================================
