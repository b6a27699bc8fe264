---------------------------- MODULE MCDeviceMap ----------------------------
(***************************************************************************)
(* Instances of DeviceMap.  TwoAndOne: each connection names one device   *)
(* in all its packets, as every Xibridge_client does; c1 and c2 meet on    *)
(* one, and c3 changes the list and the lock beside them.  Its device is   *)
(* also the DevId(0) that an unknown connection's end goes to.             *)
(* AnyDevice: clients that name another device from packet to packet.      *)
(***************************************************************************)
EXTENDS DeviceMap, TLC

CONSTANTS c1, c2, c3, d0, d1, h1, h2

TwoAndOne == c1 :> {d1} @@ c2 :> {d1} @@ c3 :> {d0}
\* c1 and c2 behave alike, and so do the handles.
Symmetry == Permutations({c1, c2}) \cup Permutations({h1, h2})

AnyDevice == [c \in Conns |-> DevIds]
=============================================================================
