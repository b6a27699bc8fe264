--------------------------- MODULE MCWireExchange ---------------------------
(***************************************************************************)
(* An instance of WireExchange.  The lists of ports have none, ports that  *)
(* are no device in one mode or another, devices that differ in VID and    *)
(* PID only or share an address, and one of these at another place.  The   *)
(* URIs are a short one that is a serial of the simulator and a full one.  *)
(* Lengths are around the limits: no data, an identifier alone, and 255    *)
(* bytes (63 words, and 64 with the identifier of protocol 2) crossed by   *)
(* one word.                                                               *)
(***************************************************************************)
EXTENDS WireExchange

MCServers == 0 .. 3

Port(known, hub, device, serial, address, vid, pid) ==
    [known |-> known, location |-> [hub |-> hub, device |-> device], serial |-> serial,
     address |-> address, vid |-> vid, pid |-> pid]
All == {"location", "serial", "vid"}
MCPortLists ==
    {<<>>,
     <<Port({}, 0, 0, <<>>, 0, 0, 0), Port(All, 0, 3, <<1, 2>>, 3, 1155, 22288)>>,
     <<Port(All, 2, 1, <<9, 0, 1, 10, 15>>, 7, 1, 2), Port(All, 0, 5, <<0, 1, 10, 15>>, 8, 2, 1),
       Port(All, 3, 4, <<7, NoDigit, 1, 1>>, 9, 4660, 32767),
       Port({"serial"}, 0, 0, <<0, 1, 10, 15>>, 7, 0, 0),
       Port(All, 1, 5, <<NoDigit, 0, 0, 0>>, 7, 1, 2)>>,
     <<Port(All, 0, 5, <<9, 0, 1, 10, 15>>, 3, 1, 2)>>}

MCUris == {<<7>>, HexDigits(65545, 8) \o HexDigits(1155, 4) \o HexDigits(22288, 4) \o HexDigits(12, 8)}

Words(n) == [i \in 1 .. n |-> 100 + i]
MCCallData == {Words(n) : n \in {0, 1, 2, 63, 64, 65}}
MCCallResp == {0, 4, 8, 252, 256, 260}
=============================================================================
