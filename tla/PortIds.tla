------------------------------ MODULE PortIds ------------------------------
(***************************************************************************)
(* The identifiers of the devices on the serial ports: the configurators   *)
(* of src/server/devid2usb.cpp, one for each mode of the server, and       *)
(* get_id_from_usb_location of src/server/platform-linux.cpp.              *)
(*                                                                         *)
(* A port is what libserialport and the system tell of it (known names the *)
(* parts that they do tell):                                               *)
(*   location   hub and device number in the path of the USB device        *)
(*   serial     the characters of the USB serial, a hexadecimal digit as   *)
(*              its value and any other character as NoDigit               *)
(*   address    the address on the USB bus                                 *)
(*   vid, pid   of the USB device                                          *)
(* The list of ports is a sequence, as sp_list_ports gives it.             *)
(***************************************************************************)
EXTENDS DevIds

NoDigit == 16

\* What a port may be: numbers are of 16 bits at most.
Ports == [known : SUBSET {"location", "serial", "vid"},
          location : [hub : Words16, device : Words16], serial : Seq(0 .. NoDigit),
          address : Words16, vid : Words16, pid : Words16]

\* No hub is written as 0; numbers above 9 are moved by 6.
LocationId(l) ==
    LET id == (IF l.hub > 0 THEN l.hub - 1 ELSE 0) * 4 + l.device
    IN  IF id > 9 THEN id + 6 ELSE id

Identified(id) == [ok |-> TRUE, dev |-> id]
Unidentified == [ok |-> FALSE, dev |-> Serial(0)]

\* "%4x" of the last four characters: the hexadecimal digits they begin with.
LastFour(s) == SubSeq(s, Len(s) - 3, Len(s))
LeadingDigits(s) ==
    SubSeq(s, 1, CHOOSE n \in 0 .. Len(s) :
                    /\ \A i \in 1 .. n : s[i] < NoDigit
                    /\ n < Len(s) => s[n + 1] = NoDigit)

GetBvvu(port) ==
    IF "location" \in port.known THEN Identified(Serial(LocationId(port.location))) ELSE Unidentified
GetByAddr(port) ==
    IF "serial" \in port.known THEN Identified(Serial(port.address)) ELSE Unidentified
GetBySerial(port) ==
    IF "serial" \notin port.known \/ Len(port.serial) < 4 THEN Unidentified
    ELSE IF LeadingDigits(LastFour(port.serial)) = <<>> THEN Unidentified
    ELSE Identified(Serial(HexValue(LeadingDigits(LastFour(port.serial)))))
GetBySerialPidVid(port) ==
    LET s == GetBySerial(port)
    IN  IF "vid" \notin port.known \/ ~s.ok THEN Unidentified
        ELSE Identified(DevId(s.dev.id, port.pid, port.vid, 0))

Modes == {"bvvu", "by_com_addr", "by_serial", "by_serialpidvid"}
GetDevId(mode, port) ==
    CASE mode = "bvvu" -> GetBvvu(port) [] mode = "by_com_addr" -> GetByAddr(port)
      [] mode = "by_serial" -> GetBySerial(port) [] OTHER -> GetBySerialPidVid(port)

\* list_to_dev_id_vector.
DevIdVector(mode, ports) ==
    FoldLeft(LAMBDA devids, p : IF GetDevId(mode, p).ok THEN Append(devids, GetDevId(mode, p).dev)
                                ELSE devids,
             <<>>, ports)

\* is_devid_matchs_sp_port, and port_name_by_devid: the last port that matches (0 is none).
Matches(mode, port, dev) == GetDevId(mode, port) = Identified(dev)
PortOf(mode, ports, dev) == SelectLastInSeq(ports, LAMBDA p : Matches(mode, p, dev))
=============================================================================
