------------------------------- MODULE DevIds -------------------------------
(***************************************************************************)
(* Device identifiers: DevId of src/common/protocols.h, its three words in *)
(* a packet (HexIDev3 of src/common/utils.cpp), and the URI that names a   *)
(* device, made by xi_net_dev_uris and taken apart by                      *)
(* xibridge_parse_uri_dev12 of src/common/xibridge_uri_parse.h.            *)
(*                                                                         *)
(* A 32-bit word is an integer (the upper half of the range as negative    *)
(* numbers, none of which is an identifier here).  A URI is its host with  *)
(* the hexadecimal digits after the last slash; the schema is always       *)
(* "xi-net", the host short enough, and every digit is one.                *)
(***************************************************************************)
EXTENDS Integers, SequencesExt

Words32 == {n \in Nat : n <= 2147483647}
Words16 == {n \in Nat : n < 65536}
DevIdSet == [id : Words32, pid : Words16, vid : Words16, reserve : Words32]

DevId(id, pid, vid, reserve) == [id |-> id, pid |-> pid, vid |-> vid, reserve |-> reserve]
Serial(id) == DevId(id, 0, 0, 0)    \* DevId(id), the other arguments by default

\* operator <, the order of the keys of every std::map of devices.
Precedes(a, b) == a.vid < b.vid \/ a.pid < b.pid \/ a.id < b.id

\* HexIDev3 << and >>, in network order: reserve, VID with PID, id.
IdWords(d) == <<d.reserve, d.vid * 65536 + d.pid, d.id>>
IdOf(w) == DevId(w[3], w[2] % 65536, w[2] \div 65536, w[1])

\* A word written with the little-endian flag and read without it, or the reverse.
Swapped(w) == (w % 256) * 16777216 + (w \div 256 % 256) * 65536
              + (w \div 65536 % 256) * 256 + w \div 16777216

-----------------------------------------------------------------------------

\* %0nX of a number, and %nx of its digits.
HexDigits(x, n) == [i \in 1 .. n |-> x \div 16^(n - i) % 16]
HexValue(digits) == FoldLeft(LAMBDA x, d : 16 * x + d, 0, digits)

\* "%08X%04X%04X%08X" after the schema and the host.
UriSwapped(host, d) ==                \* mutant: PID and VID swapped
    [host |-> host, digits |-> HexDigits(d.reserve, 8) \o HexDigits(d.pid, 4)
                               \o HexDigits(d.vid, 4) \o HexDigits(d.id, 8)]
UriOf(host, d) ==
    [host |-> host, digits |-> HexDigits(d.reserve, 8) \o HexDigits(d.vid, 4)
                               \o HexDigits(d.pid, 4) \o HexDigits(d.id, 8)]

\* Fewer digits than 24 are the last ones: zeroes are put before them.
Padded(digits) == [i \in 1 .. 24 - Len(digits) |-> 0] \o digits

\* 24 digits at most; reserve keeps its lower 16 bits only.
IsUri(u) == Len(u.digits) <= 24
DevIdOfUri(u) ==
    LET s == Padded(u.digits)
    IN  DevId(HexValue(SubSeq(s, 17, 24)), HexValue(SubSeq(s, 13, 16)),
              HexValue(SubSeq(s, 9, 12)), HexValue(SubSeq(s, 1, 8)) % 65536)
=============================================================================
