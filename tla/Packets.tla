------------------------------ MODULE Packets ------------------------------
(***************************************************************************)
(* The packets of the protocols 1, 2 and 3: Protocol1, Protocol2 and       *)
(* Protocol3 of src/common/protocols.{h,cpp} over MBuf of                  *)
(* src/common/utils.{h,cpp}, both sides.                                   *)
(*                                                                         *)
(* A packet is a sequence of 32-bit words; lengths written into a packet   *)
(* are in bytes, as in the code, and those of data are multiples of four.  *)
(* Every buffer a packet is made in is allocated large enough for what is  *)
(* written, so making a packet is concatenation.  Reading is not: a read   *)
(* past the end reads nothing, moves nothing and leaves a mark.            *)
(***************************************************************************)
EXTENDS DevIds

ERR_NO_PROTOCOL == 1
ERR_RECV_TIMEOUT == 7
ERR_ANOTHER_PROTOCOL == 8
ERR_PCKT_FMT == 12
ERR_PCKT_INV == 13
ERR_DEVICE_OPEN == 65468
ERR_DEVICE_ERR_VAL == 65529
ERR_DEVICE_ERR == 65530
ERR_DEVICE_LOST == 65531

(* MBuf: the data, the words before the current position, and ovrflow.     *)
Buf(d) == [data |-> d, pos |-> 0, broken |-> FALSE]

\* The k-th word that >> would give (0, what its variable holds before, past the end).
Ahead(b, k) == IF b.pos + k <= Len(b.data) THEN b.data[b.pos + k] ELSE 0
\* >> of k words, one after another.
Read(b, k) ==
    IF b.pos + k <= Len(b.data) THEN [b EXCEPT !.pos = @ + k]
    ELSE [b EXCEPT !.pos = Len(b.data), !.broken = TRUE]
Seek(b, k) ==
    IF b.pos + k \in 0 .. Len(b.data) THEN [b EXCEPT !.pos = @ + k]
    ELSE [b EXCEPT !.broken = TRUE]
Rest(b) == SubSeq(b.data, b.pos + 1, Len(b.data))
Bytes(words) == 4 * Len(words)

(* Packet types of each protocol.                                          *)
Code1 == [cmd_req |-> 0, cmd_resp |-> 0, open_req |-> 1, open_resp |-> 255, close_req |-> 2,
          close_resp |-> 254, enum_req |-> 3, enum_resp |-> 253, error_resp |-> 4]
Code2 == [cmd_req |-> 3, cmd_resp |-> 253, open_req |-> 1, open_resp |-> 255,
          close_req |-> 2, close_resp |-> 254]
Code3 == [cmd_req |-> 3, cmd_resp |-> 253, open_req |-> 1, open_resp |-> 255, close_req |-> 2,
          close_resp |-> 254, enum_req |-> 4, enum_resp |-> 252, ver_req |-> 5,
          ver_resp |-> 251, error_resp |-> 250]
Code(v) == IF v = 1 THEN Code1 ELSE IF v = 2 THEN Code2 ELSE Code3

(* The schemas, letter by letter, by packet type.                          *)
SerialHead == <<"v", "p", "0", "d", "0", "0">>
ExtendedHead == <<"v", "p", "0", "I", "0", "0">>
PlainHead == <<"v", "p", "0", "0", "0", "0", "0", "0">>
Types(code) == {code[k] : k \in DOMAIN code}
Schemas1 == [type \in Types(Code1) |->
    CASE type = Code1.cmd_req -> SerialHead \o <<"x">>
      [] type \in {Code1.open_resp, Code1.close_resp} -> SerialHead \o <<"b">>
      [] type = Code1.enum_req -> <<"v", "p", "0", "0", "0", "0", "0">>
      [] type = Code1.enum_resp -> <<"v", "p", "0", "u", "x">>
      [] OTHER -> SerialHead]
Schemas2 == [type \in Types(Code2) |->
    CASE type \in {Code2.cmd_req, Code2.cmd_resp} -> SerialHead \o <<"x">>
      [] type \in {Code2.open_resp, Code2.close_resp} -> SerialHead \o <<"b">>
      [] OTHER -> SerialHead]
Schemas3 == [type \in Types(Code3) |->
    CASE type = Code3.cmd_req -> ExtendedHead \o <<"l", "u">>
      [] type = Code3.cmd_resp -> ExtendedHead \o <<"l">>
      [] type \in {Code3.open_resp, Code3.close_resp} -> ExtendedHead \o <<"b">>
      [] type = Code3.error_resp -> ExtendedHead \o <<"u">>
      [] type \in {Code3.ver_req, Code3.enum_req} -> PlainHead
      [] type = Code3.ver_resp -> PlainHead \o <<"u">>
      [] type = Code3.enum_resp -> PlainHead \o <<"x">>
      [] OTHER -> ExtendedHead]
GetSchema(v, type) == (IF v = 1 THEN Schemas1 ELSE IF v = 2 THEN Schemas2 ELSE Schemas3)[type]

\* gen_plain_command, for schemas without data of their own.
PlainWords(ch, v, type, dev, zero_one, some) ==
    CASE ch = "v" -> <<v>> [] ch = "p" -> <<type>> [] ch = "0" -> <<0>> [] ch = "d" -> <<dev.id>>
      [] ch = "b" -> <<zero_one>> [] ch = "u" -> <<some>> [] ch = "I" -> IdWords(dev)
GenPlain(schema, v, type, dev, zero_one, some) ==
    FlattenSeq([i \in DOMAIN schema |-> PlainWords(schema[i], v, type, dev, zero_one, some)])

\* is_match: what each letter asks of the next word, and how far it moves.
LetterFits(ch, word, v, type, dev) ==
    CASE ch = "v" -> word = v [] ch = "p" -> word = type [] ch = "0" -> word = 0
      [] ch = "d" -> word = dev.id [] ch = "b" -> word \in {0, 1} [] OTHER -> TRUE
LetterRead(ch, b) ==
    CASE ch = "x" -> b [] ch = "I" -> Read(b, 3)
      [] ch = "l" -> Seek(Read(b, 1), Ahead(b, 1) \div 4) [] OTHER -> Read(b, 1)
IsMatch(schema, packet, v, type, dev) ==
    LET letter(s, ch) == [buf |-> LetterRead(ch, s.buf),
                          fits |-> s.fits /\ LetterFits(ch, Ahead(s.buf, 1), v, type, dev)]
        end == FoldLeft(letter, [buf |-> Buf(packet), fits |-> TRUE], schema)
    IN  end.fits /\ ~end.buf.broken

-----------------------------------------------------------------------------
(* The client's requests.                                                  *)

\* create_client_request of the protocols 1 and 2, and of protocol 3.
SerialRequest(v, kind, dev, body) ==
    <<v, Code(v)[kind], 0, dev.id, 0, 0>>
    \o (IF kind = "cmd_req" THEN body ELSE IF kind = "enum_req" THEN <<0>> ELSE <<>>)
ExtendedRequest(kind, dev, body) ==
    <<3, Code3[kind], 0>>
    \o (IF kind \in {"open_req", "close_req", "cmd_req"} THEN IdWords(dev) ELSE <<0, 0, 0>>)
    \o <<0, 0>> \o (IF kind = "cmd_req" THEN body ELSE <<>>)
ClientRequest(v, kind, dev, body) ==
    IF v = 3 THEN ExtendedRequest(kind, dev, body) ELSE SerialRequest(v, kind, dev, body)

CreateOpenRequest(v, dev) == ClientRequest(v, "open_req", dev, <<>>)
CreateCloseRequest(v, dev) == ClientRequest(v, "close_req", dev, <<>>)
\* Empty where the protocol has no such request.
CreateEnumRequest(v) == IF v = 2 THEN <<>> ELSE ClientRequest(v, "enum_req", Serial(0), <<>>)
CreateVersionRequest(v) == IF v = 3 THEN ExtendedRequest("ver_req", Serial(0), <<>>) ELSE <<>>

\* create_cmd_request: in protocol 2 the first word of the data, the command identifier,
\* goes before the length of the answer, which is sent without that of the result code.
CmdBody2(data, resp) == IF data = <<>> THEN <<>> ELSE <<data[1], resp - 4>> \o Tail(data)
CmdBody3Short(data, resp) == <<Bytes(data)>> \o data     \* mutant: no length of the answer
CmdBody3(data, resp) == <<Bytes(data)>> \o data \o <<resp>>
CreateCmdRequest(v, dev, data, resp) ==
    ClientRequest(v, "cmd_req", dev, IF v = 1 THEN data ELSE IF v = 2 THEN CmdBody2(data, resp)
                                     ELSE CmdBody3(data, resp))

(* The server's answers.  nullptr for a device is written as zeroes.       *)
NoDevice == Serial(0)
ServerResponse2(kind, val, dev, data) ==
    <<2, Code2[kind], 0, dev.id, 0, 0, val>> \o (IF kind = "cmd_resp" THEN data ELSE <<>>)
ServerResponse3(kind, val, dev, data) ==
    <<3, Code3[kind], 0>> \o IdWords(dev) \o <<0, 0>>
    \o CASE kind = "cmd_resp" -> <<Bytes(data)>> \o data
         [] kind = "enum_resp" -> <<Len(data) \div 3>> \o data \o <<0>>
         [] kind = "ver_resp" -> <<3>>
         [] OTHER -> <<val>>
CreateEnumResponse(devs) ==
    ServerResponse3("enum_resp", 0, NoDevice, FlattenSeq([i \in DOMAIN devs |-> IdWords(devs[i])]))
CreateErrorResponse(err) == ServerResponse3("error_resp", err, NoDevice, <<>>)

-----------------------------------------------------------------------------
(* Requests as the server reads them, of four words at least.  A command   *)
(* of protocol 2 that ends with the header gives whatever lies behind it   *)
(* for its identifier; one that ends within the header is not given here.  *)
Junk == -1

Request(ok, err, type, dev, data, resp) ==
    [ok |-> ok, err |-> err, type |-> type, dev |-> dev, data |-> data, resp |-> resp]

\* Protocol2::get_data_from_request with get_spec_data; data begins with the identifier.
GetRequest2(packet) ==
    LET b == Read(Buf(packet), 4)
        type == packet[2]
        dev == Serial(packet[4])
        cid == Rest(Seek(b, 2))
        after == Seek(Seek(b, 2), 1)
        end == Read(after, 1)
    IN  IF type \in {Code2.open_req, Code2.close_req} THEN Request(TRUE, 0, type, dev, <<>>, 0)
        ELSE IF type # Code2.cmd_req THEN Request(FALSE, ERR_PCKT_INV, type, dev, <<>>, 0)
        ELSE Request(~end.broken, 0, type, dev,
                     <<IF cid = <<>> THEN Junk ELSE cid[1]>> \o Rest(end),
                     IF end.broken THEN 0 ELSE Ahead(after, 1))

\* Protocol3::get_data_from_request with get_spec_data.
GetRequest3(packet) ==
    LET b == Read(Buf(packet), 6)
        type == packet[2]
        dev == IdOf([i \in 1 .. 3 |-> Ahead(Read(Buf(packet), 3), i)])
        body == Read(Seek(b, 2), 1)
        size == Ahead(Seek(b, 2), 1)
        at == IF type = Code3.cmd_req THEN Seek(body, size \div 4) ELSE b
        end == Read(at, 1)
        data == IF type = Code3.cmd_req THEN SubSeq(Rest(body), 1, size \div 4) ELSE <<>>
        bad(err) == Request(FALSE, err, type, dev, <<>>, 0)
    IN  IF type \notin {Code3[k] : k \in {"cmd_req", "open_req", "close_req", "enum_req", "ver_req"}}
        THEN bad(ERR_PCKT_INV)
        ELSE IF type = Code3.cmd_req /\ (body.broken \/ size < 0 \/ Bytes(Rest(body)) # size + 4)
        THEN bad(ERR_PCKT_FMT)
        ELSE IF end.broken THEN bad(ERR_PCKT_FMT)
        ELSE Request(TRUE, 0, type, dev, data, Ahead(at, 1))

(* Answers as the client reads them (get_data_from_bindy_callback with     *)
(* get_spec_data): whether they are taken, *_perror, _res_err and the data.*)
Response(ok, err, val, data) == [ok |-> ok, err |-> err, val |-> val, data |-> data]
BadFormat == Response(FALSE, ERR_PCKT_FMT, 0, <<>>)

\* One value of a word, and nothing after it.
GetValue(b) == LET v == Seek(b, 2)
               IN  IF Len(Rest(v)) # 1 THEN BadFormat ELSE Response(TRUE, 0, Ahead(v, 1), <<>>)
\* Everything after the header.
GetRest(b) == LET d == Seek(b, 2)
              IN  IF d.broken THEN BadFormat ELSE Response(TRUE, 0, 0, Rest(d))

GetResponse1(b, type) ==
    LET count == Ahead(Seek(b, -1), 1)          \* the word read as the serial
        item(i) == Seek(b, 45 * (i - 1))
        words(i) == IdWords(Serial(Swapped(Ahead(item(i), 1))))
    IN  CASE type = Code1.error_resp -> Response(FALSE, ERR_DEVICE_LOST, 0, <<>>)
          [] type = Code1.cmd_resp -> GetRest(b)
          [] type \in {Code1.open_resp, Code1.close_resp} -> GetValue(b)
          [] type = Code1.enum_resp ->
                IF Seek(b, 45 * count).broken THEN [BadFormat EXCEPT !.val = count]
                ELSE Response(TRUE, 0, count, FlattenSeq([i \in 1 .. count |-> words(i)]))
          [] OTHER -> Response(FALSE, ERR_PCKT_INV, 0, <<>>)

GetResponse2(b, type) ==
    CASE type = Code2.cmd_resp -> GetRest(b)
      [] type \in {Code2.open_resp, Code2.close_resp} -> GetValue(b)
      [] OTHER -> Response(FALSE, ERR_PCKT_INV, 0, <<>>)

\* An error packet is taken like an answer, with its code in *_perror as well.
GetResponse3(b, type) ==
    LET d == Read(Seek(b, 2), 1)
        size == Ahead(Seek(b, 2), 1)
        words(i) == IdWords(IdOf([k \in 1 .. 3 |-> Ahead(Seek(d, 3 * (i - 1)), k)]))
    IN  CASE type = Code3.cmd_resp ->
                IF d.broken \/ Bytes(Rest(d)) # size THEN BadFormat ELSE Response(TRUE, 0, 0, Rest(d))
          [] type \in {Code3.open_resp, Code3.close_resp, Code3.ver_resp} -> GetValue(b)
          [] type = Code3.error_resp -> LET r == GetValue(b)
                                        IN  IF r.ok THEN [r EXCEPT !.err = r.val] ELSE r
          [] type = Code3.enum_resp ->
                IF d.broken \/ Seek(d, 3 * size).broken THEN [BadFormat EXCEPT !.val = size]
                ELSE Response(TRUE, 0, size, FlattenSeq([i \in 1 .. size |-> words(i)]))
          [] OTHER -> BadFormat

GetResponse(v, packet) ==
    LET b == Read(Buf(packet), IF v = 3 THEN 6 ELSE 4)
        type == Ahead(Read(Buf(packet), 1), 1)
    IN  IF b.broken THEN BadFormat
        ELSE IF v = 1 THEN GetResponse1(b, type)
        ELSE IF v = 2 THEN GetResponse2(b, type)
        ELSE GetResponse3(b, type)

\* translate_response, for an answer of that type that was taken: 1 says yes.
Translated(v, type, r) == r.val = 1 /\ (v = 3 => type # Code3.error_resp)
=============================================================================
