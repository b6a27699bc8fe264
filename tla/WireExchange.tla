---------------------------- MODULE WireExchange ----------------------------
(***************************************************************************)
(* The content of one exchange after another between a client object       *)
(* (src/client/xibridge_client.cpp) and the server's callback_data         *)
(* (src/server/xibridge_server_lib.cpp), packet by packet.  The peer can   *)
(* also be the test simulator (src/test/server_simu), which speaks         *)
(* protocol 1 too and makes its answers from the schemas.                  *)
(*                                                                         *)
(*   call -> req -> asked, done -> ans -> result                           *)
(*                                                                         *)
(* The caller asks for an open, a command, a close, an enumeration or the  *)
(* version, or writes a packet of its own (xbc_write_connection) and reads *)
(* the answer as it is.  What the server asks of the table of devices and  *)
(* what the table says is asked and done; DeviceMap is how the table comes *)
(* to it.  Lost, late and reordered answers are in ClientExchange: here    *)
(* every packet arrives, and a call without answer ends with a timeout.    *)
(***************************************************************************)
EXTENDS Packets, PortIds

CONSTANTS Servers,      \* what may be at the other end: 0 is the server, 1 .. 3 the
                        \* simulator with that last_server_version
          PortLists,    \* the serial ports there may be at the server
          Uris,         \* digits of the URIs that callers have of their own
          CallData,     \* data of commands, as words
          CallResp      \* resp_len of commands, in bytes

Host == "host"
Serials == {3, 7, 12}             \* server_simu::serials
Results == {0, -1, -3, -4, -5}    \* xib_result_t: ok, error, value_error, nodevice, timeout

ASSUME ConstantsAssumption ==
    /\ Servers \subseteq 0 .. 3
    /\ \A ports \in PortLists : ports \in Seq(Ports)
    /\ \A digits \in Uris : digits \in Seq(0 .. 15)
    /\ \A data \in CallData : data \in Seq(Nat)
    /\ \A n \in CallResp : n \in Nat /\ n % 4 = 0

VARIABLES
    peer,      \* which of Servers
    mode,      \* of the server: how it names devices
    plugged,   \* the serial ports that a scan finds
    conn,      \* the connection that the last open made: protocol and device
    uris,      \* the URIs of the last enumeration
    listed,    \* history: the devices behind uris
    pc,        \* "idle", "sent", "answered"
    call,      \* what the caller asked for
    req, ans,  \* the packets; <<>> is none
    asked,     \* what the server asked of the table of devices
    done,      \* what the table said
    result     \* what the caller got

here == <<peer, mode, plugged>>
vars == <<here, conn, uris, listed, pc, call, req, ans, asked, done, result>>

None == [op |-> "none"]

Init ==
    /\ peer \in Servers
    /\ IF peer = 0 THEN mode \in Modes /\ plugged \in PortLists
       ELSE mode = "bvvu" /\ plugged = <<>>
    /\ conn = None /\ uris = <<>> /\ listed = <<>>
    /\ pc = "idle" /\ call = None /\ req = <<>> /\ ans = <<>>
    /\ asked = None /\ done = None /\ result = None

\* Devices are plugged in and out.  The server scans the ports for every enumeration and
\* every open, so it is all the same whether this is before the call or during it.
Replug ==
    /\ pc = "idle" /\ peer = 0
    /\ plugged' \in PortLists \ {plugged}
    /\ UNCHANGED <<peer, mode, conn, uris, listed, pc, call, req, ans, asked, done, result>>

-----------------------------------------------------------------------------
(* The client: a request, or an error without one.                         *)

\* own: the packet is the caller's, not of the client's making.  from: the place of the
\* device's URI in the last enumeration, 0 for a URI of the caller's.
TheCall(op, ver, dev) ==
    [op |-> op, ver |-> ver, dev |-> dev, own |-> FALSE, from |-> 0, data |-> <<>>, resp |-> 0]

Call(c, packet) ==
    /\ pc = "idle"
    /\ call' = c /\ req' = packet /\ ans' = <<>> /\ asked' = None /\ done' = None
    /\ IF packet # <<>> THEN pc' = "sent" /\ result' = None
       ELSE pc' = "idle" /\ result' = [op |-> c.op, err |-> ERR_NO_PROTOCOL]

OpenWith(u, from) ==
    \E v \in 1 .. 3 :
        LET dev == DevIdOfUri(u)
        IN  IsUri(u) /\ Call([TheCall("open", v, dev) EXCEPT !.from = from], CreateOpenRequest(v, dev))
Open ==
    /\ conn = None
    /\ \/ \E i \in DOMAIN uris : OpenWith(uris[i], i)
       \/ \E digits \in Uris : OpenWith([host |-> Host, digits |-> digits], 0)
    /\ UNCHANGED <<here, conn, uris, listed>>

CommandCall(data, resp) == [TheCall("command", conn.ver, conn.dev) EXCEPT !.data = data, !.resp = resp]
Command ==
    /\ conn # None
    /\ \E data \in CallData, resp \in CallResp :
        Call(CommandCall(data, resp), CreateCmdRequest(conn.ver, conn.dev, data, resp))
    /\ UNCHANGED <<here, conn, uris, listed>>

\* The connection is gone whatever is answered.
Close ==
    /\ conn # None
    /\ Call(TheCall("close", conn.ver, conn.dev), CreateCloseRequest(conn.ver, conn.dev))
    /\ conn' = None
    /\ UNCHANGED <<here, uris, listed>>

Enumerate ==
    /\ conn = None
    /\ \E v \in 1 .. 3 : Call(TheCall("enumerate", v, Serial(0)), CreateEnumRequest(v))
    /\ uris' = <<>> /\ listed' = <<>>
    /\ UNCHANGED <<here, conn>>

\* Always of the last protocol version.
AskVersion ==
    /\ conn = None
    /\ Call(TheCall("version", 3, Serial(0)), CreateVersionRequest(3))
    /\ UNCHANGED <<here, conn, uris, listed>>

\* xbc_write_connection: a request cut short, or a type that there is not.
Cut(packet, n) == SubSeq(packet, 1, n)
Write ==
    /\ conn # None
    /\ LET cmd == CreateCmdRequest(conn.ver, conn.dev, <<5>>, 4)
           open == CreateOpenRequest(conn.ver, conn.dev)
           own(c) == [c EXCEPT !.own = TRUE]
       IN  \/ \E n \in 1 .. Len(cmd) \ IF conn.ver = 2 THEN 4 .. 5 ELSE {} :
                Call(own(CommandCall(<<5>>, 4)), Cut(cmd, n))
           \/ \E n \in 1 .. Len(open) : Call(own(TheCall("open", conn.ver, conn.dev)), Cut(open, n))
           \/ Call(own(TheCall("other", conn.ver, conn.dev)), <<conn.ver, 9, 0, 0, 0, 0>>)
    /\ UNCHANGED <<here, conn, uris, listed>>

-----------------------------------------------------------------------------
(* The server: callback_data.                                              *)

NoVal == [op |-> "nothing"]

Answer(a, d, packet) ==
    /\ pc' = "answered" /\ asked' = a /\ done' = d /\ ans' = packet
    /\ UNCHANGED <<here, conn, uris, listed, call, req, result>>

Received == pc = "sent" /\ peer = 0 /\ Len(req) >= 4
Parsed == IF req[1] = 2 THEN GetRequest2(req) ELSE GetRequest3(req)
\* A packet of the kind; get_data_from_request's result counts in protocol 3 only.
ReceivedStrictly(kind) ==           \* mutant: a refused packet is not refused
    /\ Received
    /\ req[1] \in {2, 3} /\ kind \in DOMAIN Code(req[1]) /\ req[2] = Code(req[1])[kind]
ReceivedOf(kind) ==
    /\ Received
    /\ req[1] \in {2, 3} /\ kind \in DOMAIN Code(req[1]) /\ req[2] = Code(req[1])[kind]
    /\ req[1] = 3 => Parsed.ok
Respond(kind, val, dev, data) ==
    IF req[1] = 2 THEN ServerResponse2(kind, val, dev, data) ELSE ServerResponse3(kind, val, dev, data)

\* Less than 16 bytes: std::runtime_error, and no answer.
ServerThrows == pc = "sent" /\ peer = 0 /\ Len(req) < 4 /\ Answer(None, NoVal, <<>>)

ServerRefuses ==
    /\ Received
    /\ \/ req[1] \notin {2, 3} /\ Answer(None, NoVal, CreateErrorResponse(ERR_NO_PROTOCOL))
       \/ req[1] = 3 /\ ~Parsed.ok /\ Answer(None, NoVal, CreateErrorResponse(Parsed.err))

ServerIgnores ==
    /\ Received
    /\ req[1] = 2 /\ req[2] \notin {Code2[k] : k \in {"open_req", "close_req", "cmd_req"}}
    /\ Answer(None, NoVal, <<>>)

ServerOpens ==
    /\ ReceivedOf("open_req")
    /\ \E added \in BOOLEAN :
        Answer([op |-> "open", dev |-> Parsed.dev, port |-> PortOf(mode, plugged, Parsed.dev)],
               [op |-> "open", added |-> added],
               Respond("open_resp", IF added THEN 1 ELSE 0, Parsed.dev, <<>>))

ServerCloses ==
    /\ ReceivedOf("close_req")
    /\ Answer([op |-> "close", dev |-> Parsed.dev], [op |-> "close"],
              Respond("close_resp", 0, Parsed.dev, <<>>))

XibErrorsUntimed(res) ==             \* mutant: a timeout falls through to 0
    CASE res = -1 -> ERR_DEVICE_ERR [] res = -3 -> ERR_DEVICE_ERR_VAL
      [] res = -4 -> ERR_DEVICE_LOST [] OTHER -> 0
XibErrorsToXibridge(res) ==
    CASE res = -1 -> ERR_DEVICE_ERR [] res = -3 -> ERR_DEVICE_ERR_VAL
      [] res = -5 -> ERR_RECV_TIMEOUT [] res = -4 -> ERR_DEVICE_LOST [] OTHER -> 0

\* Lengths go to the serial layer as uint8_t.  The identifier of protocol 2 is not counted.
Uint8(n) == n % 256
Reaching(data) ==
    IF req[1] = 2 THEN <<data[1]>> \o SubSeq(data, 2, 1 + Uint8(Bytes(Tail(data))) \div 4)
    ELSE SubSeq(data, 1, Uint8(Bytes(data)) \div 4)
DeviceData(n) == [i \in 1 .. n \div 4 |-> 1000 + i]
\* resp_data: resp_len bytes, as far as the device gave them, the rest zeroes.
RespData(res, resp) ==
    LET given == IF res = 0 THEN DeviceData(Uint8(resp)) ELSE <<>>
    IN  [i \in 1 .. resp \div 4 |-> IF i <= Len(given) THEN given[i] ELSE 0]

ServerCommands ==
    /\ ReceivedOf("cmd_req")
    /\ \E res \in Results :
        Answer([op |-> "command", dev |-> Parsed.dev, data |-> Reaching(Parsed.data),
                resp |-> Uint8(Parsed.resp)],
               [op |-> "command", res |-> res],
               IF req[1] = 3 /\ res # 0 THEN CreateErrorResponse(XibErrorsToXibridge(res))
               ELSE Respond("cmd_resp", res, Parsed.dev, RespData(res, Parsed.resp)))

\* A length below zero is one of almost 2^32 bytes.  If there is no memory for it nothing is
\* answered; if there is, its length is negative where the answer is written (an int), so
\* no data are, and ServerCommands gives that answer.
ServerCannotHold ==
    /\ ReceivedOf("cmd_req")
    /\ Parsed.resp < 0
    /\ Answer(None, NoVal, <<>>)

ServerTellsVersion ==
    ReceivedOf("ver_req") /\ Answer(None, NoVal, Respond("ver_resp", 0, NoDevice, <<>>))

ServerEnumerates ==
    /\ ReceivedOf("enum_req")
    /\ LET list == DevIdVector(mode, plugged) IN
        Answer([op |-> "enumerate", dev |-> Serial(0)], [op |-> "enumerate", devs |-> list],
               CreateEnumResponse(list))

-----------------------------------------------------------------------------
(* The simulator.  Its answers of protocol 3 name the device 0.            *)

OneZero(yes) == IF yes THEN 1 ELSE 0
SerialList == <<3, 7, 12>>
SimAnswerSerial(v) ==
    LET type == req[2]
        dev == Serial(req[4])
        plain(kind, zero_one) == GenPlain(GetSchema(1, Code1[kind]), v, Code1[kind], dev, zero_one, 0)
    IN  IF type = Code(v).cmd_req
        THEN GenPlain(<<"v", "p", "0", "d", "0", "0", "0">>, v, Code(v).cmd_resp, dev, 0, 0)
        ELSE IF type = Code1.open_req THEN plain("open_resp", OneZero(req[4] \in Serials))
        ELSE IF type = Code1.close_req THEN plain("close_resp", 1)
        ELSE IF v = 1 /\ type = Code1.enum_req
        THEN <<1, Code1.enum_resp, 0, 3>>
             \o FlattenSeq([i \in 1 .. 3 |-> <<Swapped(SerialList[i])>> \o [k \in 1 .. 44 |-> 0]])
        ELSE <<>>
SimAnswerExtended ==
    LET type == req[2]
        edev == IdOf([i \in 1 .. 3 |-> Ahead(Read(Buf(req), 3), i)])
        plain(kind, zero_one, some) ==
            GenPlain(GetSchema(3, Code3[kind]), 3, Code3[kind], NoDevice, zero_one, some)
    IN  IF type = Code3.enum_req
        THEN <<3, Code3.enum_resp, 0, 0, 0, 0, 0, 0, 3>>
             \o FlattenSeq([i \in 1 .. 3 |-> IdWords(Serial(SerialList[i]))])
        ELSE IF type = Code3.cmd_req
        THEN GenPlain(<<"v", "p", "0", "I", "0", "0", "u", "0">>, 3, Code3.cmd_resp, NoDevice, 0, 1)
        ELSE IF type = Code3.open_req THEN plain("open_resp", OneZero(edev.id \in Serials), 0)
        ELSE IF type = Code3.close_req THEN plain("close_resp", 1, 0)
        ELSE IF type = Code3.ver_req THEN plain("ver_resp", 0, 3)
        ELSE <<>>

SimulatorAnswers ==
    /\ pc = "sent" /\ peer # 0
    /\ Answer(None, NoVal, IF Len(req) < 4 \/ req[1] > peer THEN <<>>
                           ELSE IF req[1] = 3 THEN SimAnswerExtended ELSE SimAnswerSerial(req[1]))

-----------------------------------------------------------------------------
(* The client again: the answer.                                           *)

Taking(op) == pc = "answered" /\ ans # <<>> /\ call.op = op /\ ~call.own
Taken == GetResponse(call.ver, ans)
AnotherVersion == ans[1] % 256 # call.ver
Return(r) ==
    /\ pc' = "idle" /\ result' = r
    /\ UNCHANGED <<here, call, req, ans, asked, done>>

TimesOut ==
    /\ pc = "answered" /\ ans = <<>> /\ ~call.own
    /\ Return([op |-> call.op, err |-> IF call.op = "close" THEN 0 ELSE ERR_RECV_TIMEOUT])
    /\ UNCHANGED <<conn, uris, listed>>

OpenTaken ==
    /\ Taking("open")
    /\ LET err == IF AnotherVersion THEN ERR_ANOTHER_PROTOCOL ELSE IF ~Taken.ok THEN Taken.err
                  ELSE IF Translated(call.ver, ans[2], Taken) THEN 0 ELSE ERR_DEVICE_OPEN
       IN  /\ Return([op |-> "open", err |-> err])
           /\ conn' = IF err = 0 THEN [op |-> "conn", ver |-> call.ver, dev |-> call.dev] ELSE None
    /\ UNCHANGED <<uris, listed>>

Upto(s, n) == SubSeq(s, 1, IF n < Len(s) THEN n ELSE Len(s))
\* No more than resp_len bytes are copied; the version of the answer is not looked at.
CommandTaken ==
    /\ Taking("command")
    /\ Return([op |-> "command", err |-> Taken.err, data |-> Upto(Taken.data, call.resp \div 4)])
    /\ UNCHANGED <<conn, uris, listed>>

CloseTaken ==
    /\ Taking("close")
    /\ Return([op |-> "close", err |-> 0])
    /\ UNCHANGED <<conn, uris, listed>>

EnumerateTaken ==
    /\ Taking("enumerate")
    /\ IF AnotherVersion \/ ~Taken.ok
       THEN /\ Return([op |-> "enumerate", err |-> IF AnotherVersion THEN ERR_ANOTHER_PROTOCOL ELSE Taken.err])
            /\ UNCHANGED <<uris, listed>>
       ELSE /\ Return([op |-> "enumerate", err |-> Taken.err])
            /\ uris' = [i \in 1 .. Taken.val |-> UriOf(Host, IdOf(SubSeq(Taken.data, 3 * i - 2, 3 * i)))]
            /\ listed' = IF peer = 0 THEN done.devs ELSE [i \in 1 .. 3 |-> Serial(SerialList[i])]
    /\ UNCHANGED conn

VersionTaken ==
    /\ Taking("version")
    /\ Return(IF Taken.ok THEN [op |-> "version", err |-> Taken.err, ver |-> Taken.val]
              ELSE [op |-> "version", err |-> ERR_NO_PROTOCOL])
    /\ UNCHANGED <<conn, uris, listed>>

\* xbc_read_connection_buffer, whatever has come.
ReadOwn ==
    /\ pc = "answered" /\ call.own
    /\ Return([op |-> "read", packet |-> ans])
    /\ UNCHANGED <<conn, uris, listed>>

Next ==
    \/ Replug
    \/ Open \/ Command \/ Close \/ Enumerate \/ AskVersion \/ Write
    \/ ServerThrows \/ ServerRefuses \/ ServerIgnores \/ ServerOpens \/ ServerCloses
    \/ ServerCommands \/ ServerCannotHold \/ ServerTellsVersion \/ ServerEnumerates
    \/ SimulatorAnswers
    \/ TimesOut \/ OpenTaken \/ CommandTaken \/ CloseTaken \/ EnumerateTaken \/ VersionTaken
    \/ ReadOwn

Spec == Init /\ [][Next]_vars

-----------------------------------------------------------------------------
(* Properties.                                                             *)

\* The lengths that the serial layer can be asked for: a byte each (the identifier of
\* protocol 2 and the result code are not in them).
Fits ==
    IF call.ver = 3 THEN Bytes(call.data) < 256 /\ call.resp < 256
    ELSE call.data # <<>> /\ Bytes(Tail(call.data)) < 256 /\ call.resp - 4 \in 0 .. 255

\* What the server asks of its table of devices is what the caller asked for: the
\* operation, the device (its serial in protocol 2), and, when the lengths fit, the data
\* and the length of the answer.  A packet of protocol 3 cut anywhere does nothing else:
\* create_client_request and the code around it against get_data_from_request.
AskedIsMeant ==
    asked # None =>
        /\ asked.op = call.op
        /\ asked.op # "enumerate" =>
            asked.dev = IF call.ver = 3 THEN call.dev ELSE Serial(call.dev.id)
        /\ asked.op = "command" /\ Fits /\ (call.ver = 3 \/ ~call.own) =>
            /\ asked.data = call.data
            /\ asked.resp = call.resp - IF call.ver = 3 THEN 0 ELSE 4

\* What the caller gets is what the table of devices said, through
\* create_server_response and get_spec_data: an open is good exactly when it was, an
\* enumeration names every device that was found, and a command gives the device's data
\* when it went well.  When it did not, protocol 3 returns an error of its own for every
\* result, "device lost" for a missing device only, and protocol 2 returns no error but
\* the result in front of the data.
TakenIsDone ==
    pc = "idle" /\ done \notin {None, NoVal} /\ ~call.own =>
        CASE call.op = "open" -> result.err = 0 <=> done.added
          [] call.op = "enumerate" ->
                result.err = 0 /\ uris = [i \in DOMAIN done.devs |-> UriOf(Host, done.devs[i])]
          [] call.op = "command" /\ call.ver = 3 ->
                /\ result.err = 0 <=> done.res = 0
                /\ result.err = ERR_DEVICE_LOST <=> done.res = -4
                /\ Fits => result.data = IF done.res = 0 THEN DeviceData(call.resp) ELSE <<>>
          [] call.op = "command" /\ call.ver = 2 ->
                /\ result.err = 0
                /\ Fits => result.data = <<done.res>> \o RespData(done.res, call.resp - 4)
          [] OTHER -> result.err = 0

\* Every packet that either side makes matches the schema of its type by is_match, as the
\* tables of protocols.cpp lay it down.  The makers do not use the tables: requests and
\* answers are written word by word, the schemas are kept beside them.
PacketsMatch ==
    call # None /\ ~call.own =>
        \A packet \in {req, ans} \ {<<>>} :
            IsMatch(GetSchema(packet[1], packet[2]), packet, packet[1], packet[2], call.dev)

\* A device opened by a URI of an enumeration is looked up as the device that was
\* enumerated, and a port with that device is found if there still is one, wherever it has
\* been plugged in since: xi_net_dev_uris, the parser of URIs and both protocols agree on
\* the places of VID, PID and id, and the configurator on what it calls a device.  Protocol
\* 2 carries the id alone, so it finds no device that has VID and PID.
EnumeratedIsOpened ==
    pc = "answered" /\ asked.op = "open" /\ ~call.own /\ call.from > 0 =>
        LET dev == listed[call.from]
            places == {i \in DOMAIN plugged : Matches(mode, plugged[i], dev)}
        IN  IF call.ver = 3 \/ mode # "by_serialpidvid"
            THEN asked.dev = dev /\ asked.port \in (IF places = {} THEN {0} ELSE places)
            ELSE asked.port # 0 => plugged[asked.port].vid = 0 /\ plugged[asked.port].pid = 0
=============================================================================
