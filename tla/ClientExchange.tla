--------------------------- MODULE ClientExchange ---------------------------
(***************************************************************************)
(* The client library: Xibridge_client and Bindy_helper of src/client, and *)
(* the loops of src/client/xibridge.cpp that look for the version of the   *)
(* protocol a server speaks.  Each client object is used by one thread     *)
(* (xibridge_client.h, _get_client_as_free); bindy calls                   *)
(* callback_data_bindy from threads of its own.  The C interface makes a   *)
(* client object for one of three calls:                                   *)
(*   open       xibridge_open_device_connection; if it succeeds the object *)
(*              lives on, takes commands, and ends with a close            *)
(*   enumerate  xibridge_enumerate_adapter_devices                         *)
(*   version    xibridge_get_server_last_protocol_version                  *)
(* A step is what the thread does between two points at which bindy can    *)
(* interfere.  _map_mutex is held across steps only by the callback; the   *)
(* steps that take it wait for the callback to be over.                    *)
(*                                                                         *)
(* bindy and the servers are external.  A server speaks some versions; a   *)
(* request of another one it leaves unanswered, or answers with an error   *)
(* packet of a version it names (3, the server of this repository).        *)
(* Requests of a connection are answered in order, however late.           *)
(***************************************************************************)
EXTENDS Naturals, Sequences

CONSTANTS Clients,       \* client objects
          Servers,       \* what the servers may be: [speaks, names]
          BaseVersions,  \* what xibridge_set_base_protocol_version may have set
          MaxCommands,   \* bound: commands sent by one client
          Garbage        \* what a vector holds while it is being assigned

LastVersion == 3         \* DEFAULT_PROTO_VERSION
Versions == 1 .. LastVersion
Conns == Clients \X (1 .. LastVersion + 1)
MaxRequests == LastVersion + 2 + MaxCommands

ASSUME ConstantsAssumption ==
    /\ \A s \in Servers : s.speaks \subseteq Nat /\ s.names \subseteq s.speaks
    /\ BaseVersions \subseteq Versions
    /\ MaxCommands \in Nat
    /\ Garbage \notin [to : Nat, ver : Nat, kind : {"none", "notice", "good", "bad"}]

VARIABLES
    cl,       \* the client objects
    map,      \* Bindy_helper::_map: its keys; the value of <<c, i>> points to c
    bindy,    \* bindy's connections
    inbox,    \* inbox[k]: requests the server of k has yet to answer
    device,   \* device[k]: what the server of k has opened for it
    cb,       \* callback_data_bindy, at most one of which is past _map_mutex
    server,   \* server[c]: the server that c talks to
    missed,   \* history: connections with an exchange that ended without its answer
    tried     \* history: tried[c]: the versions c has given up

vars == <<cl, map, bindy, inbox, device, cb, server, missed, tried>>
history == <<missed, tried>>
network == <<bindy, inbox, device, server>>

NoCallback == [stage |-> "none"]
NoAnswer == [to |-> 0, ver |-> 0, kind |-> "none"]
Notice == [to |-> 0, ver |-> 1, kind |-> "notice"]
Fresh == [pc |-> "new", call |-> "none", ver |-> 0, tries |-> 0, second |-> FALSE,
          id |-> 0, made |-> 0, then |-> "deleted", err |-> "ok", flag |-> FALSE,
          msg |-> NoAnswer, buf |-> NoAnswer, n |-> 0, left |-> MaxCommands]

Init ==
    /\ cl = [c \in Clients |-> Fresh]
    /\ map = {}
    /\ bindy = [k \in Conns |-> "none"]
    /\ inbox = [k \in Conns |-> <<>>]
    /\ device = [k \in Conns |-> "closed"]
    /\ cb = NoCallback
    /\ server \in [Clients -> Servers]
    /\ missed = {}
    /\ tried = [c \in Clients |-> {}]

pc(c) == cl[c].pc
Conn(c) == <<c, cl[c].id>>
MapFree == cb.stage = "none"
Assigning(c) == cb.stage = "assign" /\ cb.conn[1] = c    \* _mutex_recv of c is taken
Goes(c, p, q) == pc(c) = p /\ cl' = [cl EXCEPT ![c].pc = q]
-----------------------------------------------------------------------------
(* The calls of the interface.                                             *)

\* The constructor, with the base version the process has set.
Start(c, call, v) ==
    /\ pc(c) = "new"
    /\ cl' = [cl EXCEPT ![c].pc = "connect", ![c].call = call, ![c].tries = LastVersion,
                        ![c].ver = v]
    /\ UNCHANGED <<map, network, cb, history>>

StartOpen(c) == \E v \in BaseVersions : Start(c, "open", v)
StartEnumerate(c) == \E v \in BaseVersions : Start(c, "enumerate", v)

\* exec_version_request puts the last version in place of the base version.
StartVersion(c) == Start(c, "version", LastVersion)

Command(c) ==
    /\ pc(c) = "idle" /\ cl[c].left > 0
    /\ cl' = [cl EXCEPT ![c].pc = "send", ![c].call = "command", ![c].err = "ok",
                        ![c].left = @ - 1]
    /\ UNCHANGED <<map, network, cb, history>>

Close(c) ==
    /\ pc(c) = "idle"
    /\ cl' = [cl EXCEPT ![c].pc = "send", ![c].call = "close", ![c].err = "ok"]
    /\ UNCHANGED <<map, network, cb, history>>
-----------------------------------------------------------------------------
(* open_connection and disconnect.                                         *)

Connect(c) ==
    /\ pc(c) = "connect" /\ MapFree
    /\ LET i == cl[c].made + 1 IN
         /\ cl' = [cl EXCEPT ![c].pc = "send", ![c].id = i, ![c].made = i, ![c].err = "ok"]
         /\ map' = map \cup {<<c, i>>}
         /\ bindy' = [bindy EXCEPT ![<<c, i>>] = "up"]
    /\ UNCHANGED <<inbox, device, server, cb, history>>

ConnectFails(c) ==
    /\ pc(c) = "connect"
    /\ cl' = [cl EXCEPT ![c].pc = "deleted", ![c].err = "NO_CONNECTION"]
    /\ UNCHANGED <<map, network, cb, history>>

\* Bindy_helper::disconnect up to the return, or the exception, of bindy's:
\* it throws when the connection has ended by itself.
Disconnect(c) ==
    /\ pc(c) = "disconnect"
    /\ IF bindy[Conn(c)] = "up"
         THEN /\ bindy' = [bindy EXCEPT ![Conn(c)] = "closed"]
              /\ cl' = [cl EXCEPT ![c].pc = "erase"]
         ELSE /\ cl' = [cl EXCEPT ![c].pc = cl[c].then, ![c].id = 0]
              /\ UNCHANGED bindy
    /\ UNCHANGED <<map, inbox, device, server, cb, history>>

\* mutant: the entry stays in the map.
EraseNothing(c) ==
    /\ pc(c) = "erase" /\ MapFree
    /\ cl' = [cl EXCEPT ![c].pc = cl[c].then, ![c].id = 0]
    /\ UNCHANGED <<map, network, cb, history>>

Erase(c) ==
    /\ pc(c) = "erase" /\ MapFree
    /\ map' = map \ {Conn(c)}
    /\ cl' = [cl EXCEPT ![c].pc = cl[c].then, ![c].id = 0]
    /\ UNCHANGED <<network, cb, history>>
-----------------------------------------------------------------------------
(* What a call does with the outcome e of its exchange.                    *)

Searches(c) == cl[c].call \in {"open", "enumerate"} /\ ~cl[c].second
TriesNext(c, e) == e = "RECV_TIMEOUT" \/ (e = "NO_PROTOCOL" /\ cl[c].call = "enumerate")

\* mutant: the version stays at 1.
DecrementToOne(v) == IF v > 1 THEN v - 1 ELSE 1

\* decrement_server_protocol_version
Decrement(v) == IF v > 1 THEN v - 1 ELSE LastVersion

\* mutant: the second chance is taken with the version of the first.
RedirectSame(c, e, v) ==
    /\ Searches(c) /\ e = "ANOTHER_PROTOCOL"
    /\ cl' = [cl EXCEPT ![c].pc = "disconnect", ![c].then = "connect", ![c].second = TRUE,
                        ![c].err = "ok"]
    /\ UNCHANGED tried

\* The second and final chance, with the version v of the answer.
Redirect(c, e, v) ==
    /\ Searches(c) /\ e = "ANOTHER_PROTOCOL"
    /\ cl' = [cl EXCEPT ![c].pc = "disconnect", ![c].then = "connect", ![c].second = TRUE,
                        ![c].ver = v, ![c].err = "ok"]
    /\ UNCHANGED tried

\* mutant: the next version is tried on the same connection.
TryNextConnected(c, e) ==
    /\ Searches(c) /\ TriesNext(c, e)
    /\ cl' = [cl EXCEPT ![c].pc = IF cl[c].tries > 1 THEN "send" ELSE "disconnect",
                        ![c].then = "deleted", ![c].err = e,
                        ![c].tries = @ - 1, ![c].ver = Decrement(@)]
    /\ tried' = [tried EXCEPT ![c] = @ \cup {cl[c].ver}]

\* mutant: ncount is not counted down.
TryNextForEver(c, e) ==
    /\ Searches(c) /\ TriesNext(c, e)
    /\ cl' = [cl EXCEPT ![c].pc = "disconnect", ![c].err = e, ![c].then = "connect",
                        ![c].ver = Decrement(@)]
    /\ tried' = [tried EXCEPT ![c] = @ \cup {cl[c].ver}]

TryNext(c, e) ==
    /\ Searches(c) /\ TriesNext(c, e)
    /\ cl' = [cl EXCEPT ![c].pc = "disconnect", ![c].err = e,
                        ![c].then = IF cl[c].tries > 1 THEN "connect" ELSE "deleted",
                        ![c].tries = @ - 1, ![c].ver = Decrement(@)]
    /\ tried' = [tried EXCEPT ![c] = @ \cup {cl[c].ver}]

\* The handle is the caller's, after a command whatever its outcome.
Keep(c, e) ==
    /\ cl[c].call = "command" \/ (cl[c].call = "open" /\ e = "ok")
    /\ cl' = [cl EXCEPT ![c].pc = "idle", ![c].err = e]
    /\ UNCHANGED tried

GiveUp(c, e, v) ==
    /\ cl[c].call # "command" /\ ~(cl[c].call = "open" /\ e = "ok")
    /\ ~(Searches(c) /\ (TriesNext(c, e) \/ e = "ANOTHER_PROTOCOL"))
    /\ cl' = [cl EXCEPT ![c].pc = "disconnect", ![c].then = "deleted", ![c].ver = v,
                        ![c].err = e]
    /\ UNCHANGED tried

Finish(c, e, v) == Redirect(c, e, v) \/ TryNext(c, e) \/ Keep(c, e) \/ GiveUp(c, e, v)
-----------------------------------------------------------------------------
(* The exchange: create_appropriate_protocol, _send_and_receive and the    *)
(* reading of the answer.                                                  *)

\* The protocol has a packet for the call.
Speaks(call, v) ==
    /\ v \in Versions
    /\ call = "enumerate" => v # 2
    /\ call = "version" => v = 3

CannotAsk(c) ==
    /\ pc(c) = "send" /\ ~Speaks(cl[c].call, cl[c].ver)
    /\ Finish(c, "NO_PROTOCOL", cl[c].ver)
    /\ UNCHANGED <<map, network, cb, missed>>

Send(c) ==
    /\ pc(c) = "send" /\ MapFree /\ Speaks(cl[c].call, cl[c].ver)
    /\ bindy[Conn(c)] = "up"
    /\ LET r == [n |-> cl[c].n + 1, call |-> cl[c].call, ver |-> cl[c].ver] IN
         /\ inbox' = [inbox EXCEPT ![Conn(c)] = Append(@, r)]
         /\ cl' = [cl EXCEPT ![c].pc = "reset", ![c].n = r.n]
    /\ UNCHANGED <<map, bindy, device, server, cb, history>>

\* A command and a close ask is_connected beforehand.
SendFails(c) ==
    /\ pc(c) = "send" /\ MapFree /\ Speaks(cl[c].call, cl[c].ver)
    /\ bindy[Conn(c)] = "down"
    /\ \/ Finish(c, "SEND_DATA", cl[c].ver)
       \/ cl[c].call \in {"command", "close"} /\ Finish(c, "NO_CONNECTION", cl[c].ver)
    /\ UNCHANGED <<map, network, cb, missed>>

Reset(c) ==
    /\ pc(c) = "reset"
    /\ cl' = [cl EXCEPT ![c].pc = "check", ![c].flag = FALSE]
    /\ UNCHANGED <<map, network, cb, history>>

\* The test of the loop; no mutex keeps bindy from setting the flag between
\* the test and the wait.
Check(c) ==
    /\ Goes(c, "check", IF cl[c].flag THEN "copy" ELSE "enter")
    /\ UNCHANGED <<map, network, cb, history>>

Enter(c) == Goes(c, "enter", "wait") /\ UNCHANGED <<map, network, cb, history>>
SpuriousWake(c) == Goes(c, "wait", "check") /\ UNCHANGED <<map, network, cb, history>>
\* mutant: the loop goes on after the timeout of the wait.
TimeoutUnnoticed(c) == Goes(c, "wait", "check") /\ UNCHANGED <<map, network, cb, history>>
Timeout(c) == Goes(c, "wait", "final") /\ UNCHANGED <<map, network, cb, history>>

\* mutant: the status of the wait decides, not the flag.
FinalTestByStatus(c) ==
    /\ pc(c) = "final"
    /\ Finish(c, "RECV_TIMEOUT", cl[c].ver)
    /\ missed' = missed \cup {Conn(c)}
    /\ UNCHANGED <<map, network, cb>>

FinalTest(c) ==
    /\ pc(c) = "final"
    /\ \/ cl[c].flag /\ Goes(c, "final", "copy") /\ UNCHANGED history
       \/ /\ ~cl[c].flag
          /\ Finish(c, "RECV_TIMEOUT", cl[c].ver)
          /\ missed' = missed \cup {Conn(c)}
    /\ UNCHANGED <<map, network, cb>>

\* The answers to a command and to a close are copied without _mutex_recv.
Copy(c) ==
    /\ pc(c) = "copy"
    /\ cl[c].call \in {"command", "close"} \/ ~Assigning(c)
    /\ cl' = [cl EXCEPT ![c].pc = "decide", ![c].buf = cl[c].msg]
    /\ UNCHANGED <<map, network, cb, history>>

\* get_data_from_bindy_callback and translate_response.  DEVICE stands for the
\* server's refusals and for packets that make no sense.
Verdicts(c, m) ==
    IF m = Garbage THEN {"ok", "DEVICE"} ELSE IF m.kind = "good" THEN {"ok"} ELSE {"DEVICE"}

Reads(c, calls) ==
    /\ pc(c) = "decide" /\ cl[c].call \in calls
    /\ missed' = IF cl[c].buf # Garbage /\ cl[c].buf.to = cl[c].n THEN missed
                 ELSE missed \cup {Conn(c)}
    /\ UNCHANGED <<map, network, cb>>

\* get_version_of_cmd looks into _recv_message, which may have changed since
\* the copy, and may be changing.
VersionIn(m) == IF m = Garbage THEN Versions ELSE {m.ver}

DecideAnother(c) ==
    /\ Reads(c, {"open", "enumerate"})
    /\ \E v \in VersionIn(cl[c].msg) \ {cl[c].ver} : Finish(c, "ANOTHER_PROTOCOL", v)

DecideOpen(c) ==
    /\ Reads(c, {"open"}) /\ cl[c].ver \in VersionIn(cl[c].msg)
    /\ \E e \in Verdicts(c, cl[c].buf) : Finish(c, e, cl[c].ver)

DecideEnumerate(c) ==
    /\ Reads(c, {"enumerate"}) /\ cl[c].ver \in VersionIn(cl[c].msg)
    /\ \E e \in Verdicts(c, cl[c].buf) : Finish(c, e, cl[c].ver)

\* Whatever is not a version response of protocol 3 is ERR_NO_PROTOCOL.
DecideVersion(c) ==
    /\ Reads(c, {"version"})
    /\ \E e \in Verdicts(c, cl[c].buf) :
         Finish(c, IF e = "ok" THEN "ok" ELSE "NO_PROTOCOL", cl[c].ver)

DecideCommand(c) ==
    /\ Reads(c, {"command"})
    /\ \E e \in Verdicts(c, cl[c].buf) : Finish(c, e, cl[c].ver)

DecideClose(c) ==
    /\ Reads(c, {"close"})
    /\ \E e \in Verdicts(c, cl[c].buf) : Finish(c, e, cl[c].ver)
-----------------------------------------------------------------------------
(* bindy, the network and the servers.                                     *)

Serves(k) == server[k[1]]
Refusable(r) == r.call = "open" \/ (r.call = "command" /\ r.ver = 3)
AnswersTo(k, r) ==
    IF r.ver \in Serves(k).speaks
      THEN [to : {r.n}, ver : {r.ver},
            kind : IF Refusable(r) THEN {"good", "bad"} ELSE {"good"}]
      ELSE [to : {r.n}, ver : Serves(k).names, kind : {"bad"}]

\* callback_data_bindy: it looks the connection up and starts the assignment.
StartCallback(k, a) ==
    /\ MapFree
    /\ IF k \in map
         THEN /\ cb' = [stage |-> "assign", conn |-> k, ans |-> a]
              /\ cl' = [cl EXCEPT ![k[1]].msg = Garbage]
         ELSE UNCHANGED <<cb, cl>>

Receive(k) ==
    /\ bindy[k] # "down" /\ inbox[k] # <<>>
    /\ \E a \in AnswersTo(k, Head(inbox[k])) :
         /\ StartCallback(k, a)
         /\ device' = IF Head(inbox[k]).call = "open" /\ a.kind = "good"
                        THEN [device EXCEPT ![k] = "open"] ELSE device
    /\ inbox' = [inbox EXCEPT ![k] = Tail(@)]
    /\ UNCHANGED <<map, bindy, server, history>>

Unanswered(k) ==
    /\ inbox[k] # <<>> /\ AnswersTo(k, Head(inbox[k])) = {}
    /\ inbox' = [inbox EXCEPT ![k] = Tail(@)]
    /\ UNCHANGED <<cl, map, bindy, device, server, cb, history>>

\* Protocol 1 only: the server tells that the device is lost (pkt1_error_ntf).
DeviceLost(k) ==
    /\ bindy[k] # "down" /\ device[k] = "open" /\ 1 \in Serves(k).speaks
    /\ StartCallback(k, Notice)
    /\ device' = [device EXCEPT ![k] = "lost"]
    /\ UNCHANGED <<map, bindy, inbox, server, history>>

\* The second half of the callback: the flag, and a notification that wakes
\* the client only if it is waiting.
Deliver ==
    /\ cb.stage = "assign"
    /\ LET c == cb.conn[1] IN
         cl' = [cl EXCEPT ![c].msg = cb.ans, ![c].flag = TRUE,
                          ![c].pc = IF @ = "wait" THEN "check" ELSE @]
    /\ cb' = NoCallback
    /\ UNCHANGED <<map, network, history>>

\* The connection ends, which its reading thread finds, not in the callback.
\* The client registers no handler for it (on_bindy_disconnect is unused).
Drop(k) ==
    /\ bindy[k] = "up" /\ ~(cb.stage = "assign" /\ cb.conn = k)
    /\ bindy' = [bindy EXCEPT ![k] = "down"]
    /\ UNCHANGED <<cl, map, inbox, device, server, cb, history>>
-----------------------------------------------------------------------------
Step(c) ==
    \/ Connect(c) \/ ConnectFails(c) \/ Disconnect(c) \/ Erase(c)
    \/ CannotAsk(c) \/ Send(c) \/ SendFails(c) \/ Reset(c) \/ Check(c) \/ Enter(c)
    \/ FinalTest(c) \/ Copy(c)
    \/ DecideAnother(c) \/ DecideOpen(c) \/ DecideEnumerate(c) \/ DecideVersion(c)
    \/ DecideCommand(c) \/ DecideClose(c)

Next ==
    \/ \E c \in Clients :
         \/ StartOpen(c) \/ StartEnumerate(c) \/ StartVersion(c) \/ Command(c) \/ Close(c)
         \/ Step(c) \/ Timeout(c) \/ SpuriousWake(c)
    \/ \E k \in Conns : Receive(k) \/ Unanswered(k) \/ DeviceLost(k) \/ Drop(k)
    \/ Deliver

Spec == Init /\ [][Next]_vars

\* The threads run on; a wait is not put off for ever by spurious wake-ups.
Fairness ==
    /\ \A c \in Clients : WF_vars(Step(c)) /\ SF_vars(Timeout(c))
    /\ WF_vars(Deliver)

FairSpec == Spec /\ Fairness
-----------------------------------------------------------------------------
Calls == {"open", "enumerate", "version", "command", "close"}
Errors == {"ok", "NO_PROTOCOL", "NO_CONNECTION", "SEND_DATA", "RECV_TIMEOUT",
           "ANOTHER_PROTOCOL", "DEVICE"}
ServerVersions == UNION {s.speaks : s \in Servers}
Answers == [to : 0 .. MaxRequests, ver : {0, 1} \cup ServerVersions,
            kind : {"none", "notice", "good", "bad"}]

\* The values of the variables.
TypeOK ==
    /\ cl \in [Clients ->
         [pc : {"new", "connect", "send", "reset", "check", "enter", "wait", "final", "copy",
                "decide", "disconnect", "erase", "idle", "deleted"},
          call : Calls \cup {"none"}, ver : {0} \cup Versions \cup ServerVersions,
          tries : 0 .. LastVersion, second : BOOLEAN, id : 0 .. LastVersion + 1,
          made : 0 .. LastVersion + 1, then : {"connect", "deleted"}, err : Errors,
          flag : BOOLEAN, msg : Answers \cup {Garbage}, buf : Answers \cup {Garbage},
          n : 0 .. MaxRequests, left : 0 .. MaxCommands]]
    /\ map \subseteq Conns
    /\ bindy \in [Conns -> {"none", "up", "down", "closed"}]
    /\ inbox \in [Conns -> Seq([n : 1 .. MaxRequests, call : Calls, ver : Versions])]
    /\ device \in [Conns -> {"closed", "open", "lost"}]
    /\ cb \in {NoCallback} \cup [stage : {"assign"}, conn : Conns, ans : Answers]
    /\ server \in [Clients -> Servers]
    /\ missed \subseteq Conns
    /\ tried \in [Clients -> SUBSET Versions]

\* What a call makes of the answer: no answer carries the number of its
\* request, so only the course of events can make it the right one.  An open,
\* an enumeration and a version request decide on the answer to their own
\* request, however many attempts timed out before, or are told that the
\* device has been lost.  A command can take a wrong or half-written answer
\* only if an earlier exchange of its connection ended without its own.
AnswerIsOwn ==
    \A c \in Clients : pc(c) = "decide" =>
        IF cl[c].call \in {"command", "close"}
          THEN \/ cl[c].buf \notin {Garbage, NoAnswer} /\ cl[c].buf.to = cl[c].n
               \/ device[Conn(c)] = "lost" \/ Conn(c) \in missed
          ELSE cl[c].buf \notin {Garbage, NoAnswer} /\ cl[c].buf.to \in {0, cl[c].n}

\* The connection c uses now.
Uses(c, k) == k = Conn(c) /\ pc(c) # "deleted"

\* Whatever way the calls end, an entry of _map points to a living client that
\* uses that connection, unless the connection ended by itself (then bindy's
\* disconnect throws and the entry stays); no connection is left open without
\* a client; and the callback writes into no client that has been deleted.
ConnectionsAccounted ==
    /\ \A k \in map : Uses(k[1], k) \/ bindy[k] = "down"
    /\ \A k \in Conns : bindy[k] = "up" => Uses(k[1], k) /\ k \in map
    /\ cb.stage = "assign" => pc(cb.conn[1]) # "deleted"

\* An open or an enumeration that fails with ERR_RECV_TIMEOUT has tried every
\* version, whichever it started from, or follows a version the server named.
TimeoutTriedAll ==
    \A c \in Clients :
        /\ pc(c) = "deleted" /\ cl[c].err = "RECV_TIMEOUT"
        /\ cl[c].call \in {"open", "enumerate"} /\ ~cl[c].second
        => tried[c] = Versions

\* A handle speaks a version its server speaks, and so does a call that the
\* server itself refused; the internal flag ERR_ANOTHER_PROTOCOL reaches no
\* caller (servers that name a version do speak it).
NegotiationSettles ==
    \A c \in Clients :
        /\ \/ pc(c) = "idle"
           \/ pc(c) = "deleted" /\ cl[c].err = "DEVICE"
           => cl[c].ver \in server[c].speaks
        /\ pc(c) \in {"idle", "deleted"} => cl[c].err # "ANOTHER_PROTOCOL"

\* An answer that came after the flag was reset is read, also when its
\* notification found nobody waiting.
AnswerTaken ==
    \A c \in Clients :
        (pc(c) \in {"check", "enter", "wait", "final"} /\ cl[c].flag) ~> pc(c) = "copy"

\* Every call returns, whatever the server does.
CallsReturn ==
    \A c \in Clients : pc(c) # "new" ~> pc(c) \in {"idle", "deleted"}

\* "Receive data timeout." (ERR_RECV_TIMEOUT): no call fails with it after
\* bindy has handed over the answer to its request.
TimeoutMeansNoAnswer ==
    [][\A c \in Clients :
         pc(c) = "final" /\ pc(c)' # "final" /\ cl[c].msg # Garbage /\ cl[c].msg.to = cl[c].n
         => cl'[c].err # "RECV_TIMEOUT"]_vars
=============================================================================
