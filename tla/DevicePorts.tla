---------------------------- MODULE DevicePorts ----------------------------
(***************************************************************************)
(* What the serial layer demands of its caller (src/server/xib-serial/     *)
(* xib_com.c: use after xib_device_destroy and a second destroy are        *)
(* undefined behaviour), with the one-exchange-at-a-time use of a port     *)
(* that the device mutexes of MapDevIdPHandle are for.  DeviceMap          *)
(* implements it.                                                          *)
(***************************************************************************)
CONSTANTS Clients, DevIds, Handles

VARIABLES port,     \* port[d]: the handles created for d and not destroyed yet
          users     \* users[d]: the clients in an exchange with d's port

vars == <<port, users>>

Init ==
    /\ port = [d \in DevIds |-> {}]
    /\ users = [d \in DevIds |-> {}]

\* A device is opened only when it has no live handle.
Open(d, h) ==
    /\ port[d] = {}
    /\ \A e \in DevIds : h \notin port[e]
    /\ port' = [port EXCEPT ![d] = {h}]
    /\ UNCHANGED users

\* An exchange starts on a live handle that nobody else is using...
StartExchange(c, d) ==
    /\ port[d] # {} /\ users[d] = {}
    /\ users' = [users EXCEPT ![d] = {c}]
    /\ UNCHANGED port

EndExchange(c, d) ==
    /\ users[d] = {c}
    /\ users' = [users EXCEPT ![d] = {}]
    /\ UNCHANGED port

\* ... and a handle is destroyed between exchanges.
Close(d) ==
    /\ port[d] # {} /\ users[d] = {}
    /\ port' = [port EXCEPT ![d] = {}]
    /\ UNCHANGED users

Next == \E d \in DevIds :
          \/ \E h \in Handles : Open(d, h)
          \/ \E c \in Clients : StartExchange(c, d) \/ EndExchange(c, d)
          \/ Close(d)

Spec == Init /\ [][Next]_vars
=============================================================================
