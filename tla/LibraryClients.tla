--------------------------- MODULE LibraryClients ---------------------------
(***************************************************************************)
(* DeviceMap driven by the requests that this repository's own client      *)
(* makes (src/client/xibridge.cpp, xibridge_client.cpp): a connection is   *)
(* made for one device, opens it once, carries commands only after a       *)
(* positive answer, and ends after a negative answer, after its close      *)
(* request, or when a request has timed out.                               *)
(***************************************************************************)
EXTENDS DeviceMap

VARIABLE phase     \* phase[c]: "new", "asked" (to open), "opened" or "over"

libVars == <<vars, phase>>

LibInit == Init /\ phase = [c \in Conns |-> "new"]

SetPhase(c, p) == phase' = [phase EXCEPT ![c] = p]

\* xibridge_open_device_connection: open_device is the first request.
LibOpen(c) == phase[c] = "new" /\ OpenRequest(c) /\ SetPhase(c, "asked")

\* xibridge_device_request_response on a connection that was opened.
LibCommand(c) == phase[c] = "opened" /\ CommandRequest(c) /\ UNCHANGED phase

\* close_connection_device sends the close request and then disconnects.
LibClose(c) == phase[c] = "opened" /\ CloseRequest(c) /\ SetPhase(c, "over")

\* disconnect(), after any request, and the slot is free for a new connection.
LibDisconnect(c) == phase[c] # "new" /\ Disconnect(c) /\ SetPhase(c, "new")

\* The answer to the open request decides what the client does next.
LibReply(c) ==
    /\ Reply(c)
    /\ \/ res[c] = "yes" /\ SetPhase(c, "opened")
       \/ res[c] = "no" /\ SetPhase(c, "over")
       \/ res[c] \notin {"yes", "no"} /\ UNCHANGED phase

LibStep(c) == pc[c] # "reply" /\ Step(c) /\ UNCHANGED phase

LibNext == \E c \in Conns :
    \/ LibOpen(c) \/ LibCommand(c) \/ LibClose(c) \/ LibDisconnect(c)
    \/ LibReply(c) \/ LibStep(c)

LibSpec == LibInit /\ [][LibNext]_libVars
=============================================================================
