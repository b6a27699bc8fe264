--------------------------- MODULE MCServerProcess ---------------------------
(***************************************************************************)
(* An instance of ServerProcess: two connections beside the threads of     *)
(* server_main and of the GUI, so that one scans, another waits behind it, *)
(* a third arrives and skips, and a fourth walks the list.                 *)
(***************************************************************************)
EXTENDS ServerProcess
=============================================================================
