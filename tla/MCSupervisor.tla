---------------------------- MODULE MCSupervisor ----------------------------
(***************************************************************************)
(* Six requests and a limit of 2 in place of 30: the limit can be passed   *)
(* by two, before and after a reset.                                       *)
(***************************************************************************)
EXTENDS Supervisor
=============================================================================
