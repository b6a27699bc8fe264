------------------------------ MODULE MCRWLock ------------------------------
(***************************************************************************)
(* Three readers and two writers, of which b is both (a server thread      *)
(* reads and writes): a writer can overtake a woken one, two readers can   *)
(* sleep behind a blocked writer, and a reader can arrive meanwhile.       *)
(***************************************************************************)
EXTENDS RWLock
=============================================================================
