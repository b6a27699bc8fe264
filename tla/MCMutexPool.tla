---------------------------- MODULE MCMutexPool ----------------------------
(***************************************************************************)
(* Three threads and two devices: two threads can miss the same device     *)
(* while the third makes the mutex of the other, with a mutex to spare.    *)
(***************************************************************************)
EXTENDS MutexPool
=============================================================================
