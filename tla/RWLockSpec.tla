----------------------------- MODULE RWLockSpec -----------------------------
(***************************************************************************)
(* What a caller of ReadWriteLock (src/server/rw_lock.h) relies on: many   *)
(* readers or one writer, and a writer that has announced itself keeps     *)
(* later readers out ("a write-preference Read-Write lock", rw_lock.h:6).  *)
(* RWLock.tla is the monitor that implements it; MutexPool.tla and         *)
(* DeviceMap.tla use it as their lock.                                     *)
(***************************************************************************)
CONSTANT Threads

VARIABLES readers,   \* threads between read_lock() and read_unlock()
          writers,   \* threads between write_lock() and write_unlock()
          waiting    \* threads blocked inside write_lock()

vars == <<readers, writers, waiting>>

TypeOK == readers \subseteq Threads /\ writers \subseteq Threads /\ waiting \subseteq Threads

Init == readers = {} /\ writers = {} /\ waiting = {}

Outside(t) == t \notin readers \cup writers

\* write_lock() of a lock somebody holds: the caller blocks and is counted.
RequestWrite(t) ==
    /\ Outside(t) /\ t \notin waiting
    /\ readers \cup writers # {}
    /\ waiting' = waiting \cup {t}
    /\ UNCHANGED <<readers, writers>>

\* write_lock() returns.  A thread that never waited may overtake those that do.
AcquireWrite(t) ==
    /\ Outside(t)
    /\ readers = {} /\ writers = {}
    /\ writers' = {t}
    /\ waiting' = waiting \ {t}
    /\ UNCHANGED readers

ReleaseWrite(t) ==
    /\ t \in writers
    /\ writers' = writers \ {t}
    /\ UNCHANGED <<readers, waiting>>

\* read_lock() returns: no writer holds the lock and none waits for it.
AcquireRead(t) ==
    /\ Outside(t) /\ t \notin waiting
    /\ writers = {} /\ waiting = {}
    /\ readers' = readers \cup {t}
    /\ UNCHANGED <<writers, waiting>>

ReleaseRead(t) ==
    /\ t \in readers
    /\ readers' = readers \ {t}
    /\ UNCHANGED <<writers, waiting>>

\* What is_write_lock_requested() says: a writer is in the lock or blocked at it.
IsWriteLockRequested == writers \cup waiting # {}

Next == \E t \in Threads : \/ RequestWrite(t) \/ AcquireWrite(t) \/ ReleaseWrite(t)
                           \/ AcquireRead(t) \/ ReleaseRead(t)

Spec == Init /\ [][Next]_vars
=============================================================================
