------------------------------- MODULE RWLock -------------------------------
(***************************************************************************)
(* ReadWriteLock of src/server/rw_lock.h: a monitor over one std::mutex,   *)
(* two condition variables and four counters.                              *)
(*                                                                         *)
(* The body of each method runs with _mtx held from its first statement to *)
(* its end or to condition_variable::wait, so each such stretch is one     *)
(* step.  A thread in "rwait" ("wwait") is in the wait set of _rcond       *)
(* (_wcond); one in "rwoken" ("wwoken") has left it and has yet to take    *)
(* _mtx again and re-evaluate the loop condition.                          *)
(***************************************************************************)
EXTENDS Naturals, FiniteSets

CONSTANTS Readers, Writers     \* the threads that call read_lock, write_lock

ASSUME FiniteThreads == IsFiniteSet(Readers) /\ IsFiniteSet(Writers)

Threads == Readers \cup Writers

VARIABLES pc, nread, nread_waiters, nwrite, nwrite_waiters

vars == <<pc, nread, nread_waiters, nwrite, nwrite_waiters>>

States == {"idle", "rwait", "rwoken", "reading", "wwait", "wwoken", "writing"}

At(S) == {t \in Threads : pc[t] \in S}

TypeOK ==
    /\ pc \in [Threads -> States]
    /\ nread \in Nat /\ nread_waiters \in Nat
    /\ nwrite \in Nat /\ nwrite_waiters \in Nat

Init ==
    /\ pc = [t \in Threads |-> "idle"]
    /\ nread = 0 /\ nread_waiters = 0
    /\ nwrite = 0 /\ nwrite_waiters = 0

\* The loop conditions of read_lock (negated: a reader is barred) and write_lock.
ReadBarredByHolder == nwrite > 0      \* mutant: readers overtake waiting writers
ReadBarred == nwrite > 0 \/ nwrite_waiters > 0
WriteBarred == nread > 0 \/ nwrite > 0

IsWriteLockRequested == nwrite # 0 \/ nwrite_waiters # 0

\* read_lock() that finds the lock open.
ReadLock(t) ==
    /\ pc[t] = "idle" /\ ~ReadBarred
    /\ nread' = nread + 1
    /\ pc' = [pc EXCEPT ![t] = "reading"]
    /\ UNCHANGED <<nread_waiters, nwrite, nwrite_waiters>>

\* read_lock() up to its first _rcond.wait.
ReadBlock(t) ==
    /\ pc[t] = "idle" /\ ReadBarred
    /\ nread_waiters' = nread_waiters + 1
    /\ pc' = [pc EXCEPT ![t] = "rwait"]
    /\ UNCHANGED <<nread, nwrite, nwrite_waiters>>

\* mutant: a reader that had to wait is not counted when it gets in.
ReadResumeUncounted(t) ==
    /\ pc[t] = "rwoken"
    /\ \/ ReadBarred /\ pc' = [pc EXCEPT ![t] = "rwait"] /\ UNCHANGED nread_waiters
       \/ ~ReadBarred /\ pc' = [pc EXCEPT ![t] = "reading"] /\ nread_waiters' = nread_waiters - 1
    /\ UNCHANGED <<nread, nwrite, nwrite_waiters>>

\* _rcond.wait returns: the loop condition is evaluated again.
ReadResume(t) ==
    /\ pc[t] = "rwoken"
    /\ \/ /\ ReadBarred
          /\ pc' = [pc EXCEPT ![t] = "rwait"]
          /\ UNCHANGED <<nread, nread_waiters>>
       \/ /\ ~ReadBarred
          /\ nread_waiters' = nread_waiters - 1
          /\ nread' = nread + 1
          /\ pc' = [pc EXCEPT ![t] = "reading"]
    /\ UNCHANGED <<nwrite, nwrite_waiters>>

\* t leaves with program counter p, and one waiter of _wcond, if any, is woken.
NotifyOneWriter(p) ==
    \/ /\ \A w \in Threads : p[w] # "wwait"
       /\ pc' = p
    \/ \E w \in Threads : p[w] = "wwait" /\ pc' = [p EXCEPT ![w] = "wwoken"]

\* Every waiter of _rcond is woken.
NotifyAllReaders(p) ==
    pc' = [r \in Threads |-> IF p[r] = "rwait" THEN "rwoken" ELSE p[r]]

ReadUnlock(t) ==
    /\ pc[t] = "reading"
    /\ nread' = nread - 1
    /\ LET p == [pc EXCEPT ![t] = "idle"]
       IN  \/ nwrite_waiters > 0 /\ NotifyOneWriter(p)
           \/ nwrite_waiters = 0 /\ pc' = p
    /\ UNCHANGED <<nread_waiters, nwrite, nwrite_waiters>>

WriteLock(t) ==
    /\ pc[t] = "idle" /\ ~WriteBarred
    /\ nwrite' = nwrite + 1
    /\ pc' = [pc EXCEPT ![t] = "writing"]
    /\ UNCHANGED <<nread, nread_waiters, nwrite_waiters>>

WriteBlock(t) ==
    /\ pc[t] = "idle" /\ WriteBarred
    /\ nwrite_waiters' = nwrite_waiters + 1
    /\ pc' = [pc EXCEPT ![t] = "wwait"]
    /\ UNCHANGED <<nread, nread_waiters, nwrite>>

WriteResume(t) ==
    /\ pc[t] = "wwoken"
    /\ \/ /\ WriteBarred
          /\ pc' = [pc EXCEPT ![t] = "wwait"]
          /\ UNCHANGED <<nwrite, nwrite_waiters>>
       \/ /\ ~WriteBarred
          /\ nwrite_waiters' = nwrite_waiters - 1
          /\ nwrite' = nwrite + 1
          /\ pc' = [pc EXCEPT ![t] = "writing"]
    /\ UNCHANGED <<nread, nread_waiters>>

\* mutant: waiting readers are preferred to waiting writers.
WriteUnlockReadersFirst(t) ==
    /\ pc[t] = "writing"
    /\ nwrite' = nwrite - 1
    /\ LET p == [pc EXCEPT ![t] = "idle"]
       IN  \/ nread_waiters > 0 /\ NotifyAllReaders(p)
           \/ nread_waiters = 0 /\ nwrite_waiters > 0 /\ NotifyOneWriter(p)
           \/ nread_waiters = 0 /\ nwrite_waiters = 0 /\ pc' = p
    /\ UNCHANGED <<nread, nread_waiters, nwrite_waiters>>

WriteUnlock(t) ==
    /\ pc[t] = "writing"
    /\ nwrite' = nwrite - 1
    /\ LET p == [pc EXCEPT ![t] = "idle"]
       IN  \/ nwrite_waiters > 0 /\ NotifyOneWriter(p)
           \/ nwrite_waiters = 0 /\ nread_waiters > 0 /\ NotifyAllReaders(p)
           \/ nwrite_waiters = 0 /\ nread_waiters = 0 /\ pc' = p
    /\ UNCHANGED <<nread, nread_waiters, nwrite_waiters>>

\* std::condition_variable::wait may return without a notification.
SpuriousWake(t) ==
    /\ \/ pc[t] = "rwait" /\ pc' = [pc EXCEPT ![t] = "rwoken"]
       \/ pc[t] = "wwait" /\ pc' = [pc EXCEPT ![t] = "wwoken"]
    /\ UNCHANGED <<nread, nread_waiters, nwrite, nwrite_waiters>>

\* What a thread inside the lock does by itself; starting to lock is its caller's choice.
Step(t) == ReadResume(t) \/ ReadUnlock(t) \/ WriteResume(t) \/ WriteUnlock(t)

Next ==
    \/ \E t \in Readers : ReadLock(t) \/ ReadBlock(t)
    \/ \E t \in Writers : WriteLock(t) \/ WriteBlock(t)
    \/ \E t \in Threads : Step(t) \/ SpuriousWake(t)

Spec == Init /\ [][Next]_vars

\* The scheduler runs a thread that can run, _mtx is handed to every thread that
\* asks for it, and a holder of the lock releases it (no caller in server/
\* blocks for ever between lock and unlock).
Fairness == \A t \in Threads : WF_vars(Step(t))

FairSpec == Spec /\ Fairness
-----------------------------------------------------------------------------
(* Safety *)

\* A thread in write_lock..write_unlock is alone: the loop conditions are
\* evaluated over counters, so this rests on the counters being right after
\* every order of blocking, waking, overtaking and re-blocking.
Exclusion ==
    \A t \in At({"writing"}) : At({"reading", "writing"}) = {t}

\* Nobody sleeps on a condition that has come true with no one left to wake
\* it: when the lock is free and writers wait, one of them has been woken;
\* when no writer holds or wants the lock, no reader sleeps.
NoLostWakeup ==
    /\ ~WriteBarred /\ At({"wwait"}) # {} => At({"wwoken"}) # {}
    /\ ~ReadBarred => At({"rwait"}) = {}

Abs == INSTANCE RWLockSpec WITH
    readers <- At({"reading"}),
    writers <- At({"writing"}),
    waiting <- At({"wwait", "wwoken"})

\* is_write_lock_requested() is exact: true if and only if some thread holds the
\* write lock or is blocked in write_lock (ADevId2UsbConfor::list_sp_ports skips
\* a rescan on its word).
RequestedExact == IsWriteLockRequested <=> Abs!IsWriteLockRequested

\* The monitor implements the abstract write-preference lock: in particular no
\* reader is admitted past a writer that has blocked in write_lock, and
\* is_write_lock_requested() answers as the abstract lock does.
ImplementsRWLock == Abs!Spec /\ []RequestedExact
-----------------------------------------------------------------------------
(* Liveness, under FairSpec *)

Held == {"reading", "writing"}

Waiting == At({"rwait", "rwoken", "wwait", "wwoken"})

\* The lock never goes dead: again and again either nobody is blocked in it or
\* somebody is let in.  (Per thread this would be too much to ask: a writer that
\* arrives may overtake a woken one, so with several writers one may starve.)
LockProgress ==
    \/ []<>(Waiting = {})
    \/ []<><<\E t \in Threads : pc[t] \notin Held /\ pc'[t] \in Held>>_vars

\* Write preference: a blocked writer that no other writer competes with gets in
\* although readers keep coming.
WriterAdmitted ==
    \A t \in Writers :
        <>[](At({"wwait", "wwoken", "writing"}) \subseteq {t}) =>
            (pc[t] = "wwait" ~> pc[t] = "writing")
=============================================================================
