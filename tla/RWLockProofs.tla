---------------------------- MODULE RWLockProofs ----------------------------
(***************************************************************************)
(* Theorems about RWLock for any finite sets of readers and writers.       *)
(*                                                                         *)
(* The counters are what the code reads, the sets of threads are what the  *)
(* properties speak of; the inductive invariant ties each counter to the   *)
(* set it counts, and every action is a move of one thread between sets.   *)
(***************************************************************************)
EXTENDS RWLock, FiniteSetTheorems, TLAPS

Reading == At({"reading"})
Writing == At({"writing"})
BlockedReaders == At({"rwait", "rwoken"})
BlockedWriters == At({"wwait", "wwoken"})

CountersExact ==
    /\ nread = Cardinality(Reading)
    /\ nwrite = Cardinality(Writing)
    /\ nread_waiters = Cardinality(BlockedReaders)
    /\ nwrite_waiters = Cardinality(BlockedWriters)

SoleHolder == nwrite <= 1 /\ (nwrite = 1 => nread = 0)

IInv == TypeOK /\ CountersExact /\ SoleHolder /\ NoLostWakeup
-----------------------------------------------------------------------------
\* Cardinalities of finite sets that gain or lose one element.
LEMMA GainOne ==
    ASSUME NEW S, IsFiniteSet(S), NEW x, x \notin S
    PROVE  Cardinality(S \cup {x}) = Cardinality(S) + 1
BY FS_AddElement

LEMMA LoseOne ==
    ASSUME NEW S, IsFiniteSet(S), NEW x, x \in S
    PROVE  Cardinality(S \ {x}) = Cardinality(S) - 1
BY FS_RemoveElement

\* The threads at a set of control points are finitely many.
LEMMA AtFinite ==
    ASSUME NEW S
    PROVE  IsFiniteSet(At(S)) /\ Cardinality(At(S)) \in Nat
<1>1. IsFiniteSet(Threads)
  BY FiniteThreads, FS_Union DEF Threads
<1>2. At(S) \in SUBSET Threads
  BY DEF At
<1>3. QED
  BY <1>1, <1>2, FS_Subset, FS_CardinalityType

\* A counter is zero exactly when nobody is in the set it counts.
LEMMA ZeroCounters ==
    ASSUME TypeOK, CountersExact
    PROVE  /\ nread = 0 <=> Reading = {}
           /\ nwrite = 0 <=> Writing = {}
           /\ nread_waiters = 0 <=> BlockedReaders = {}
           /\ nwrite_waiters = 0 <=> BlockedWriters = {}
<1>1. /\ IsFiniteSet(Reading) /\ IsFiniteSet(Writing)
      /\ IsFiniteSet(BlockedReaders) /\ IsFiniteSet(BlockedWriters)
  BY AtFinite DEF Reading, Writing, BlockedReaders, BlockedWriters
<1>2. QED
  BY <1>1, FS_EmptySet DEF CountersExact
-----------------------------------------------------------------------------
(* How the steps of the monitor move threads between the four sets.        *)

\* Waking a writer, or nobody, on the way out of the lock: t leaves, and of the
\* four sets only the one it was in changes.
LEMMA LeaveNotifyingWriter ==
    ASSUME TypeOK, NEW t \in Threads, pc[t] \in {"reading", "writing"},
           NotifyOneWriter([pc EXCEPT ![t] = "idle"])
    PROVE  /\ pc' \in [Threads -> States]
           /\ Reading' = Reading \ {t} /\ Writing' = Writing \ {t}
           /\ BlockedReaders' = BlockedReaders /\ BlockedWriters' = BlockedWriters
           /\ At({"rwait"})' = At({"rwait"})
           /\ BlockedWriters # {} => At({"wwoken"})' # {}
<1> DEFINE p == [pc EXCEPT ![t] = "idle"]
<1>1. CASE (\A w \in Threads : p[w] # "wwait") /\ pc' = p
  BY <1>1 DEF TypeOK, States, At, Reading, Writing, BlockedReaders, BlockedWriters
<1>2. ASSUME NEW w \in Threads, p[w] = "wwait", pc' = [p EXCEPT ![w] = "wwoken"]
      PROVE  /\ pc' \in [Threads -> States]
             /\ Reading' = Reading \ {t} /\ Writing' = Writing \ {t}
             /\ BlockedReaders' = BlockedReaders /\ BlockedWriters' = BlockedWriters
             /\ At({"rwait"})' = At({"rwait"})
             /\ BlockedWriters # {} => At({"wwoken"})' # {}
  BY <1>2 DEF TypeOK, States, At, Reading, Writing, BlockedReaders, BlockedWriters
<1>3. QED
  BY <1>1, <1>2 DEF NotifyOneWriter
-----------------------------------------------------------------------------
\* The invariant holds when the lock is constructed.
LEMMA InitIInv == Init => IInv
<1> SUFFICES ASSUME Init PROVE IInv
  OBVIOUS
<1>1. TypeOK /\ SoleHolder
  BY DEF Init, TypeOK, States, SoleHolder
<1>2. \A S \in SUBSET States : "idle" \notin S => At(S) = {}
  BY DEF Init, At
<1>3. /\ Reading = {} /\ Writing = {} /\ BlockedReaders = {} /\ BlockedWriters = {}
      /\ At({"rwait"}) = {} /\ At({"wwait"}) = {}
  BY <1>2 DEF States, Reading, Writing, BlockedReaders, BlockedWriters
<1>4. CountersExact
  BY <1>3, FS_EmptySet DEF CountersExact, Init
<1>5. NoLostWakeup
  BY <1>3 DEF NoLostWakeup
<1>6. QED
  BY <1>1, <1>4, <1>5 DEF IInv

\* Every step of every thread preserves the invariant.
LEMMA NextIInv == IInv /\ [Next]_vars => IInv'
<1> SUFFICES ASSUME IInv, [Next]_vars PROVE IInv'
  OBVIOUS
<1> USE DEF IInv
<1> DEFINE R == Reading  W == Writing  BR == BlockedReaders  BW == BlockedWriters
<1>fin. /\ IsFiniteSet(R) /\ IsFiniteSet(W) /\ IsFiniteSet(BR) /\ IsFiniteSet(BW)
        /\ Cardinality(R) \in Nat /\ Cardinality(W) \in Nat
        /\ Cardinality(BR) \in Nat /\ Cardinality(BW) \in Nat
  BY AtFinite DEF Reading, Writing, BlockedReaders, BlockedWriters
<1>zero. /\ nread = 0 <=> R = {}
         /\ nwrite = 0 <=> W = {}
         /\ nread_waiters = 0 <=> BR = {}
         /\ nwrite_waiters = 0 <=> BW = {}
  BY ZeroCounters
<1>split. At({"wwait"}) \subseteq BW /\ At({"wwoken"}) \subseteq BW
          /\ At({"rwait"}) \subseteq BR /\ BW = At({"wwait"}) \cup At({"wwoken"})
  BY DEF At, BlockedReaders, BlockedWriters
<1>1. ASSUME NEW t \in Threads, ReadLock(t) PROVE IInv'
  <2>1. TypeOK' /\ t \notin R /\ R' = R \cup {t} /\ W' = W /\ BR' = BR /\ BW' = BW
        /\ At({"rwait"})' = At({"rwait"}) /\ At({"wwait"})' = At({"wwait"})
    BY <1>1 DEF ReadLock, TypeOK, States, At, Reading, Writing, BlockedReaders, BlockedWriters
  <2>2. CountersExact'
    BY <1>1, <1>fin, <2>1, GainOne DEF ReadLock, CountersExact
  <2>3. SoleHolder'
    BY <1>1 DEF ReadLock, ReadBarred, SoleHolder, TypeOK
  <2>4. NoLostWakeup'
    BY <1>1, <2>1 DEF ReadLock, ReadBarred, WriteBarred, NoLostWakeup, TypeOK
  <2>5. QED BY <2>1, <2>2, <2>3, <2>4
<1>2. ASSUME NEW t \in Threads, ReadBlock(t) PROVE IInv'
  <2>1. TypeOK' /\ t \notin BR /\ BR' = BR \cup {t} /\ R' = R /\ W' = W /\ BW' = BW
        /\ At({"wwait"})' = At({"wwait"}) /\ At({"wwoken"})' = At({"wwoken"})
    BY <1>2 DEF ReadBlock, TypeOK, States, At, Reading, Writing, BlockedReaders, BlockedWriters
  <2>2. CountersExact'
    BY <1>2, <1>fin, <2>1, GainOne DEF ReadBlock, CountersExact
  <2>3. SoleHolder'
    BY <1>2 DEF ReadBlock, SoleHolder
  <2>4. NoLostWakeup'
    BY <1>2, <2>1 DEF ReadBlock, ReadBarred, WriteBarred, NoLostWakeup
  <2>5. QED BY <2>1, <2>2, <2>3, <2>4
<1>3. ASSUME NEW t \in Threads, ReadResume(t) PROVE IInv'
  <2>1. CASE ReadBarred
    <3>1. TypeOK' /\ R' = R /\ W' = W /\ BR' = BR /\ BW' = BW
          /\ At({"wwait"})' = At({"wwait"}) /\ At({"wwoken"})' = At({"wwoken"})
      BY <1>3, <2>1 DEF ReadResume, TypeOK, States, At, Reading, Writing,
                        BlockedReaders, BlockedWriters
    <3>2. CountersExact' /\ SoleHolder'
      BY <1>3, <2>1, <3>1 DEF ReadResume, CountersExact, SoleHolder
    <3>3. NoLostWakeup'
      BY <1>3, <2>1, <3>1 DEF ReadResume, ReadBarred, WriteBarred, NoLostWakeup
    <3>4. QED BY <3>1, <3>2, <3>3
  <2>2. CASE ~ReadBarred
    <3>1. /\ pc' \in [Threads -> States] /\ t \in BR /\ t \notin R
          /\ R' = R \cup {t} /\ BR' = BR \ {t} /\ W' = W /\ BW' = BW
          /\ At({"rwait"})' = At({"rwait"})
      BY <1>3, <2>2 DEF ReadResume, TypeOK, States, At, Reading, Writing,
                        BlockedReaders, BlockedWriters
    <3>2. CountersExact'
      BY <1>3, <2>2, <1>fin, <3>1, GainOne, LoseOne DEF ReadResume, CountersExact
    <3>3. TypeOK'
      BY <1>3, <2>2, <3>1, <1>zero DEF ReadResume, TypeOK
    <3>4. SoleHolder'
      BY <1>3, <2>2 DEF ReadResume, ReadBarred, SoleHolder, TypeOK
    <3>5. NoLostWakeup'
      BY <1>3, <2>2, <3>1 DEF ReadResume, ReadBarred, WriteBarred, NoLostWakeup, TypeOK
    <3>6. QED BY <3>2, <3>3, <3>4, <3>5
  <2>3. QED BY <2>1, <2>2
<1>4. ASSUME NEW t \in Threads, ReadUnlock(t) PROVE IInv'
  <2>1. t \in R
    BY <1>4 DEF ReadUnlock, Reading, At
  <2>2. /\ pc' \in [Threads -> States]
        /\ R' = R \ {t} /\ W' = W /\ BR' = BR /\ BW' = BW
        /\ At({"rwait"})' = At({"rwait"})
        /\ BW # {} => At({"wwoken"})' # {}
    <3>1. CASE nwrite_waiters > 0 /\ NotifyOneWriter([pc EXCEPT ![t] = "idle"])
      <4>1. t \notin W
        BY <1>4 DEF ReadUnlock, Writing, At
      <4>2. QED
        BY <1>4, <3>1, <4>1, LeaveNotifyingWriter DEF ReadUnlock
    <3>2. CASE nwrite_waiters = 0 /\ pc' = [pc EXCEPT ![t] = "idle"]
      BY <1>4, <3>2, <1>zero DEF ReadUnlock, TypeOK, States, At, Reading, Writing,
                                 BlockedReaders, BlockedWriters
    <3>3. QED BY <1>4, <3>1, <3>2 DEF ReadUnlock
  <2>3. CountersExact'
    BY <1>4, <1>fin, <2>1, <2>2, LoseOne DEF ReadUnlock, CountersExact
  <2>4. TypeOK'
    BY <1>4, <1>zero, <2>1, <2>2 DEF ReadUnlock, TypeOK
  <2>5. SoleHolder'
    BY <1>4, <1>zero, <2>1 DEF ReadUnlock, SoleHolder, TypeOK
  <2>6. NoLostWakeup'
    <3>1. At({"wwait"})' # {} => BW # {}
      BY <2>2 DEF At, BlockedWriters
    <3>2. QED
      BY <1>4, <2>2, <3>1 DEF ReadUnlock, ReadBarred, WriteBarred, NoLostWakeup
  <2>7. QED BY <2>3, <2>4, <2>5, <2>6
<1>5. ASSUME NEW t \in Threads, WriteLock(t) PROVE IInv'
  <2>1. TypeOK' /\ t \notin W /\ W' = W \cup {t} /\ R' = R /\ BR' = BR /\ BW' = BW
    BY <1>5 DEF WriteLock, TypeOK, States, At, Reading, Writing, BlockedReaders, BlockedWriters
  <2>2. CountersExact'
    BY <1>5, <1>fin, <2>1, GainOne DEF WriteLock, CountersExact
  <2>3. SoleHolder'
    BY <1>5 DEF WriteLock, WriteBarred, SoleHolder, TypeOK
  <2>4. NoLostWakeup'
    BY <1>5 DEF WriteLock, ReadBarred, WriteBarred, NoLostWakeup, TypeOK
  <2>5. QED BY <2>1, <2>2, <2>3, <2>4
<1>6. ASSUME NEW t \in Threads, WriteBlock(t) PROVE IInv'
  <2>1. TypeOK' /\ t \notin BW /\ BW' = BW \cup {t} /\ R' = R /\ W' = W /\ BR' = BR
    BY <1>6 DEF WriteBlock, TypeOK, States, At, Reading, Writing, BlockedReaders, BlockedWriters
  <2>2. CountersExact'
    BY <1>6, <1>fin, <2>1, GainOne DEF WriteBlock, CountersExact
  <2>3. SoleHolder'
    BY <1>6 DEF WriteBlock, SoleHolder
  <2>4. NoLostWakeup'
    BY <1>6 DEF WriteBlock, ReadBarred, WriteBarred, NoLostWakeup, TypeOK
  <2>5. QED BY <2>1, <2>2, <2>3, <2>4
<1>7. ASSUME NEW t \in Threads, WriteResume(t) PROVE IInv'
  <2>1. CASE WriteBarred
    <3>1. TypeOK' /\ R' = R /\ W' = W /\ BR' = BR /\ BW' = BW
          /\ At({"rwait"})' = At({"rwait"})
      BY <1>7, <2>1 DEF WriteResume, TypeOK, States, At, Reading, Writing,
                        BlockedReaders, BlockedWriters
    <3>2. CountersExact' /\ SoleHolder'
      BY <1>7, <2>1, <3>1 DEF WriteResume, CountersExact, SoleHolder
    <3>3. NoLostWakeup'
      BY <1>7, <2>1, <3>1 DEF WriteResume, ReadBarred, WriteBarred, NoLostWakeup
    <3>4. QED BY <3>1, <3>2, <3>3
  <2>2. CASE ~WriteBarred
    <3>1. /\ pc' \in [Threads -> States] /\ t \in BW /\ t \notin W
          /\ W' = W \cup {t} /\ BW' = BW \ {t} /\ R' = R /\ BR' = BR
      BY <1>7, <2>2 DEF WriteResume, TypeOK, States, At, Reading, Writing,
                        BlockedReaders, BlockedWriters
    <3>2. CountersExact'
      BY <1>7, <2>2, <1>fin, <3>1, GainOne, LoseOne DEF WriteResume, CountersExact
    <3>3. TypeOK'
      BY <1>7, <2>2, <3>1, <1>zero DEF WriteResume, TypeOK
    <3>4. SoleHolder'
      BY <1>7, <2>2 DEF WriteResume, WriteBarred, SoleHolder, TypeOK
    <3>5. NoLostWakeup'
      BY <1>7, <2>2 DEF WriteResume, ReadBarred, WriteBarred, NoLostWakeup, TypeOK
    <3>6. QED BY <3>2, <3>3, <3>4, <3>5
  <2>3. QED BY <2>1, <2>2
<1>8. ASSUME NEW t \in Threads, WriteUnlock(t) PROVE IInv'
  <2>1. t \in W /\ t \notin R
    BY <1>8 DEF WriteUnlock, Writing, Reading, At
  <2>2. /\ pc' \in [Threads -> States]
        /\ R' = R /\ W' = W \ {t} /\ BR' = BR /\ BW' = BW
        /\ BW # {} => At({"wwoken"})' # {}
        /\ BW = {} => At({"rwait"})' = {}
    <3>1. CASE nwrite_waiters > 0 /\ NotifyOneWriter([pc EXCEPT ![t] = "idle"])
      <4>1. pc[t] = "writing" /\ nwrite_waiters # 0
        BY <1>8, <3>1 DEF WriteUnlock, TypeOK
      <4>2. BW # {}
        BY <4>1, <1>zero
      <4>3. QED
        BY <3>1, <2>1, <4>1, <4>2, LeaveNotifyingWriter
    <3>2. CASE nwrite_waiters = 0 /\ NotifyAllReaders([pc EXCEPT ![t] = "idle"])
      BY <1>8, <3>2, <1>zero DEF WriteUnlock, NotifyAllReaders, TypeOK, States, At, Reading,
                                 Writing, BlockedReaders, BlockedWriters
    <3>3. CASE nwrite_waiters = 0 /\ nread_waiters = 0 /\ pc' = [pc EXCEPT ![t] = "idle"]
      BY <1>8, <3>3, <1>zero DEF WriteUnlock, TypeOK, States, At, Reading, Writing,
                                 BlockedReaders, BlockedWriters
    <3>4. QED BY <1>8, <3>1, <3>2, <3>3 DEF WriteUnlock
  <2>3. CountersExact'
    BY <1>8, <1>fin, <2>1, <2>2, LoseOne DEF WriteUnlock, CountersExact
  <2>4. TypeOK'
    BY <1>8, <1>zero, <2>1, <2>2 DEF WriteUnlock, TypeOK
  <2>5. SoleHolder'
    BY <1>8 DEF WriteUnlock, SoleHolder, TypeOK
  <2>6. NoLostWakeup'
    <3>1. At({"wwait"})' # {} => BW # {}
      BY <2>2 DEF At, BlockedWriters
    <3>2. QED
      BY <1>8, <1>zero, <2>2, <3>1 DEF WriteUnlock, ReadBarred, WriteBarred, NoLostWakeup, TypeOK
  <2>7. QED BY <2>3, <2>4, <2>5, <2>6
<1>9. ASSUME NEW t \in Threads, SpuriousWake(t) PROVE IInv'
  <2>1. TypeOK' /\ R' = R /\ W' = W /\ BR' = BR /\ BW' = BW
        /\ At({"rwait"})' \subseteq At({"rwait"}) /\ At({"wwait"})' \subseteq At({"wwait"})
        /\ At({"wwoken"}) \subseteq At({"wwoken"})'
    BY <1>9 DEF SpuriousWake, TypeOK, States, At, Reading, Writing,
                BlockedReaders, BlockedWriters
  <2>2. CountersExact' /\ SoleHolder'
    BY <1>9, <2>1 DEF SpuriousWake, CountersExact, SoleHolder
  <2>3. NoLostWakeup'
    BY <1>9, <2>1 DEF SpuriousWake, ReadBarred, WriteBarred, NoLostWakeup
  <2>4. QED BY <2>1, <2>2, <2>3
<1>10. CASE UNCHANGED vars
  BY <1>10 DEF vars, TypeOK, CountersExact, SoleHolder, NoLostWakeup, At, Reading, Writing,
               BlockedReaders, BlockedWriters, ReadBarred, WriteBarred
<1>11. QED
  BY <1>1, <1>2, <1>3, <1>4, <1>5, <1>6, <1>7, <1>8, <1>9, <1>10 DEF Next, Step, Threads
-----------------------------------------------------------------------------
(* The theorems.                                                           *)

\* The invariant holds in every reachable state of the lock.
THEOREM Invariance == Spec => []IInv
<1>1. Init => IInv
  BY InitIInv
<1>2. IInv /\ [Next]_vars => IInv'
  BY NextIInv
<1>3. QED
  BY <1>1, <1>2, PTL DEF Spec

\* The counters never leave the naturals (no decrement of a zero uint32_t) and
\* threads stay at the control points of the monitor.
THEOREM TypeCorrect == Spec => []TypeOK
<1>1. IInv => TypeOK
  BY DEF IInv
<1>2. QED
  BY <1>1, Invariance, PTL

\* What the invariant says about the threads rather than the counters.
LEMMA IInvExclusion == IInv => Exclusion
<1> SUFFICES ASSUME IInv, NEW t \in At({"writing"})
             PROVE  At({"reading", "writing"}) = {t}
  BY DEF Exclusion
<1>1. IsFiniteSet(Reading) /\ IsFiniteSet(Writing)
      /\ Cardinality(Writing) \in Nat
  BY AtFinite DEF Reading, Writing
<1>2. nwrite # 0
  BY ZeroCounters DEF IInv, Writing
<1>3. nwrite = 1 /\ nread = 0
  BY <1>2 DEF IInv, SoleHolder, TypeOK
<1>4. Reading = {}
  BY <1>3, ZeroCounters DEF IInv
<1>5. PICK w : Writing = {w}
  BY <1>1, <1>3, FS_Singleton DEF IInv, CountersExact
<1>6. At({"reading", "writing"}) = Reading \cup Writing
  BY DEF At, Reading, Writing
<1>7. QED
  BY <1>4, <1>5, <1>6 DEF Writing

\* A writer is alone in the lock.
THEOREM WriterIsAlone == Spec => []Exclusion
BY Invariance, IInvExclusion, PTL

\* No thread sleeps on a condition that has come true with nobody to wake it.
THEOREM WakeupsAreNotLost == Spec => []NoLostWakeup
<1>1. IInv => NoLostWakeup
  BY DEF IInv
<1>2. QED
  BY <1>1, Invariance, PTL

LEMMA IInvRequestedExact == IInv => RequestedExact
<1> SUFFICES ASSUME IInv PROVE RequestedExact
  OBVIOUS
<1>1. At({"writing"}) \cup At({"wwait", "wwoken"}) = Writing \cup BlockedWriters
  BY DEF At, Writing, BlockedWriters
<1>2. (nwrite = 0 <=> Writing = {}) /\ (nwrite_waiters = 0 <=> BlockedWriters = {})
  BY ZeroCounters DEF IInv
<1>3. QED
  BY <1>1, <1>2 DEF RequestedExact, IsWriteLockRequested, Abs!IsWriteLockRequested

\* is_write_lock_requested() tells exactly whether a writer is in or at the lock.
THEOREM WriteRequestIsVisible == Spec => []RequestedExact
BY Invariance, IInvRequestedExact, PTL
-----------------------------------------------------------------------------
(* Refinement of the abstract lock.                                        *)

\* A step of the monitor is one step of the abstract lock or leaves the sets of
\* holders and of blocked writers alone.
LEMMA StepRefines == IInv /\ [Next]_vars => [Abs!Next]_(Abs!vars)
<1> SUFFICES ASSUME IInv, [Next]_vars PROVE [Abs!Next]_(Abs!vars)
  OBVIOUS
<1> DEFINE R == At({"reading"})  W == At({"writing"})  BW == At({"wwait", "wwoken"})
<1>zero. /\ nread = 0 <=> R = {}
         /\ nwrite = 0 <=> W = {}
         /\ nwrite_waiters = 0 <=> BW = {}
  BY ZeroCounters DEF IInv, Reading, Writing, BlockedWriters
<1>type. TypeOK
  BY DEF IInv
<1> USE DEF TypeOK, States, At
<1>1. ASSUME NEW t \in Threads, ReadLock(t) PROVE Abs!AcquireRead(t)
  <2>1. nwrite = 0 /\ nwrite_waiters = 0
    BY <1>1, <1>type DEF ReadLock, ReadBarred
  <2>2. QED
    BY <1>1, <1>type, <1>zero, <2>1 DEF ReadLock, Abs!AcquireRead, Abs!Outside
<1>2. ASSUME NEW t \in Threads, ReadBlock(t) PROVE UNCHANGED Abs!vars
  BY <1>2, <1>type DEF ReadBlock, Abs!vars
<1>3. ASSUME NEW t \in Threads, ReadResume(t) PROVE [Abs!AcquireRead(t)]_(Abs!vars)
  <2>1. CASE ReadBarred
    BY <1>3, <1>type, <2>1 DEF ReadResume, Abs!vars
  <2>2. CASE ~ReadBarred
    <3>1. nwrite = 0 /\ nwrite_waiters = 0
      BY <2>2, <1>type DEF ReadBarred
    <3>2. QED
      BY <1>3, <1>type, <1>zero, <2>2, <3>1 DEF ReadResume, Abs!AcquireRead, Abs!Outside
  <2>3. QED BY <2>1, <2>2
<1>4. ASSUME NEW t \in Threads, ReadUnlock(t) PROVE Abs!ReleaseRead(t)
  <2>1. pc[t] = "reading" /\ t \in R /\ t \notin W
    BY <1>4 DEF ReadUnlock
  <2>2. CASE NotifyOneWriter([pc EXCEPT ![t] = "idle"])
    BY <1>type, <2>1, <2>2, LeaveNotifyingWriter
       DEF Abs!ReleaseRead, Reading, Writing, BlockedWriters
  <2>3. CASE pc' = [pc EXCEPT ![t] = "idle"]
    BY <1>type, <2>1, <2>3 DEF Abs!ReleaseRead
  <2>4. QED BY <1>4, <2>2, <2>3 DEF ReadUnlock
<1>5. ASSUME NEW t \in Threads, WriteLock(t) PROVE Abs!AcquireWrite(t)
  <2>1. nread = 0 /\ nwrite = 0
    BY <1>5, <1>type DEF WriteLock, WriteBarred
  <2>2. W' = {t} /\ R' = R /\ BW' = BW \ {t}
    BY <1>5, <1>type, <1>zero, <2>1 DEF WriteLock
  <2>3. QED
    BY <1>5, <1>type, <1>zero, <2>1, <2>2 DEF WriteLock, Abs!AcquireWrite, Abs!Outside
<1>6. ASSUME NEW t \in Threads, WriteBlock(t) PROVE Abs!RequestWrite(t)
  <2>1. R \cup W # {}
    BY <1>6, <1>zero DEF WriteBlock, WriteBarred
  <2>2. QED
    BY <1>6, <1>type, <2>1 DEF WriteBlock, Abs!RequestWrite, Abs!Outside
<1>7. ASSUME NEW t \in Threads, WriteResume(t) PROVE [Abs!AcquireWrite(t)]_(Abs!vars)
  <2>1. CASE WriteBarred
    BY <1>7, <1>type, <2>1 DEF WriteResume, Abs!vars
  <2>2. CASE ~WriteBarred
    <3>1. nread = 0 /\ nwrite = 0
      BY <2>2, <1>type DEF WriteBarred
    <3>2. W' = {t} /\ R' = R /\ BW' = BW \ {t}
      BY <1>7, <1>type, <1>zero, <2>2, <3>1 DEF WriteResume
    <3>3. QED
      BY <1>7, <1>type, <1>zero, <3>1, <3>2 DEF WriteResume, Abs!AcquireWrite, Abs!Outside
  <2>3. QED BY <2>1, <2>2
<1>8. ASSUME NEW t \in Threads, WriteUnlock(t) PROVE Abs!ReleaseWrite(t)
  <2>1. pc[t] = "writing" /\ t \in W /\ t \notin R
    BY <1>8 DEF WriteUnlock
  <2>2. CASE NotifyOneWriter([pc EXCEPT ![t] = "idle"])
    BY <1>type, <2>1, <2>2, LeaveNotifyingWriter
       DEF Abs!ReleaseWrite, Reading, Writing, BlockedWriters
  <2>3. CASE NotifyAllReaders([pc EXCEPT ![t] = "idle"])
    BY <1>type, <2>1, <2>3 DEF Abs!ReleaseWrite, NotifyAllReaders
  <2>4. CASE pc' = [pc EXCEPT ![t] = "idle"]
    BY <1>type, <2>1, <2>4 DEF Abs!ReleaseWrite
  <2>5. QED BY <1>8, <2>2, <2>3, <2>4 DEF WriteUnlock
<1>9. ASSUME NEW t \in Threads, SpuriousWake(t) PROVE UNCHANGED Abs!vars
  BY <1>9, <1>type DEF SpuriousWake, Abs!vars
<1>10. ASSUME UNCHANGED vars PROVE UNCHANGED Abs!vars
  BY <1>10 DEF vars, Abs!vars
<1>11. QED
  BY <1>1, <1>2, <1>3, <1>4, <1>5, <1>6, <1>7, <1>8, <1>9, <1>10
     DEF Next, Step, Threads, Abs!Next

\* The monitor of rw_lock.h implements the abstract write-preference lock, and
\* is_write_lock_requested() says what the abstract lock says.
THEOREM Refinement == Spec => ImplementsRWLock
<1>1. Init => Abs!Init
  BY DEF Init, Abs!Init, At
<1>2. IInv /\ [Next]_vars => [Abs!Next]_(Abs!vars)
  BY StepRefines
<1>3. Spec => Abs!Spec
  BY <1>1, <1>2, Invariance, PTL DEF Spec, Abs!Spec
<1>4. QED
  BY <1>3, WriteRequestIsVisible, PTL DEF ImplementsRWLock
=============================================================================
