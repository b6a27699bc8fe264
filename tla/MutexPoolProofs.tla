--------------------------- MODULE MutexPoolProofs ---------------------------
(***************************************************************************)
(* Theorems about MutexPool for any sets of threads, devices and mutexes.  *)
(***************************************************************************)
EXTENDS MutexPool, TLAPS

\* Devices do not share a mutex, a reference taken stays the device's mutex, and
\* only mutexes of the pool are locked.
NodesDistinct ==
    \A d, e \in DevIds : pool[d] = pool[e] /\ pool[d] # Absent => d = e

RefsFit ==
    \A t \in Threads : pc[t] = "l_lock" => pool[dev[t]] # Absent /\ ref[t] = pool[dev[t]]

LockedInPool ==
    \A m \in Mutexes : holder[m] # NoThread => \E d \in DevIds : pool[d] = m

PoolInv == TypeOK /\ NodesDistinct /\ RefsFit /\ LockedInPool /\ UnlockFindsLocked
-----------------------------------------------------------------------------
\* The invariant holds for the empty pool.
LEMMA InitPoolInv == Init => PoolInv
BY NonesAssumption
   DEF Init, PoolInv, TypeOK, RW!Init, RW!TypeOK, NodesDistinct, RefsFit, LockedInPool,
       UnlockFindsLocked, Inside

\* The steps that touch neither the pool nor a mutex, and leave nobody inside.
Quiet(t) ==
    \/ LockRequest(t) \/ PoolReadLock(t) \/ PoolWriteBlocks(t) \/ PoolWriteLock(t)
    \/ UnlockRequest(t)

\* Every step keeps the invariant.
LEMMA NextPoolInv == PoolInv /\ [Next]_vars => PoolInv'
<1> SUFFICES ASSUME PoolInv, [Next]_vars PROVE PoolInv'
  OBVIOUS
<1> USE NonesAssumption DEF PoolInv, TypeOK, RW!TypeOK, Goes, lock
<1>1. ASSUME NEW t \in Threads, Quiet(t) PROVE PoolInv'
  <2>1. pool' = pool /\ holder' = holder /\ ref' = ref
    BY <1>1 DEF Quiet, LockRequest, PoolReadLock, PoolWriteBlocks, PoolWriteLock, UnlockRequest
  <2>2. TypeOK'
    BY <1>1 DEF Quiet, LockRequest, PoolReadLock, PoolWriteBlocks, PoolWriteLock, UnlockRequest,
                RW!AcquireRead, RW!AcquireWrite, RW!RequestWrite
  <2>3. NodesDistinct' /\ LockedInPool'
    BY <2>1 DEF NodesDistinct, LockedInPool
  <2>4. /\ \A u \in Inside' : u \in Inside /\ dev'[u] = dev[u]
        /\ \A u \in Threads : pc'[u] = "l_lock" => pc[u] = "l_lock" /\ dev'[u] = dev[u]
    BY <1>1 DEF Quiet, LockRequest, PoolReadLock, PoolWriteBlocks, PoolWriteLock, UnlockRequest,
                Inside
  <2>5. RefsFit' /\ UnlockFindsLocked'
    BY <2>1, <2>4 DEF RefsFit, UnlockFindsLocked
  <2>6. QED
    BY <2>2, <2>3, <2>5
<1>2. ASSUME NEW t \in Threads, Find(t) PROVE PoolInv'
  <2>1. TypeOK'
    BY <1>2 DEF Find, RW!ReleaseRead
  <2>2. NodesDistinct' /\ LockedInPool' /\ RefsFit' /\ UnlockFindsLocked'
    BY <1>2 DEF Find, NodesDistinct, LockedInPool, RefsFit, UnlockFindsLocked, Inside
  <2>3. QED
    BY <2>1, <2>2
<1>3. ASSUME NEW t \in Threads, Insert(t) PROVE PoolInv'
  <2>1. /\ dev[t] \in DevIds
        /\ pool' = pool \/ /\ pool[dev[t]] = Absent
                           /\ \E m \in Fresh : pool' = [pool EXCEPT ![dev[t]] = m]
        /\ ref' = [ref EXCEPT ![t] = pool'[dev[t]]]
        /\ holder' = holder /\ dev' = dev
        /\ pc' = [pc EXCEPT ![t] = "l_lock"] /\ pc[t] = "l_insert"
    BY <1>3 DEF Insert
  <2>2. /\ pool' \in [DevIds -> Mutexes \cup {Absent}]
        /\ pool'[dev[t]] \in Mutexes
        /\ \A d \in DevIds : pool[d] # Absent => pool'[d] = pool[d]
    BY <1>3, <2>1 DEF Insert, Fresh
  <2>3. TypeOK'
    BY <1>3, <2>1, <2>2 DEF Insert, RW!ReleaseWrite
  <2>4. NodesDistinct'
    BY <2>1 DEF NodesDistinct, Fresh
  <2>5. LockedInPool'
    BY <2>1, <2>2 DEF LockedInPool
  <2>6. RefsFit' /\ UnlockFindsLocked'
    BY <2>1, <2>2 DEF RefsFit, UnlockFindsLocked, Inside
  <2>7. QED
    BY <2>3, <2>4, <2>5, <2>6
<1>4. ASSUME NEW t \in Threads, MutexLock(t) PROVE PoolInv'
  <2>1. ref[t] \in Mutexes /\ ref[t] = pool[dev[t]] /\ dev[t] \in DevIds
    BY <1>4 DEF MutexLock, RefsFit
  <2>2. TypeOK'
    BY <1>4, <2>1 DEF MutexLock
  <2>3. NodesDistinct' /\ LockedInPool' /\ RefsFit'
    BY <1>4, <2>1 DEF MutexLock, NodesDistinct, LockedInPool, RefsFit
  <2>4. UnlockFindsLocked'
    BY <1>4, <2>1 DEF MutexLock, UnlockFindsLocked, Inside
  <2>5. QED
    BY <2>2, <2>3, <2>4
<1>5. ASSUME NEW t \in Threads, UnlockFind(t) PROVE PoolInv'
  <2>1. TypeOK'
    BY <1>5 DEF UnlockFind, RW!ReleaseRead
  <2>2. NodesDistinct' /\ LockedInPool' /\ RefsFit' /\ UnlockFindsLocked'
    BY <1>5 DEF UnlockFind, NodesDistinct, LockedInPool, RefsFit, UnlockFindsLocked, Inside
  <2>3. QED
    BY <2>1, <2>2
<1>6. ASSUME NEW t \in Threads, Unlock(t) PROVE PoolInv'
  <2>1. t \in Inside /\ dev[t] \in DevIds /\ pool[dev[t]] \in Mutexes
    BY <1>6 DEF Unlock, UnlockFindsLocked, Inside
  <2>2. TypeOK'
    BY <1>6, <2>1 DEF Unlock
  <2>3. NodesDistinct' /\ LockedInPool' /\ RefsFit'
    BY <1>6, <2>1 DEF Unlock, NodesDistinct, LockedInPool, RefsFit
  <2>4. \A u \in Inside \ {t} : pool[dev[u]] # pool[dev[t]]
    BY <2>1 DEF UnlockFindsLocked
  <2>5. UnlockFindsLocked'
    BY <1>6, <2>1, <2>4 DEF Unlock, UnlockFindsLocked, Inside
  <2>6. QED
    BY <2>2, <2>3, <2>5
<1>7. CASE UNCHANGED vars
  BY <1>7 DEF vars, NodesDistinct, LockedInPool, RefsFit, UnlockFindsLocked, Inside
<1>8. QED
  BY <1>1, <1>2, <1>3, <1>4, <1>5, <1>6, <1>7 DEF Next, Step, Quiet

\* The inductive invariant of the pool.
THEOREM PoolInvariance == Spec => []PoolInv
BY InitPoolInv, NextPoolInv, PTL DEF Spec

\* Every variable keeps its type.
THEOREM PoolTypeCorrect == Spec => []TypeOK
<1>1. PoolInv => TypeOK
  BY DEF PoolInv
<1>2. QED
  BY <1>1, PoolInvariance, PTL

\* unlock_device_mutex finds the mutex its thread has locked.
THEOREM UnlockIsExact == Spec => []UnlockFindsLocked
<1>1. PoolInv => UnlockFindsLocked
  BY DEF PoolInv
<1>2. QED
  BY <1>1, PoolInvariance, PTL

-----------------------------------------------------------------------------
(* The pool is one mutex per device, there from the start.                 *)

Holders == [d \in DevIds |-> {t \in Inside : dev[t] = d}]

\* Every step locks or unlocks one device's mutex, or none.
LEMMA PoolStepRefines == PoolInv /\ [Next]_vars => [Mutex!Next]_Holders
<1> SUFFICES ASSUME PoolInv, [Next]_vars PROVE [Mutex!Next]_Holders
  OBVIOUS
<1> USE NonesAssumption DEF PoolInv, TypeOK, Goes, lock
<1>1. ASSUME Inside' = Inside, \A t \in Inside : dev'[t] = dev[t] PROVE UNCHANGED Holders
  BY <1>1 DEF Holders
<1>2. ASSUME NEW t \in Threads, MutexLock(t) PROVE Mutex!Next
  <2>1. PICK d \in DevIds : d = dev[t]
    OBVIOUS
  <2>2. holder[pool[d]] = NoThread /\ dev' = dev /\ Inside' = Inside \cup {t}
    BY <1>2, <2>1 DEF MutexLock, RefsFit, Inside
  <2>3. Holders[d] = {}
    BY <2>2 DEF Holders, UnlockFindsLocked, Inside
  <2>4. \A e \in DevIds : Holders'[e] = IF e = d THEN {t} ELSE Holders[e]
    BY <2>1, <2>2, <2>3 DEF Holders
  <2>5. Holders' = [Holders EXCEPT ![d] = {t}]
    BY <2>4 DEF Holders
  <2>6. Mutex!Lock(t, d)
    BY <2>3, <2>5 DEF Mutex!Lock, Holders
  <2>7. QED
    BY <2>6 DEF Mutex!Next
<1>3. ASSUME NEW t \in Threads, Unlock(t) PROVE Mutex!Next
  <2>1. PICK d \in DevIds : d = dev[t]
    OBVIOUS
  <2>2. t \in Inside /\ dev' = dev /\ Inside' = Inside \ {t}
    BY <1>3, <2>1 DEF Unlock, Inside
  <2>3. Holders[d] = {t}
    BY <2>1, <2>2 DEF Holders, UnlockFindsLocked, Inside
  <2>4. \A e \in DevIds : Holders'[e] = IF e = d THEN {} ELSE Holders[e]
    BY <2>1, <2>2, <2>3 DEF Holders
  <2>5. Holders' = [Holders EXCEPT ![d] = {}]
    BY <2>4 DEF Holders
  <2>6. Mutex!Unlock(t, d)
    BY <2>3, <2>5 DEF Mutex!Unlock, Holders
  <2>7. QED
    BY <2>6 DEF Mutex!Next
<1>4. ASSUME NEW t \in Threads, Quiet(t) \/ Find(t) \/ Insert(t) \/ UnlockFind(t)
      PROVE  Inside' = Inside /\ \A u \in Inside : dev'[u] = dev[u]
  <2>1. UnlockFind(t) => pool[dev[t]] # Absent
    BY DEF UnlockFind, UnlockFindsLocked, Inside
  <2>2. QED
    BY <1>4, <2>1 DEF Quiet, LockRequest, PoolReadLock, PoolWriteBlocks, PoolWriteLock,
                      UnlockRequest, Find, Insert, UnlockFind, Inside
<1>5. UNCHANGED vars => Inside' = Inside /\ \A u \in Inside : dev'[u] = dev[u]
  BY DEF vars, Inside
<1>6. QED
  BY <1>1, <1>2, <1>3, <1>4, <1>5 DEF Next, Step, Quiet

\* Two threads are never inside for one device: the callers of the pool see one
\* mutex per device.
THEOREM PoolRefinement == Spec => ImplementsDeviceMutex
<1>1. Init => Mutex!Init
  BY DEF Init, Mutex!Init, Inside
<1>2. PoolInv /\ [Next]_vars => [Mutex!Next]_Holders
  BY PoolStepRefines
<1>3. QED
  BY <1>1, <1>2, PoolInvariance, PTL DEF Spec, ImplementsDeviceMutex, Mutex!Spec, Holders

-----------------------------------------------------------------------------
(***************************************************************************)
(* The lock of the pool: every unlock finds its own lock, and nobody waits *)
(* in a circle.                                                            *)
(***************************************************************************)
\* A locked mutex is that of the device its holder is inside for.
HoldersInside ==
    \A m \in Mutexes, t \in Threads : holder[m] = t => t \in Inside /\ pool[dev[t]] = m

\* A thread has _mutex_pool_mutex exactly between a lock and the unlock that follows it.
PoolLockHeld ==
    \A t \in Threads :
        /\ t \in readers <=> pc[t] \in {"l_find", "u_find"}
        /\ t \in writers <=> pc[t] = "l_insert"
        /\ t \in waiting => pc[t] = "l_write"

LockInv == HoldersInside /\ PoolLockHeld

\* No step takes a mutex from the thread inside, or breaks the discipline of the pool's lock.
LEMMA NextLockInv == PoolInv /\ LockInv /\ [Next]_vars => LockInv'
<1> SUFFICES ASSUME PoolInv, LockInv, [Next]_vars PROVE LockInv'
  OBVIOUS
<1> USE NonesAssumption DEF PoolInv, TypeOK, RW!TypeOK, Goes, lock, LockInv, HoldersInside,
                            PoolLockHeld, Inside
<1>1. ASSUME NEW t \in Threads, LockRequest(t) PROVE LockInv'
  BY <1>1 DEF LockRequest
<1>2. ASSUME NEW t \in Threads, PoolReadLock(t) PROVE LockInv'
  BY <1>2 DEF PoolReadLock, RW!AcquireRead
<1>3. ASSUME NEW t \in Threads, PoolWriteBlocks(t) \/ PoolWriteLock(t) PROVE LockInv'
  BY <1>3 DEF PoolWriteBlocks, PoolWriteLock, RW!RequestWrite, RW!AcquireWrite
<1>4. ASSUME NEW t \in Threads, Find(t) PROVE LockInv'
  BY <1>4 DEF Find, RW!ReleaseRead
<1>5. ASSUME NEW t \in Threads, Insert(t) PROVE LockInv'
  <2>1. ASSUME NEW m \in Mutexes, NEW u \in Threads, holder[m] = u
        PROVE  u \in Inside' /\ pool'[dev'[u]] = m
    <3>1. u \in Inside /\ pool[dev[u]] = m /\ u # t
      BY <1>5, <2>1 DEF Insert
    <3>2. QED
      BY <1>5, <3>1 DEF Insert
  <2>2. PoolLockHeld'
    BY <1>5 DEF Insert, RW!ReleaseWrite
  <2>3. QED
    BY <1>5, <2>1, <2>2 DEF Insert
<1>6. ASSUME NEW t \in Threads, MutexLock(t) PROVE LockInv'
  BY <1>6 DEF MutexLock, RefsFit
<1>7. ASSUME NEW t \in Threads, UnlockRequest(t) PROVE LockInv'
  BY <1>7 DEF UnlockRequest
<1>8. ASSUME NEW t \in Threads, UnlockFind(t) PROVE LockInv'
  BY <1>8 DEF UnlockFind, RW!ReleaseRead, UnlockFindsLocked
<1>9. ASSUME NEW t \in Threads, Unlock(t) PROVE LockInv'
  BY <1>9 DEF Unlock, UnlockFindsLocked
<1>10. CASE UNCHANGED vars
  BY <1>10 DEF vars
<1>11. QED
  BY <1>1, <1>2, <1>3, <1>4, <1>5, <1>6, <1>7, <1>8, <1>9, <1>10 DEF Next, Step

\* A thread that waits for another one: for the lock of the pool or for its mutex.
PoolBlocked(t) ==
    \/ pc[t] \in {"l_read", "u_read"} /\ (writers # {} \/ waiting # {})
    \/ pc[t] = "l_write" /\ readers \cup writers # {}
    \/ pc[t] = "l_lock" /\ holder[ref[t]] # NoThread

\* Some thread that is locking or unlocking, or between the two, does not wait.
PoolNoDeadlock ==
    (\E t \in Threads : pc[t] # "out") => \E t \in Threads : pc[t] # "out" /\ ~PoolBlocked(t)

\* Threads that lock and unlock any devices never all wait for each other: a thread waits for
\* a mutex only after it has given up the lock of the pool.
THEOREM PoolDeadlockFree == Spec => []PoolNoDeadlock
<1>1. Init => LockInv
  BY NonesAssumption DEF Init, RW!Init, LockInv, HoldersInside, PoolLockHeld
<1>2. PoolInv /\ LockInv => PoolNoDeadlock
  <2> SUFFICES ASSUME PoolInv, LockInv, NEW t \in Threads, pc[t] # "out",
                      \A u \in Threads : pc[u] # "out" => PoolBlocked(u)
               PROVE  FALSE
    BY DEF PoolNoDeadlock
  <2> USE DEF PoolInv, TypeOK, RW!TypeOK, LockInv
  <2>1. readers = {} /\ writers = {}
    <3>1. ASSUME NEW u \in readers \cup writers PROVE FALSE
      BY <3>1 DEF PoolLockHeld, PoolBlocked
    <3>2. QED
      BY <3>1
  <2>2. waiting = {}
    <3>1. ASSUME NEW u \in waiting PROVE FALSE
      BY <2>1, <3>1 DEF PoolLockHeld, PoolBlocked
    <3>2. QED
      BY <3>1
  <2>3. \A u \in Threads : pc[u] # "out" => pc[u] = "l_lock" /\ holder[ref[u]] # NoThread
    BY <2>1, <2>2 DEF PoolBlocked
  <2>4. ref[t] \in Mutexes
    BY <2>3 DEF RefsFit
  <2>5. PICK u \in Threads : holder[ref[t]] = u
    BY <2>3, <2>4
  <2>6. pc[u] # "out" /\ pc[u] # "l_lock"
    BY <2>4, <2>5 DEF HoldersInside, Inside
  <2>7. QED
    BY <2>3, <2>6
<1>3. QED
  BY <1>1, <1>2, NextLockInv, PoolInvariance, PTL DEF Spec
=============================================================================
