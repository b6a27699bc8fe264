------------------------------ MODULE MutexPool ------------------------------
(***************************************************************************)
(* lock_create_device_mutex and unlock_device_mutex of                     *)
(* src/server/mapdevidphnd.cpp: the pool _mutex_pool of one std::mutex per *)
(* device, made on the first use of the device, under _mutex_pool_mutex, a *)
(* ReadWriteLock (RWLockSpec).                                             *)
(*                                                                         *)
(* The reader that misses the device gives up the lock before it asks for  *)
(* the write lock, so several threads may miss the same device, and unlock *)
(* looks its mutex up anew.  The program counters are                      *)
(*   l_...  lock_create_device_mutex      u_...  unlock_device_mutex       *)
(*   out, in  outside, and between a lock and the unlock that ends it      *)
(***************************************************************************)
EXTENDS FiniteSets

CONSTANTS Threads, DevIds,
          Mutexes,              \* the std::mutex objects a map node may hold
          Absent,               \* no node in the pool
          NoThread, NoMutex

ASSUME NonesAssumption ==
    Absent \notin Mutexes /\ NoThread \notin Threads /\ NoMutex \notin Mutexes

VARIABLES
    pool,       \* _mutex_pool: pool[d] is the mutex of d, or Absent
    holder,     \* holder[m]: the thread that has locked m
    readers, writers, waiting,     \* _mutex_pool_mutex
    pc, dev,
    ref         \* ref[t]: the reference m of lock_create_device_mutex

lock == <<readers, writers, waiting>>
vars == <<pool, holder, readers, writers, waiting, pc, dev, ref>>

RW == INSTANCE RWLockSpec

TypeOK ==
    /\ pool \in [DevIds -> Mutexes \cup {Absent}]
    /\ holder \in [Mutexes -> Threads \cup {NoThread}]
    /\ RW!TypeOK
    /\ pc \in [Threads -> {"out", "l_read", "l_find", "l_write", "l_insert", "l_lock", "in",
                           "u_read", "u_find", "u_unlock"}]
    /\ dev \in [Threads -> DevIds]
    /\ ref \in [Threads -> Mutexes \cup {NoMutex}]

Init ==
    /\ pool = [d \in DevIds |-> Absent]
    /\ holder = [m \in Mutexes |-> NoThread]
    /\ RW!Init
    /\ pc = [t \in Threads |-> "out"]
    /\ dev \in [Threads -> DevIds]
    /\ ref = [t \in Threads |-> NoMutex]

Goes(t, p, q) == pc[t] = p /\ pc' = [pc EXCEPT ![t] = q]

\* A node that is made now holds a mutex of its own.
Fresh == {m \in Mutexes : \A d \in DevIds : pool[d] # m}
-----------------------------------------------------------------------------
LockRequest(t) ==
    /\ Goes(t, "out", "l_read")
    /\ \E d \in DevIds : dev' = [dev EXCEPT ![t] = d]
    /\ UNCHANGED <<pool, holder, lock, ref>>

PoolReadLock(t) ==
    /\ RW!AcquireRead(t)
    /\ Goes(t, "l_read", "l_find") \/ Goes(t, "u_read", "u_find")
    /\ UNCHANGED <<pool, holder, dev, ref>>

\* mutant: the read lock is kept while the write lock is asked for.
FindUpgrading(t) ==
    /\ \/ /\ pool[dev[t]] = Absent
          /\ Goes(t, "l_find", "l_write")
          /\ UNCHANGED <<ref, lock>>
       \/ /\ pool[dev[t]] # Absent
          /\ RW!ReleaseRead(t)
          /\ Goes(t, "l_find", "l_lock")
          /\ ref' = [ref EXCEPT ![t] = pool[dev[t]]]
    /\ UNCHANGED <<pool, holder, dev>>

\* A device without mutex, or its mutex.
Find(t) ==
    /\ RW!ReleaseRead(t)
    /\ \/ pool[dev[t]] = Absent /\ Goes(t, "l_find", "l_write") /\ UNCHANGED ref
       \/ /\ pool[dev[t]] # Absent
          /\ Goes(t, "l_find", "l_lock")
          /\ ref' = [ref EXCEPT ![t] = pool[dev[t]]]
    /\ UNCHANGED <<pool, holder, dev>>

PoolWriteBlocks(t) ==
    /\ pc[t] = "l_write"
    /\ RW!RequestWrite(t)
    /\ UNCHANGED <<pool, holder, pc, dev, ref>>

PoolWriteLock(t) ==
    /\ RW!AcquireWrite(t)
    /\ Goes(t, "l_write", "l_insert")
    /\ UNCHANGED <<pool, holder, dev, ref>>

\* mutant: the miss of Find is taken to hold still.
InsertAnew(t) ==
    /\ RW!ReleaseWrite(t)
    /\ Goes(t, "l_insert", "l_lock")
    /\ \E m \in Fresh : pool' = [pool EXCEPT ![dev[t]] = m]
    /\ ref' = [ref EXCEPT ![t] = pool'[dev[t]]]
    /\ UNCHANGED <<holder, dev>>

\* mutant: the reference is taken before the node is made.
InsertUnbound(t) ==
    /\ RW!ReleaseWrite(t)
    /\ Goes(t, "l_insert", "l_lock")
    /\ \E m \in Fresh :
         pool' = [pool EXCEPT ![dev[t]] = IF @ = Absent THEN m ELSE @]
    /\ ref' = [ref EXCEPT ![t] = pool[dev[t]]]
    /\ UNCHANGED <<holder, dev>>

\* _mutex_pool[devid]: the node of another thread that missed the device too, or
\* a new one.
Insert(t) ==
    /\ RW!ReleaseWrite(t)
    /\ Goes(t, "l_insert", "l_lock")
    /\ \/ pool[dev[t]] # Absent /\ UNCHANGED pool
       \/ /\ pool[dev[t]] = Absent
          /\ \E m \in Fresh : pool' = [pool EXCEPT ![dev[t]] = m]
    /\ ref' = [ref EXCEPT ![t] = pool'[dev[t]]]
    /\ UNCHANGED <<holder, dev>>

\* m.lock()
MutexLock(t) ==
    /\ Goes(t, "l_lock", "in")
    /\ holder[ref[t]] = NoThread
    /\ holder' = [holder EXCEPT ![ref[t]] = t]
    /\ ref' = [ref EXCEPT ![t] = NoMutex]
    /\ UNCHANGED <<pool, lock, dev>>

UnlockRequest(t) ==
    /\ Goes(t, "in", "u_read")
    /\ UNCHANGED <<pool, holder, lock, dev, ref>>

\* unlock_device_mutex returns quietly when it does not find the device.
UnlockFind(t) ==
    /\ RW!ReleaseRead(t)
    /\ \/ pool[dev[t]] = Absent /\ Goes(t, "u_find", "out")
       \/ pool[dev[t]] # Absent /\ Goes(t, "u_find", "u_unlock")
    /\ UNCHANGED <<pool, holder, dev, ref>>

\* mutant: the node goes with the unlock, whoever may have found it.
UnlockAndErase(t) ==
    /\ Goes(t, "u_unlock", "out")
    /\ holder' = [holder EXCEPT ![pool[dev[t]]] = NoThread]
    /\ pool' = [pool EXCEPT ![dev[t]] = Absent]
    /\ UNCHANGED <<lock, dev, ref>>

\* _mutex_pool[devid].unlock(), without _mutex_pool_mutex.
Unlock(t) ==
    /\ Goes(t, "u_unlock", "out")
    /\ holder' = [holder EXCEPT ![pool[dev[t]]] = NoThread]
    /\ UNCHANGED <<pool, lock, dev, ref>>

Step(t) ==
    \/ PoolReadLock(t) \/ Find(t) \/ PoolWriteBlocks(t) \/ PoolWriteLock(t) \/ Insert(t)
    \/ MutexLock(t)
    \/ UnlockRequest(t) \/ UnlockFind(t) \/ Unlock(t)

Next == \E t \in Threads : LockRequest(t) \/ Step(t)

Spec == Init /\ [][Next]_vars

\* The scheduler runs every thread that can go on, and a thread that holds the
\* mutex of a device comes to its unlock (SomebodyIsAnswered of DeviceMap).
FairSpec == Spec /\ \A t \in Threads : WF_vars(Step(t))
-----------------------------------------------------------------------------
\* The threads between the return of lock_create_device_mutex and the unlock.
Inside == {t \in Threads : pc[t] \in {"in", "u_read", "u_find", "u_unlock"}}

\* The mutex unlock_device_mutex will look up is the one its thread has locked:
\* else it would return quietly, or unlock another thread's mutex, and the device
\* would hang.
UnlockFindsLocked ==
    \A t \in Inside : pool[dev[t]] # Absent /\ holder[pool[dev[t]]] = t

Mutex == INSTANCE DeviceMutex WITH
    holders <- [d \in DevIds |-> {t \in Inside : dev[t] = d}]

\* The pool is one mutex per device, there from the start: one thread is inside
\* for a device, also when several missed it and each went on to make its mutex.
ImplementsDeviceMutex == Mutex!Spec

\* Nobody waits for ever on everybody: again and again either all are outside or
\* somebody leaves.
PoolProgress ==
    \/ []<>(\A t \in Threads : pc[t] = "out")
    \/ []<><<\E t \in Threads : Unlock(t)>>_vars
=============================================================================
