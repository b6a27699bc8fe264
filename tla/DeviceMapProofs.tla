--------------------------- MODULE DeviceMapProofs ---------------------------
(***************************************************************************)
(* Theorems about DeviceMap for any sets of connections, devices and       *)
(* handles.                                                                *)
(***************************************************************************)
EXTENDS DeviceMap, TLAPS

\* The mutex of a device and the thread that holds it point at each other.
MutexHeld ==
    \A c \in Conns, d \in DevIds : owner[d] = c <=> pc[c] \in HoldsMutex /\ dev[c] = d

\* What a thread knows of the entry of its device while it holds the mutex, and
\* where a forced removal can be.
Removing == {"r_read", "r_conn", "r_mutex", "r_write", "r_pair", "r_read2", "r_dev",
             "r_destroy", "r_write2", "r_erase", "r_unlock"}

LocalsFit ==
    \A c \in Conns :
        /\ pc[c] \in {"o_create", "o_write2", "o_store", "r_write2", "r_erase"}
              => devs[dev[c]] = Null
        /\ pc[c] \in {"idle", "o_read", "o_check", "o_mutex", "o_write", "o_find", "o_create"}
              => loc[c] = Null
        /\ pc[c] = "s_io" => loc[c] = devs[dev[c]]
        /\ pc[c] = "r_destroy" => devs[dev[c]] # Absent
        /\ op[c] = "force" => pc[c] \in Removing \cup {"reply"}

IInv == TypeOK /\ MutexHeld /\ LocalsFit /\ HandlesAccounted /\ NullIsTransient
-----------------------------------------------------------------------------
\* The invariant holds for the empty table.
LEMMA InitIInv == Init => IInv
<1> SUFFICES ASSUME Init PROVE IInv
  OBVIOUS
<1> USE ConstantsAssumption DEF Init
<1>1. TypeOK
  BY DEF TypeOK, PCs, RW!Init, RW!TypeOK
<1>2. MutexHeld /\ LocalsFit
  BY DEF MutexHeld, LocalsFit, HoldsMutex
<1>3. HandlesAccounted /\ NullIsTransient
  BY DEF HandlesAccounted, NullIsTransient, Creating
<1>4. QED
  BY <1>1, <1>2, <1>3 DEF IInv

\* No step leaves the types.
LEMMA TypeStep ==
    ASSUME TypeOK, [Next]_vars
    PROVE  TypeOK'
<1> USE ConstantsAssumption DEF TypeOK, PCs, RW!TypeOK, Goto, table, lock, locals
<1>1. ASSUME NEW c \in Conns, Arrive(c) PROVE TypeOK'
  BY <1>1 DEF Arrive, OpenRequest, CommandRequest, CloseRequest, Disconnect, Begin
<1>2. ASSUME NEW c \in Conns, Reply(c) PROVE TypeOK'
  BY <1>2 DEF Reply
<1>3. ASSUME NEW c \in Conns, ReadLock(c) PROVE TypeOK'
  BY <1>3 DEF ReadLock, Goes, RW!AcquireRead
<1>4. ASSUME NEW c \in Conns, WriteLockBlocks(c) PROVE TypeOK'
  BY <1>4 DEF WriteLockBlocks, RW!RequestWrite
<1>5. ASSUME NEW c \in Conns, WriteLock(c) PROVE TypeOK'
  BY <1>5 DEF WriteLock, Goes, RW!AcquireWrite
<1>6. ASSUME NEW c \in Conns, DeviceLock(c) PROVE TypeOK'
  BY <1>6 DEF DeviceLock, Goes
<1>7. ASSUME NEW c \in Conns, OpenCheck(c) PROVE TypeOK'
  BY <1>7 DEF OpenCheck, Return, RW!ReleaseRead
<1>8. ASSUME NEW c \in Conns, OpenFind(c) PROVE TypeOK'
  BY <1>8 DEF OpenFind, RW!ReleaseWrite
<1>9. ASSUME NEW c \in Conns, OpenCreate(c) PROVE TypeOK'
  BY <1>9 DEF OpenCreate
<1>10. ASSUME NEW c \in Conns, OpenStore(c) PROVE TypeOK'
  BY <1>10 DEF OpenStore, RW!ReleaseWrite
<1>11. ASSUME NEW c \in Conns, OpenUnlock(c) PROVE TypeOK'
  BY <1>11 DEF OpenUnlock, DeviceUnlock
<1>12. ASSUME NEW c \in Conns, SendFind(c) PROVE TypeOK'
  BY <1>12 DEF SendFind, Return, RW!ReleaseRead
<1>13. ASSUME NEW c \in Conns, SendGet(c) PROVE TypeOK'
  BY <1>13 DEF SendGet
<1>14. ASSUME NEW c \in Conns, SendIO(c) PROVE TypeOK'
  BY <1>14 DEF SendIO
<1>15. ASSUME NEW c \in Conns, SendUnlock(c) PROVE TypeOK'
  BY <1>15 DEF SendUnlock, DeviceUnlock
<1>16. ASSUME NEW c \in Conns, RemoveConn(c) PROVE TypeOK'
  BY <1>16 DEF RemoveConn, RW!ReleaseRead
<1>17. ASSUME NEW c \in Conns, RemovePair(c) PROVE TypeOK'
  BY <1>17 DEF RemovePair, RW!ReleaseWrite
<1>18. ASSUME NEW c \in Conns, RemoveDev(c) PROVE TypeOK'
  BY <1>18 DEF RemoveDev, RW!ReleaseRead
<1>19. ASSUME NEW c \in Conns, RemoveDestroy(c) PROVE TypeOK'
  BY <1>19 DEF RemoveDestroy
<1>20. ASSUME NEW c \in Conns, RemoveErase(c) PROVE TypeOK'
  BY <1>20 DEF RemoveErase, RW!ReleaseWrite
<1>21. ASSUME NEW c \in Conns, RemoveUnlock(c) PROVE TypeOK'
  BY <1>21 DEF RemoveUnlock, DeviceUnlock
<1>22. CASE UNCHANGED vars
  BY <1>22 DEF vars
<1>23. QED
  BY <1>1, <1>2, <1>3, <1>4, <1>5, <1>6, <1>7, <1>8, <1>9, <1>10, <1>11, <1>12, <1>13,
     <1>14, <1>15, <1>16, <1>17, <1>18, <1>19, <1>20, <1>21, <1>22 DEF Next, Step

\* Only the holder of a device's mutex leaves the code that runs under it.
LEMMA MutexStep ==
    ASSUME TypeOK, MutexHeld, LocalsFit, [Next]_vars
    PROVE  MutexHeld'
<1> USE ConstantsAssumption DEF TypeOK, PCs, Goto, table, lock, locals
<1>1. ASSUME NEW c \in Conns, Arrive(c) PROVE MutexHeld'
  BY <1>1 DEF Arrive, OpenRequest, CommandRequest, CloseRequest, Disconnect, Begin, MutexHeld,
              HoldsMutex
<1>2. ASSUME NEW c \in Conns, Reply(c) PROVE MutexHeld'
  BY <1>2 DEF Reply, MutexHeld, HoldsMutex
<1>3. ASSUME NEW c \in Conns, ReadLock(c) PROVE MutexHeld'
  BY <1>3 DEF ReadLock, Goes, MutexHeld, HoldsMutex
<1>4. ASSUME NEW c \in Conns, WriteLockBlocks(c) PROVE MutexHeld'
  BY <1>4 DEF WriteLockBlocks, MutexHeld, HoldsMutex
<1>5. ASSUME NEW c \in Conns, WriteLock(c) PROVE MutexHeld'
  BY <1>5 DEF WriteLock, Goes, MutexHeld, HoldsMutex
<1>6. ASSUME NEW c \in Conns, DeviceLock(c) PROVE MutexHeld'
  BY <1>6 DEF DeviceLock, Goes, MutexHeld, HoldsMutex
<1>7. ASSUME NEW c \in Conns, OpenCheck(c) PROVE MutexHeld'
  BY <1>7 DEF OpenCheck, Return, MutexHeld, HoldsMutex
<1>8. ASSUME NEW c \in Conns, OpenFind(c) PROVE MutexHeld'
  BY <1>8 DEF OpenFind, MutexHeld, HoldsMutex
<1>9. ASSUME NEW c \in Conns, OpenCreate(c) PROVE MutexHeld'
  BY <1>9 DEF OpenCreate, MutexHeld, HoldsMutex
<1>10. ASSUME NEW c \in Conns, OpenStore(c) PROVE MutexHeld'
  BY <1>10 DEF OpenStore, MutexHeld, HoldsMutex
<1>11. ASSUME NEW c \in Conns, OpenUnlock(c) PROVE MutexHeld'
  BY <1>11 DEF OpenUnlock, DeviceUnlock, MutexHeld, HoldsMutex
<1>12. ASSUME NEW c \in Conns, SendFind(c) PROVE MutexHeld'
  BY <1>12 DEF SendFind, Return, MutexHeld, HoldsMutex
<1>13. ASSUME NEW c \in Conns, SendGet(c) PROVE MutexHeld'
  BY <1>13 DEF SendGet, MutexHeld, HoldsMutex
<1>14. ASSUME NEW c \in Conns, SendIO(c) PROVE MutexHeld'
  BY <1>14 DEF SendIO, MutexHeld, HoldsMutex
<1>15. ASSUME NEW c \in Conns, SendUnlock(c) PROVE MutexHeld'
  BY <1>15 DEF SendUnlock, DeviceUnlock, MutexHeld, HoldsMutex
<1>16. ASSUME NEW c \in Conns, RemoveConn(c) PROVE MutexHeld'
  BY <1>16 DEF RemoveConn, MutexHeld, HoldsMutex
<1>17. ASSUME NEW c \in Conns, RemovePair(c) PROVE MutexHeld'
  BY <1>17 DEF RemovePair, MutexHeld, HoldsMutex
<1>18. ASSUME NEW c \in Conns, RemoveDev(c) PROVE MutexHeld'
  BY <1>18 DEF RemoveDev, MutexHeld, HoldsMutex
<1>19. ASSUME NEW c \in Conns, RemoveDestroy(c) PROVE MutexHeld'
  BY <1>19 DEF RemoveDestroy, MutexHeld, HoldsMutex
<1>20. ASSUME NEW c \in Conns, RemoveErase(c) PROVE MutexHeld'
  BY <1>20 DEF RemoveErase, MutexHeld, HoldsMutex
<1>21. ASSUME NEW c \in Conns, RemoveUnlock(c) PROVE MutexHeld'
  BY <1>21 DEF RemoveUnlock, DeviceUnlock, MutexHeld, HoldsMutex
<1>22. CASE UNCHANGED vars
  BY <1>22 DEF vars, MutexHeld, HoldsMutex
<1>23. QED
  BY <1>1, <1>2, <1>3, <1>4, <1>5, <1>6, <1>7, <1>8, <1>9, <1>10, <1>11, <1>12, <1>13,
     <1>14, <1>15, <1>16, <1>17, <1>18, <1>19, <1>20, <1>21, <1>22 DEF Next, Step

\* Nobody else changes the entry of a device whose mutex a thread holds.
LEMMA LocalsStep ==
    ASSUME TypeOK, MutexHeld, LocalsFit, [Next]_vars
    PROVE  LocalsFit'
<1> USE ConstantsAssumption DEF TypeOK, PCs, Goto, table, lock, locals, MutexHeld, HoldsMutex
<1>1. ASSUME NEW c \in Conns, Arrive(c) PROVE LocalsFit'
  BY <1>1 DEF Arrive, OpenRequest, CommandRequest, CloseRequest, Disconnect, Begin, LocalsFit,
              Removing
<1>2. ASSUME NEW c \in Conns, Reply(c) PROVE LocalsFit'
  BY <1>2 DEF Reply, LocalsFit, Removing
<1>3. ASSUME NEW c \in Conns, ReadLock(c) PROVE LocalsFit'
  BY <1>3 DEF ReadLock, Goes, LocalsFit, Removing
<1>4. ASSUME NEW c \in Conns, WriteLockBlocks(c) PROVE LocalsFit'
  BY <1>4 DEF WriteLockBlocks, LocalsFit, Removing
<1>5. ASSUME NEW c \in Conns, WriteLock(c) PROVE LocalsFit'
  BY <1>5 DEF WriteLock, Goes, LocalsFit, Removing
<1>6. ASSUME NEW c \in Conns, DeviceLock(c) PROVE LocalsFit'
  BY <1>6 DEF DeviceLock, Goes, LocalsFit, Removing
<1>7. ASSUME NEW c \in Conns, OpenCheck(c) PROVE LocalsFit'
  BY <1>7 DEF OpenCheck, Return, LocalsFit, Removing
<1>8. ASSUME NEW c \in Conns, OpenFind(c) PROVE LocalsFit'
  BY <1>8 DEF OpenFind, LocalsFit, Removing
<1>9. ASSUME NEW c \in Conns, OpenCreate(c) PROVE LocalsFit'
  BY <1>9 DEF OpenCreate, LocalsFit, Removing
<1>10. ASSUME NEW c \in Conns, OpenStore(c) PROVE LocalsFit'
  BY <1>10 DEF OpenStore, LocalsFit, Removing
<1>11. ASSUME NEW c \in Conns, OpenUnlock(c) PROVE LocalsFit'
  BY <1>11 DEF OpenUnlock, DeviceUnlock, LocalsFit, Removing
<1>12. ASSUME NEW c \in Conns, SendFind(c) PROVE LocalsFit'
  BY <1>12 DEF SendFind, Return, LocalsFit, Removing
<1>13. ASSUME NEW c \in Conns, SendGet(c) PROVE LocalsFit'
  BY <1>13 DEF SendGet, LocalsFit, Removing
<1>14. ASSUME NEW c \in Conns, SendIO(c) PROVE LocalsFit'
  BY <1>14 DEF SendIO, LocalsFit, Removing
<1>15. ASSUME NEW c \in Conns, SendUnlock(c) PROVE LocalsFit'
  BY <1>15 DEF SendUnlock, DeviceUnlock, LocalsFit, Removing
<1>16. ASSUME NEW c \in Conns, RemoveConn(c) PROVE LocalsFit'
  BY <1>16 DEF RemoveConn, LocalsFit, Removing
<1>17. ASSUME NEW c \in Conns, RemovePair(c) PROVE LocalsFit'
  BY <1>17 DEF RemovePair, LocalsFit, Removing
<1>18. ASSUME NEW c \in Conns, RemoveDev(c) PROVE LocalsFit'
  BY <1>18 DEF RemoveDev, LocalsFit, Removing
<1>19. ASSUME NEW c \in Conns, RemoveDestroy(c) PROVE LocalsFit'
  BY <1>19 DEF RemoveDestroy, LocalsFit, Removing
<1>20. ASSUME NEW c \in Conns, RemoveErase(c) PROVE LocalsFit'
  BY <1>20 DEF RemoveErase, LocalsFit, Removing
<1>21. ASSUME NEW c \in Conns, RemoveUnlock(c) PROVE LocalsFit'
  BY <1>21 DEF RemoveUnlock, DeviceUnlock, LocalsFit, Removing
<1>22. CASE UNCHANGED vars
  BY <1>22 DEF vars, LocalsFit, Removing
<1>23. QED
  BY <1>1, <1>2, <1>3, <1>4, <1>5, <1>6, <1>7, <1>8, <1>9, <1>10, <1>11, <1>12, <1>13,
     <1>14, <1>15, <1>16, <1>17, <1>18, <1>19, <1>20, <1>21, <1>22 DEF Next, Step

\* Handles change hands between the creator, the map and the remover.
LEMMA AccountStep ==
    ASSUME TypeOK, MutexHeld, LocalsFit, HandlesAccounted, [Next]_vars
    PROVE  HandlesAccounted'
<1> USE ConstantsAssumption DEF TypeOK, PCs, Goto, table, lock, locals
<1>1. ASSUME NEW c \in Conns, Arrive(c) PROVE HandlesAccounted'
  BY <1>1 DEF Arrive, OpenRequest, CommandRequest, CloseRequest, Disconnect, Begin, MutexHeld,
              HoldsMutex, LocalsFit, HandlesAccounted, Creating
<1>2. ASSUME NEW c \in Conns, Reply(c) PROVE HandlesAccounted'
  BY <1>2 DEF Reply, MutexHeld, HoldsMutex, LocalsFit, HandlesAccounted, Creating
<1>3. ASSUME NEW c \in Conns, ReadLock(c) PROVE HandlesAccounted'
  BY <1>3 DEF ReadLock, Goes, MutexHeld, HoldsMutex, LocalsFit, HandlesAccounted, Creating
<1>4. ASSUME NEW c \in Conns, WriteLockBlocks(c) PROVE HandlesAccounted'
  BY <1>4 DEF WriteLockBlocks, MutexHeld, HoldsMutex, LocalsFit, HandlesAccounted, Creating
<1>5. ASSUME NEW c \in Conns, WriteLock(c) PROVE HandlesAccounted'
  BY <1>5 DEF WriteLock, Goes, MutexHeld, HoldsMutex, LocalsFit, HandlesAccounted, Creating
<1>6. ASSUME NEW c \in Conns, DeviceLock(c) PROVE HandlesAccounted'
  BY <1>6 DEF DeviceLock, Goes, MutexHeld, HoldsMutex, LocalsFit, HandlesAccounted, Creating
<1>7. ASSUME NEW c \in Conns, OpenCheck(c) PROVE HandlesAccounted'
  BY <1>7 DEF OpenCheck, Return, MutexHeld, HoldsMutex, LocalsFit, HandlesAccounted, Creating
<1>8. ASSUME NEW c \in Conns, OpenFind(c) PROVE HandlesAccounted'
  BY <1>8 DEF OpenFind, MutexHeld, HoldsMutex, LocalsFit, HandlesAccounted, Creating
<1>9. ASSUME NEW c \in Conns, OpenCreate(c) PROVE HandlesAccounted'
  BY <1>9 DEF OpenCreate, MutexHeld, HoldsMutex, LocalsFit, HandlesAccounted, Creating
<1>10. ASSUME NEW c \in Conns, OpenStore(c) PROVE HandlesAccounted'
  BY <1>10 DEF OpenStore, MutexHeld, HoldsMutex, LocalsFit, HandlesAccounted, Creating
<1>11. ASSUME NEW c \in Conns, OpenUnlock(c) PROVE HandlesAccounted'
  BY <1>11 DEF OpenUnlock, DeviceUnlock, MutexHeld, HoldsMutex, LocalsFit, HandlesAccounted,
               Creating
<1>12. ASSUME NEW c \in Conns, SendFind(c) PROVE HandlesAccounted'
  BY <1>12 DEF SendFind, Return, MutexHeld, HoldsMutex, LocalsFit, HandlesAccounted, Creating
<1>13. ASSUME NEW c \in Conns, SendGet(c) PROVE HandlesAccounted'
  BY <1>13 DEF SendGet, MutexHeld, HoldsMutex, LocalsFit, HandlesAccounted, Creating
<1>14. ASSUME NEW c \in Conns, SendIO(c) PROVE HandlesAccounted'
  BY <1>14 DEF SendIO, MutexHeld, HoldsMutex, LocalsFit, HandlesAccounted, Creating
<1>15. ASSUME NEW c \in Conns, SendUnlock(c) PROVE HandlesAccounted'
  BY <1>15 DEF SendUnlock, DeviceUnlock, MutexHeld, HoldsMutex, LocalsFit, HandlesAccounted,
               Creating
<1>16. ASSUME NEW c \in Conns, RemoveConn(c) PROVE HandlesAccounted'
  BY <1>16 DEF RemoveConn, MutexHeld, HoldsMutex, LocalsFit, HandlesAccounted, Creating
<1>17. ASSUME NEW c \in Conns, RemovePair(c) PROVE HandlesAccounted'
  BY <1>17 DEF RemovePair, MutexHeld, HoldsMutex, LocalsFit, HandlesAccounted, Creating
<1>18. ASSUME NEW c \in Conns, RemoveDev(c) PROVE HandlesAccounted'
  BY <1>18 DEF RemoveDev, MutexHeld, HoldsMutex, LocalsFit, HandlesAccounted, Creating
<1>19. ASSUME NEW c \in Conns, RemoveDestroy(c) PROVE HandlesAccounted'
  BY <1>19 DEF RemoveDestroy, MutexHeld, HoldsMutex, LocalsFit, HandlesAccounted, Creating
<1>20. ASSUME NEW c \in Conns, RemoveErase(c) PROVE HandlesAccounted'
  BY <1>20 DEF RemoveErase, MutexHeld, HoldsMutex, LocalsFit, HandlesAccounted, Creating
<1>21. ASSUME NEW c \in Conns, RemoveUnlock(c) PROVE HandlesAccounted'
  BY <1>21 DEF RemoveUnlock, DeviceUnlock, MutexHeld, HoldsMutex, LocalsFit, HandlesAccounted,
               Creating
<1>22. CASE UNCHANGED vars
  BY <1>22 DEF vars, MutexHeld, HoldsMutex, LocalsFit, HandlesAccounted, Creating
<1>23. QED
  BY <1>1, <1>2, <1>3, <1>4, <1>5, <1>6, <1>7, <1>8, <1>9, <1>10, <1>11, <1>12, <1>13,
     <1>14, <1>15, <1>16, <1>17, <1>18, <1>19, <1>20, <1>21, <1>22 DEF Next, Step

\* Whoever leaves an entry without handle behind is still going to settle it.
LEMMA NullStep ==
    ASSUME TypeOK, MutexHeld, LocalsFit, NullIsTransient, [Next]_vars
    PROVE  NullIsTransient'
<1> USE ConstantsAssumption DEF TypeOK, PCs, Goto, table, lock, locals
<1>1. ASSUME NEW c \in Conns, Arrive(c) PROVE NullIsTransient'
  BY <1>1 DEF Arrive, OpenRequest, CommandRequest, CloseRequest, Disconnect, Begin, MutexHeld,
              HoldsMutex, LocalsFit, Removing, NullIsTransient, WillSettle
<1>2. ASSUME NEW c \in Conns, Reply(c) PROVE NullIsTransient'
  BY <1>2, SMTT(20) DEF Reply, MutexHeld, HoldsMutex, LocalsFit, Removing, NullIsTransient, WillSettle
<1>3. ASSUME NEW c \in Conns, ReadLock(c) PROVE NullIsTransient'
  BY <1>3 DEF ReadLock, Goes, MutexHeld, HoldsMutex, LocalsFit, Removing, NullIsTransient,
              WillSettle
<1>4. ASSUME NEW c \in Conns, WriteLockBlocks(c) PROVE NullIsTransient'
  BY <1>4 DEF WriteLockBlocks, MutexHeld, HoldsMutex, LocalsFit, Removing, NullIsTransient,
              WillSettle
<1>5. ASSUME NEW c \in Conns, WriteLock(c) PROVE NullIsTransient'
  BY <1>5 DEF WriteLock, Goes, MutexHeld, HoldsMutex, LocalsFit, Removing, NullIsTransient,
              WillSettle
<1>6. ASSUME NEW c \in Conns, DeviceLock(c) PROVE NullIsTransient'
  BY <1>6 DEF DeviceLock, Goes, MutexHeld, HoldsMutex, LocalsFit, Removing, NullIsTransient,
              WillSettle
<1>7. ASSUME NEW c \in Conns, OpenCheck(c) PROVE NullIsTransient'
  BY <1>7 DEF OpenCheck, Return, MutexHeld, HoldsMutex, LocalsFit, Removing, NullIsTransient,
              WillSettle
<1>8. ASSUME NEW c \in Conns, OpenFind(c) PROVE NullIsTransient'
  BY <1>8 DEF OpenFind, MutexHeld, HoldsMutex, LocalsFit, Removing, NullIsTransient, WillSettle
<1>9. ASSUME NEW c \in Conns, OpenCreate(c) PROVE NullIsTransient'
  BY <1>9 DEF OpenCreate, MutexHeld, HoldsMutex, LocalsFit, Removing, NullIsTransient,
              WillSettle
<1>10. ASSUME NEW c \in Conns, OpenStore(c) PROVE NullIsTransient'
  BY <1>10 DEF OpenStore, MutexHeld, HoldsMutex, LocalsFit, Removing, NullIsTransient,
               WillSettle
<1>11. ASSUME NEW c \in Conns, OpenUnlock(c) PROVE NullIsTransient'
  BY <1>11 DEF OpenUnlock, DeviceUnlock, MutexHeld, HoldsMutex, LocalsFit, Removing,
               NullIsTransient, WillSettle
<1>12. ASSUME NEW c \in Conns, SendFind(c) PROVE NullIsTransient'
  BY <1>12 DEF SendFind, Return, MutexHeld, HoldsMutex, LocalsFit, Removing, NullIsTransient,
               WillSettle
<1>13. ASSUME NEW c \in Conns, SendGet(c) PROVE NullIsTransient'
  BY <1>13 DEF SendGet, MutexHeld, HoldsMutex, LocalsFit, Removing, NullIsTransient, WillSettle
<1>14. ASSUME NEW c \in Conns, SendIO(c) PROVE NullIsTransient'
  BY <1>14 DEF SendIO, MutexHeld, HoldsMutex, LocalsFit, Removing, NullIsTransient, WillSettle
<1>15. ASSUME NEW c \in Conns, SendUnlock(c) PROVE NullIsTransient'
  BY <1>15 DEF SendUnlock, DeviceUnlock, MutexHeld, HoldsMutex, LocalsFit, Removing,
               NullIsTransient, WillSettle
<1>16. ASSUME NEW c \in Conns, RemoveConn(c) PROVE NullIsTransient'
  BY <1>16 DEF RemoveConn, MutexHeld, HoldsMutex, LocalsFit, Removing, NullIsTransient,
               WillSettle
<1>17. ASSUME NEW c \in Conns, RemovePair(c) PROVE NullIsTransient'
  BY <1>17 DEF RemovePair, MutexHeld, HoldsMutex, LocalsFit, Removing, NullIsTransient,
               WillSettle
<1>18. ASSUME NEW c \in Conns, RemoveDev(c) PROVE NullIsTransient'
  BY <1>18 DEF RemoveDev, MutexHeld, HoldsMutex, LocalsFit, Removing, NullIsTransient,
               WillSettle
<1>19. ASSUME NEW c \in Conns, RemoveDestroy(c) PROVE NullIsTransient'
  BY <1>19 DEF RemoveDestroy, MutexHeld, HoldsMutex, LocalsFit, Removing, NullIsTransient,
               WillSettle
<1>20. ASSUME NEW c \in Conns, RemoveErase(c) PROVE NullIsTransient'
  BY <1>20 DEF RemoveErase, MutexHeld, HoldsMutex, LocalsFit, Removing, NullIsTransient,
               WillSettle
<1>21. ASSUME NEW c \in Conns, RemoveUnlock(c) PROVE NullIsTransient'
  BY <1>21 DEF RemoveUnlock, DeviceUnlock, MutexHeld, HoldsMutex, LocalsFit, Removing,
               NullIsTransient, WillSettle
<1>22. CASE UNCHANGED vars
  BY <1>22 DEF vars, MutexHeld, HoldsMutex, LocalsFit, Removing, NullIsTransient, WillSettle
<1>23. QED
  BY <1>1, <1>2, <1>3, <1>4, <1>5, <1>6, <1>7, <1>8, <1>9, <1>10, <1>11, <1>12, <1>13,
     <1>14, <1>15, <1>16, <1>17, <1>18, <1>19, <1>20, <1>21, <1>22 DEF Next, Step

-----------------------------------------------------------------------------
(* Theorems for all clients, also those that name several devices.         *)

\* Every step of every thread preserves the invariant.
LEMMA NextIInv == IInv /\ [Next]_vars => IInv'
BY TypeStep, MutexStep, LocalsStep, AccountStep, NullStep DEF IInv

\* The invariant holds in every reachable state of the server's device table.
THEOREM Invariance == Spec => []IInv
<1>1. Init => IInv
  BY InitIInv
<1>2. IInv /\ [Next]_vars => IInv'
  BY NextIInv
<1>3. QED
  BY <1>1, <1>2, PTL DEF Spec

\* Every variable stays in its type.
THEOREM TypeCorrect == Spec => []TypeOK
<1>1. IInv => TypeOK
  BY DEF IInv
<1>2. QED
  BY <1>1, Invariance, PTL

\* No handle is leaked or left in the map after its destruction.
THEOREM NoHandleLeaks == Spec => []HandlesAccounted
<1>1. IInv => HandlesAccounted
  BY DEF IInv
<1>2. QED
  BY <1>1, Invariance, PTL

\* An entry without handle always has a thread that is going to settle it.
THEOREM NullEntriesAreTransient == Spec => []NullIsTransient
<1>1. IInv => NullIsTransient
  BY DEF IInv
<1>2. QED
  BY <1>1, Invariance, PTL

\* The holder of a device's mutex is the thread that steps when the entry changes.
LEMMA OwnerSteps ==
    ASSUME IInv, [Next]_vars, NEW d \in DevIds, devs'[d] # devs[d]
    PROVE  owner[d] # NoConn /\ pc'[owner[d]] # pc[owner[d]]
<1> USE ConstantsAssumption DEF IInv, TypeOK, PCs, Goto, table, lock, locals, MutexHeld, HoldsMutex
<1>1. ASSUME NEW c \in Conns, owner[d] = c, pc'[c] # pc[c]
      PROVE  owner[d] # NoConn /\ pc'[owner[d]] # pc[owner[d]]
  BY <1>1
<1>2. ASSUME NEW c \in Conns, OpenFind(c) PROVE owner[d] = c /\ pc'[c] # pc[c]
  BY <1>2 DEF OpenFind
<1>3. ASSUME NEW c \in Conns, OpenStore(c) PROVE owner[d] = c /\ pc'[c] # pc[c]
  BY <1>3 DEF OpenStore
<1>4. ASSUME NEW c \in Conns, SendGet(c) PROVE owner[d] = c /\ pc'[c] # pc[c]
  BY <1>4 DEF SendGet
<1>5. ASSUME NEW c \in Conns, RemoveDestroy(c) PROVE owner[d] = c /\ pc'[c] # pc[c]
  BY <1>5 DEF RemoveDestroy
<1>6. ASSUME NEW c \in Conns, RemoveErase(c) PROVE owner[d] = c /\ pc'[c] # pc[c]
  BY <1>6 DEF RemoveErase
<1>7. ASSUME NEW c \in Conns, Arrive(c) \/ Reply(c) PROVE FALSE
  BY <1>7 DEF Arrive, OpenRequest, CommandRequest, CloseRequest, Disconnect, Begin, Reply
<1>8. ASSUME NEW c \in Conns,
             ReadLock(c) \/ WriteLockBlocks(c) \/ WriteLock(c) \/ DeviceLock(c)
      PROVE  FALSE
  BY <1>8 DEF ReadLock, WriteLockBlocks, WriteLock, DeviceLock
<1>9. ASSUME NEW c \in Conns, OpenCheck(c) \/ OpenCreate(c) \/ OpenUnlock(c) PROVE FALSE
  BY <1>9 DEF OpenCheck, OpenCreate, OpenUnlock
<1>10. ASSUME NEW c \in Conns, SendFind(c) \/ SendIO(c) \/ SendUnlock(c) PROVE FALSE
  BY <1>10 DEF SendFind, SendIO, SendUnlock
<1>11. ASSUME NEW c \in Conns,
              RemoveConn(c) \/ RemovePair(c) \/ RemoveDev(c) \/ RemoveUnlock(c)
       PROVE  FALSE
  BY <1>11 DEF RemoveConn, RemovePair, RemoveDev, RemoveUnlock
<1>12. CASE UNCHANGED vars
  BY <1>12 DEF vars
<1>13. QED
  BY <1>1, <1>2, <1>3, <1>4, <1>5, <1>6, <1>7, <1>8, <1>9, <1>10, <1>11, <1>12 DEF Next, Step

\* The map's view of a device is changed only by the holder of the device's mutex.
THEOREM OnlyOwnersChange == Spec => ChangedByOwner
<1>1. IInv /\ [Next]_vars =>
        [\A d \in DevIds : devs'[d] # devs[d] => /\ owner[d] # NoConn
                                                 /\ pc'[owner[d]] # pc[owner[d]]]_vars
  BY OwnerSteps
<1>2. QED
  BY <1>1, Invariance, PTL DEF Spec, ChangedByOwner
-----------------------------------------------------------------------------
(* The serial ports see what they demand.                                  *)

Port == [d \in DevIds |-> {h \in Handles : hdev[h] = d}]
Users == [d \in DevIds |-> {c \in Conns : pc[c] = "s_io" /\ loc[c] # Null /\ dev[c] = d}]

\* A function that changes at one device.
LEMMA OneChange ==
    ASSUME NEW F, NEW G, NEW d \in DevIds, NEW V,
           F = [e \in DevIds |-> F[e]], G = [e \in DevIds |-> G[e]],
           G[d] = V, \A e \in DevIds : e # d => G[e] = F[e]
    PROVE  G = [F EXCEPT ![d] = V]
OBVIOUS

\* A creation finds no live handle of its device.
LEMMA CreateRefines ==
    ASSUME IInv, NEW c \in Conns, OpenCreate(c)
    PROVE  [Ports!Next]_(Ports!vars)
<1> USE ConstantsAssumption DEF IInv, TypeOK, PCs, Goto, lock, table
<1>1. PICK d \in DevIds : d = dev[c]
  OBVIOUS
<1>2. pc[c] = "o_create" /\ devs[d] = Null
  BY <1>1 DEF OpenCreate, LocalsFit
<1>3. \A b \in Conns : ~Creating(b, d)
  BY <1>1, <1>2 DEF MutexHeld, HoldsMutex, Creating
<1>4. \A h \in Handles : hdev[h] # d
  BY <1>2, <1>3 DEF HandlesAccounted
<1>5. Users' = Users
  BY DEF OpenCreate, Users
<1>6. CASE UNCHANGED hdev
  BY <1>5, <1>6 DEF Ports!vars, Users
<1>7. ASSUME NEW h \in Handles, hdev[h] = NoDev, hdev' = [hdev EXCEPT ![h] = d]
      PROVE  Ports!Open(d, h)
  <2>1. Port[d] = {} /\ \A e \in DevIds : h \notin Port[e]
    BY <1>4, <1>7 DEF Port
  <2>2. Port'[d] = {h} /\ \A e \in DevIds : e # d => Port'[e] = Port[e]
    BY <1>4, <1>7 DEF Port
  <2>3. Port' = [Port EXCEPT ![d] = {h}]
    BY <2>2, OneChange DEF Port
  <2>4. QED
    BY <1>5, <2>1, <2>3 DEF Ports!Open, Port, Users
<1>8. ASSUME NEW h \in Handles, hdev[h] = NoDev, hdev' = [hdev EXCEPT ![h] = d]
      PROVE  Ports!Next
  BY <1>7, <1>8 DEF Ports!Next
<1>9. QED
  BY <1>1, <1>6, <1>8 DEF OpenCreate

\* An exchange starts on the live handle of the device, and alone.
LEMMA GetRefines ==
    ASSUME IInv, NEW c \in Conns, SendGet(c)
    PROVE  [Ports!Next]_(Ports!vars)
<1> USE ConstantsAssumption DEF IInv, TypeOK, PCs, Goto, lock, table
<1>1. PICK d \in DevIds : d = dev[c]
  OBVIOUS
<1>2. pc[c] = "s_get" /\ Port' = Port
  BY DEF SendGet, Port
<1>3. \A b \in Conns : pc[b] = "s_io" => dev[b] # d
  BY <1>1, <1>2 DEF MutexHeld, HoldsMutex
<1>4. \A e \in DevIds : e # d => Users'[e] = Users[e]
  BY <1>1, <1>2 DEF Users, SendGet
<1>5. CASE devs[d] \in Handles
  <2>1. Port[d] # {}
    BY <1>1, <1>5 DEF HandlesAccounted, Port
  <2>2. Users[d] = {}
    BY <1>3 DEF Users
  <2>3. pc'[c] = "s_io" /\ loc'[c] # Null /\ dev'[c] = d
    BY <1>1, <1>5 DEF SendGet
  <2>4. \A b \in Conns \ {c} : pc'[b] = "s_io" => dev'[b] # d
    BY <1>3 DEF SendGet
  <2>5. Users'[d] = {c}
    BY <2>3, <2>4 DEF Users
  <2>6. Users' = [Users EXCEPT ![d] = {c}]
    BY <1>4, <2>5, OneChange DEF Users
  <2>7. Ports!StartExchange(c, d)
    BY <1>2, <2>1, <2>2, <2>6 DEF Ports!StartExchange, Port, Users
  <2>8. QED
    BY <2>7 DEF Ports!Next
<1>6. CASE devs[d] \notin Handles
  <2>1. loc'[c] = Null /\ \A b \in Conns \ {c} : loc'[b] = loc[b] /\ pc'[b] = pc[b]
    BY <1>1, <1>6 DEF SendGet
  <2>2. Users'[d] = Users[d]
    BY <1>2, <2>1 DEF Users, SendGet
  <2>3. Users' = Users
    BY <1>4, <2>2 DEF Users
  <2>4. QED
    BY <1>2, <2>3 DEF Ports!vars, Port, Users
<1>7. QED
  BY <1>5, <1>6

\* An exchange is ended by the one that started it.
LEMMA IORefines ==
    ASSUME IInv, NEW c \in Conns, SendIO(c)
    PROVE  [Ports!Next]_(Ports!vars)
<1> USE ConstantsAssumption DEF IInv, TypeOK, PCs, Goto, lock, table
<1>1. PICK d \in DevIds : d = dev[c]
  OBVIOUS
<1>2. pc[c] = "s_io" /\ Port' = Port
  BY DEF SendIO, Port
<1>3. \A b \in Conns \ {c} : pc[b] = "s_io" => dev[b] # d
  BY <1>1, <1>2 DEF MutexHeld, HoldsMutex
<1>4. pc'[c] = "s_unlock" /\ \A b \in Conns \ {c} : pc'[b] = pc[b]
  BY DEF SendIO
<1>5. \A e \in DevIds : e # d => Users'[e] = Users[e]
  BY <1>1, <1>4 DEF Users, SendIO
<1>6. Users'[d] = {}
  BY <1>3, <1>4 DEF Users, SendIO
<1>7. CASE loc[c] # Null
  <2>1. Users[d] = {c}
    BY <1>1, <1>2, <1>3, <1>7 DEF Users
  <2>2. Users' = [Users EXCEPT ![d] = {}]
    BY <1>5, <1>6, OneChange DEF Users
  <2>3. Ports!EndExchange(c, d)
    BY <1>2, <2>1, <2>2 DEF Ports!EndExchange, Port, Users
  <2>4. QED
    BY <2>3 DEF Ports!Next
<1>8. CASE loc[c] = Null
  <2>1. Users[d] = {}
    BY <1>3, <1>8 DEF Users
  <2>2. Users' = Users
    BY <1>5, <1>6, <2>1 DEF Users
  <2>3. QED
    BY <1>2, <2>2 DEF Ports!vars, Port, Users
<1>9. QED
  BY <1>7, <1>8

\* A handle is destroyed while nobody uses it, and was the only one.
LEMMA DestroyRefines ==
    ASSUME IInv, NEW c \in Conns, RemoveDestroy(c)
    PROVE  [Ports!Next]_(Ports!vars)
<1> USE ConstantsAssumption DEF IInv, TypeOK, PCs, Goto, lock, table, locals
<1>1. PICK d \in DevIds : d = dev[c]
  OBVIOUS
<1>2. pc[c] = "r_destroy" /\ Users' = Users
  BY DEF RemoveDestroy, Users
<1>3. \A b \in Conns : (pc[b] = "s_io" => dev[b] # d) /\ ~Creating(b, d)
  BY <1>1, <1>2 DEF MutexHeld, HoldsMutex, Creating
<1>4. CASE devs[d] = Null
  BY <1>1, <1>2, <1>4 DEF RemoveDestroy, Ports!vars, Users
<1>5. CASE devs[d] # Null
  <2>1. devs[d] \in Handles /\ hdev[devs[d]] = d
    BY <1>1, <1>2, <1>5 DEF LocalsFit, HandlesAccounted
  <2>2. \A h \in Handles : hdev[h] = d => h = devs[d]
    BY <1>3 DEF HandlesAccounted
  <2>3. hdev' = [hdev EXCEPT ![devs[d]] = NoDev]
    BY <1>1, <1>5 DEF RemoveDestroy
  <2>4. Port[d] # {} /\ Users[d] = {}
    BY <1>3, <2>1 DEF Port, Users
  <2>5. Port'[d] = {} /\ \A e \in DevIds : e # d => Port'[e] = Port[e]
    BY <2>1, <2>2, <2>3 DEF Port
  <2>6. Port' = [Port EXCEPT ![d] = {}]
    BY <2>5, OneChange DEF Port
  <2>7. Ports!Close(d)
    BY <1>2, <2>4, <2>6 DEF Ports!Close, Port, Users
  <2>8. QED
    BY <2>7 DEF Ports!Next
<1>6. QED
  BY <1>4, <1>5

\* Every step of the server is one step of a port or none.
LEMMA StepRefines == IInv /\ [Next]_vars => [Ports!Next]_(Ports!vars)
<1> SUFFICES ASSUME IInv, [Next]_vars PROVE [Ports!Next]_(Ports!vars)
  OBVIOUS
<1>1. ASSUME NEW c \in Conns, hdev' = hdev, loc' = loc, dev' = dev,
             pc' = pc \/ \E p \in PCs \ {"s_io"} : pc[c] # "s_io" /\ pc' = [pc EXCEPT ![c] = p]
      PROVE  UNCHANGED Ports!vars
  BY <1>1 DEF Ports!vars, IInv, TypeOK
<1>2. ASSUME NEW c \in Conns, hdev' = hdev, pc[c] # "s_io", pc'[c] # "s_io",
             \A b \in Conns \ {c} : pc'[b] = pc[b] /\ loc'[b] = loc[b] /\ dev'[b] = dev[b]
      PROVE  UNCHANGED Ports!vars
  BY <1>2 DEF Ports!vars
<1> USE DEF IInv, TypeOK, Goto, table, lock, locals
<1>3. ASSUME NEW c \in Conns, Arrive(c) \/ Reply(c) PROVE UNCHANGED Ports!vars
  BY <1>2, <1>3 DEF Arrive, OpenRequest, CommandRequest, CloseRequest, Disconnect, Begin, Reply
<1>4. ASSUME NEW c \in Conns, ReadLock(c) \/ WriteLock(c) \/ DeviceLock(c)
      PROVE  UNCHANGED Ports!vars
  BY <1>2, <1>4 DEF ReadLock, WriteLock, DeviceLock, Goes
<1>5. ASSUME NEW c \in Conns, WriteLockBlocks(c) PROVE UNCHANGED Ports!vars
  BY <1>1, <1>5 DEF WriteLockBlocks
<1>6. ASSUME NEW c \in Conns, OpenCheck(c) \/ OpenFind(c) \/ OpenStore(c) \/ OpenUnlock(c)
      PROVE  UNCHANGED Ports!vars
  BY <1>2, <1>6 DEF OpenCheck, OpenFind, OpenStore, OpenUnlock, Return
<1>7. ASSUME NEW c \in Conns, SendFind(c) \/ SendUnlock(c) PROVE UNCHANGED Ports!vars
  BY <1>2, <1>7 DEF SendFind, SendUnlock, Return
<1>8. ASSUME NEW c \in Conns,
             RemoveConn(c) \/ RemovePair(c) \/ RemoveDev(c) \/ RemoveErase(c) \/ RemoveUnlock(c)
      PROVE  UNCHANGED Ports!vars
  BY <1>2, <1>8 DEF RemoveConn, RemovePair, RemoveDev, RemoveErase, RemoveUnlock
<1>9. ASSUME UNCHANGED vars PROVE UNCHANGED Ports!vars
  BY <1>9 DEF vars, Ports!vars
<1>10. QED
  BY <1>3, <1>4, <1>5, <1>6, <1>7, <1>8, <1>9,
     CreateRefines, GetRefines, IORefines, DestroyRefines DEF Next, Step

\* The server uses the serial layer as xib_com.h demands: ports are opened once,
\* used by one exchange at a time, and closed between exchanges.
THEOREM PortsRefined == Spec => ImplementsPorts
<1>1. Init => Ports!Init
  BY ConstantsAssumption DEF Init, Ports!Init
<1>2. IInv /\ [Next]_vars => [Ports!Next]_(Ports!vars)
  BY StepRefines
<1>3. QED
  BY <1>1, <1>2, Invariance, PTL DEF Spec, ImplementsPorts, Ports!Spec
-----------------------------------------------------------------------------
(***************************************************************************)
(* _conns, the list of connections: who is on it, and that an open device  *)
(* has somebody on it.                                                     *)
(***************************************************************************)

\* In which operation a thread is, by its program counter, and when its
\* connection is off the list.
PairsFit ==
    \A c \in Conns :
        /\ pc[c] = "idle" => op[c] = "none"
        /\ pc[c] \in {"o_read", "o_check", "o_mutex", "o_write", "o_find", "o_create",
                      "o_write2", "o_store", "o_unlock"} => op[c] = "open"
        /\ pc[c] \in {"s_read", "s_find", "s_mutex", "s_get", "s_io", "s_unlock"} => op[c] = "send"
        /\ pc[c] \in Removing => op[c] \in {"close", "disc", "force"}
        /\ op[c] = "disc" /\ pc[c] \in {"r_read2", "r_dev", "r_destroy", "r_write2", "r_erase",
                                        "r_unlock", "reply"} => ~HasPair(c)

\* With one device per connection, the pair a connection has is that device's.
UsesFit ==
    \A c \in Conns :
        /\ \A d \in DevIds : <<c, d>> \in conns => d \in Uses[c]
        /\ op[c] \in {"open", "send", "close", "force"} => dev[c] \in Uses[c]
        /\ op[c] = "disc" /\ pc[c] \in {"r_mutex", "r_write", "r_pair"}
              => \A d \in DevIds : <<c, d>> \in conns => d = dev[c]

\* An open device is served, or the thread that took the last connection off
\* the list is still going to look.
ServedOrLooking ==
    \A d \in DevIds :
        devs[d] \in Handles =>
            \/ IsServed(d)
            \/ \E c \in Conns : dev[c] = d /\ pc[c] \in {"r_read2", "r_dev", "r_destroy"}

OneDevicePerConn == \A c \in Conns : \A d, e \in Uses[c] : d = e

\* A step that leaves the list alone changes nobody's place on it.
LEMMA ListUnchanged ==
    ASSUME conns' = conns
    PROVE  /\ \A b \in Conns : HasPair(b)' <=> HasPair(b)
           /\ \A d \in DevIds : IsServed(d)' <=> IsServed(d)
BY DEF HasPair, IsServed

\* A connection gets on the list only after it was found off it.
LEMMA PairsStep ==
    ASSUME TypeOK, PairsFit, ListedOnce, [Next]_vars
    PROVE  (PairsFit /\ ListedOnce)'
<1>t. /\ pc \in [Conns -> PCs] /\ dev \in [Conns -> DevIds] /\ owner \in [DevIds -> Conns \cup {NoConn}]
      /\ op \in [Conns -> {"none", "open", "send", "close", "disc", "force"}]
      /\ devs \in [DevIds -> Handles \cup {Null, Absent}]
  BY DEF TypeOK
<1> USE ConstantsAssumption DEF PCs, Goto, table, lock, locals
<1>1. ASSUME NEW c \in Conns, Arrive(c) PROVE (PairsFit /\ ListedOnce)'
  BY <1>t, <1>1, ListUnchanged DEF Arrive, OpenRequest, CommandRequest, CloseRequest,
                                   Disconnect, Begin, PairsFit, ListedOnce, Removing
<1>2. ASSUME NEW c \in Conns, Reply(c) PROVE (PairsFit /\ ListedOnce)'
  BY <1>t, <1>2, ListUnchanged DEF Reply, PairsFit, ListedOnce, Removing
<1>3. ASSUME NEW c \in Conns, ReadLock(c) PROVE (PairsFit /\ ListedOnce)'
  BY <1>t, <1>3, ListUnchanged DEF ReadLock, Goes, PairsFit, ListedOnce, Removing
<1>4. ASSUME NEW c \in Conns, WriteLockBlocks(c) PROVE (PairsFit /\ ListedOnce)'
  BY <1>t, <1>4, ListUnchanged DEF WriteLockBlocks, PairsFit, ListedOnce, Removing
<1>5. ASSUME NEW c \in Conns, WriteLock(c) PROVE (PairsFit /\ ListedOnce)'
  BY <1>t, <1>5, ListUnchanged DEF WriteLock, Goes, PairsFit, ListedOnce, Removing
<1>6. ASSUME NEW c \in Conns, DeviceLock(c) PROVE (PairsFit /\ ListedOnce)'
  BY <1>t, <1>6, ListUnchanged DEF DeviceLock, Goes, PairsFit, ListedOnce, Removing
<1>7. ASSUME NEW c \in Conns, OpenCheck(c) PROVE (PairsFit /\ ListedOnce)'
  BY <1>t, <1>7, ListUnchanged DEF OpenCheck, Return, PairsFit, ListedOnce, Removing
<1>8. ASSUME NEW c \in Conns, OpenFind(c) PROVE (PairsFit /\ ListedOnce)'
  <2>1. CASE devs[dev[c]] = Absent
    <3>u. UNCHANGED conns
      BY <1>8, <2>1 DEF OpenFind
    <3>1. QED
      BY <1>t, <1>8, <2>1, <3>u, ListUnchanged DEF OpenFind, PairsFit, ListedOnce, Removing
  <2>2. CASE devs[dev[c]] # Absent
    <3>u. conns' = conns \cup {<<c, dev[c]>>}
      BY <1>8, <2>2 DEF OpenFind
    <3>1. \A b \in Conns \ {c} : \A d \in DevIds : <<b, d>> \in conns' <=> <<b, d>> \in conns
      BY <3>u
    <3>2. \A d \in DevIds : <<c, d>> \notin conns
      BY <1>8 DEF OpenFind, PairsFit, ListedOnce, HasPair
    <3>3. \A d \in DevIds : <<c, d>> \in conns' => d = dev[c]
      BY <3>u, <3>2
    <3>4. \A b \in Conns \ {c} : HasPair(b)' <=> HasPair(b)
      BY <3>1 DEF HasPair
    <3>5. pc'[c] = "o_unlock" /\ op' = op /\ \A b \in Conns \ {c} : pc'[b] = pc[b]
      BY <1>t, <1>8, <2>2 DEF OpenFind
    <3>6. PairsFit'
      BY <1>t, <1>8, <3>4, <3>5 DEF OpenFind, PairsFit, Removing
    <3>7. ListedOnce'
      BY <1>t, <3>1, <3>3, <3>4, <3>5 DEF ListedOnce
    <3>8. QED BY <3>6, <3>7
  <2>3. QED BY <2>1, <2>2
<1>9. ASSUME NEW c \in Conns, OpenCreate(c) PROVE (PairsFit /\ ListedOnce)'
  BY <1>t, <1>9, ListUnchanged DEF OpenCreate, PairsFit, ListedOnce, Removing
<1>10. ASSUME NEW c \in Conns, OpenStore(c) PROVE (PairsFit /\ ListedOnce)'
  <2>1. CASE ~(loc[c] # Null /\ devs[dev[c]] # Absent)
    <3>u. UNCHANGED conns
      BY <1>10, <2>1 DEF OpenStore
    <3>1. QED
      BY <1>t, <1>10, <2>1, <3>u, ListUnchanged DEF OpenStore, PairsFit, ListedOnce, Removing
  <2>2. CASE loc[c] # Null /\ devs[dev[c]] # Absent
    <3>u. conns' = conns \cup {<<c, dev[c]>>}
      BY <1>10, <2>2 DEF OpenStore
    <3>1. \A b \in Conns \ {c} : \A d \in DevIds : <<b, d>> \in conns' <=> <<b, d>> \in conns
      BY <3>u
    <3>2. \A d \in DevIds : <<c, d>> \notin conns
      BY <1>10 DEF OpenStore, PairsFit, ListedOnce, HasPair
    <3>3. \A d \in DevIds : <<c, d>> \in conns' => d = dev[c]
      BY <3>u, <3>2
    <3>4. \A b \in Conns \ {c} : HasPair(b)' <=> HasPair(b)
      BY <3>1 DEF HasPair
    <3>5. pc'[c] = "o_unlock" /\ op' = op /\ \A b \in Conns \ {c} : pc'[b] = pc[b]
      BY <1>t, <1>10, <2>2 DEF OpenStore
    <3>6. PairsFit'
      BY <1>t, <1>10, <3>4, <3>5 DEF OpenStore, PairsFit, Removing
    <3>7. ListedOnce'
      BY <1>t, <3>1, <3>3, <3>4, <3>5 DEF ListedOnce
    <3>8. QED BY <3>6, <3>7
  <2>3. QED BY <2>1, <2>2
<1>11. ASSUME NEW c \in Conns, OpenUnlock(c) PROVE (PairsFit /\ ListedOnce)'
  BY <1>t, <1>11, ListUnchanged DEF OpenUnlock, DeviceUnlock, PairsFit, ListedOnce, Removing
<1>12. ASSUME NEW c \in Conns, SendFind(c) PROVE (PairsFit /\ ListedOnce)'
  BY <1>t, <1>12, ListUnchanged DEF SendFind, Return, PairsFit, ListedOnce, Removing
<1>13. ASSUME NEW c \in Conns, SendGet(c) PROVE (PairsFit /\ ListedOnce)'
  BY <1>t, <1>13, ListUnchanged DEF SendGet, PairsFit, ListedOnce, Removing
<1>14. ASSUME NEW c \in Conns, SendIO(c) PROVE (PairsFit /\ ListedOnce)'
  BY <1>t, <1>14, ListUnchanged DEF SendIO, PairsFit, ListedOnce, Removing
<1>15. ASSUME NEW c \in Conns, SendUnlock(c) PROVE (PairsFit /\ ListedOnce)'
  BY <1>t, <1>15, ListUnchanged DEF SendUnlock, DeviceUnlock, PairsFit, ListedOnce, Removing
<1>16. ASSUME NEW c \in Conns, RemoveConn(c) PROVE (PairsFit /\ ListedOnce)'
  BY <1>t, <1>16, ListUnchanged DEF RemoveConn, PairsFit, ListedOnce, Removing
<1>17. ASSUME NEW c \in Conns, RemovePair(c) PROVE (PairsFit /\ ListedOnce)'
  <2>1. \A b \in Conns \ {c} : \A d \in DevIds : <<b, d>> \in conns' <=> <<b, d>> \in conns
    BY <1>17 DEF RemovePair
  <2>2. \A d \in DevIds : <<c, d>> \in conns' => <<c, d>> \in conns
    BY <1>17 DEF RemovePair
  <2>3. op[c] # "force" => \A d \in DevIds : <<c, d>> \notin conns'
    BY <1>17 DEF RemovePair, ListedOnce, HasPair
  <2>4. \A b \in Conns \ {c} : HasPair(b)' <=> HasPair(b)
    BY <2>1 DEF HasPair
  <2>5. op[c] # "force" => ~HasPair(c)'
    BY <2>3 DEF HasPair
  <2>6. PairsFit'
    BY <1>t, <1>17, <2>4, <2>5 DEF RemovePair, PairsFit, Removing
  <2>7. ListedOnce'
    BY <1>t, <1>17, <2>1, <2>2, <2>4, <2>5 DEF RemovePair, PairsFit, ListedOnce, Removing
  <2>8. QED BY <2>6, <2>7
<1>18. ASSUME NEW c \in Conns, RemoveDev(c) PROVE (PairsFit /\ ListedOnce)'
  BY <1>t, <1>18, ListUnchanged DEF RemoveDev, PairsFit, ListedOnce, Removing
<1>19. ASSUME NEW c \in Conns, RemoveDestroy(c) PROVE (PairsFit /\ ListedOnce)'
  BY <1>t, <1>19, ListUnchanged DEF RemoveDestroy, PairsFit, ListedOnce, Removing
<1>20. ASSUME NEW c \in Conns, RemoveErase(c) PROVE (PairsFit /\ ListedOnce)'
  BY <1>t, <1>20, ListUnchanged DEF RemoveErase, PairsFit, ListedOnce, Removing
<1>21. ASSUME NEW c \in Conns, RemoveUnlock(c) PROVE (PairsFit /\ ListedOnce)'
  BY <1>t, <1>21, ListUnchanged DEF RemoveUnlock, DeviceUnlock, PairsFit, ListedOnce, Removing
<1>22. CASE UNCHANGED vars
  BY <1>22, ListUnchanged DEF vars, PairsFit, ListedOnce, Removing
<1>23. QED
  BY <1>1, <1>2, <1>3, <1>4, <1>5, <1>6, <1>7, <1>8, <1>9, <1>10, <1>11, <1>12, <1>13,
     <1>14, <1>15, <1>16, <1>17, <1>18, <1>19, <1>20, <1>21, <1>22 DEF Next, Step

\* A request names the one device of its connection.
LEMMA UsesStep ==
    ASSUME OneDevicePerConn, TypeOK, PairsFit, ListedOnce, UsesFit, [Next]_vars
    PROVE  UsesFit'
<1>t. /\ pc \in [Conns -> PCs] /\ dev \in [Conns -> DevIds] /\ owner \in [DevIds -> Conns \cup {NoConn}]
      /\ op \in [Conns -> {"none", "open", "send", "close", "disc", "force"}]
      /\ devs \in [DevIds -> Handles \cup {Null, Absent}]
  BY DEF TypeOK
<1> USE ConstantsAssumption DEF PCs, Goto, table, lock, locals
<1>1. ASSUME NEW c \in Conns, Arrive(c) PROVE UsesFit'
  BY <1>t, <1>1, ListUnchanged DEF Arrive, OpenRequest, CommandRequest, CloseRequest,
                                   Disconnect, Begin, PairsFit, UsesFit
<1>2. ASSUME NEW c \in Conns, Reply(c) PROVE UsesFit'
  BY <1>t, <1>2, ListUnchanged DEF Reply, PairsFit, UsesFit
<1>3. ASSUME NEW c \in Conns, ReadLock(c) PROVE UsesFit'
  BY <1>t, <1>3, ListUnchanged DEF ReadLock, Goes, PairsFit, UsesFit
<1>4. ASSUME NEW c \in Conns, WriteLockBlocks(c) PROVE UsesFit'
  BY <1>t, <1>4, ListUnchanged DEF WriteLockBlocks, PairsFit, UsesFit
<1>5. ASSUME NEW c \in Conns, WriteLock(c) PROVE UsesFit'
  BY <1>t, <1>5, ListUnchanged DEF WriteLock, Goes, PairsFit, UsesFit
<1>6. ASSUME NEW c \in Conns, DeviceLock(c) PROVE UsesFit'
  BY <1>t, <1>6, ListUnchanged DEF DeviceLock, Goes, PairsFit, UsesFit
<1>7. ASSUME NEW c \in Conns, OpenCheck(c) PROVE UsesFit'
  BY <1>t, <1>7, ListUnchanged DEF OpenCheck, Return, PairsFit, UsesFit
<1>8. ASSUME NEW c \in Conns, OpenFind(c) PROVE UsesFit'
  <2>1. \A b \in Conns : \A d \in DevIds :
           <<b, d>> \in conns' => <<b, d>> \in conns \/ (b = c /\ d = dev[c])
    BY <1>8 DEF OpenFind
  <2>2. op[c] = "open"
    BY <1>8 DEF OpenFind, PairsFit
  <2>3. op' = op /\ dev' = dev /\ pc'[c] \in {"o_unlock", "o_create"}
        /\ \A b \in Conns \ {c} : pc'[b] = pc[b]
    BY <1>t, <1>8 DEF OpenFind
  <2>4. QED
    BY <1>t, <2>1, <2>2, <2>3 DEF UsesFit
<1>9. ASSUME NEW c \in Conns, OpenCreate(c) PROVE UsesFit'
  BY <1>t, <1>9, ListUnchanged DEF OpenCreate, PairsFit, UsesFit
<1>10. ASSUME NEW c \in Conns, OpenStore(c) PROVE UsesFit'
  <2>1. \A b \in Conns : \A d \in DevIds :
           <<b, d>> \in conns' => <<b, d>> \in conns \/ (b = c /\ d = dev[c])
    BY <1>10 DEF OpenStore
  <2>2. op[c] = "open"
    BY <1>10 DEF OpenStore, PairsFit
  <2>3. op' = op /\ dev' = dev /\ pc'[c] \in {"o_unlock", "o_create"}
        /\ \A b \in Conns \ {c} : pc'[b] = pc[b]
    BY <1>t, <1>10 DEF OpenStore
  <2>4. QED
    BY <1>t, <2>1, <2>2, <2>3 DEF UsesFit
<1>11. ASSUME NEW c \in Conns, OpenUnlock(c) PROVE UsesFit'
  BY <1>t, <1>11, ListUnchanged DEF OpenUnlock, DeviceUnlock, PairsFit, UsesFit
<1>12. ASSUME NEW c \in Conns, SendFind(c) PROVE UsesFit'
  BY <1>t, <1>12, ListUnchanged DEF SendFind, Return, PairsFit, UsesFit
<1>13. ASSUME NEW c \in Conns, SendGet(c) PROVE UsesFit'
  BY <1>t, <1>13, ListUnchanged DEF SendGet, PairsFit, UsesFit
<1>14. ASSUME NEW c \in Conns, SendIO(c) PROVE UsesFit'
  BY <1>t, <1>14, ListUnchanged DEF SendIO, PairsFit, UsesFit
<1>15. ASSUME NEW c \in Conns, SendUnlock(c) PROVE UsesFit'
  BY <1>t, <1>15, ListUnchanged DEF SendUnlock, DeviceUnlock, PairsFit, UsesFit
<1>16. ASSUME NEW c \in Conns, RemoveConn(c) PROVE UsesFit'
  <2>1. op[c] = "disc" => \A d \in DevIds : <<c, d>> \in conns => d = dev'[c]
    BY <1>t, <1>16 DEF RemoveConn, ListedOnce, HasPair
  <2>2. op[c] # "disc" => dev'[c] = dev[c]
    BY <1>t, <1>16 DEF RemoveConn
  <2>3. conns' = conns /\ op' = op /\ \A b \in Conns \ {c} : pc'[b] = pc[b] /\ dev'[b] = dev[b]
    BY <1>t, <1>16 DEF RemoveConn
  <2>4. QED
    BY <1>t, <1>16, <2>1, <2>2, <2>3 DEF RemoveConn, UsesFit
<1>17. ASSUME NEW c \in Conns, RemovePair(c) PROVE UsesFit'
  <2>1. \A b \in Conns : \A d \in DevIds : <<b, d>> \in conns' => <<b, d>> \in conns
    BY <1>17 DEF RemovePair
  <2>2. QED
    BY <1>t, <1>17, <2>1 DEF RemovePair, UsesFit
<1>18. ASSUME NEW c \in Conns, RemoveDev(c) PROVE UsesFit'
  BY <1>t, <1>18, ListUnchanged DEF RemoveDev, PairsFit, UsesFit
<1>19. ASSUME NEW c \in Conns, RemoveDestroy(c) PROVE UsesFit'
  BY <1>t, <1>19, ListUnchanged DEF RemoveDestroy, PairsFit, UsesFit
<1>20. ASSUME NEW c \in Conns, RemoveErase(c) PROVE UsesFit'
  BY <1>t, <1>20, ListUnchanged DEF RemoveErase, PairsFit, UsesFit
<1>21. ASSUME NEW c \in Conns, RemoveUnlock(c) PROVE UsesFit'
  BY <1>t, <1>21, ListUnchanged DEF RemoveUnlock, DeviceUnlock, PairsFit, UsesFit
<1>22. CASE UNCHANGED vars
  BY <1>22, ListUnchanged DEF vars, PairsFit, UsesFit
<1>23. QED
  BY <1>1, <1>2, <1>3, <1>4, <1>5, <1>6, <1>7, <1>8, <1>9, <1>10, <1>11, <1>12, <1>13,
     <1>14, <1>15, <1>16, <1>17, <1>18, <1>19, <1>20, <1>21, <1>22 DEF Next, Step

\* Who takes a connection off the list looks whether it was the last.
LEMMA ServedStep ==
    ASSUME OneDevicePerConn, TypeOK, MutexHeld, LocalsFit, PairsFit, UsesFit, ServedOrLooking,
           [Next]_vars
    PROVE  ServedOrLooking'
<1>t. /\ pc \in [Conns -> PCs] /\ dev \in [Conns -> DevIds] /\ owner \in [DevIds -> Conns \cup {NoConn}]
      /\ op \in [Conns -> {"none", "open", "send", "close", "disc", "force"}]
      /\ devs \in [DevIds -> Handles \cup {Null, Absent}]
  BY DEF TypeOK
<1> USE ConstantsAssumption DEF PCs, Goto, table, lock, locals
<1>1. ASSUME NEW c \in Conns, Arrive(c) PROVE ServedOrLooking'
  BY <1>t, <1>1, ListUnchanged DEF Arrive, OpenRequest, CommandRequest, CloseRequest,
                                   Disconnect, Begin, LocalsFit, ServedOrLooking
<1>2. ASSUME NEW c \in Conns, Reply(c) PROVE ServedOrLooking'
  BY <1>t, <1>2, ListUnchanged DEF Reply, LocalsFit, ServedOrLooking
<1>3. ASSUME NEW c \in Conns, ReadLock(c) PROVE ServedOrLooking'
  BY <1>t, <1>3, ListUnchanged DEF ReadLock, Goes, LocalsFit, ServedOrLooking
<1>4. ASSUME NEW c \in Conns, WriteLockBlocks(c) PROVE ServedOrLooking'
  BY <1>t, <1>4, ListUnchanged DEF WriteLockBlocks, LocalsFit, ServedOrLooking
<1>5. ASSUME NEW c \in Conns, WriteLock(c) PROVE ServedOrLooking'
  BY <1>t, <1>5, ListUnchanged DEF WriteLock, Goes, LocalsFit, ServedOrLooking
<1>6. ASSUME NEW c \in Conns, DeviceLock(c) PROVE ServedOrLooking'
  BY <1>t, <1>6, ListUnchanged DEF DeviceLock, Goes, LocalsFit, ServedOrLooking
<1>7. ASSUME NEW c \in Conns, OpenCheck(c) PROVE ServedOrLooking'
  BY <1>t, <1>7, ListUnchanged DEF OpenCheck, Return, LocalsFit, ServedOrLooking
<1>8. ASSUME NEW c \in Conns, OpenFind(c) PROVE ServedOrLooking'
  <2>1. conns \subseteq conns'
    BY <1>8 DEF OpenFind
  <2>2. \A d \in DevIds : IsServed(d) => IsServed(d)'
    BY <2>1 DEF IsServed
  <2>3. devs'[dev[c]] \in Handles => <<c, dev[c]>> \in conns'
    BY <1>t, <1>8 DEF OpenFind, LocalsFit
  <2>4. devs'[dev[c]] \in Handles => IsServed(dev[c])'
    BY <1>t, <1>8, <2>3 DEF IsServed, OpenFind
  <2>5. QED
    BY <1>t, <1>8, <2>2, <2>4 DEF OpenFind, ServedOrLooking
<1>9. ASSUME NEW c \in Conns, OpenCreate(c) PROVE ServedOrLooking'
  BY <1>t, <1>9, ListUnchanged DEF OpenCreate, LocalsFit, ServedOrLooking
<1>10. ASSUME NEW c \in Conns, OpenStore(c) PROVE ServedOrLooking'
  <2>1. conns \subseteq conns'
    BY <1>10 DEF OpenStore
  <2>2. \A d \in DevIds : IsServed(d) => IsServed(d)'
    BY <2>1 DEF IsServed
  <2>3. devs'[dev[c]] \in Handles => <<c, dev[c]>> \in conns'
    BY <1>t, <1>10 DEF OpenStore, LocalsFit
  <2>4. devs'[dev[c]] \in Handles => IsServed(dev[c])'
    BY <1>t, <1>10, <2>3 DEF IsServed, OpenStore
  <2>5. QED
    BY <1>t, <1>10, <2>2, <2>4 DEF OpenStore, ServedOrLooking
<1>11. ASSUME NEW c \in Conns, OpenUnlock(c) PROVE ServedOrLooking'
  BY <1>t, <1>11, ListUnchanged DEF OpenUnlock, DeviceUnlock, LocalsFit, ServedOrLooking
<1>12. ASSUME NEW c \in Conns, SendFind(c) PROVE ServedOrLooking'
  BY <1>t, <1>12, ListUnchanged DEF SendFind, Return, LocalsFit, ServedOrLooking
<1>13. ASSUME NEW c \in Conns, SendGet(c) PROVE ServedOrLooking'
  BY <1>t, <1>13, ListUnchanged DEF SendGet, LocalsFit, ServedOrLooking
<1>14. ASSUME NEW c \in Conns, SendIO(c) PROVE ServedOrLooking'
  BY <1>t, <1>14, ListUnchanged DEF SendIO, LocalsFit, ServedOrLooking
<1>15. ASSUME NEW c \in Conns, SendUnlock(c) PROVE ServedOrLooking'
  BY <1>t, <1>15, ListUnchanged DEF SendUnlock, DeviceUnlock, LocalsFit, ServedOrLooking
<1>16. ASSUME NEW c \in Conns, RemoveConn(c) PROVE ServedOrLooking'
  BY <1>t, <1>16, ListUnchanged DEF RemoveConn, LocalsFit, ServedOrLooking
<1>17. ASSUME NEW c \in Conns, RemovePair(c) PROVE ServedOrLooking'
  <2>1. \A b \in Conns, d \in DevIds :
           <<b, d>> \in conns /\ d # dev[c] => <<b, d>> \in conns'
    <3>1. \A d \in DevIds : op[c] # "force" /\ <<c, d>> \in conns => d = dev[c]
      BY <1>t, <1>17 DEF RemovePair, PairsFit, UsesFit, OneDevicePerConn, Removing
    <3>2. QED
      BY <1>17, <3>1 DEF RemovePair
  <2>2. \A d \in DevIds \ {dev[c]} : IsServed(d) => IsServed(d)'
    BY <2>1 DEF IsServed
  <2>3. QED
    BY <1>t, <1>17, <2>2 DEF RemovePair, ServedOrLooking
<1>18. ASSUME NEW c \in Conns, RemoveDev(c) PROVE ServedOrLooking'
  BY <1>t, <1>18, ListUnchanged DEF RemoveDev, LocalsFit, ServedOrLooking
<1>19. ASSUME NEW c \in Conns, RemoveDestroy(c) PROVE ServedOrLooking'
  BY <1>t, <1>19, ListUnchanged DEF RemoveDestroy, LocalsFit, ServedOrLooking
<1>20. ASSUME NEW c \in Conns, RemoveErase(c) PROVE ServedOrLooking'
  BY <1>t, <1>20, ListUnchanged DEF RemoveErase, LocalsFit, ServedOrLooking
<1>21. ASSUME NEW c \in Conns, RemoveUnlock(c) PROVE ServedOrLooking'
  BY <1>t, <1>21, ListUnchanged DEF RemoveUnlock, DeviceUnlock, LocalsFit, ServedOrLooking
<1>22. CASE UNCHANGED vars
  BY <1>22, ListUnchanged DEF vars, LocalsFit, ServedOrLooking
<1>23. QED
  BY <1>1, <1>2, <1>3, <1>4, <1>5, <1>6, <1>7, <1>8, <1>9, <1>10, <1>11, <1>12, <1>13,
     <1>14, <1>15, <1>16, <1>17, <1>18, <1>19, <1>20, <1>21, <1>22 DEF Next, Step

-----------------------------------------------------------------------------
(* Theorems.                                                               *)

ListInv == IInv /\ PairsFit /\ ListedOnce

\* A connection is on the list at most once, and off it while it opens.
THEOREM Listing == Spec => []ListInv
<1>1. Init => ListInv
  <2>1. Init => PairsFit /\ ListedOnce
    BY DEF Init, PairsFit, ListedOnce, HasPair, Removing
  <2>2. QED
    BY <2>1, InitIInv DEF ListInv
<1>2. ListInv /\ [Next]_vars => ListInv'
  BY NextIInv, PairsStep DEF ListInv, IInv
<1>3. QED
  BY <1>1, <1>2, PTL DEF Spec

THEOREM ListedAtMostOnce == Spec => []ListedOnce
<1>1. ListInv => ListedOnce
  BY DEF ListInv
<1>2. QED
  BY <1>1, Listing, PTL

\* callback_disc leaves nothing of its connection on the list.
THEOREM DisconnectLeavesNothing == Spec => []GoneWhenDisconnected
<1>1. ListInv => GoneWhenDisconnected
  BY DEF ListInv, PairsFit, GoneWhenDisconnected
<1>2. QED
  BY <1>1, Listing, PTL

\* For clients that use one device per connection, a device that is open while
\* its mutex is free is open for a connection on the list.
THEOREM OpenDevicesAreServed ==
    ASSUME OneDevicePerConn
    PROVE  Spec => []OpenIsServed
<1> DEFINE Inv == ListInv /\ UsesFit /\ ServedOrLooking
<1>1. Init => Inv
  <2>1. Init => ListInv
    BY InitIInv DEF Init, ListInv, PairsFit, ListedOnce, HasPair, Removing
  <2>2. Init => UsesFit /\ ServedOrLooking
    BY ConstantsAssumption DEF Init, UsesFit, ServedOrLooking
  <2>3. QED
    BY <2>1, <2>2
<1>2. Inv /\ [Next]_vars => Inv'
  <2>1. ListInv /\ [Next]_vars => ListInv'
    BY NextIInv, PairsStep DEF ListInv, IInv
  <2>2. Inv /\ [Next]_vars => UsesFit'
    BY OneDevicePerConn, UsesStep DEF ListInv, IInv
  <2>3. Inv /\ [Next]_vars => ServedOrLooking'
    BY OneDevicePerConn, ServedStep DEF ListInv, IInv
  <2>4. QED
    BY <2>1, <2>2, <2>3
<1>3. Inv => OpenIsServed
  BY ConstantsAssumption DEF ListInv, IInv, TypeOK, MutexHeld, HoldsMutex, ServedOrLooking, OpenIsServed
<1>4. QED
  BY <1>1, <1>2, <1>3, PTL DEF Spec

-----------------------------------------------------------------------------
(***************************************************************************)
(* The locks of the table: every unlock finds its own lock, nobody waits   *)
(* in a circle, and the mutexes are used as the pool demands.              *)
(***************************************************************************)
\* Where a thread has _rwlock, and where it asks for it or for the mutex of its device.
ReadHeld == {"o_check", "s_find", "r_conn", "r_dev"}
WriteHeld == {"o_find", "o_store", "r_pair", "r_erase"}
ReadAsked == {"o_read", "s_read", "r_read", "r_read2"}
WriteAsked == {"o_write", "o_write2", "r_write", "r_write2"}
MutexAsked == {"o_mutex", "s_mutex", "r_mutex"}

\* A thread has _rwlock exactly between a lock and the unlock that follows it on every path:
\* each unlock finds it locked by its own thread, and no thread asks for it twice.
LockHeld ==
    \A c \in Conns :
        /\ c \in readers <=> pc[c] \in ReadHeld
        /\ c \in writers <=> pc[c] \in WriteHeld
        /\ c \in waiting => pc[c] \in WriteAsked

\* No step breaks the discipline of _rwlock.
LEMMA LockStep ==
    ASSUME TypeOK, LockHeld, [Next]_vars
    PROVE  LockHeld'
<1> USE DEF TypeOK, PCs, RW!TypeOK, Goto, Goes, table, lock, locals, LockHeld,
            ReadHeld, WriteHeld, WriteAsked
<1>1. ASSUME NEW c \in Conns, Arrive(c) PROVE LockHeld'
  BY <1>1 DEF Arrive, OpenRequest, CommandRequest, CloseRequest, Disconnect, Begin
<1>2. ASSUME NEW c \in Conns, Reply(c) PROVE LockHeld'
  BY <1>2 DEF Reply
<1>3. ASSUME NEW c \in Conns, ReadLock(c) PROVE LockHeld'
  BY <1>3 DEF ReadLock, RW!AcquireRead
<1>4. ASSUME NEW c \in Conns, WriteLockBlocks(c) PROVE LockHeld'
  BY <1>4 DEF WriteLockBlocks, RW!RequestWrite
<1>5. ASSUME NEW c \in Conns, WriteLock(c) PROVE LockHeld'
  BY <1>5 DEF WriteLock, RW!AcquireWrite
<1>6. ASSUME NEW c \in Conns, DeviceLock(c) PROVE LockHeld'
  BY <1>6 DEF DeviceLock
<1>7. ASSUME NEW c \in Conns, OpenCheck(c) PROVE LockHeld'
  BY <1>7 DEF OpenCheck, Return, RW!ReleaseRead
<1>8. ASSUME NEW c \in Conns, OpenFind(c) PROVE LockHeld'
  BY <1>8 DEF OpenFind, RW!ReleaseWrite
<1>9. ASSUME NEW c \in Conns, OpenCreate(c) PROVE LockHeld'
  BY <1>9 DEF OpenCreate
<1>10. ASSUME NEW c \in Conns, OpenStore(c) PROVE LockHeld'
  BY <1>10 DEF OpenStore, RW!ReleaseWrite
<1>11. ASSUME NEW c \in Conns, OpenUnlock(c) PROVE LockHeld'
  BY <1>11 DEF OpenUnlock
<1>12. ASSUME NEW c \in Conns, SendFind(c) PROVE LockHeld'
  BY <1>12 DEF SendFind, Return, RW!ReleaseRead
<1>13. ASSUME NEW c \in Conns, SendGet(c) \/ SendIO(c) \/ SendUnlock(c) PROVE LockHeld'
  BY <1>13 DEF SendGet, SendIO, SendUnlock
<1>14. ASSUME NEW c \in Conns, RemoveConn(c) \/ RemoveDev(c) PROVE LockHeld'
  BY <1>14 DEF RemoveConn, RemoveDev, RW!ReleaseRead
<1>15. ASSUME NEW c \in Conns, RemovePair(c) \/ RemoveErase(c) PROVE LockHeld'
  BY <1>15 DEF RemovePair, RemoveErase, RW!ReleaseWrite
<1>16. ASSUME NEW c \in Conns, RemoveDestroy(c) \/ RemoveUnlock(c) PROVE LockHeld'
  BY <1>16 DEF RemoveDestroy, RemoveUnlock
<1>17. CASE UNCHANGED vars
  BY <1>17 DEF vars
<1>18. QED
  BY <1>1, <1>2, <1>3, <1>4, <1>5, <1>6, <1>7, <1>8, <1>9, <1>10, <1>11, <1>12, <1>13,
     <1>14, <1>15, <1>16, <1>17 DEF Next, Step

\* Every unlock of _rwlock is the unlock of one's own lock.
THEOREM LockDiscipline == Spec => []LockHeld
<1>1. Init => LockHeld
  BY DEF Init, RW!Init, LockHeld, ReadHeld, WriteHeld
<1>2. TypeOK /\ LockHeld /\ [Next]_vars => LockHeld'
  BY LockStep
<1>3. QED
  BY <1>1, <1>2, TypeCorrect, PTL DEF Spec

\* A thread that waits for another one: for the readers and writers of _rwlock, for a writer
\* that has announced itself, or for the mutex of its device.
Blocked(c) ==
    \/ pc[c] \in ReadAsked /\ (writers # {} \/ waiting # {})
    \/ pc[c] \in WriteAsked /\ readers \cup writers # {}
    \/ pc[c] \in MutexAsked /\ owner[dev[c]] # NoConn

\* Some thread in an operation does not wait.
NoDeadlock == (\E c \in Conns : pc[c] # "idle") => \E c \in Conns : pc[c] # "idle" /\ ~Blocked(c)

\* Operations on any number of devices never all wait for each other: who waits for a mutex
\* waits for a thread that is not waiting for one, and who holds _rwlock waits for nothing.
THEOREM DeadlockFree == Spec => []NoDeadlock
<1>1. TypeOK /\ MutexHeld /\ LockHeld => NoDeadlock
  <2> SUFFICES ASSUME TypeOK, MutexHeld, LockHeld, NEW c \in Conns, pc[c] # "idle",
                      \A b \in Conns : pc[b] # "idle" => Blocked(b)
               PROVE  FALSE
    BY DEF NoDeadlock
  <2>1. readers = {} /\ writers = {}
    <3>1. ASSUME NEW b \in readers \cup writers PROVE FALSE
      <4>1. b \in Conns /\ pc[b] \in ReadHeld \cup WriteHeld
        BY <3>1 DEF TypeOK, RW!TypeOK, LockHeld
      <4>2. pc[b] # "idle" /\ ~Blocked(b)
        BY <4>1 DEF ReadHeld, WriteHeld, Blocked, ReadAsked, WriteAsked, MutexAsked
      <4>3. QED
        BY <4>1, <4>2
    <3>2. QED
      BY <3>1
  <2>2. ASSUME NEW b \in Conns, pc[b] # "idle" PROVE pc[b] \in MutexAsked
    <3>1. pc[b] \notin WriteAsked
      BY <2>1, <2>2 DEF Blocked, ReadAsked, WriteAsked, MutexAsked
    <3>2. waiting = {}
      <4>1. ASSUME NEW w \in waiting PROVE FALSE
        <5>1. w \in Conns /\ pc[w] \in WriteAsked
          BY <4>1 DEF TypeOK, RW!TypeOK, LockHeld
        <5>2. pc[w] # "idle" /\ ~Blocked(w)
          BY <2>1, <5>1 DEF Blocked, ReadAsked, WriteAsked, MutexAsked
        <5>3. QED
          BY <5>1, <5>2
      <4>2. QED
        BY <4>1
    <3>3. QED
      BY <2>1, <2>2, <3>1, <3>2 DEF Blocked
  <2>3. pc[c] \in MutexAsked /\ owner[dev[c]] \in Conns
    BY <2>2 DEF TypeOK, Blocked, ReadAsked, WriteAsked, MutexAsked
  <2>4. pc[owner[dev[c]]] \in HoldsMutex
    BY <2>3 DEF TypeOK, MutexHeld
  <2>5. QED
    BY <2>2, <2>3, <2>4 DEF HoldsMutex, MutexAsked
<1>2. IInv => TypeOK /\ MutexHeld
  BY DEF IInv
<1>3. QED
  BY <1>1, <1>2, Invariance, LockDiscipline, PTL

\* The device mutexes as the table has them.
Mutexes == INSTANCE DeviceMutex WITH
    Threads <- Conns,
    holders <- [d \in DevIds |-> IF owner[d] = NoConn THEN {} ELSE {owner[d]}]

\* The table uses the mutexes of the pool as the pool demands (UnlockFindsLocked rests on
\* it): a mutex is locked when it is free, and unlocked by the thread that locked it.
THEOREM MutexesRefined == Spec => Mutexes!Spec
<1> DEFINE H == [d \in DevIds |-> IF owner[d] = NoConn THEN {} ELSE {owner[d]}]
<1>1. Init => Mutexes!Init
  BY DEF Init, Mutexes!Init
<1>2. IInv /\ [Next]_vars => [Mutexes!Next]_H
  <2> SUFFICES ASSUME TypeOK, MutexHeld, [Next]_vars PROVE [Mutexes!Next]_H
    BY DEF IInv
  <2>1. ASSUME owner' = owner PROVE H' = H
    BY <2>1
  <2>2. ASSUME NEW c \in Conns, DeviceLock(c) PROVE Mutexes!Next
    <3>1. dev[c] \in DevIds /\ owner[dev[c]] = NoConn /\ owner' = [owner EXCEPT ![dev[c]] = c]
      BY <2>2 DEF TypeOK, DeviceLock
    <3>2. H[dev[c]] = {} /\ H' = [H EXCEPT ![dev[c]] = {c}]
      BY <3>1, ConstantsAssumption DEF TypeOK
    <3>3. QED
      BY <3>1, <3>2 DEF Mutexes!Next, Mutexes!Lock
  <2>3. ASSUME NEW c \in Conns, OpenUnlock(c) \/ SendUnlock(c) \/ RemoveUnlock(c) PROVE Mutexes!Next
    <3>1. pc[c] \in HoldsMutex /\ dev[c] \in DevIds /\ owner' = [owner EXCEPT ![dev[c]] = NoConn]
      BY <2>3 DEF TypeOK, OpenUnlock, SendUnlock, RemoveUnlock, DeviceUnlock, HoldsMutex
    <3>2. owner[dev[c]] = c
      BY <3>1 DEF MutexHeld
    <3>3. H[dev[c]] = {c} /\ H' = [H EXCEPT ![dev[c]] = {}]
      BY <3>1, <3>2, ConstantsAssumption DEF TypeOK
    <3>4. QED
      BY <3>1, <3>3 DEF Mutexes!Next, Mutexes!Unlock
  <2>4. ASSUME NEW c \in Conns,
               \/ Arrive(c) \/ Reply(c) \/ ReadLock(c) \/ WriteLockBlocks(c) \/ WriteLock(c)
               \/ OpenCheck(c) \/ OpenFind(c) \/ OpenCreate(c) \/ OpenStore(c) \/ SendFind(c)
               \/ SendGet(c) \/ SendIO(c) \/ RemoveConn(c) \/ RemovePair(c) \/ RemoveDev(c)
               \/ RemoveDestroy(c) \/ RemoveErase(c)
        PROVE  owner' = owner
    BY <2>4 DEF Arrive, OpenRequest, CommandRequest, CloseRequest, Disconnect, Begin, Reply, ReadLock,
                WriteLockBlocks, WriteLock, OpenCheck, OpenFind, OpenCreate, OpenStore, SendFind,
                SendGet, SendIO, RemoveConn, RemovePair, RemoveDev, RemoveDestroy, RemoveErase
  <2>5. CASE UNCHANGED vars
    BY <2>1, <2>5 DEF vars
  <2>6. QED
    BY <2>1, <2>2, <2>3, <2>4, <2>5 DEF Next, Step
<1>3. QED
  BY <1>1, <1>2, Invariance, PTL DEF Spec, Mutexes!Spec
=============================================================================
