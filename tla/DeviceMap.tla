------------------------------ MODULE DeviceMap ------------------------------
(***************************************************************************)
(* MapDevIdPHandle of src/server/mapdevidphnd.{h,cpp}: the table of opened *)
(* devices of the server, with the list of the connections that opened     *)
(* them, driven by callback_data and callback_disc of                      *)
(* src/server/xibridge_server_lib.cpp.  bindy runs the callbacks of one    *)
(* connection one after another in that connection's thread, and the       *)
(* threads of different connections side by side.                          *)
(*                                                                         *)
(* A step is what a thread does between two points at which another thread *)
(* can act on the same data: every lock and unlock of _rwlock (RWLockSpec) *)
(* and of the mutex of a device (MutexPool) is visible, as are the calls   *)
(* into the serial layer, which are made under the device's mutex but not  *)
(* under _rwlock.  The program counters are                                *)
(*   o_...  open_if_not                                                    *)
(*   s_...  operation_send_request, urpc_operation_send_request            *)
(*   r_...  remove_conn_or_remove_device                                   *)
(*   reply  back in the callback, which sends the answer (if any)          *)
(* The readers log() and enumerate_devs_opened() are left out.             *)
(***************************************************************************)
EXTENDS FiniteSets

CONSTANTS Conns,       \* connections, each with its thread
          DevIds,      \* device identifiers
          ZeroDev,     \* DevId(0), what conn_id_invalid (0) converts to
          Handles,     \* addresses xib_com_device_create may return
          Uses,        \* Uses[c]: the devices that c's packets may name
          Null,        \* nullptr
          Absent,      \* no entry in the map
          NoConn, NoDev

ASSUME ConstantsAssumption ==
    /\ ZeroDev \in DevIds
    /\ Uses \in [Conns -> SUBSET DevIds]
    /\ Null \notin Handles /\ Absent \notin Handles /\ Null # Absent
    /\ NoConn \notin Conns /\ NoDev \notin DevIds

VARIABLES
    devs,      \* the map itself: devs[d] is the handle stored for d, Null or Absent
    conns,     \* _conns, as a set of pairs <<connection, device>>
    owner,     \* owner[d]: the thread that holds the mutex of d
    readers, writers, waiting,    \* _rwlock
    hdev,      \* hdev[h]: the device whose port the live handle h is, or NoDev
    pc, op,    \* where each thread is, and in which operation
    dev,       \* devid (devid_known)
    loc,       \* purpc, resp. the _uhandle read by send_request
    res        \* what the operation is going to return

table == <<devs, conns>>
lock == <<readers, writers, waiting>>
locals == <<op, dev, loc, res>>
vars == <<devs, conns, owner, readers, writers, waiting, hdev, pc, op, dev, loc, res>>

RW == INSTANCE RWLockSpec WITH Threads <- Conns

PCs == {"idle", "reply",
        "o_read", "o_check", "o_mutex", "o_write", "o_find", "o_create", "o_write2", "o_store",
        "o_unlock",
        "s_read", "s_find", "s_mutex", "s_get", "s_io", "s_unlock",
        "r_read", "r_conn", "r_mutex", "r_write", "r_pair", "r_read2", "r_dev", "r_destroy",
        "r_write2", "r_erase", "r_unlock"}

TypeOK ==
    /\ devs \in [DevIds -> Handles \cup {Null, Absent}]
    /\ conns \subseteq Conns \X DevIds
    /\ owner \in [DevIds -> Conns \cup {NoConn}]
    /\ RW!TypeOK
    /\ hdev \in [Handles -> DevIds \cup {NoDev}]
    /\ pc \in [Conns -> PCs]
    /\ op \in [Conns -> {"none", "open", "send", "close", "disc", "force"}]
    /\ dev \in [Conns -> DevIds]
    /\ loc \in [Conns -> Handles \cup {Null}]
    /\ res \in [Conns -> {"none", "yes", "no", "ok", "error", "nodevice"}]

Init ==
    /\ devs = [d \in DevIds |-> Absent]
    /\ conns = {}
    /\ owner = [d \in DevIds |-> NoConn]
    /\ RW!Init
    /\ hdev = [h \in Handles |-> NoDev]
    /\ pc = [c \in Conns |-> "idle"]
    /\ op = [c \in Conns |-> "none"]
    /\ dev = [c \in Conns |-> ZeroDev]
    /\ loc = [c \in Conns |-> Null]
    /\ res = [c \in Conns |-> "none"]

HasPair(c) == \E d \in DevIds : <<c, d>> \in conns
IsServed(d) == \E c \in Conns : <<c, d>> \in conns

Goto(c, p) == pc' = [pc EXCEPT ![c] = p]
Return(c, r) == Goto(c, "reply") /\ res' = [res EXCEPT ![c] = r]
-----------------------------------------------------------------------------
(* A packet arrives or the connection ends.  A slot whose connection has   *)
(* ended is taken by the next one: no pair of the old one is left.         *)

Begin(c, o, d, p) ==
    /\ pc[c] = "idle"
    /\ Goto(c, p)
    /\ op' = [op EXCEPT ![c] = o]
    /\ dev' = [dev EXCEPT ![c] = d]
    /\ UNCHANGED <<table, owner, lock, hdev, loc, res>>

OpenRequest(c) == \E d \in Uses[c] : Begin(c, "open", d, "o_read")
CommandRequest(c) == \E d \in Uses[c] : Begin(c, "send", d, "s_read")
CloseRequest(c) == \E d \in Uses[c] : Begin(c, "close", d, "r_read")

\* callback_disc names no device: it passes the id UINT32_MAX, which the code keeps for this
\* (mapdevidphnd.h:117).  A close packet may name that id too and then makes the same call,
\* with an answer at its end; it is a Disconnect here.  No other request is taken to name
\* it: DevIds are the other ids.
Disconnect(c) == Begin(c, "disc", ZeroDev, "r_read")

\* The callback sends its answer; the locals of the operation are gone.
Reply(c) ==
    /\ pc[c] = "reply"
    /\ Goto(c, "idle")
    /\ op' = [op EXCEPT ![c] = "none"]
    /\ dev' = [dev EXCEPT ![c] = ZeroDev]
    /\ loc' = [loc EXCEPT ![c] = Null]
    /\ res' = [res EXCEPT ![c] = "none"]
    /\ UNCHANGED <<table, owner, lock, hdev>>
-----------------------------------------------------------------------------
(* The locks.                                                              *)

Goes(c, p, q) == pc[c] = p /\ Goto(c, q)

ReadLock(c) ==
    /\ RW!AcquireRead(c)
    /\ \/ Goes(c, "o_read", "o_check")
       \/ Goes(c, "s_read", "s_find")
       \/ Goes(c, "r_read", "r_conn")
       \/ Goes(c, "r_read2", "r_dev")
    /\ UNCHANGED <<table, owner, hdev, locals>>

WriteLockBlocks(c) ==
    /\ pc[c] \in {"o_write", "o_write2", "r_write", "r_write2"}
    /\ RW!RequestWrite(c)
    /\ UNCHANGED <<table, owner, hdev, pc, locals>>

WriteLock(c) ==
    /\ RW!AcquireWrite(c)
    /\ \/ Goes(c, "o_write", "o_find")
       \/ Goes(c, "o_write2", "o_store")
       \/ Goes(c, "r_write", "r_pair")
       \/ Goes(c, "r_write2", "r_erase")
    /\ UNCHANGED <<table, owner, hdev, locals>>

\* mutant: every device operation goes ahead, whoever holds the mutex.
DeviceLockShared(c) ==
    /\ owner' = [owner EXCEPT ![dev[c]] = c]
    /\ \/ Goes(c, "o_mutex", "o_write")
       \/ Goes(c, "s_mutex", "s_get")
       \/ Goes(c, "r_mutex", "r_write")
    /\ UNCHANGED <<table, lock, hdev, locals>>

\* lock_create_device_mutex, from the m.lock() that ends it.
DeviceLock(c) ==
    /\ owner[dev[c]] = NoConn
    /\ owner' = [owner EXCEPT ![dev[c]] = c]
    /\ \/ Goes(c, "o_mutex", "o_write")
       \/ Goes(c, "s_mutex", "s_get")
       \/ Goes(c, "r_mutex", "r_write")
    /\ UNCHANGED <<table, lock, hdev, locals>>

DeviceUnlock(c) == owner' = [owner EXCEPT ![dev[c]] = NoConn]
-----------------------------------------------------------------------------
(* open_if_not                                                             *)

\* mutant: the list is not consulted.
OpenUnchecked(c) ==
    /\ pc[c] = "o_check"
    /\ RW!ReleaseRead(c)
    /\ Goto(c, "o_mutex")
    /\ UNCHANGED <<table, owner, hdev, op, dev, loc, res>>

\* _is_actual_connection looks for the connection alone; a connection that has
\* opened anything is told yes.
OpenCheck(c) ==
    /\ pc[c] = "o_check"
    /\ RW!ReleaseRead(c)
    /\ \/ HasPair(c) /\ Return(c, "yes")
       \/ ~HasPair(c) /\ Goto(c, "o_mutex") /\ UNCHANGED res
    /\ UNCHANGED <<table, owner, hdev, op, dev, loc>>

\* An entry, whatever handle it holds, gets the connection on its list; else an
\* entry without handle is inserted and _rwlock released for the creation.
OpenFind(c) ==
    /\ pc[c] = "o_find"
    /\ RW!ReleaseWrite(c)
    /\ \/ /\ devs[dev[c]] # Absent
          /\ conns' = conns \cup {<<c, dev[c]>>}
          /\ res' = [res EXCEPT ![c] = "yes"]
          /\ Goto(c, "o_unlock")
          /\ UNCHANGED devs
       \/ /\ devs[dev[c]] = Absent
          /\ devs' = [devs EXCEPT ![dev[c]] = Null]
          /\ Goto(c, "o_create")
          /\ UNCHANGED <<conns, res>>
    /\ UNCHANGED <<owner, hdev, op, dev, loc>>

\* XibDevicePHandle::create_device_h: the device answers and a fresh handle is
\* returned, or not.
OpenCreate(c) ==
    /\ pc[c] = "o_create"
    /\ \/ \E h \in Handles :
            /\ hdev[h] = NoDev
            /\ hdev' = [hdev EXCEPT ![h] = dev[c]]
            /\ loc' = [loc EXCEPT ![c] = h]
       \/ UNCHANGED <<hdev, loc>>
    /\ Goto(c, "o_write2")
    /\ UNCHANGED <<table, owner, lock, op, dev, res>>

\* mutant: the entry of a device that did not answer stays.
OpenStoreKeeping(c) ==
    /\ pc[c] = "o_store"
    /\ RW!ReleaseWrite(c)
    /\ \/ /\ loc[c] # Null
          /\ devs' = [devs EXCEPT ![dev[c]] = loc[c]]
          /\ conns' = conns \cup {<<c, dev[c]>>}
       \/ loc[c] = Null /\ UNCHANGED table
    /\ res' = [res EXCEPT ![c] = IF loc[c] # Null THEN "yes" ELSE "no"]
    /\ Goto(c, "o_unlock")
    /\ UNCHANGED <<owner, hdev, op, dev, loc>>

\* The handle is stored if the entry is still there; an entry left without
\* handle is erased.
OpenStore(c) ==
    LET d == dev[c]
        stored == loc[c] # Null /\ devs[d] # Absent
        handle == IF stored THEN loc[c] ELSE devs[d]
    IN  /\ pc[c] = "o_store"
        /\ RW!ReleaseWrite(c)
        /\ devs' = [devs EXCEPT ![d] = IF handle = Null THEN Absent ELSE handle]
        /\ conns' = IF stored THEN conns \cup {<<c, d>>} ELSE conns
        /\ res' = [res EXCEPT ![c] = IF loc[c] # Null THEN "yes" ELSE "no"]
        /\ Goto(c, "o_unlock")
        /\ UNCHANGED <<owner, hdev, op, dev, loc>>

OpenUnlock(c) ==
    /\ pc[c] = "o_unlock"
    /\ DeviceUnlock(c)
    /\ Goto(c, "reply")
    /\ UNCHANGED <<table, lock, hdev, locals>>
-----------------------------------------------------------------------------
(* operation_send_request and urpc_operation_send_request                  *)

SendFind(c) ==
    /\ pc[c] = "s_find"
    /\ RW!ReleaseRead(c)
    /\ \/ devs[dev[c]] # Absent /\ Goto(c, "s_mutex") /\ UNCHANGED res
       \/ devs[dev[c]] = Absent /\ Return(c, "nodevice")
    /\ UNCHANGED <<table, owner, hdev, op, dev, loc>>

\* mutant: find(devid)->second, which may be the end of the map.
SendGetFound(c) ==
    /\ pc[c] = "s_get"
    /\ loc' = [loc EXCEPT ![c] = devs[dev[c]]]
    /\ Goto(c, "s_io")
    /\ UNCHANGED <<table, owner, lock, hdev, op, dev, res>>

\* (*this)[devid] without _rwlock: an entry erased since SendFind comes back
\* without handle.
SendGet(c) ==
    /\ pc[c] = "s_get"
    /\ devs' = [devs EXCEPT ![dev[c]] = IF @ = Absent THEN Null ELSE @]
    /\ loc' = [loc EXCEPT ![c] = devs'[dev[c]]]
    /\ Goto(c, "s_io")
    /\ UNCHANGED <<conns, owner, lock, hdev, op, dev, res>>

\* The exchange with the device ends in success, an error or a lost device; with
\* no handle it is lost at once.
SendIO(c) ==
    /\ pc[c] = "s_io"
    /\ \E r \in IF loc[c] = Null THEN {"nodevice"} ELSE {"ok", "error", "nodevice"} :
         res' = [res EXCEPT ![c] = r]
    /\ Goto(c, "s_unlock")
    /\ UNCHANGED <<table, owner, lock, hdev, op, dev, loc>>

\* A lost device is removed: remove_conn_or_remove_device(UINT32_MAX, devid, true),
\* after the device's mutex has been given up.
SendUnlock(c) ==
    /\ pc[c] = "s_unlock"
    /\ DeviceUnlock(c)
    /\ \/ res[c] # "nodevice" /\ Goto(c, "reply") /\ UNCHANGED op
       \/ res[c] = "nodevice" /\ Goto(c, "r_read") /\ op' = [op EXCEPT ![c] = "force"]
    /\ UNCHANGED <<table, lock, hdev, dev, loc, res>>
-----------------------------------------------------------------------------
(* remove_conn_or_remove_device                                            *)

\* _is_actual_connection: who names no device (see Disconnect) has it taken from
\* the list; with no pair there it is left with DevId(conn_id_invalid).
RemoveConn(c) ==
    /\ pc[c] = "r_conn"
    /\ RW!ReleaseRead(c)
    /\ \E d \in DevIds :
         /\ \/ op[c] # "disc" /\ d = dev[c]
            \/ op[c] = "disc" /\ <<c, d>> \in conns
            \/ op[c] = "disc" /\ ~HasPair(c) /\ d = ZeroDev
         /\ dev' = [dev EXCEPT ![c] = d]
    /\ Goto(c, "r_mutex")
    /\ UNCHANGED <<table, owner, hdev, op, loc, res>>

\* mutant: the pair leaves with the entry of the device, if there is one.
RemovePairOfEntry(c) ==
    /\ pc[c] = "r_pair"
    /\ RW!ReleaseWrite(c)
    /\ \/ /\ op[c] # "force" /\ devs[dev[c]] # Absent
          /\ \E d \in DevIds : <<c, d>> \in conns /\ conns' = conns \ {<<c, d>>}
       \/ (op[c] = "force" \/ devs[dev[c]] = Absent \/ ~HasPair(c)) /\ UNCHANGED conns
    /\ Goto(c, "r_read2")
    /\ UNCHANGED <<devs, owner, hdev, locals>>

\* The connection's pair leaves the list.  A forced removal runs under conn_id
\* UINT32_MAX, which no pair has.
RemovePair(c) ==
    /\ pc[c] = "r_pair"
    /\ RW!ReleaseWrite(c)
    /\ \/ /\ op[c] # "force"
          /\ \E d \in DevIds : <<c, d>> \in conns /\ conns' = conns \ {<<c, d>>}
       \/ (op[c] = "force" \/ ~HasPair(c)) /\ UNCHANGED conns
    /\ Goto(c, "r_read2")
    /\ UNCHANGED <<devs, owner, hdev, locals>>

\* mutant: the device goes with the last connection of all.
RemoveDevIfLast(c) ==
    LET goes == devs[dev[c]] # Absent /\ (op[c] = "force" \/ conns = {})
    IN  /\ pc[c] = "r_dev"
        /\ RW!ReleaseRead(c)
        /\ \/ goes /\ Goto(c, "r_destroy")
           \/ ~goes /\ Goto(c, "r_unlock")
        /\ UNCHANGED <<table, owner, hdev, locals>>

\* mutant: the early return forgets the mutex of the device.
RemoveDevLocked(c) ==
    LET goes == devs[dev[c]] # Absent /\ (op[c] = "force" \/ ~IsServed(dev[c]))
    IN  /\ pc[c] = "r_dev"
        /\ RW!ReleaseRead(c)
        /\ \/ goes /\ Goto(c, "r_destroy")
           \/ ~goes /\ Goto(c, "reply")
        /\ UNCHANGED <<table, owner, hdev, locals>>

\* The device goes if the removal is forced or no connection is left on it.
RemoveDev(c) ==
    LET goes == devs[dev[c]] # Absent /\ (op[c] = "force" \/ ~IsServed(dev[c]))
    IN  /\ pc[c] = "r_dev"
        /\ RW!ReleaseRead(c)
        /\ \/ goes /\ Goto(c, "r_destroy")
           \/ ~goes /\ Goto(c, "r_unlock")
        /\ UNCHANGED <<table, owner, hdev, locals>>

\* mutant: destroy_device_h leaves the handle in the entry.
RemoveDestroyKeeping(c) ==
    LET h == devs[dev[c]]
    IN  /\ pc[c] = "r_destroy"
        /\ hdev' = IF h = Null THEN hdev ELSE [hdev EXCEPT ![h] = NoDev]
        /\ Goto(c, "r_write2")
        /\ UNCHANGED <<table, owner, lock, locals>>

\* mutant: the mutex of the device is given up before the entry is erased.
RemoveDestroyUnlocking(c) ==
    LET h == devs[dev[c]]
    IN  /\ pc[c] = "r_destroy"
        /\ DeviceUnlock(c)
        /\ \/ h = Null /\ UNCHANGED <<devs, hdev>>
           \/ /\ h # Null
              /\ hdev' = [hdev EXCEPT ![h] = NoDev]
              /\ devs' = [devs EXCEPT ![dev[c]] = Null]
        /\ Goto(c, "r_write2")
        /\ UNCHANGED <<conns, lock, locals>>

\* destroy_device_h, without _rwlock.
RemoveDestroy(c) ==
    LET h == devs[dev[c]]
    IN  /\ pc[c] = "r_destroy"
        /\ \/ h = Null /\ UNCHANGED <<devs, hdev>>
           \/ /\ h # Null
              /\ hdev' = [hdev EXCEPT ![h] = NoDev]
              /\ devs' = [devs EXCEPT ![dev[c]] = Null]
        /\ Goto(c, "r_write2")
        /\ UNCHANGED <<conns, owner, lock, locals>>

RemoveErase(c) ==
    /\ pc[c] = "r_erase"
    /\ RW!ReleaseWrite(c)
    /\ devs' = [devs EXCEPT ![dev[c]] = Absent]
    /\ Goto(c, "r_unlock")
    /\ UNCHANGED <<conns, owner, hdev, locals>>

RemoveUnlock(c) ==
    /\ pc[c] = "r_unlock"
    /\ DeviceUnlock(c)
    /\ Goto(c, "reply")
    /\ UNCHANGED <<table, lock, hdev, locals>>
-----------------------------------------------------------------------------
Arrive(c) == OpenRequest(c) \/ CommandRequest(c) \/ CloseRequest(c) \/ Disconnect(c)

Step(c) ==
    \/ Reply(c)
    \/ ReadLock(c) \/ WriteLockBlocks(c) \/ WriteLock(c) \/ DeviceLock(c)
    \/ OpenCheck(c) \/ OpenFind(c) \/ OpenCreate(c) \/ OpenStore(c) \/ OpenUnlock(c)
    \/ SendFind(c) \/ SendGet(c) \/ SendIO(c) \/ SendUnlock(c)
    \/ RemoveConn(c) \/ RemovePair(c) \/ RemoveDev(c) \/ RemoveDestroy(c) \/ RemoveErase(c)
    \/ RemoveUnlock(c)

Next == \E c \in Conns : Arrive(c) \/ Step(c)

Spec == Init /\ [][Next]_vars

\* A thread that can go on does: the operating system schedules every thread,
\* and a serial exchange with a device that does not send zeroes for ever ends by
\* its own timeouts (devserial.c).  No fairness is assumed of arrivals, and none
\* of the mutexes beyond that a thread which could always have had one gets it.
FairSpec == Spec /\ \A c \in Conns : WF_vars(Step(c))
-----------------------------------------------------------------------------
(* Properties that hold.                                                   *)

\* The threads that hold the mutex of some device.
HoldsMutex == {"o_write", "o_find", "o_create", "o_write2", "o_store", "o_unlock",
               "s_get", "s_io", "s_unlock",
               "r_write", "r_pair", "r_read2", "r_dev", "r_destroy", "r_write2", "r_erase",
               "r_unlock"}

Creating(c, d) == dev[c] = d /\ pc[c] \in {"o_write2", "o_store"}

\* Every live handle can be reached, and what can be reached is live: a handle of
\* d exists exactly if the map stores it under d or the thread that has just
\* created it is about to.  So no handle leaks (open_if_not gives up _rwlock for
\* the creation and looks the entry up again), and none is left in the map after
\* its destruction.
HandlesAccounted ==
    \A h \in Handles, d \in DevIds :
        hdev[h] = d <=> devs[d] = h \/ \E c \in Conns : Creating(c, d) /\ loc[c] = h

\* The threads that will take an entry without handle out of the map, or fill it:
\* a creator, a remover that has destroyed the handle, or a sender whose device
\* is lost, up to the end of the forced removal.
WillSettle(c, d) ==
    /\ dev[c] = d
    /\ \/ pc[c] \in {"o_create", "o_write2", "o_store", "r_write2", "r_erase"}
       \/ pc[c] = "s_io" /\ loc[c] = Null
       \/ pc[c] = "s_unlock" /\ res[c] = "nodevice"
       \/ op[c] = "force" /\ pc[c] \notin {"r_unlock", "reply"}

\* An entry without handle, through which no command can ever reach the device
\* and which makes every open succeed, does not stay: some thread is on its way
\* to settle it.  (operation_send_request inserts one when a removal comes
\* between its lookup and its use of the map.)
NullIsTransient ==
    \A d \in DevIds : devs[d] = Null => \E c \in Conns : WillSettle(c, d)

\* A device stays open only for somebody: while no operation is under way on it
\* (its mutex is free), an open device has a connection on the list that will
\* close it when it ends.  For clients that use one device per connection.
OpenIsServed ==
    \A d \in DevIds :
        owner[d] = NoConn /\ devs[d] \in Handles => IsServed(d)

\* A connection is listed at most once, and not at all when it is about to be
\* listed: removal looks for the first pair of a connection and erases only that.
ListedOnce ==
    \A c \in Conns :
        /\ \A d, e \in DevIds : <<c, d>> \in conns /\ <<c, e>> \in conns => d = e
        /\ op[c] = "open" /\ pc[c] \notin {"o_read", "o_check", "o_unlock", "reply"}
              => ~HasPair(c)

\* Nothing of a connection is left on the list when its callback_disc is over.
GoneWhenDisconnected ==
    \A c \in Conns : op[c] = "disc" /\ pc[c] = "reply" => ~HasPair(c)

\* The map's view of a device changes only by the thread that holds the device's
\* mutex, be it under _rwlock or not.
ChangedByOwner ==
    [][\A d \in DevIds :
         devs'[d] # devs[d] => /\ owner[d] # NoConn
                               /\ pc'[owner[d]] # pc[owner[d]]]_vars

\* The serial layer is used as it demands: a port is opened once, used by one
\* exchange at a time, never after its destruction, and destroyed between
\* exchanges.
Ports == INSTANCE DevicePorts WITH
    Clients <- Conns,
    port <- [d \in DevIds |-> {h \in Handles : hdev[h] = d}],
    users <- [d \in DevIds |-> {c \in Conns : pc[c] = "s_io" /\ loc[c] # Null /\ dev[c] = d}]

ImplementsPorts == Ports!Spec

\* No deadlock among the device mutexes and _rwlock: whenever some operation is
\* under way, sooner or later one is answered.
SomebodyIsAnswered ==
    \/ []<>(\A c \in Conns : pc[c] = "idle")
    \/ []<><<\E c \in Conns : Reply(c)>>_vars
-----------------------------------------------------------------------------
(* What the header says and the code does not do (see the README).         *)

\* "Checks if the connection and serial has been already opened. Opens if has
\* not." (mapdevidphnd.h:86-88): when open_if_not decides on true, the device
\* it was asked for is open.
OpenMeansOpen ==
    [][\A c \in Conns :
         op[c] = "open" /\ res[c] = "none" /\ res'[c] = "yes" => devs'[dev[c]] \in Handles]_vars
=============================================================================
