---------------------------- MODULE ServerProcess ----------------------------
(***************************************************************************)
(* The server as a thread of a GUI process, from start_server_thread_spv   *)
(* to stop_server_thread (src/server/xibridge_server_lib.cpp), with the    *)
(* list of serial ports that all its threads share: ADevId2UsbConfor of    *)
(* src/server/devid2usb.cpp.                                               *)
(*                                                                         *)
(* The threads are the connections' (enumerations and opens, from          *)
(* callback_data), the thread of server_main, and that of the GUI, which   *)
(* starts and stops the server and lists the ports (enumerate_devs).  The  *)
(* program counters are                                                    *)
(*   l_...  list_sp_ports                                                  *)
(*   w_...  list_to_dev_id_vector, port_name_by_devid: walks of the list   *)
(*   m_...  server_main, between its calls of these                        *)
(*   g_...  start_server_thread_spv, stop_server_thread                    *)
(* The list is guarded by a ReadWriteLock, taken as RWLockSpec.  What the  *)
(* list holds is left to PortIds.tla; here it is null, live or freed.      *)
(* A console server, which does not wait for the flag, is not modelled.    *)
(***************************************************************************)
EXTENDS Integers

CONSTANTS Conns,        \* connections, each with its thread
          Main, Gui     \* the threads of server_main and of the GUI

ASSUME ThreadsAssumption == Main \notin Conns /\ Gui \notin Conns /\ Main # Gui

Threads == Conns \cup {Main, Gui}

sm_err_allstarted == 1
sm_err_initfailed == 2

VARIABLES
    readers, writers, waiting,   \* rwlock
    list,       \* pport_list: "null", "live", or "freed" when it dangles
    pc, op,     \* of each thread; op is what it walks the list for
    conf,       \* _pdev2_usb_confor is set
    bound,      \* this process has bound the socket of is_already_started
    up,         \* bindy calls the handlers
    wait_st, except, ret, ret_code,
    scanned, failed,   \* history: a scan has ended; one of them badly
    made,       \* history: when the list that a thread will walk was made: before its call,
                \* by the scan that was ending when it skipped its own, or after the call began
    early       \* history: the last stop cleared wait_st before it was set

lock == <<readers, writers, waiting>>
server == <<conf, bound, up, wait_st, except, ret, ret_code, early>>
vars == <<lock, list, pc, op, server, scanned, failed, made>>

RW == INSTANCE RWLockSpec

Outset == [t \in Threads |-> IF t = Main THEN "off" ELSE "idle"]
Nowhere == [t \in Threads |-> "none"]
Before == [t \in Threads |-> "before"]

Init ==
    /\ readers = {} /\ writers = {} /\ waiting = {}
    /\ list = "null" /\ pc = Outset /\ op = Nowhere
    /\ conf = FALSE /\ bound = FALSE /\ up = FALSE /\ wait_st = FALSE /\ except = FALSE
    /\ ret = 0 /\ ret_code = 0
    /\ scanned = FALSE /\ failed = FALSE /\ made = Before /\ early = FALSE

Goto(t, label) == pc' = [pc EXCEPT ![t] = label]

-----------------------------------------------------------------------------
(* list_sp_ports.                                                          *)

AfterScan(t) == IF t = Main THEN "m_notify" ELSE "w_lock"

\* is_write_lock_requested.
RequestedByAnyone == readers \cup writers \cup waiting # {}   \* mutant: readers count as well
WriteRequested == RW!IsWriteLockRequested

CheckRequested(t) ==
    /\ pc[t] = "l_check"
    /\ Goto(t, IF WriteRequested THEN AfterScan(t) ELSE "l_lock")
    /\ made' = IF WriteRequested /\ made[t] = "before" /\ \E u \in Threads : pc[u] = "l_unlock"
               THEN [made EXCEPT ![t] = "ending"] ELSE made
    /\ UNCHANGED <<lock, list, op, server, scanned, failed>>

WriteLock(t) ==
    /\ pc[t] = "l_lock"
    /\ \/ RW!RequestWrite(t) /\ UNCHANGED pc
       \/ RW!AcquireWrite(t) /\ Goto(t, "l_free")
    /\ UNCHANGED <<list, op, server, scanned, failed, made>>

FreeList(t) ==
    /\ pc[t] = "l_free"
    /\ list' = IF list = "null" THEN "null" ELSE "freed"
    /\ Goto(t, "l_list")
    /\ UNCHANGED <<lock, op, server, scanned, failed, made>>

ListPortsKeeping(t) ==              \* mutant: a failed scan leaves the pointer
    /\ pc[t] = "l_list"
    /\ \/ list' = "live" /\ UNCHANGED failed
       \/ failed' = TRUE /\ UNCHANGED list
    /\ Goto(t, "l_unlock")
    /\ made' = [u \in Threads |-> "after"]
    /\ UNCHANGED <<lock, op, server, scanned>>
ListPortsLeaving(t) ==              \* mutant: a failed scan returns without the unlock
    /\ pc[t] = "l_list"
    /\ \/ list' = "live" /\ UNCHANGED failed /\ Goto(t, "l_unlock")
       \/ list' = "null" /\ failed' = TRUE /\ Goto(t, AfterScan(t))
    /\ made' = [u \in Threads |-> "after"]
    /\ UNCHANGED <<lock, op, server, scanned>>
ListPorts(t) ==
    /\ pc[t] = "l_list"
    /\ \/ list' = "live" /\ UNCHANGED failed
       \/ list' = "null" /\ failed' = TRUE
    /\ Goto(t, "l_unlock")
    /\ made' = [u \in Threads |-> "after"]
    /\ UNCHANGED <<lock, op, server, scanned>>

WriteUnlock(t) ==
    /\ pc[t] = "l_unlock"
    /\ RW!ReleaseWrite(t)
    /\ Goto(t, AfterScan(t))
    /\ scanned' = TRUE
    /\ UNCHANGED <<list, op, server, failed, made>>

-----------------------------------------------------------------------------
(* Walks, and the calls that make them: an enumeration of a client scans   *)
(* first (enumerate_dev), an open too (create_device_h), enumerate_devs of *)
(* the GUI does not.  Only port_name_by_devid looks whether the list is    *)
(* null.                                                                   *)

Call(c) ==
    /\ up /\ pc[c] = "idle"
    /\ \E o \in {"enumerate", "open"} : op' = [op EXCEPT ![c] = o]
    /\ made' = [made EXCEPT ![c] = "before"]
    /\ Goto(c, "l_check")
    /\ UNCHANGED <<lock, list, server, scanned, failed>>

\* Without a configurator enumerate_devs returns at once.
GuiEnumerates ==
    /\ pc[Gui] = "idle" /\ conf
    /\ op' = [op EXCEPT ![Gui] = "show"]
    /\ made' = [made EXCEPT ![Gui] = "before"]
    /\ Goto(Gui, "w_lock")
    /\ UNCHANGED <<lock, list, server, scanned, failed>>

ReadLock(t) ==
    /\ pc[t] = "w_lock"
    /\ RW!AcquireRead(t)
    /\ Goto(t, "w_walk")
    /\ UNCHANGED <<list, op, server, scanned, failed, made>>

Walk(t) ==
    /\ pc[t] = "w_walk"
    /\ list = "live" \/ (list = "null" /\ op[t] = "open")
    /\ Goto(t, "w_unlock")
    /\ UNCHANGED <<lock, list, op, server, scanned, failed, made>>

ReadUnlock(t) ==
    /\ pc[t] = "w_unlock"
    /\ RW!ReleaseRead(t)
    /\ Goto(t, "idle")
    /\ op' = [op EXCEPT ![t] = "none"]
    /\ UNCHANGED <<list, server, scanned, failed, made>>

\* A walk of no list ends the process (SIGSEGV); it may be started again.
Crash(t) ==
    /\ pc[t] = "w_walk"
    /\ list = "freed" \/ (list = "null" /\ op[t] # "open")
    /\ readers' = {} /\ writers' = {} /\ waiting' = {}
    /\ list' = "null" /\ pc' = Outset /\ op' = Nowhere
    /\ conf' = FALSE /\ bound' = FALSE /\ up' = FALSE /\ wait_st' = FALSE /\ except' = FALSE
    /\ ret' = 0 /\ ret_code' = 0
    /\ scanned' = FALSE /\ failed' = FALSE /\ made' = Before /\ early' = FALSE

-----------------------------------------------------------------------------
(* server_main, as server_main_as_dev2usb_by_spv_min runs it.              *)

MainAt(label) == pc[Main] = label

\* Another process may have the socket, or this one, from an earlier start: it is never
\* closed.
AlreadyStarted ==
    /\ MainAt("m_begin")
    /\ ret' = sm_err_allstarted /\ except' = FALSE
    /\ Goto(Main, "m_return")
    /\ UNCHANGED <<lock, list, op, conf, bound, up, wait_st, ret_code, early, scanned, failed, made>>

Begin ==
    /\ MainAt("m_begin") /\ ~bound
    /\ bound' = TRUE /\ except' = FALSE
    /\ Goto(Main, "m_init")
    /\ UNCHANGED <<lock, list, op, conf, up, wait_st, ret, ret_code, early, scanned, failed, made>>

InitFails ==
    /\ MainAt("m_init")
    /\ ret' = sm_err_initfailed
    /\ Goto(Main, "m_return")
    /\ UNCHANGED <<lock, list, op, conf, bound, up, wait_st, except, ret_code, early, scanned, failed, made>>

\* set_devid_2_usb_confor, and on to the first scan.
Configure ==
    /\ MainAt("m_init")
    /\ conf' = TRUE
    /\ Goto(Main, "l_check")
    /\ UNCHANGED <<lock, list, op, bound, up, wait_st, except, ret, ret_code, early, scanned, failed, made>>

NotifyRescan ==
    /\ MainAt("m_notify")
    /\ Goto(Main, "m_connect")
    /\ UNCHANGED <<lock, list, op, server, scanned, failed, made>>

Connect ==
    /\ MainAt("m_connect")
    /\ up' = TRUE
    /\ Goto(Main, "m_wait")
    /\ UNCHANGED <<lock, list, op, conf, bound, wait_st, except, ret, ret_code, early, scanned, failed, made>>

\* An exception of bindy is kept for the GUI; server_main returns 0 all the same.
ConnectThrows ==
    /\ MainAt("m_connect")
    /\ except' = TRUE /\ ret' = 0
    /\ Goto(Main, "m_return")
    /\ UNCHANGED <<lock, list, op, conf, bound, up, wait_st, ret_code, early, scanned, failed, made>>

SetWait ==
    /\ MainAt("m_wait")
    /\ wait_st' = TRUE
    /\ Goto(Main, "m_spin")
    /\ UNCHANGED <<lock, list, op, conf, bound, up, except, ret, ret_code, early, scanned, failed, made>>

\* while (wait_st);  then bindy goes out of scope.
SpinEnds ==
    /\ MainAt("m_spin") /\ ~wait_st
    /\ up' = FALSE /\ ret' = 0
    /\ Goto(Main, "m_return")
    /\ UNCHANGED <<lock, list, op, conf, bound, wait_st, except, ret_code, early, scanned, failed, made>>

Return ==
    /\ MainAt("m_return")
    /\ ret_code' = ret
    /\ Goto(Main, "m_done")
    /\ UNCHANGED <<lock, list, op, conf, bound, up, wait_st, except, ret, early, scanned, failed, made>>

-----------------------------------------------------------------------------
(* The GUI: start_server_thread_spv and stop_server_thread.                *)

Start ==
    /\ pc[Gui] = "idle" /\ MainAt("off")
    /\ ret_code' = 0
    /\ pc' = [pc EXCEPT ![Main] = "m_begin", ![Gui] = "g_sleep"]
    /\ UNCHANGED <<lock, list, op, conf, bound, up, wait_st, except, ret, early, scanned, failed, made>>

\* After 50 ms, however far server_main has come: the exception and ret_code as they are.
StartReturns ==
    /\ pc[Gui] = "g_sleep"
    /\ Goto(Gui, "idle")
    /\ UNCHANGED <<lock, list, op, server, scanned, failed, made>>

BeforeSpin == {"m_begin", "m_init", "l_check", "l_lock", "l_free", "l_list", "l_unlock",
               "m_notify", "m_connect", "m_wait"}

StopForgotten ==                      \* mutant: the flag stays set
    /\ pc[Gui] = "idle" /\ ~MainAt("off")
    /\ early' = (pc[Main] \in BeforeSpin)
    /\ Goto(Gui, "g_join")
    /\ UNCHANGED <<lock, list, op, conf, bound, up, wait_st, except, ret, ret_code, scanned, failed, made>>
Stop ==
    /\ pc[Gui] = "idle" /\ ~MainAt("off")
    /\ wait_st' = FALSE
    /\ early' = (pc[Main] \in BeforeSpin)
    /\ Goto(Gui, "g_join")
    /\ UNCHANGED <<lock, list, op, conf, bound, up, except, ret, ret_code, scanned, failed, made>>

Join ==
    /\ pc[Gui] = "g_join" /\ MainAt("m_done")
    /\ pc' = [pc EXCEPT ![Main] = "off", ![Gui] = "idle"]
    /\ UNCHANGED <<lock, list, op, server, scanned, failed, made>>

-----------------------------------------------------------------------------

\* The steps of a thread inside a call.
Proceed(t) ==
    \/ CheckRequested(t) \/ WriteLock(t) \/ FreeList(t) \/ ListPorts(t) \/ WriteUnlock(t)
    \/ ReadLock(t) \/ Walk(t) \/ ReadUnlock(t) \/ Crash(t)
MainProceeds ==
    \/ AlreadyStarted \/ Begin \/ InitFails \/ Configure \/ NotifyRescan
    \/ Connect \/ ConnectThrows \/ SetWait \/ SpinEnds \/ Return

Next ==
    \/ \E t \in Threads : Proceed(t)
    \/ \E c \in Conns : Call(c)
    \/ MainProceeds
    \/ GuiEnumerates \/ Start \/ StartReturns \/ Stop \/ Join

Spec == Init /\ [][Next]_vars

\* A thread that can go on does: the threads are scheduled by the system.  No fairness of
\* the calls that arrive, and none of the lock beyond that a thread which could always
\* have had it gets it.
FairSpec ==
    /\ Spec
    /\ \A t \in Threads : WF_vars(Proceed(t))
    /\ WF_vars(MainProceeds) /\ WF_vars(StartReturns) /\ WF_vars(Join)

-----------------------------------------------------------------------------
(* Properties.                                                             *)

\* Nobody walks a list that another thread's scan has freed, and nobody but
\* port_name_by_devid meets null unless a scan has failed or the first one has not ended
\* (the GUI can ask between set_devid_2_usb_confor and the end of the first scan):
\* list_sp_ports against list_to_dev_id_vector, port_name_by_devid.
ListAlive ==
    \A t \in Threads : pc[t] = "w_walk" =>
        /\ list # "freed"
        /\ list = "null" => op[t] = "open" \/ failed \/ ~scanned

\* An enumeration or an open walks a list that was made after its call began - or, when
\* list_sp_ports skipped its scan because a writer was announced, by the scan that was just
\* then between sp_list_ports and its unlock.  It never walks the list of a scan that had
\* ended before the call: the announced writer keeps it out until it has scanned.
EnumeratesFresh ==
    \A c \in Conns : pc[c] = "w_walk" => made[c] # "before"

\* A thread that asks for the write lock scans: announced writers make the others skip
\* their scans and keep new readers out, so the lock comes free for it.
ScanBegins ==
    \A t \in Threads : pc[t] = "l_lock" ~> pc[t] # "l_lock"

\* stop_server_thread returns.  It waits for ever only if it cleared the flag before
\* server_main set it, and server_main did come as far as to set it and now spins on it: an
\* early stop returns too when the start fails.
StopReturns ==
    pc[Gui] = "g_join" ~> (pc[Gui] # "g_join" \/ (early /\ MainAt("m_spin")))
=============================================================================
