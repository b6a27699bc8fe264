------------------------- MODULE ServerProcessProofs -------------------------
(***************************************************************************)
(* Theorems about ServerProcess for any set of connections: nobody walks a *)
(* freed list, a scan is alone at the list, and no enumeration or open     *)
(* walks the list of a scan that had ended before it began.                *)
(***************************************************************************)
EXTENDS ServerProcess, TLAPS

Scanning == {"l_free", "l_list", "l_unlock"}
Walking == {"w_walk", "w_unlock"}

\* Where a thread is without a part in the lock.
Elsewhere == {"idle", "off", "l_check", "w_lock", "m_begin", "m_init", "m_notify", "m_connect",
              "m_wait", "m_spin", "m_return", "m_done", "g_sleep", "g_join"}
Places == Elsewhere \cup {"l_lock"} \cup Scanning \cup Walking
Purposes == {"none", "enumerate", "open", "show"}

\* What the proofs need of the types; every other variable is free.
TypeOK ==
    /\ RW!TypeOK
    /\ pc \in [Threads -> Places] /\ op \in [Threads -> Purposes]
    /\ made \in [Threads -> {"before", "ending", "after"}]

\* The program counters say who holds the lock of the list.
LockHeld ==
    /\ \A t \in Threads : t \in writers <=> pc[t] \in Scanning
    /\ \A t \in Threads : t \in readers <=> pc[t] \in Walking

\* The lock is exclusive, and a writer that waits is on its way to scan.
Exclusive ==
    /\ writers # {} => readers = {}
    /\ \A t, u \in writers : t = u
    /\ \A t \in waiting : pc[t] = "l_lock"

\* The list dangles only within a scan, and is null for a reason after it.
ListFits ==
    /\ list \in {"null", "live", "freed"}
    /\ list = "freed" => \E t \in Threads : pc[t] = "l_list"
    /\ list = "null" => failed \/ ~scanned
    /\ \A t \in Threads : pc[t] = "l_unlock" => list = "live" \/ (list = "null" /\ failed)

\* A connection that is to walk, but would find the list of before its call, has a writer
\* before it that is yet to make the list, and which keeps it out.
FreshAhead ==
    /\ \A c \in Conns : pc[c] = "w_lock" /\ made[c] = "before" =>
         WriteRequested /\ \A t \in Threads : pc[t] # "l_unlock"
    /\ \A c \in Conns : pc[c] = "l_unlock" => made[c] # "before"
    /\ EnumeratesFresh

Guarded == TypeOK /\ LockHeld /\ Exclusive /\ ListFits
IInv == Guarded /\ FreshAhead
-----------------------------------------------------------------------------
\* The invariant holds of a process that has done nothing yet.
LEMMA InitIInv == Init => IInv
BY ThreadsAssumption
   DEF Init, IInv, Guarded, TypeOK, Places, Purposes, Elsewhere, Scanning, Walking,
       RW!TypeOK, LockHeld, Exclusive, ListFits, FreshAhead, EnumeratesFresh, Outset,
       Nowhere, Before, Threads

\* One thread moves from a place outside the lock to another, and touches no lock.
Outside(t, a, b) ==
    /\ a \in Elsewhere /\ b \in Elsewhere \cup {"l_lock"}
    /\ pc[t] = a /\ pc' = [pc EXCEPT ![t] = b]
    /\ UNCHANGED <<lock, list, scanned, failed>>

\* Such a move keeps what guards the list.
LEMMA OutsideGuarded ==
    ASSUME Guarded, NEW t \in Threads, NEW a, NEW b, Outside(t, a, b),
           op' \in [Threads -> Purposes], made' \in [Threads -> {"before", "ending", "after"}]
    PROVE  Guarded'
<1>1. b \in Places /\ b \notin Scanning \cup Walking /\ a \notin Scanning \cup Walking
  BY DEF Outside, Places, Elsewhere, Scanning, Walking
<1>2. TypeOK' /\ list' = list /\ readers' = readers /\ writers' = writers /\ waiting' = waiting
  BY <1>1
     DEF Outside, Guarded, TypeOK, Places, Purposes, Elsewhere, Scanning, Walking, RW!TypeOK,
         lock
<1>3. \A u \in Threads : /\ pc'[u] \in Scanning <=> pc[u] \in Scanning
                         /\ pc'[u] \in Walking <=> pc[u] \in Walking
                         /\ pc'[u] = "l_list" <=> pc[u] = "l_list"
                         /\ pc'[u] = "l_unlock" <=> pc[u] = "l_unlock"
  BY <1>1 DEF Outside, Guarded, TypeOK, Scanning, Walking
<1>4. LockHeld'
  BY <1>2, <1>3 DEF Guarded, LockHeld, Scanning, Walking
<1>5. a # "l_lock"
  BY DEF Outside, Elsewhere
<1>6. Exclusive'
  BY <1>2, <1>5
     DEF Guarded, Exclusive, Outside, TypeOK, Places, Purposes, Elsewhere, Scanning, Walking,
         RW!TypeOK
<1>7. ListFits'
  BY <1>2, <1>3 DEF Guarded, ListFits, Outside
<1>8. QED
  BY <1>2, <1>4, <1>6, <1>7 DEF Guarded

\* A connection that stays where it is keeps FreshAhead while nobody gives up the write lock
\* or gets to the end of a scan.
LEMMA StaysFresh ==
    ASSUME FreshAhead, WriteRequested => WriteRequested',
           \A t \in Threads : pc'[t] = "l_unlock" => pc[t] = "l_unlock",
           \A c \in Conns : /\ pc'[c] \in {"w_lock", "w_walk", "l_unlock"} => pc'[c] = pc[c]
                            /\ made'[c] = made[c]
    PROVE  FreshAhead'
BY DEF FreshAhead, EnumeratesFresh

\* Every step keeps the invariant.
LEMMA NextIInv == IInv /\ [Next]_vars => IInv'
<1> SUFFICES ASSUME IInv, [Next]_vars PROVE IInv'
  OBVIOUS
<1>types. TypeOK /\ Guarded /\ FreshAhead
  BY DEF IInv, Guarded
<1>conns. \A c \in Conns : c \in Threads /\ c # Main /\ c # Gui
  BY ThreadsAssumption DEF Threads
<1>own. Main \in Threads /\ Gui \in Threads /\ Main # Gui
  BY ThreadsAssumption DEF Threads
<1>1. ASSUME NEW t \in Threads, CheckRequested(t) PROVE IInv'
  <2>1. PICK b \in {"l_lock", AfterScan(t)} : /\ pc[t] = "l_check" /\ pc' = [pc EXCEPT ![t] = b]
                                              /\ b # "l_lock" => WriteRequested
    BY <1>1 DEF CheckRequested, Goto, AfterScan
  <2>2. /\ UNCHANGED <<lock, list, op, scanned, failed>>
        /\ made' \in [Threads -> {"before", "ending", "after"}]
        /\ \A u \in Threads : made'[u] = made[u] \/ made'[u] = "ending"
        /\ b # "l_lock" /\ made'[t] = "before" => \A u \in Threads : pc[u] # "l_unlock"
    BY <1>1, <2>1, <1>types DEF CheckRequested, TypeOK
  <2>3. b \in {"l_lock", "w_lock", "m_notify"}
    BY DEF AfterScan
  <2>4. Outside(t, "l_check", b)
    BY <2>1, <2>2, <2>3 DEF Outside, Elsewhere
  <2>5. Guarded'
    BY <2>2, <2>4, <1>types, OutsideGuarded DEF TypeOK
  <2>6. WriteRequested' <=> WriteRequested
    BY <2>2 DEF WriteRequested, RW!IsWriteLockRequested, lock
  <2>7. FreshAhead'
    <3>1. \A u \in Threads : pc'[u] = "l_unlock" => pc[u] = "l_unlock"
      BY <2>1, <2>3, <1>types DEF TypeOK
    <3>2. \A c \in Conns : made'[c] = "before" => made[c] = "before"
      BY <2>2, <1>conns
    <3>3. ASSUME NEW c \in Conns, pc'[c] = "w_lock", made'[c] = "before"
          PROVE  WriteRequested' /\ \A u \in Threads : pc'[u] # "l_unlock"
      <4>1. CASE c = t
        BY <4>1, <3>1, <3>3, <2>1, <2>2, <2>3, <2>6, <1>types DEF TypeOK
      <4>2. CASE c # t
        BY <4>2, <3>1, <3>2, <3>3, <2>1, <2>6, <1>types, <1>conns DEF TypeOK, FreshAhead
      <4>3. QED
        BY <4>1, <4>2
    <3>4. \A c \in Conns : pc'[c] \in {"l_unlock", "w_walk"} => pc[c] = pc'[c]
      BY <2>1, <2>3, <1>types, <1>conns DEF TypeOK
    <3>5. QED
      BY <3>2, <3>3, <3>4, <1>types DEF FreshAhead, EnumeratesFresh
  <2>8. QED
    BY <2>5, <2>7 DEF IInv
<1>2. ASSUME NEW t \in Threads, WriteLock(t), RW!RequestWrite(t) PROVE IInv'
  <2>1. /\ waiting' = waiting \cup {t} /\ pc[t] = "l_lock"
        /\ UNCHANGED <<readers, writers, list, pc, op, scanned, failed, made>>
    BY <1>2 DEF WriteLock, RW!RequestWrite, RW!AcquireWrite
  <2>2. QED
    BY <2>1, <1>types
       DEF IInv, Guarded, TypeOK, Places, Purposes, Elsewhere, Scanning, Walking, RW!TypeOK,
           LockHeld, Exclusive, ListFits,
                          FreshAhead, EnumeratesFresh, WriteRequested, RW!IsWriteLockRequested
<1>3. ASSUME NEW t \in Threads, WriteLock(t), RW!AcquireWrite(t), Goto(t, "l_free") PROVE IInv'
  <2>1. /\ readers = {} /\ writers = {} /\ writers' = {t} /\ readers' = readers
        /\ waiting' = waiting \ {t}
        /\ pc[t] = "l_lock" /\ pc' = [pc EXCEPT ![t] = "l_free"]
        /\ UNCHANGED <<list, op, scanned, failed, made>>
    BY <1>3 DEF WriteLock, RW!AcquireWrite, Goto
  <2>2. TypeOK' /\ LockHeld' /\ Exclusive'
    BY <2>1, <1>types
       DEF Guarded, TypeOK, Places, Purposes, Elsewhere, Scanning, Walking, RW!TypeOK,
           LockHeld, Exclusive
  <2>3. ListFits'
    BY <2>1, <1>types DEF Guarded, TypeOK, ListFits
  <2>4. FreshAhead'
    BY <2>1, <1>types, <1>conns
       DEF TypeOK, FreshAhead, EnumeratesFresh, WriteRequested, RW!IsWriteLockRequested
  <2>5. QED
    BY <2>2, <2>3, <2>4 DEF IInv, Guarded
<1>4. ASSUME NEW t \in Threads, FreeList(t) PROVE IInv'
  <2>1. /\ list' \in {"null", "freed"} /\ (list' = "null" => list = "null")
        /\ pc[t] = "l_free" /\ pc' = [pc EXCEPT ![t] = "l_list"]
        /\ UNCHANGED <<lock, op, scanned, failed, made>>
    BY <1>4 DEF FreeList, Goto
  <2>2. TypeOK' /\ LockHeld' /\ Exclusive'
    BY <2>1, <1>types
       DEF Guarded, TypeOK, Places, Purposes, Elsewhere, Scanning, Walking, RW!TypeOK,
           LockHeld, Exclusive, lock
  <2>3. \A u \in Threads : pc[u] \in Scanning => u = t
    BY <2>1, <1>types DEF Guarded, LockHeld, Exclusive, Scanning
  <2>4. pc'[t] = "l_list" /\ \A u \in Threads : pc'[u] # "l_unlock"
    BY <2>1, <2>3, <1>types DEF TypeOK, Scanning
  <2>5. ListFits'
    BY <2>1, <2>4, <1>types DEF Guarded, ListFits
  <2>6. FreshAhead'
    BY <2>1, <1>types, <1>conns
       DEF TypeOK, FreshAhead, EnumeratesFresh, WriteRequested, RW!IsWriteLockRequested, lock
  <2>7. QED
    BY <2>2, <2>5, <2>6 DEF IInv, Guarded
<1>5. ASSUME NEW t \in Threads, ListPorts(t) PROVE IInv'
  <2>1. /\ \/ list' = "live" /\ failed' = failed
           \/ list' = "null" /\ failed' = TRUE
        /\ pc[t] = "l_list" /\ pc' = [pc EXCEPT ![t] = "l_unlock"]
        /\ made' = [u \in Threads |-> "after"]
        /\ UNCHANGED <<lock, op, scanned>>
    BY <1>5 DEF ListPorts, Goto
  <2>2. TypeOK' /\ LockHeld' /\ Exclusive'
    BY <2>1, <1>types
       DEF Guarded, TypeOK, Places, Purposes, Elsewhere, Scanning, Walking, RW!TypeOK,
           LockHeld, Exclusive, lock
  <2>3. ListFits'
    BY <2>1, <1>types DEF Guarded, TypeOK, ListFits
  <2>4. FreshAhead'
    BY <2>1, <1>conns DEF FreshAhead, EnumeratesFresh
  <2>5. QED
    BY <2>2, <2>3, <2>4 DEF IInv, Guarded
<1>6. ASSUME NEW t \in Threads, WriteUnlock(t) PROVE IInv'
  <2>1. PICK b \in {"w_lock", "m_notify"} : pc' = [pc EXCEPT ![t] = b]
    BY <1>6 DEF WriteUnlock, Goto, AfterScan
  <2>2. /\ pc[t] = "l_unlock" /\ t \in writers /\ writers' = writers \ {t}
        /\ scanned' = TRUE
        /\ UNCHANGED <<readers, waiting, list, op, failed, made>>
    BY <1>6 DEF WriteUnlock, RW!ReleaseWrite
  <2>3. TypeOK' /\ LockHeld' /\ Exclusive'
    BY <2>1, <2>2, <1>types
       DEF Guarded, TypeOK, Places, Purposes, Elsewhere, Scanning, Walking, RW!TypeOK,
           LockHeld, Exclusive
  <2>4. list = "live" \/ (list = "null" /\ failed)
    BY <2>2, <1>types DEF Guarded, ListFits
  <2>5. ListFits'
    BY <2>1, <2>2, <2>4, <1>types DEF Guarded, TypeOK, ListFits
  <2>6. FreshAhead'
    <3>1. \A c \in Conns : pc'[c] = "w_lock" => made'[c] # "before"
      BY <2>1, <2>2, <1>types, <1>conns DEF TypeOK, FreshAhead
    <3>2. \A c \in Conns : pc'[c] \in {"l_unlock", "w_walk"} => pc[c] = pc'[c]
      BY <2>1, <2>2, <1>types, <1>conns DEF TypeOK
    <3>3. QED
      BY <3>1, <3>2, <2>2, <1>types DEF FreshAhead, EnumeratesFresh
  <2>7. QED
    BY <2>3, <2>5, <2>6 DEF IInv, Guarded
<1>7. ASSUME NEW t \in Threads, ReadLock(t) PROVE IInv'
  <2>1. /\ writers = {} /\ waiting = {} /\ readers' = readers \cup {t}
        /\ pc[t] = "w_lock" /\ pc' = [pc EXCEPT ![t] = "w_walk"]
        /\ UNCHANGED <<writers, waiting, list, op, scanned, failed, made>>
    BY <1>7 DEF ReadLock, RW!AcquireRead, Goto
  <2>2. TypeOK' /\ LockHeld' /\ Exclusive'
    BY <2>1, <1>types
       DEF Guarded, TypeOK, Places, Purposes, Elsewhere, Scanning, Walking, RW!TypeOK,
           LockHeld, Exclusive
  <2>3. ListFits'
    BY <2>1, <1>types DEF Guarded, TypeOK, ListFits
  <2>4. FreshAhead'
    BY <2>1, <1>types, <1>conns
       DEF TypeOK, FreshAhead, EnumeratesFresh, WriteRequested, RW!IsWriteLockRequested
  <2>5. QED
    BY <2>2, <2>3, <2>4 DEF IInv, Guarded
<1>8. ASSUME NEW t \in Threads, Walk(t) PROVE IInv'
  <2>1. /\ pc[t] = "w_walk" /\ pc' = [pc EXCEPT ![t] = "w_unlock"]
        /\ UNCHANGED <<lock, list, op, scanned, failed, made>>
    BY <1>8 DEF Walk, Goto
  <2>2. TypeOK' /\ LockHeld' /\ Exclusive'
    BY <2>1, <1>types
       DEF Guarded, TypeOK, Places, Purposes, Elsewhere, Scanning, Walking, RW!TypeOK,
           LockHeld, Exclusive, lock
  <2>3. ListFits'
    BY <2>1, <1>types DEF Guarded, TypeOK, ListFits
  <2>4. FreshAhead'
    BY <2>1, <1>types, <1>conns
       DEF TypeOK, FreshAhead, EnumeratesFresh, WriteRequested, RW!IsWriteLockRequested, lock
  <2>5. QED
    BY <2>2, <2>3, <2>4 DEF IInv, Guarded
<1>9. ASSUME NEW t \in Threads, ReadUnlock(t) PROVE IInv'
  <2>1. /\ t \in readers /\ readers' = readers \ {t}
        /\ pc[t] = "w_unlock" /\ pc' = [pc EXCEPT ![t] = "idle"]
        /\ op' = [op EXCEPT ![t] = "none"]
        /\ UNCHANGED <<writers, waiting, list, scanned, failed, made>>
    BY <1>9 DEF ReadUnlock, RW!ReleaseRead, Goto
  <2>2. TypeOK' /\ LockHeld' /\ Exclusive'
    BY <2>1, <1>types
       DEF Guarded, TypeOK, Places, Purposes, Elsewhere, Scanning, Walking, RW!TypeOK,
           LockHeld, Exclusive
  <2>3. ListFits'
    BY <2>1, <1>types DEF Guarded, TypeOK, ListFits
  <2>4. FreshAhead'
    BY <2>1, <1>types, <1>conns
       DEF TypeOK, FreshAhead, EnumeratesFresh, WriteRequested, RW!IsWriteLockRequested
  <2>5. QED
    BY <2>2, <2>3, <2>4 DEF IInv, Guarded
<1>10. ASSUME NEW t \in Threads, Crash(t) PROVE IInv'
  BY <1>10, ThreadsAssumption
     DEF Crash, IInv, Guarded, TypeOK, Places, Purposes, Elsewhere, Scanning, Walking,
         RW!TypeOK, LockHeld, Exclusive, ListFits, FreshAhead, EnumeratesFresh, Outset,
         Nowhere, Before, Threads
<1>11. ASSUME NEW c \in Conns, Call(c) PROVE IInv'
  <2>1. /\ pc[c] = "idle" /\ pc' = [pc EXCEPT ![c] = "l_check"]
        /\ made' = [made EXCEPT ![c] = "before"]
        /\ \E o \in {"enumerate", "open"} : op' = [op EXCEPT ![c] = o]
        /\ UNCHANGED <<lock, list, scanned, failed>>
    BY <1>11 DEF Call, Goto
  <2>2. Outside(c, "idle", "l_check")
    BY <2>1 DEF Outside, Elsewhere
  <2>3. op' \in [Threads -> Purposes] /\ made' \in [Threads -> {"before", "ending", "after"}]
    BY <2>1, <1>types DEF TypeOK, Purposes
  <2>4. Guarded'
    BY <2>2, <2>3, <1>types, <1>conns, OutsideGuarded
  <2>5. FreshAhead'
    BY <2>1, <1>types, <1>conns
       DEF TypeOK, FreshAhead, EnumeratesFresh, WriteRequested, RW!IsWriteLockRequested, lock
  <2>6. QED
    BY <2>4, <2>5 DEF IInv
<1>12. ASSUME GuiEnumerates PROVE IInv'
  <2>1. /\ pc[Gui] = "idle" /\ pc' = [pc EXCEPT ![Gui] = "w_lock"]
        /\ made' = [made EXCEPT ![Gui] = "before"] /\ op' = [op EXCEPT ![Gui] = "show"]
        /\ UNCHANGED <<lock, list, scanned, failed>>
    BY <1>12 DEF GuiEnumerates, Goto
  <2>2. Outside(Gui, "idle", "w_lock")
    BY <2>1 DEF Outside, Elsewhere
  <2>3. op' \in [Threads -> Purposes] /\ made' \in [Threads -> {"before", "ending", "after"}]
    BY <2>1, <1>types DEF TypeOK, Purposes
  <2>4. Guarded'
    BY <2>2, <2>3, <1>types, <1>own, OutsideGuarded
  <2>5. FreshAhead'
    BY <2>1, <1>types, <1>conns, <1>own
       DEF TypeOK, FreshAhead, EnumeratesFresh, WriteRequested, RW!IsWriteLockRequested, lock
  <2>6. QED
    BY <2>4, <2>5 DEF IInv
<1>13. ASSUME NEW t \in {Main, Gui}, NEW a, NEW b, Outside(t, a, b), UNCHANGED <<op, made>>
       PROVE  IInv'
  <2>1. Guarded'
    BY <1>13, <1>types, <1>own, OutsideGuarded DEF TypeOK
  <2>2. \A c \in Conns : pc'[c] = pc[c] /\ made'[c] = made[c]
    BY <1>13, <1>types, <1>conns DEF Outside, TypeOK
  <2>3. WriteRequested' <=> WriteRequested
    BY <1>13 DEF Outside, WriteRequested, RW!IsWriteLockRequested, lock
  <2>4. FreshAhead'
    <3>1. \A u \in Threads : pc'[u] = "l_unlock" => pc[u] = "l_unlock"
      BY <1>13, <1>types DEF Outside, TypeOK, Elsewhere
    <3>2. QED
      BY <2>2, <2>3, <3>1, <1>types, StaysFresh
  <2>5. QED
    BY <2>1, <2>4 DEF IInv
<1>14. ASSUME MainProceeds PROVE IInv'
  <2>1. \E a \in Elsewhere, b \in Elsewhere : Outside(Main, a, b) /\ UNCHANGED <<op, made>>
    BY <1>14
       DEF MainProceeds, MainAt, AlreadyStarted, Begin, InitFails, Configure, NotifyRescan,
                 Connect, ConnectThrows, SetWait, SpinEnds, Return, Goto, Outside, Elsewhere
  <2>2. QED
    BY <2>1, <1>13
<1>15. ASSUME StartReturns \/ Stop PROVE IInv'
  <2>1. \E a \in Elsewhere, b \in Elsewhere : Outside(Gui, a, b) /\ UNCHANGED <<op, made>>
    BY <1>15 DEF StartReturns, Stop, Goto, Outside, Elsewhere
  <2>2. QED
    BY <2>1, <1>13
<1>16. ASSUME Start \/ Join PROVE IInv'
  <2>1. PICK a \in {"off", "m_done"}, b \in {"m_begin", "off"}, g \in {"idle", "g_join"},
             k \in {"g_sleep", "idle"} :
           /\ pc[Main] = a /\ pc[Gui] = g
           /\ pc' = [pc EXCEPT ![Main] = b, ![Gui] = k]
    BY <1>16 DEF Start, Join, MainAt
  <2>2. UNCHANGED <<lock, list, op, scanned, failed, made>>
    BY <1>16 DEF Start, Join
  <2>3. TypeOK' /\ LockHeld' /\ Exclusive'
    BY <2>1, <2>2, <1>types, <1>own
       DEF Guarded, TypeOK, Places, Purposes, Elsewhere, Scanning, Walking, RW!TypeOK,
           LockHeld, Exclusive, lock
  <2>4. ListFits'
    BY <2>1, <2>2, <1>types, <1>own DEF Guarded, TypeOK, ListFits
  <2>5. FreshAhead'
    BY <2>1, <2>2, <1>types, <1>conns
       DEF TypeOK, FreshAhead, EnumeratesFresh, WriteRequested, RW!IsWriteLockRequested, lock
  <2>6. QED
    BY <2>3, <2>4, <2>5 DEF IInv, Guarded
<1>17. ASSUME UNCHANGED vars PROVE IInv'
  BY <1>17
     DEF vars, lock, server, IInv, Guarded, TypeOK, Places, Purposes, Elsewhere, Scanning,
         Walking, RW!TypeOK, LockHeld, Exclusive, ListFits,
               FreshAhead, EnumeratesFresh, WriteRequested, RW!IsWriteLockRequested
<1>18. QED
  BY <1>1, <1>2, <1>3, <1>4, <1>5, <1>6, <1>7, <1>8, <1>9, <1>10, <1>11, <1>12, <1>14, <1>15,
     <1>16, <1>17 DEF Next, Proceed, WriteLock

LEMMA IInvariance == Spec => []IInv
BY InitIInv, NextIInv, PTL DEF Spec

\* While a thread is between the write_lock and the write_unlock of list_sp_ports, where it
\* frees the list and makes it anew, no other thread is there, and none is between the
\* read_lock and the read_unlock of a walk.
ScansAlone ==
    \A t, u \in Threads : t # u /\ pc[t] \in Scanning => pc[u] \notin Scanning \cup Walking

\* Each scan has the list to itself, with any number of connections, server_main's own scan
\* and the GUI's walks: devid2usb.cpp uses its lock as it should.
THEOREM ScansExclude == Spec => []ScansAlone
<1>1. IInv => ScansAlone
  <2> SUFFICES ASSUME IInv, NEW t \in Threads, NEW u \in Threads, t # u, pc[t] \in Scanning
               PROVE  pc[u] \notin Scanning \cup Walking
    BY DEF ScansAlone
  <2>1. t \in writers
    BY DEF IInv, Guarded, LockHeld
  <2>2. u \notin writers /\ u \notin readers
    BY <2>1 DEF IInv, Guarded, Exclusive
  <2>3. QED
    BY <2>2 DEF IInv, Guarded, LockHeld
<1>2. QED
  BY <1>1, IInvariance, PTL

\* No thread walks a list that another one's scan has freed, and nobody but
\* port_name_by_devid meets null unless a scan has failed or none has ended.
THEOREM NobodyWalksFreed == Spec => []ListAlive
<1>1. IInv => ListAlive
  <2> SUFFICES ASSUME IInv, NEW t \in Threads, pc[t] = "w_walk"
               PROVE  list # "freed" /\ (list = "null" => failed \/ ~scanned)
    BY DEF ListAlive
  <2>1. writers = {}
    BY DEF IInv, Guarded, LockHeld, Exclusive, Walking
  <2>2. \A u \in Threads : pc[u] # "l_list"
    BY <2>1 DEF IInv, Guarded, LockHeld, Scanning
  <2>3. QED
    BY <2>2 DEF IInv, Guarded, ListFits
<1>2. QED
  BY <1>1, IInvariance, PTL

\* An enumeration or an open walks a list made after it began, or by the scan that was
\* ending just when list_sp_ports skipped its own; never that of a scan that had ended
\* before it began.
THEOREM NobodyWalksOld == Spec => []EnumeratesFresh
<1>1. IInv => EnumeratesFresh
  BY DEF IInv, FreshAhead
<1>2. QED
  BY <1>1, IInvariance, PTL
=============================================================================
