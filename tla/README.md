# xibridge: specification and proofs

xibridge gives TCP clients access to serial (USB-CDC) devices: the server
(`server/`) owns the serial ports and answers request packets, the client
library (`client/`) sends them, and both share the packet formats of `common/`.
TCP connections, message framing and their threads are bindy's, serial ports
are libserialport's; neither is part of the repository.

This directory holds TLA+ models of the parts of that system whose correctness
depends on what several threads, connections and devices do at once, TLC
configurations that check them on small instances, and proofs, checked by the
TLA+ proof system, that the main safety properties hold for every instance.

## 1. The system

| Component | Source | State | Operations |
|---|---|---|---|
| Read-write lock | `server/rw_lock.h` | four counters, a mutex, two condition variables | `read_lock`, `read_unlock`, `write_lock`, `write_unlock`, `is_write_lock_requested` |
| Pool of device mutexes | `server/mapdevidphnd.cpp` 111-143 | `_mutex_pool`, its read-write lock | `lock_create_device_mutex`, `unlock_device_mutex` |
| Device table | `server/mapdevidphnd.{h,cpp}` | the map from device to port handle, `_conns` (pairs connection, device), `_rwlock` | `open_if_not`, `operation_send_request`, `urpc_operation_send_request`, `remove_conn_or_remove_device`, `enumerate_devs_opened`, `log` |
| Packet dispatch | `server/xibridge_server_lib.cpp` 60-297 | none of its own | `callback_data`, `callback_disc`, the answers they make |
| Server lifecycle | `server/xibridge_server_lib.cpp` 304-476, `xibridge_server.cpp` | `wait_st`, thread, exception, result, the socket that keeps a second server out | `server_main`, `start_server_thread_spv`, `stop_server_thread`, `enumerate_devs` |
| Supervisor | `server/supervisor.{cpp,hpp}` | counter per resource, `work` | `acquire_resource`, `release_resource`, the supervisor thread, `stop` |
| Serial port list | `server/devid2usb.{h,cpp}` | `pport_list`, its read-write lock, the mode | `list_sp_ports`, `list_to_dev_id_vector`, `port_name_by_devid`, a configurator for each mode |
| Serial exchange | `server/xib-serial/` | the port's stream of bytes | `device_serial_create`, two kinds of request, `receive`, `zerosync`, destroy |
| Client exchange | `client/xibridge_client.*`, `bindy_helper.*` | received message, flag, mutex and condition variable, map of connections | `_send_and_receive`, open, request, close, disconnect, callbacks |
| Version negotiation, C interface | `client/xibridge.cpp` | protocol version to try | `xibridge_open_device_connection`, `xibridge_enumerate_...`, `xibridge_device_request_response`, `xibridge_close_...` |
| Protocols 1, 2 and 3 | `common/protocols.*` | none | requests and answers made and taken apart, schemas, order of `DevId` |
| Buffers, hexadecimal | `common/utils.*` | position and overflow of a buffer | `MBuf`, words of an identifier, byte order |
| URI | `common/xibridge_uri_parse.h`, `xi_net_dev_uris` | none | identifiers into URIs and back |
| Simulator | `test/server_simu` | protocol version | a peer that answers in all three protocols |

How they interact.  bindy calls `callback_data` for each packet and
`callback_disc` at the end of a connection: one after another for one
connection, in that connection's thread, and side by side for different
connections.  The dispatch calls the device table; the table takes the mutex of
the device from the pool, its own `_rwlock` around the map and the list, and
calls the serial layer holding the device's mutex but not `_rwlock`.  Opening a
device rescans the port list under a third read-write lock.  On the other side
the client library sends a request and waits for the callback that brings the
answer.

What is hard about it, and what makes each part correct:

* *Read-write lock*: two condition variables and counters under barging and
  spurious wake-ups.  Exclusion, no lost wake-up, write preference, exactness of
  `is_write_lock_requested`.
* *Pool*: mutexes are made on first use, between two locks; the unlock looks its
  mutex up again.  One mutex per device, and the one that was locked is unlocked.
* *Device table*: `_rwlock` is given up and taken again inside each operation
  (for the creation of a handle, between lookup and use, between removing the
  pair and removing the device).  No leaked, doubly opened or destroyed-in-use
  handle; no entry without handle that stays; the list of connections exact; a
  device open only while some connection is on it; no deadlock between the two
  kinds of lock.
* *Supervisor*: a counter is reset while requests are in flight.  Exact counts
  after a reset too, reboots of frozen slots and of no others, releases that find
  their resource.
* *Port list*: a scan is skipped when another is announced; a failed scan leaves
  null.  Nobody walks a freed list, or that of a scan that had ended before his
  call; a scan asked for begins.
* *Serial exchange*: recovery by zero bytes, results without data, short counts.
  A result says what the device answered; a device is called lost only if it is
  silent; an exchange ends.
* *Client exchange and negotiation*: late, lost and early answers, which carry no
  number of their request; a wait whose flag has no mutex; a loop over protocol
  versions.  Each call decides on its own answer, ends, leaves no connection and
  no pointer behind, and settles on a version the server speaks.
* *Packets, identifiers, URIs*: both sides write and read word by word, lengths
  change their width twice, identifiers go through text.  What the server does is
  what the caller asked for, what the caller gets is what the device table said,
  and a device that was enumerated is the one that is opened.
* *Lifecycle*: the flag of `server_main` is set by one thread and cleared by the
  other in either order.  A stop returns.

## 2. The modules

| Module | What it is |
|---|---|
| `RWLockSpec` | what a caller of the lock relies on: readers, writers, blocked writers |
| `RWLock`, `MCRWLock`, `RWLockProofs` | the monitor of `rw_lock.h`; implements `RWLockSpec` |
| `DeviceMutex` | one mutex per device |
| `MutexPool`, `MCMutexPool`, `MutexPoolProofs` | the pool, over `RWLockSpec`; implements `DeviceMutex` |
| `DevicePorts` | what the serial layer demands of its caller |
| `DeviceMap`, `MCDeviceMap`, `DeviceMapProofs` | the device table, over `RWLockSpec` and one mutex per device; implements `DevicePorts` and `DeviceMutex` |
| `Supervisor`, `MCSupervisor`, `SupervisorProofs` | the supervisor's count of requests, and its reboots |
| `LibraryClients`, `MCLibraryClients` | `DeviceMap` under the requests that the client library of this repository makes |
| `ClientExchange`, `MCClientExchange`, `ClientProofs` | the client library: exchange, callback, negotiation of the version |
| `SerialExchange`, `MCSerialExchange`, `SerialProofs` | the exchanges on one serial port and the zero synchronisation |
| `DevIds` | identifiers: order, words in a packet, URIs |
| `PortIds` | what each mode calls a device, and the port that is looked up for it |
| `Packets` | the packets of the protocols 1 to 3, both sides, over `MBuf` |
| `WireExchange`, `MCWireExchange`, `PacketProofs` | exchanges of a client with the server or the simulator, packet by packet; the proofs are of `DevIds`, `PortIds` and `Packets` too |
| `ServerProcess`, `MCServerProcess`, `ServerProcessProofs` | the server in a GUI process, from start to stop, and its list of ports, over `RWLockSpec` |

So the locks are modelled once in detail and used in their abstract form: the
monitor implements `RWLockSpec`, the pool uses `RWLockSpec` and implements
`DeviceMutex`, and `DeviceMap` uses both: its steps on device mutexes are steps of
`DeviceMutex`, so table and pool meet in what the one asks and the other gives.
`ServerProcess` uses `RWLockSpec` for
the lock of the port list.  `WireExchange` composes `Packets` and `PortIds`: it is
about what the packets say, as `ClientExchange` is about when they come and
`DeviceMap` about what the server does between them.

**RWLock.**  Each stretch of a method that runs with `_mtx` held is one action;
`pc[t]` says whether a thread is outside, inside, in the wait set of a condition
variable (`rwait`, `wwait`) or has left the wait set without having taken `_mtx`
again (`rwoken`, `wwoken`).  `notify_one` picks any waiter; `SpuriousWake` lets
a wait return without notification.  The counters are the code's.  They are
natural numbers: they count threads, far below 2^32.  What the lock promises,
`RWLockSpec`, has `is_write_lock_requested` as a function of its state (a writer is
inside or announced), and `ImplementsRWLock` asks that the monitor's answer, made
from the counters, is always the same.

**MutexPool.**  One action per lock, unlock or access of the pool.  `pool[d]`
is the mutex object of the map node of `d`, `ref[t]` the reference a thread has
taken: nodes of a `std::map` do not move, so references stay good.  The search
of `unlock_device_mutex` outside the pool's lock (line 142) is one atomic step
here; in C++ it races with an insertion (see the hazards in `PROJECT.json`).

**DeviceMap.**  One program counter per connection thread; a step is what a
thread does between two points at which another thread can act on the same
data.  The locks are visible at each acquisition and release; reads and writes
between them are folded into the release that follows, and what the code does
without `_rwlock` (creating, using, destroying a handle, the search
`(*this)[devid]` of a send request) has steps of its own.  `devs[d]` is the
handle stored for `d`, `Null` for an entry whose handle is `nullptr`, `Absent`
for no entry; `conns` is the list of pairs as a set (`ListedOnce` shows that the
list has no duplicates to lose); `hdev` records which handles are live.
The environment decides freely when packets come, when connections end, whether
a device can be opened and how an exchange ends.  `operation_send_request` and
`urpc_operation_send_request` differ only in the call to the serial layer and are
one set of actions.  Identifiers
are all but `UINT32_MAX`, which the code keeps for a removal that names no device
(`mapdevidphnd.h` 117); `Disconnect` is the call with it, from `callback_disc` or a
close packet.  Device identifiers are distinct keys; when
`DevId::operator<` orders them consistently is the subject of `PacketProofs`.
Answers and packets that do not touch the table are in `WireExchange`; logging
(`log()` with its reader's lock) and `enumerate_devs_opened` are left out.

**LibraryClients** restricts the environment to the client library: a connection
opens one device, sends commands only after a positive answer, and ends after a
negative answer, a close or a timeout.  The findings are shown under this
restriction, so that they are about the program and not about foreign clients.

**Supervisor.**  `Acquire` and `Release` are the constructor and the destructor of
`SupervisorLock` around `callback_data`; `Look` and `Reset` are the supervisor
thread's wake-up that finds too many calls, and the end of its reboot.  There is
one resource, because the lock is taken before `dev_id` is read from the packet.
The exception of `release_resource` leaves a destructor, so it ends the process
(`alive`).  `wasReset`, `since` and `strayed` are history: whether the count has been
reset since nobody was inside, which requests it has counted since, and whether one
that it has forgotten has left.  The walk over the map without its
mutex, `stop()` (run at the end of the process) and `set_limit` (its value is
never read) are left out.  The supervisor is built on one platform only
(`CMakeLists.txt` 8-14).

**ClientExchange.**  A client object `cl[c]` is used by one thread and lives for
one open (with the commands and the close on its handle), one enumeration or one
version request.  `pc` is the thread's place in that call: `send`, `reset`,
`check`, `enter`, `wait`, `final`, `copy` and `decide` are the points of
`_send_and_receive` and of the reading of the answer at which the callback can
interfere; the loops of `xibridge.cpp` are the operators `Redirect`, `TryNext`,
`Keep` and `GiveUp`, which every outcome of an exchange goes through (`Finish`).
`ver`, `tries` and `second` are `_server_protocol_version`, `ncount` and "second
and final chance"; `flag`, `msg` and `buf` are `_is_really_recv`, `_recv_message`
and the copy `MBuf`.  The callback is two steps, so that `msg` is `Garbage` while
it is assigned.  An answer is the number of its request, its version and whether
it is good; the numbers are not in the packets, they only say what is whose.
External, and as `src/client` uses it: bindy answers requests of a connection in
order, however late; its `disconnect` throws when the connection has ended by
itself; no callback of a connection begins after its end has been noticed.  The
servers are those the documentation names, a server that answers nothing to a
version it does not know, and one of a later version.  Left out: creation and
shutdown of bindy, the functions on the connection's buffer that the C interface
does not export, texts, null parameters.  `ERR_NO_BINDY` and
`ERR_SET_CONNECTION` appear as `NO_CONNECTION`, by which `open_connection`
overwrites them.

**SerialExchange.**  `pc` is the piece of the exchange that is written or read, or
a place in `receive` (`again`) or `zerosync` (`burst`, `look`, `synced`,
`lost`).  Bytes are records that say what they are a byte of, so that a piece
read from the wrong place is seen; `line` is the queue of bytes from the device,
of which an arbitrary beginning has arrived when the port is flushed.  Every
call of the port may succeed, fail for good, fail otherwise, or move fewer bytes
than asked for; the code tests the sign of the count only, so the last case
passes for success.  `response_cid` is not initialised, and begins as zeroes or
as the identifier of the command.  A command has data, and an answer, or not
(`WithData`, `WithAnswer`).  `verdict`, `failed`, `silent` and `troubled` are
history.  Left out: times, the value of a checksum (a mismatch returns `ok`, so
the comparison decides nothing), base exchanges with an empty request or answer.

**DevIds, PortIds, Packets** hold definitions without state.  A packet is a
sequence of 32-bit words, written by concatenation as `<<` writes it; it is read
through `Buf`, which is `MBuf` with its position and its overflow mark: a read
past the end reads nothing and says so.  Words written with one byte order and
read with the other are `Swapped`.  The schemas are kept letter by letter, with
`gen_plain_command` (`GenPlain`) and `is_match` (`IsMatch`).  A port is what
libserialport tells of it; a mode turns that into an identifier, or cannot.
The upper half of the words is left to negative numbers, and an identifier is
below 2^31; lengths of data are whole words.  A command of protocol 2 cut inside
its identifier or its length reads what lies behind the packet, and is not
written by the model's callers.

**WireExchange.**  A caller asks for an open (by a URI of an enumeration or of his
own), a command, a close, an enumeration or the version, or writes a packet of
his own, cut anywhere.  `ServerOpens` and its like are the branches of
`callback_data`; `asked` is what they ask of the device table, `done` what it
says, which is free here.  `ServerThrows`, `ServerRefuses`, `ServerIgnores` and
`ServerCannotHold` are the ways out without an operation.  `SimulatorAnswers`
is the simulator.  The actions named `...Taken` are the client's side of the answer.
Lengths go to the serial layer as `uint8_t` (`Uint8`), and the answer is brought
to the length that was asked for (`RespData`).  `Replug` changes the ports between
calls, so what an enumeration has listed may be elsewhere, or gone, when it is
opened; scans that are skipped or overlap are in `ServerProcess`.

**ServerProcess.**  The threads are those of connections, of `server_main` and of
the GUI.  `list` is `pport_list`: null, alive or freed.  A scan is `CheckRequested`,
`WriteLock`, `FreeList`, `ListPorts`, `WriteUnlock`; a walk is `ReadLock`, `Walk`,
`ReadUnlock`.  A walk of no list is `Crash`, after which the process begins anew.
`server_main` begins with the socket (`AlreadyStarted`, `Begin`), may fail to
initialise or throw, scans, notifies the GUI, lets bindy call the handlers, sets `wait_st`
and spins until `stop_server_thread` clears it.  `start_server_thread_spv`
returns after its sleep, however far `server_main` has come.  `scanned`, `failed`,
`made` and `early` are history.  `made[t]` says when the list that `t` is about to walk
was made: at `ListPorts` it becomes `after` for everybody who is in a call then, a new
call sets it to `before`, and to `ending` when it skips its scan for one that has made its
list but has not unlocked.

## 3. What is checked

| Run | Instance | Properties | Result |
|---|---|---|---|
| `rwlock` | 3 readers and 2 writers, one thread being both | `TypeOK`, `NoLostWakeup`, `ImplementsRWLock`, `LockProgress`, `WriterAdmitted` | hold, 278 states |
| `pool` | 3 threads, 2 devices, 3 mutexes | `TypeOK`, `UnlockFindsLocked`, `ImplementsDeviceMutex`, `PoolProgress` | hold, 68 thousand states |
| `devicemap` | 3 connections (2 on one device, 1 on `DevId(0)`), 2 handles, symmetry | `TypeOK`, `HandlesAccounted`, `NullIsTransient`, `OpenIsServed`, `ListedOnce`, `GoneWhenDisconnected`, `ChangedByOwner`, `ImplementsPorts` | hold, 1.1 million states |
| `devicemap_live` | 2 connections that name any of 2 devices | `SomebodyIsAnswered` | holds, 0.7 million states |
| `supervisor` | 6 requests, limit 2 | `ExactSinceReset`, `BootsOnlyFrozen`, `FrozenIsBooted` | hold, 4794 states |
| `supervisor_release` | the same | `ReleaseFinds` | violated |
| `library_open` | library clients, 2 on one device | `OpenMeansOpen` | violated |
| `exchange` | 1 client, 4 kinds of server, every base version, 2 commands | `TypeOK`, `AnswerIsOwn`, `ConnectionsAccounted`, `TimeoutTriedAll`, `NegotiationSettles`, `AnswerTaken`, `CallsReturn` | hold, 0.45 million states |
| `exchange_lost` | the same | `TimeoutMeansNoAnswer` | violated |
| `serial` | 2 exchanges, 2 commands, pieces of 1 byte, bursts of 2, 2 retries | `TypeOK`, `ResultMeans`, `LostMeansSilent`, `ExchangeEnds` | hold, 0.7 million states |
| `wire` | 1 client, the server in 4 modes with 4 lists of ports that change, the simulator in 3 versions | `AskedIsMeant`, `TakenIsDone`, `PacketsMatch`, `EnumeratedIsOpened` | hold, 0.16 million states |
| `process` | 2 connections, `server_main`, the GUI | `ListAlive`, `EnumeratesFresh`, `ScanBegins`, `StopReturns` | hold, 0.28 million states |

*Bounds.* The models of the server's table and locks have no counters to bound:
they are finite through the sets of threads, devices, handles and requests
alone. The supervisor's limit is 2 in place of 30, with requests enough to pass
it before and after a reset, by new ones beside forgotten ones; its process may end, so that run does not look for
deadlocks. Five threads let a writer overtake a woken one while readers sleep.
In the pool two threads can miss one device while a third makes the mutex of the
other, and there is a mutex to spare. In the device table two connections meet
on one device while the third changes the list and takes the lock; two handles
are enough for every device, since each has at most one (`ImplementsPorts`).
Clients of the library share nothing but bindy's table of connections, whose
mutex only the callback holds across steps, so one client shows what can happen
to each; it makes up to four connections, and two commands (`MaxCommands`) are
enough for the first to leave a late answer for the second. A client stops when
its commands are used up, and the serial line after `MaxExchanges`, so these
runs do not look for deadlocks. Two exchanges are enough for one to leave
something on the line for the next; bursts of 2 bytes leave a zero behind;
`MaxLine` bounds the zeroes a device can pile up by repeated synchronisations.
In `wire` data and answers have lengths of no word, one and two, and of 252, 256
and 260 bytes, on both sides of the byte that the serial layer takes, in both
counts (with and without the identifier or result code of protocol 2); the lists
of ports are none, a port beside one that is no device, five that differ in VID and
PID only, share an address, or cannot be named in some mode, and one of these five
elsewhere. In `process`
two connections are enough for one to scan while the other has announced a scan,
and for the GUI or `server_main` to come third and skip theirs.
For the locks, the device table, the supervisor and the port list the proofs of
section 4 remove the bounds for the safety properties. Symmetry exchanges the
two connections with the same device and the handles; it is not used where
liveness is checked.

*Fairness.* Weak fairness of every thread that is inside an operation: the
operating system runs it, a mutex that stays free is obtained, and the holder of
a lock gives it up (nothing in `server/` blocks for ever between lock and
unlock). The supervisor thread wakes up; a request may freeze for ever. An
exchange with a device is assumed to end; the loop at `devserial.c:320` is the
reservation, and `ExchangeEnds` names it as the only one: it may start anew for ever
when its byte was not read. In `ClientExchange` the
client's thread runs, a callback begun ends, and a wait times out (strong
fairness: spurious wake-ups do not recur for ever); servers and bindy owe
nothing. In `SerialExchange` the thread runs, the calls of the port return, and
time passes while `receive` retries; a read that brings nothing and changes nothing is
a stutter, so a port that returns 0 for ever, which libserialport does when its time is
over, is assumed away there. In `ServerProcess` each thread inside a scan
or a walk goes on when it can, `server_main` goes on, the sleep of the start ends,
and a join returns when the thread has. Nobody is obliged to call. Neither
`std::mutex` nor this lock promises anything to an individual thread, so the
liveness properties are about the system: somebody gets on (`LockProgress`,
`PoolProgress`, `SomebodyIsAnswered`), and a writer without competing writers is
admitted though readers keep coming (`WriterAdmitted`). In `ServerProcess` the
write lock is never asked for again and again by others, because the announced
scan makes them skip theirs, so there weak fairness is enough for each scan to
begin (`ScanBegins`).

*Findings* (each is the counterexample of a run):

1. `OpenMeansOpen`.  `operation_send_request` finds the device, gives up
   `_rwlock`, waits for the device's mutex, and uses `(*this)[devid]`.  If the
   device was lost and removed meanwhile the search puts an empty entry back.  A
   new connection's `open_if_not` finds the entry and returns true; nothing is
   open.  The sender's own forced removal then erases the entry
   (`NullIsTransient`), so commands of the new connection fail as for a device
   that was never opened.
2. `ReleaseFinds`.  A reset sets the count to 0, which stands for one request,
   while more are inside.  The next release erases the entry, and the one after
   that throws from a destructor: the reboot of a frozen device ends the server
   as soon as two of the calls it has freed return.
3. `TimeoutMeansNoAnswer`.  `_send_and_receive` sends and then clears the flag.  An
   answer that comes in between is stored, its flag cleared, and the call fails
   with `ERR_RECV_TIMEOUT` after the whole timeout; an open goes on to try other
   versions on a server that has answered.

The count that a reset makes too low has one more consequence, which `FrozenIsBooted`
excludes by `strayed`: a forgotten request that leaves takes another one's count with it,
so that a slot with more than `Limit + 1` new requests that never end may stay as it is for
ever, against the comment at `xibridge_server_lib.cpp` 131.  With a limit of 2: r1 to r4
come, the slot is reset, r5 and r6 come (count 2), r1 and r2 leave (0) and come again (2);
all six freeze, four of them counted since the reset, and 2 is not above the limit.  The
next reset, or a moment with nobody inside, makes the count exact again
(`ExactSinceReset`).

Two more are plain from the code and need no run.  The forced removal of a lost
device works for connection `UINT32_MAX` and leaves the pairs of the device's
connections on the list (`mapdevidphnd.cpp` 234; `mapdevidphnd.h` 115 says
otherwise), so such a connection that opens its device again is told true at once.
And two searches in `std::map`s, `mapdevidphnd.cpp` 142 and 321, run without the
lock that insertions and erasures take.  The models take each for one step.

What the passing runs of the client and the port do not promise, because the
code does not do it: a command can take the late answer of an earlier command
that timed out (the exception in `AnswerIsOwn`); an exchange with a port that
times out can report `ok` without an answer and can go on for ever while the
device answers only zeroes (the exceptions `troubled` in `ResultMeans` and that of
the loop in `ExchangeEnds`).  And a search for a version settles only because no
server of protocol 1 speaks another or answers requests of another: the notice
of a lost device has version 1, and `get_version_of_cmd` takes it for the
version of the answer.  With a server of protocols 1 and 3 in `Servers`,
`NegotiationSettles` is violated; the theorem assumes that there is none
(`Legacy`).

What the runs of the server do not promise: lengths of 256 and more are cut
modulo 256 (`Fits`), a command of protocol 2 brings no error but the result in
front of its data, and its devices have no VID and PID; an enumeration after a
failed scan ends the process (`Crash`, `failed` in `ListAlive`), and so may one
of the GUI before the first scan has ended (`scanned`); a call that skips its scan
for one that has its list but not yet unlocked walks that list, which was made before the
call (`ending` in `EnumeratesFresh`); a stop that comes before `server_main` has set its
flag waits for ever if `server_main` goes on to set it (the exception in `StopReturns`).

## 4. What is proved

For any finite sets of readers and writers (`RWLockProofs`), any sets of threads,
devices and mutexes (`MutexPoolProofs`), any sets of connections, devices and
handles (`DeviceMapProofs`), any limit and finite set of requests
(`SupervisorProofs`), any sizes, retries and commands (`SerialProofs`), any
clients, servers and number of commands (`ClientProofs`), any number of
connections (`ServerProcessProofs`), and any identifiers, ports, URIs, data and
lengths of calls (`PacketProofs`):

* `RWLockProofs`: the counters equal the numbers of threads in the four groups
  they count, a holder that writes is alone, and whenever a waiter could go on one
  has been woken: together the inductive invariant `IInv`.  From it `Exclusion`,
  `NoLostWakeup`, `RequestedExact`, and the refinement of `RWLockSpec`.  A lemma
  says what leaving the lock does to the four groups for every choice of the
  writer that is woken.
* `MutexPoolProofs`: devices do not share mutexes, a reference taken is the
  device's mutex for good, only mutexes of the pool are locked, and a thread
  inside is the holder of the mutex its device has *now*.  From it
  `UnlockFindsLocked` and the refinement of `DeviceMutex`.  And `PoolDeadlockFree`:
  a locked mutex is that of the device its holder is inside for, and a thread
  waits for one only after it has given up the lock of the pool (`LockInv`), so
  some thread can always go on.
* `DeviceMapProofs`: `HandlesAccounted` and `NullIsTransient` are not inductive.
  What they rest on is that program counters and mutexes agree (`MutexHeld`), and
  what each thread knows of its device's entry while it holds the mutex, across
  the stretches in which it does not hold `_rwlock` (`LocalsFit`).  These four and
  the type invariant are inductive together; `ChangedByOwner` and the refinement
  of `DevicePorts` follow.
  Of the list of connections: `ListedOnce` by an invariant that ties the operation to the
  program counter (`PairsFit`); `GoneWhenDisconnected`; and `OpenIsServed` under
  the assumption that every connection names one device (`Uses[c]` has at most
  one element), as this library's connections do.
  Of the locks: a thread has `_rwlock` exactly between a lock and the unlock on its
  path (`LockDiscipline`), which is what `ReadWriteLock` needs of its callers, since
  it does not check; the mutexes are locked and unlocked as `DeviceMutex` says
  (`MutexesRefined`), which is what the pool needs of its callers; and operations
  never all wait for each other (`DeadlockFree`): a thread waits for a mutex only
  without `_rwlock`, and waits for nothing else while it has a mutex but `_rwlock`,
  whose holders wait for nothing.  TLC's search for deadlocks says less, because a
  request can always come on another connection.
* `SupervisorProofs`: a count is never too high (`NeverOver`), also when resets have
  made it too low, and the history keeps what is counted apart (`History`).  From it the
  types, `ExactSinceReset`, `BootsOnlyFrozen`, that more requests than the limit since the
  last reset are found by the thread that looks (`FrozenIsSeen`, the safety half of
  `FrozenIsBooted`), and, for at most `Limit + 1` requests at a time, that every release
  finds its resource.
* `SerialProofs`: `LostMeansSilent`.  The retries left and the silent bursts add up
  on both sides of a burst (`BurstsCounted`), and a retry returns to a piece of the
  answer (`RetriesReceive`).  `ResultMeans` holds because, as long as nothing has
  gone wrong, the place in the exchange says what is on the line, byte by byte:
  zeroes between exchanges (`LineBetween`), zeroes and the answer, or what is left
  of it, inside one (`LineInAnswer`); and the only synchronisation is that of a
  refused command (`NoRetries`).  And the types.
* `ClientProofs`: every attempt that an object gives up has cost one connection
  (`Budget`); its connection is its last one and on `_map` (`Identified`,
  `Linked`), everything else on `_map` has ended by itself (`Others`), and the
  connection of a callback neither leaves `_map` nor ends under it
  (`CallbackFits`).  The versions given up are those that the versions still to
  come leave (`TriedFits`).  What is on the wire stays free.  From it
  `ConnectionsAccounted` and `TimeoutTriedAll`.  `AnswerIsOwn` takes the wire in:
  the first call of a connection is alone on it (`First`), and as long as every
  exchange had its answer there is one request, or one answer, and it is the
  current one's (`Settled`); a lost device is not opened again, because the
  request that opens it is the first of its connection (`OpensFirst`).
  `NegotiationSettles` is proved for servers of which those of protocol 1 speak
  nothing else and answer nothing else (`Legacy`, as ximc): a connection has one
  version, and what comes of it has this version or names one that the server
  speaks (`Agreed`).
  The types (`ClientTypes`) need a count: each connection, each command and each
  close cost one request, so that an object never makes more of them than its
  connections and commands allow, and an answer carries a version that a server
  knows (`TypeInv`).
* `ServerProcessProofs`: the program counters say who holds the lock of the list
  (`LockHeld`), the list is alive whenever nobody scans unless a scan has failed or
  none has ended, and a connection that is to walk but would find a list of before its
  call has a writer before it that has yet to make one, and which keeps it out
  (`FreshAhead`).  From it `ListAlive`, `EnumeratesFresh`, and that a scan is alone at the
  list (`ScansAlone`).
* `PacketProofs`, about data: `DevId::operator<` is no order of all identifiers
  (`NoOrderOfAll`), it is one where no two of them each precede the other
  (`OrderOfComparable`), and so it is for the identifiers of every mode but
  `by_serialpidvid` (`SerialsInOrder`).  An identifier survives its three words
  (`IdentifierSurvives`) and its URI (`UriNamesItsDevice`); a command of protocol 3
  and 2 arrives with its device, its data and its length (`CommandArrives`,
  `Command2Arrives`), and one of protocol 3 that was cut is refused or read as it was
  meant (`CommandArrivesOrIsRefused`); so do the answers to commands
  (`Answer3Arrives`, `Answer2Arrives`) and an enumeration of any length
  (`EnumerationArrives`).  Schemas, enumerations and digits are walked by folds and
  recursive functions.  What these compute is shown by induction; the library's
  induction theorems take an operator, so `SetInduction` states induction with a
  set of numbers in place of a predicate, from the least element of a set of
  naturals, and each recursive function is shown to exist and then unfolded.
* `PacketProofs`, about `WireExchange`: three inductive invariants, one on top of the
  other.  None of the four properties is inductive: what is read depends on what was
  written two steps before.
  `WireInv` says that ports and list are those of the mode (`PeerFits`), that the
  request on the wire is one of those the caller could make (`ReqFits`), and that an
  open by a listed URI names the device behind it (`FromFits`, `EnumFits`); nothing is
  asked of a table when the peer is the simulator (`NothingAsked`).  From it
  `AskedMeant` and `EnumeratedOpened`.  `AnswerInv` says what each answer is, given
  what the table did (`AnsFits`); from it `TakenDone`.  `MatchInv` says that both
  packets fit the device of the call: `is_match`, run word by word over the schema
  of the packet's type, with its skips, comparisons and the rest of unknown length,
  ends well; from it `PacketsMatched`.

Assumptions on constants: the marks for "none" differ from the values they stand
beside (`ConstantsAssumption`, `NonesAssumption`), the threads of the lock are
finitely many (`FiniteThreads`), and so are the requests of the supervisor,
whose limit is a natural number (`SupervisorAssumption`); what a vector holds
while it is assigned is no message (`ConstantsAssumption` of `ClientExchange`);
the threads of `server_main` and of the GUI are no connections
(`ThreadsAssumption`); the peer of a `WireExchange` is the server or the simulator in
one of its three protocols, lists are lists of ports, URIs have hexadecimal digits,
data are words, and lengths of answers whole words (`ConstantsAssumption`).

Every safety invariant, action property and refinement of the passing runs is
stated by a theorem.  Model-checked only: everything under fairness (liveness is
beyond the proof system), that is `LockProgress`, `WriterAdmitted`, `PoolProgress`,
`SomebodyIsAnswered`, `FrozenIsBooted`, `AnswerTaken`, `CallsReturn`, `ExchangeEnds`,
`ScanBegins` and `StopReturns`; and the three properties that are violated.
`OpenIsServed` and `NegotiationSettles` are proved under the assumptions named above,
which their runs meet; `ReleaseFinds`, which is violated, holds for `Limit + 1`
requests.

## 5. What is not modelled, and the plan

* The console server, which does not wait for the flag, its command line, log
  buffer and stack traces; creation and shutdown of bindy; error texts.
* Windows and macOS: the identifier of a port and the check for a second server
  are those of Linux.  The rest of the platform layer wraps system calls.
* Destructors and functions that run at the end of the process: of the device
  table, `free_sp_ports`, `stop()` of the supervisor.
* Conversions that no packet uses: numbers of 8 and 24 bits, insertion at the start
  of a buffer, CRC32; texts in a URI that are not hexadecimal digits.
* Tests and examples, except the simulator: they are clients of the library.

What is left to do, most important first:

1. A theorem that the steps of `ClientExchange` between the first packet of a
   connection and its end name one device, which `OpenDevicesAreServed` assumes of
   the connections of this library.
2. Deadlock freedom of the port list's lock with the GUI and `server_main`, as
   `DeadlockFree` has it for the table.
3. One module with the pool in the place of the mutexes of `DeviceMap`; today their
   proofs meet in `DeviceMutex`.
