----------------------------- MODULE Supervisor -----------------------------
(***************************************************************************)
(* Supervisor and SupervisorLock of src/server/supervisor.{hpp,cpp}: the   *)
(* count of the requests that are inside callback_data, and the thread     *)
(* that reboots a slot when too many are.                                  *)
(*                                                                         *)
(* callback_data takes the lock before it has read dev_id from the packet  *)
(* (xibridge_server_lib.cpp:126-133), so every request is counted for the  *)
(* one resource "0".  The first request enters the resource with 0, so     *)
(* its count is the number of requests inside less one.  LIMIT is the      *)
(* constant of supervisor.hpp; the value set_limit stores is never read.   *)
(* stop(), which only the destructor of the global calls, is left out.     *)
(***************************************************************************)
EXTENDS Integers, FiniteSets

CONSTANTS Requests,     \* the threads that may be in callback_data at a time
          Limit,        \* LIMIT
          Absent        \* no entry for the resource

ASSUME SupervisorAssumption ==
    IsFiniteSet(Requests) /\ Limit \in Nat /\ Absent \notin Int

VARIABLES count,     \* resources["0"], or Absent
          inside,    \* requests between acquire_resource and release_resource
          watch,     \* the supervisor thread: asleep, or rebooting a slot
          alive,     \* FALSE once an exception has left a destructor
          wasReset,  \* history: the count has been reset since inside was last empty
          since,     \* history: the requests inside that came after the last reset, if any
          strayed    \* history: a request that a reset has forgotten has left since

vars == <<count, inside, watch, alive, wasReset, since, strayed>>

TypeOK ==
    /\ count \in Nat \cup {Absent}
    /\ inside \subseteq Requests
    /\ watch \in {"sleep", "reboot"}
    /\ since \subseteq inside
    /\ alive \in BOOLEAN /\ wasReset \in BOOLEAN /\ strayed \in BOOLEAN

Init ==
    /\ count = Absent /\ inside = {} /\ watch = "sleep" /\ alive = TRUE
    /\ wasReset = FALSE /\ since = {} /\ strayed = FALSE

\* mutant: the first request is counted too.
AcquireFromOne(r) ==
    /\ alive /\ r \notin inside
    /\ inside' = inside \cup {r} /\ since' = since \cup {r}
    /\ count' = IF count = Absent THEN 1 ELSE count + 1
    /\ UNCHANGED <<watch, alive, wasReset, strayed>>

\* acquire_resource, in the constructor of SupervisorLock.
Acquire(r) ==
    /\ alive /\ r \notin inside
    /\ inside' = inside \cup {r} /\ since' = since \cup {r}
    /\ count' = IF count = Absent THEN 0 ELSE count + 1
    /\ UNCHANGED <<watch, alive, wasReset, strayed>>

\* The history of a request that leaves: with the last one everything starts anew.
Forget(r) ==
    /\ since' = since \ {r}
    /\ IF inside' = {} /\ alive'
       THEN wasReset' = FALSE /\ strayed' = FALSE
       ELSE wasReset' = wasReset /\ strayed' = (strayed \/ r \notin since)

\* mutant: the entry is erased at zero.
ReleaseAtZero(r) ==
    /\ alive /\ r \in inside
    /\ inside' = inside \ {r}
    /\ \/ count # Absent /\ count - 1 <= 0 /\ count' = Absent /\ UNCHANGED alive
       \/ count # Absent /\ count - 1 > 0 /\ count' = count - 1 /\ UNCHANGED alive
       \/ count = Absent /\ alive' = FALSE /\ UNCHANGED count
    /\ Forget(r)
    /\ UNCHANGED watch

\* release_resource, in the destructor of SupervisorLock: an entry that is not
\* there is an exception, which ends the process.
Release(r) ==
    /\ alive /\ r \in inside
    /\ inside' = inside \ {r}
    /\ \/ count # Absent /\ count - 1 < 0 /\ count' = Absent /\ UNCHANGED alive
       \/ count # Absent /\ count - 1 >= 0 /\ count' = count - 1 /\ UNCHANGED alive
       \/ count = Absent /\ alive' = FALSE /\ UNCHANGED count
    /\ Forget(r)
    /\ UNCHANGED watch

TooMany == count # Absent /\ count > Limit

\* The thread wakes up and finds too many calls.
Look ==
    /\ alive /\ watch = "sleep" /\ TooMany
    /\ watch' = "reboot"
    /\ UNCHANGED <<count, inside, alive, wasReset, since, strayed>>

\* mutant: the reset erases the entry, so that the next request is the first again.
ResetErasing ==
    /\ alive /\ watch = "reboot"
    /\ watch' = "sleep"
    /\ \/ /\ count # Absent /\ count' = Absent
          /\ wasReset' = TRUE /\ since' = {} /\ strayed' = FALSE
       \/ count = Absent /\ UNCHANGED <<count, wasReset, since, strayed>>
    /\ UNCHANGED <<inside, alive>>

\* The slot is off and on again: the count starts anew if there still is one.
Reset ==
    /\ alive /\ watch = "reboot"
    /\ watch' = "sleep"
    /\ \/ /\ count # Absent /\ count' = 0
          /\ wasReset' = TRUE /\ since' = {} /\ strayed' = FALSE
       \/ count = Absent /\ UNCHANGED <<count, wasReset, since, strayed>>
    /\ UNCHANGED <<inside, alive>>

Next == (\E r \in Requests : Acquire(r) \/ Release(r)) \/ Look \/ Reset

Spec == Init /\ [][Next]_vars

\* The thread sleeps TIMEOUT_MS and is scheduled; a request may freeze for good.
FairSpec == Spec /\ WF_vars(Look) /\ WF_vars(Reset)
-----------------------------------------------------------------------------
\* The count is exact - one less than the requests inside, or after a reset the number of
\* those that came since - and every release finds its entry, in every order of requests and
\* resets, until a request that a reset has forgotten leaves.  What that one takes from the
\* count is missing until the next reset, or until nobody is inside.
ExactSinceReset ==
    ~strayed =>
        /\ alive
        /\ inside = {} => count = Absent
        /\ inside # {} => count = IF wasReset THEN Cardinality(since) ELSE Cardinality(inside) - 1

\* A slot is rebooted only while more than Limit + 1 requests are inside, also
\* after counts have been reset with requests inside.
BootsOnlyFrozen ==
    [][watch = "sleep" /\ watch' = "reboot" => Cardinality(inside) > Limit + 1]_vars

\* More requests than the limit allows are inside, not counting those of before a reset; and
\* none of those has left and taken another one's count with it.
Frozen ==
    /\ alive /\ ~strayed
    /\ Cardinality(since) > IF wasReset THEN Limit ELSE Limit + 1

\* "if it is captured many times, but never freed, the supervisor will kill this device"
\* (xibridge_server_lib.cpp:131), after every reset anew: such requests do not stay without
\* the slot being rebooted, which counts them as forgotten.  The code keeps the promise only
\* as far as Frozen goes: once a forgotten request has left, more than Limit + 1 may stay for
\* ever and the count never gets beyond the limit (see the README).
FrozenIsBooted == Frozen ~> ~Frozen

\* Every release finds the resource it has acquired: the exception "Resource ...
\* not acquired" (supervisor.cpp:96) stays unused.  It does not, once a count has
\* been reset with requests inside (see the README).
ReleaseFinds == alive
=============================================================================
