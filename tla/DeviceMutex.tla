----------------------------- MODULE DeviceMutex -----------------------------
(***************************************************************************)
(* What MapDevIdPHandle relies on in lock_create_device_mutex and          *)
(* unlock_device_mutex: one mutex per device.  MutexPool implements it;    *)
(* DeviceMap uses it, with owner[d] = t for holders[d] = {t}.              *)
(***************************************************************************)
CONSTANTS Threads, DevIds

VARIABLE holders     \* holders[d]: the threads between lock and unlock of d

Init == holders = [d \in DevIds |-> {}]

Lock(t, d) == holders[d] = {} /\ holders' = [holders EXCEPT ![d] = {t}]

Unlock(t, d) == holders[d] = {t} /\ holders' = [holders EXCEPT ![d] = {}]

Next == \E t \in Threads, d \in DevIds : Lock(t, d) \/ Unlock(t, d)

Spec == Init /\ [][Next]_holders
=============================================================================
