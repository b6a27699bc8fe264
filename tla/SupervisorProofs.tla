-------------------------- MODULE SupervisorProofs --------------------------
(***************************************************************************)
(* Theorems about Supervisor for any limit and any finite set of requests. *)
(***************************************************************************)
EXTENDS Supervisor, FiniteSetTheorems, TLAPS

\* A reset makes the count too low, never too high.
NeverOver ==
    count # Absent => 0 <= count /\ count <= Cardinality(inside) - 1

\* Before a reset, or after nobody was inside, no request is forgotten; a reset with nobody
\* inside does not happen.
History ==
    /\ ~wasReset => since = inside /\ ~strayed
    /\ wasReset => inside # {}

SupInv == TypeOK /\ ExactSinceReset /\ NeverOver /\ (alive => History)

\* The requests inside are finitely many, and one more or one less changes their
\* number by one.
LEMMA InsideFinite ==
    ASSUME TypeOK
    PROVE  /\ IsFiniteSet(inside) /\ Cardinality(inside) \in Nat
           /\ IsFiniteSet(since) /\ Cardinality(since) \in Nat
           /\ \A r \in Requests \ inside :
                 Cardinality(inside \cup {r}) = Cardinality(inside) + 1
           /\ \A r \in inside : Cardinality(inside \ {r}) = Cardinality(inside) - 1
           /\ \A r \in Requests \ inside : Cardinality(since \cup {r}) = Cardinality(since) + 1
           /\ \A r \in since : Cardinality(since \ {r}) = Cardinality(since) - 1
           /\ Cardinality(inside) = 0 <=> inside = {}
           /\ Cardinality(since) = 0 <=> since = {}
<1>1. IsFiniteSet(inside) /\ IsFiniteSet(since) /\ since \subseteq inside
  BY SupervisorAssumption, FS_Subset DEF TypeOK
<1>2. QED
  BY <1>1, FS_CardinalityType, FS_AddElement, FS_RemoveElement, FS_EmptySet

\* The invariant holds at the start.
LEMMA InitSupInv == Init => SupInv
BY FS_EmptySet, SupervisorAssumption DEF Init, SupInv, TypeOK, ExactSinceReset, NeverOver, History

\* Every step keeps the invariant.
LEMMA NextSupInv == SupInv /\ [Next]_vars => SupInv'
<1> SUFFICES ASSUME SupInv, [Next]_vars PROVE SupInv'
  OBVIOUS
<1> USE SupervisorAssumption DEF SupInv, TypeOK, ExactSinceReset, NeverOver, History
<1>1. ASSUME NEW r \in Requests, Acquire(r) PROVE SupInv'
  <2>1. /\ Cardinality(inside') = Cardinality(inside) + 1 /\ inside' # {}
        /\ Cardinality(since') = Cardinality(since) + 1
        /\ Cardinality(inside) \in Nat /\ Cardinality(since) \in Nat
        /\ Cardinality(inside) = 0 <=> inside = {}
    BY <1>1, InsideFinite DEF Acquire
  <2>2. TypeOK'
    BY <1>1 DEF Acquire
  <2>3. ExactSinceReset' /\ (alive => History)'
    BY <1>1, <2>1 DEF Acquire
  <2>4. NeverOver'
    BY <1>1, <2>1 DEF Acquire
  <2>5. QED
    BY <2>2, <2>3, <2>4
<1>2. ASSUME NEW r \in Requests, Release(r) PROVE SupInv'
  <2>1. /\ r \in inside /\ inside' = inside \ {r} /\ since' = since \ {r} /\ watch' = watch
        /\ alive /\ inside' \subseteq Requests /\ since' \subseteq inside'
        /\ wasReset' \in BOOLEAN /\ strayed' \in BOOLEAN
    BY <1>2 DEF Release, Forget
  <2>2. /\ Cardinality(inside') = Cardinality(inside) - 1
        /\ Cardinality(since') = IF r \in since THEN Cardinality(since) - 1 ELSE Cardinality(since)
        /\ Cardinality(inside) \in Nat /\ Cardinality(since) \in Nat
        /\ Cardinality(inside') = 0 <=> inside' = {}
        /\ r \in since => Cardinality(since) # 0
    <3>1. r \notin since => since \ {r} = since
      OBVIOUS
    <3>2. QED
      BY <2>1, <3>1, InsideFinite, FS_RemoveElement, FS_EmptySet
  <2>3. CASE count \in Nat /\ count - 1 < 0 /\ count' = Absent /\ alive' = alive
    <3>1. inside' = {} => wasReset' = FALSE /\ strayed' = FALSE
      BY <1>2, <2>1, <2>3 DEF Release, Forget
    <3>2. inside' # {} => wasReset' = wasReset /\ strayed' = (strayed \/ r \notin since)
      BY <1>2, <2>1 DEF Release, Forget
    <3>3. inside' = {} => since' = {}
      BY <2>1
    <3>4. ExactSinceReset'
      BY <2>1, <2>2, <2>3, <3>1, <3>2
    <3>5. History'
      BY <2>1, <3>1, <3>2, <3>3
    <3>6. QED
      BY <2>1, <2>3, <3>4, <3>5
  <2>4. CASE count \in Nat /\ count - 1 >= 0 /\ count' = count - 1 /\ alive' = alive
    <3>1. count' \in Nat /\ count' # Absent /\ inside' # {}
      BY <2>2, <2>4
    <3>2. wasReset' = wasReset /\ strayed' = (strayed \/ r \notin since)
      BY <1>2, <3>1 DEF Release, Forget
    <3>3. ExactSinceReset'
      BY <2>1, <2>2, <2>4, <3>1, <3>2
    <3>4. History'
      BY <2>1, <3>1, <3>2
    <3>5. QED
      BY <2>1, <2>2, <2>4, <3>1, <3>3, <3>4
  <2>5. CASE count = Absent /\ alive' = FALSE /\ count' = count
    <3>1. strayed
      BY <2>1, <2>5
    <3>2. strayed'
      BY <1>2, <2>5, <3>1 DEF Release, Forget
    <3>3. QED
      BY <2>1, <2>5, <3>2
  <2>6. QED
    BY <1>2, <2>3, <2>4, <2>5 DEF Release
<1>3. CASE Look
  BY <1>3 DEF Look
<1>4. CASE Reset
  <2>1. Cardinality(inside) \in Nat /\ inside' = inside /\ alive' = alive
    BY <1>4, InsideFinite DEF Reset
  <2>2. CASE count \in Nat /\ count' = 0 /\ wasReset' = TRUE /\ since' = {} /\ strayed' = FALSE
    <3>1. Cardinality(inside) >= 1 /\ Cardinality(inside') = Cardinality(inside)
          /\ Cardinality(since') = 0
      BY <2>1, <2>2, FS_EmptySet
    <3>2. inside' # {}
      BY <2>1, <3>1, InsideFinite
    <3>3. TypeOK' /\ History'
      BY <1>4, <2>1, <2>2, <3>2 DEF Reset
    <3>4. ExactSinceReset' /\ NeverOver'
      BY <1>4, <2>1, <2>2, <3>1, <3>2 DEF Reset
    <3>5. QED
      BY <3>3, <3>4
  <2>3. CASE count = Absent /\ UNCHANGED <<count, wasReset, since, strayed>>
    BY <1>4, <2>1, <2>3 DEF Reset
  <2>4. QED
    BY <1>4, <2>2, <2>3 DEF Reset
<1>5. CASE UNCHANGED vars
  BY <1>5 DEF vars
<1>6. QED
  BY <1>1, <1>2, <1>3, <1>4, <1>5 DEF Next

\* The inductive invariant of the supervisor.
THEOREM SupInvariance == Spec => []SupInv
BY InitSupInv, NextSupInv, PTL DEF Spec

\* Every variable keeps its type.
THEOREM SupervisorTypeCorrect == Spec => []TypeOK
<1>1. SupInv => TypeOK
  BY DEF SupInv
<1>2. QED
  BY <1>1, SupInvariance, PTL

\* The count is exact, and no release throws, from the start and from every reset on until a
\* request that a reset has forgotten leaves.
THEOREM CountIsExact == Spec => []ExactSinceReset
<1>1. SupInv => ExactSinceReset
  BY DEF SupInv
<1>2. QED
  BY <1>1, SupInvariance, PTL

\* The thread that looks finds every such slot above its limit, also after a reset: what
\* FrozenIsBooted needs besides the scheduling of the thread.
THEOREM FrozenIsSeen == Spec => [](Frozen => TooMany)
<1>1. SupInv => (Frozen => TooMany)
  <2> SUFFICES ASSUME SupInv, Frozen PROVE TooMany
    OBVIOUS
  <2>1. Cardinality(inside) \in Nat /\ Cardinality(since) \in Nat
        /\ (Cardinality(since) = 0 <=> since = {})
    BY InsideFinite DEF SupInv
  <2>2. alive /\ ~strayed /\ inside # {}
    BY <2>1, SupervisorAssumption DEF Frozen, SupInv, TypeOK
  <2>3. CASE wasReset
    BY <2>1, <2>2, <2>3, SupervisorAssumption
    DEF Frozen, TooMany, SupInv, ExactSinceReset
  <2>4. CASE ~wasReset
    BY <2>1, <2>2, <2>4, SupervisorAssumption
    DEF Frozen, TooMany, SupInv, ExactSinceReset, History
  <2>5. QED
    BY <2>3, <2>4
<1>2. QED
  BY <1>1, SupInvariance, PTL

\* With no more requests than the limit allows for, nothing is reset, and every
\* release finds its resource.
THEOREM FewRequestsAreSafe ==
    ASSUME Cardinality(Requests) <= Limit + 1
    PROVE  Spec => []ReleaseFinds
<1> DEFINE J == SupInv /\ watch = "sleep" /\ ~wasReset /\ ~strayed
<1>1. Init => J
  BY InitSupInv DEF Init
<1>2. ASSUME J, [Next]_vars PROVE J'
  <2>1. SupInv'
    BY <1>2, NextSupInv
  <2>2. Cardinality(inside) \in Nat /\ Cardinality(inside) <= Cardinality(Requests)
        /\ Cardinality(Requests) \in Nat
    BY <1>2, SupervisorAssumption, FS_Subset, FS_CardinalityType DEF SupInv, TypeOK
  <2>3. ~TooMany
    BY <1>2, <2>2, SupervisorAssumption DEF SupInv, NeverOver, TypeOK, TooMany
  <2>4. since = inside /\ wasReset \in BOOLEAN /\ strayed \in BOOLEAN
    BY <1>2 DEF SupInv, TypeOK, ExactSinceReset, History
  <2>5. QED
    BY <1>2, <2>1, <2>3, <2>4 DEF Next, Acquire, Release, Forget, Look, Reset, vars
<1>3. J => ReleaseFinds
  BY DEF SupInv, ExactSinceReset, History, ReleaseFinds
<1> HIDE DEF J
<1>4. QED
  BY <1>1, <1>2, <1>3, PTL DEF Spec

\* Only a slot with more than Limit + 1 requests inside is rebooted, whatever was
\* reset before.
THEOREM OnlyFrozenAreBooted == Spec => BootsOnlyFrozen
<1>1. ASSUME SupInv, [Next]_vars
      PROVE  [watch = "sleep" /\ watch' = "reboot" => Cardinality(inside) > Limit + 1]_vars
  <2>1. Cardinality(inside) \in Nat
    BY <1>1, InsideFinite DEF SupInv
  <2>2. QED
    BY <1>1, <2>1, SupervisorAssumption
    DEF SupInv, TypeOK, NeverOver, Next, Acquire, Release, Look, Reset, TooMany, vars
<1>2. QED
  BY <1>1, SupInvariance, PTL DEF Spec, BootsOnlyFrozen
=============================================================================
