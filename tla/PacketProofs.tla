---------------------------- MODULE PacketProofs ----------------------------
(***************************************************************************)
(* Theorems about identifiers, packets and exchanges for every value: the  *)
(* order of the keys of devices; the URI, the port and the words of an     *)
(* identifier; requests and answers that are read as they were made, or    *)
(* refused; and, from three inductive invariants of WireExchange, that the *)
(* server asks its table of devices for what the caller meant, that the    *)
(* caller is told what the table did, and that every packet matches the    *)
(* schema of its type.                                                     *)
(*                                                                         *)
(* The first part reasons about data.  Induction is SetInduction, and what *)
(* a fold or a recursive function computes is unfolded along it: one shows *)
(* that a function exists that satisfies the recursive equation, and then  *)
(* the one that CHOOSE picks satisfies it too.                             *)
(***************************************************************************)
EXTENDS WireExchange, SequenceTheorems, WellFoundedInduction, TLAPS

-----------------------------------------------------------------------------
(* The order of DevId.                                                     *)

\* What std::map asks of the order of its keys.
StrictWeakOrder(D) ==
    /\ \A a \in D : ~Precedes(a, a)
    /\ \A a, b, c \in D : Precedes(a, b) /\ Precedes(b, c) => Precedes(a, c)
    /\ \A a, b \in D : Precedes(a, b) => ~Precedes(b, a)

SameKey(a, b) == ~Precedes(a, b) /\ ~Precedes(b, a)

\* The values of a field.
LEMMA WordsAreNumbers == /\ Words32 \subseteq Nat /\ Words16 \subseteq Nat
                         /\ \A n \in 0 .. 2 : n \in Words32 /\ n \in Words16
BY SMT DEF Words32, Words16

\* operator < is no order of all identifiers: two devices of which one has the greater VID
\* and the other the greater serial each precede the other, so a map that holds both may
\* find neither.
THEOREM NoOrderOfAll == ~StrictWeakOrder(DevIdSet)
<1> DEFINE a == DevId(1, 0, 2, 0)  b == DevId(2, 0, 1, 0)
<1>1. a \in DevIdSet /\ b \in DevIdSet
  BY WordsAreNumbers DEF DevIdSet, DevId
<1>2. Precedes(a, b) /\ Precedes(b, a)
  BY DEF Precedes, DevId
<1>3. QED
  BY <1>1, <1>2 DEF StrictWeakOrder

\* The fields of an identifier.
LEMMA FieldsAreNumbers ==
    ASSUME NEW d \in DevIdSet
    PROVE  /\ d.id \in Nat /\ d.pid \in Nat /\ d.vid \in Nat /\ d.reserve \in Nat
           /\ d = DevId(d.id, d.pid, d.vid, d.reserve)
<1>1. d.id \in Words32 /\ d.pid \in Words16 /\ d.vid \in Words16 /\ d.reserve \in Words32
  BY DEF DevIdSet
<1>2. d = DevId(d.id, d.pid, d.vid, d.reserve)
  BY DEF DevIdSet, DevId
<1>3. QED
  BY <1>1, <1>2, WordsAreNumbers

\* It is one wherever no two identifiers each precede the other, and then two keys are
\* the same exactly when they differ in reserve at most.
THEOREM OrderOfComparable ==
    ASSUME NEW D \in SUBSET DevIdSet, \A a, b \in D : ~(Precedes(a, b) /\ Precedes(b, a))
    PROVE  /\ StrictWeakOrder(D)
           /\ \A a, b \in D :
                SameKey(a, b) <=> a.vid = b.vid /\ a.pid = b.pid /\ a.id = b.id
<1>1. \A a \in D : a.id \in Nat /\ a.pid \in Nat /\ a.vid \in Nat
  BY FieldsAreNumbers
<1>2. \A a, b \in D : Precedes(a, b) => a.vid <= b.vid /\ a.pid <= b.pid /\ a.id <= b.id
  BY <1>1 DEF Precedes
<1>3. \A a \in D : ~Precedes(a, a)
  BY <1>1 DEF Precedes
<1>4. \A a, b, c \in D : Precedes(a, b) /\ Precedes(b, c) => Precedes(a, c)
  BY <1>1, <1>2 DEF Precedes
<1>5. \A a, b \in D : SameKey(a, b) <=> a.vid = b.vid /\ a.pid = b.pid /\ a.id = b.id
  BY <1>1 DEF SameKey, Precedes
<1>6. QED
  BY <1>3, <1>4, <1>5 DEF StrictWeakOrder

\* Every mode of the server but by_serialpidvid names devices by their serial alone, and
\* serials are in order: then the map of devices has the keys it needs.
THEOREM SerialsInOrder ==
    ASSUME NEW m \in Modes \ {"by_serialpidvid"}, NEW D \in SUBSET DevIdSet,
           \A d \in D : \E port : GetDevId(m, port) = Identified(d)
    PROVE  StrictWeakOrder(D) /\ \A a, b \in D : SameKey(a, b) => a = b
<1>1. ASSUME NEW port PROVE \E n : GetDevId(m, port).dev = Serial(n)
  <2>1. m \in {"bvvu", "by_com_addr", "by_serial"}
    BY DEF Modes
  <2>2. GetBvvu(port).dev = Serial(LocationId(port.location)) \/ GetBvvu(port).dev = Serial(0)
    BY DEF GetBvvu, Identified, Unidentified
  <2>3. GetByAddr(port).dev = Serial(port.address) \/ GetByAddr(port).dev = Serial(0)
    BY DEF GetByAddr, Identified, Unidentified
  <2>4. \/ GetBySerial(port).dev = Serial(HexValue(LeadingDigits(LastFour(port.serial))))
        \/ GetBySerial(port).dev = Serial(0)
    BY DEF GetBySerial, Identified, Unidentified
  <2>5. QED
    BY <2>1, <2>2, <2>3, <2>4 DEF GetDevId
<1>2. \A d \in D : \E n : d = Serial(n)
  BY <1>1 DEF Identified
<1>3. \A d \in D : d.vid = 0 /\ d.pid = 0 /\ d = Serial(d.id)
  BY <1>2 DEF Serial, DevId
<1>4. \A a, b \in D : ~(Precedes(a, b) /\ Precedes(b, a))
  <2>1. \A a \in D : a.id \in Nat
    BY FieldsAreNumbers
  <2>2. QED
    BY <1>3, <2>1 DEF Precedes
<1>5. QED
  BY <1>3, <1>4, OrderOfComparable

-----------------------------------------------------------------------------
(* Induction over data, and folds.                                         *)

\* Induction, as a fact about sets of numbers.
LEMMA SetInduction ==
    ASSUME NEW S \in SUBSET Nat, 0 \in S, \A n \in S : n + 1 \in S
    PROVE  S = Nat
<1> DEFINE T == Nat \ S  R == OpToRel(<, Nat)
<1> SUFFICES ASSUME T # {} PROVE FALSE
  OBVIOUS
<1>1. PICK x \in T : \A y \in T : ~(<<y, x>> \in R)
  <2>1. IsWellFoundedOn(R, Nat)
    BY NatLessThanWellFounded
  <2>2. T \subseteq Nat
    OBVIOUS
  <2> HIDE DEF T, R
  <2>3. QED
    BY <2>1, <2>2, WFMin
<1>2. x - 1 \in T /\ x - 1 < x
  OBVIOUS
<1>3. <<x - 1, x>> \in R
  BY <1>2 DEF OpToRel
<1>4. QED
  BY <1>1, <1>2, <1>3

\* Every set of numbers up to n has a greatest one.
LEMMA Greatest ==
    ASSUME NEW n \in Nat, NEW s \in SUBSET (1 .. n), s # {}
    PROVE  Max(s) \in s /\ \A y \in s : y <= Max(s)
<1> DEFINE T == {m \in Nat : \A t \in SUBSET (1 .. m) : t # {} => \E x \in t : \A y \in t : x >= y}
<1>1. 0 \in T
  <2>1. 1 .. 0 = {}
    OBVIOUS
  <2>2. QED
    BY <2>1
<1>2. ASSUME NEW m \in T PROVE m + 1 \in T
  <2> SUFFICES ASSUME NEW t \in SUBSET (1 .. m + 1), t # {} PROVE \E x \in t : \A y \in t : x >= y
    OBVIOUS
  <2>1. CASE m + 1 \in t
    BY <2>1
  <2>2. CASE m + 1 \notin t
    <3>1. t \in SUBSET (1 .. m)
      BY <2>2
    <3>2. QED
      BY <3>1
  <2>3. QED
    BY <2>1, <2>2
<1>3. T = Nat
  <2>1. T \subseteq Nat
    OBVIOUS
  <2> HIDE DEF T
  <2>2. QED
    BY <1>1, <1>2, <2>1, SetInduction
<1>4. \E x \in s : \A y \in s : x >= y
  BY <1>3
<1>5. Max(s) \in s /\ \A y \in s : Max(s) >= y
  BY <1>4, Zenon DEF Max
<1>6. s \subseteq Nat
  OBVIOUS
<1>7. QED
  BY <1>5, <1>6

\* The greatest of the first m.
LEMMA LastOfFirst ==
    ASSUME NEW n \in Nat, NEW m \in 1 .. n
    PROVE  /\ 1 .. m \in SUBSET (1 .. n) /\ 1 .. m # {} /\ Max(1 .. m) = m
           /\ (1 .. m) \ {Max(1 .. m)} = 1 .. m - 1
<1>1. 1 .. m \in SUBSET (1 .. n) /\ m \in 1 .. m /\ m \in Nat
  OBVIOUS
<1>2. Max(1 .. m) \in 1 .. m /\ m <= Max(1 .. m)
  BY <1>1, Greatest, Zenon
<1>3. Max(1 .. m) = m
  BY <1>2
<1>4. (1 .. m) \ {m} = 1 .. m - 1
  OBVIOUS
<1>5. QED
  BY <1>1, <1>3, <1>4, Zenon

\* A fold over the places of a sequence in their order, as MapThenFoldSet does it, exists
\* wherever its steps stay in a set.  The step takes the value before and the place.
IsFold(iter, n, D, base, step) ==
    /\ iter \in [SUBSET (1 .. n) -> D]
    /\ \A s \in SUBSET (1 .. n) :
          iter[s] = IF s = {} THEN base ELSE step[<<iter[s \ {Max(s)}], Max(s)>>]

\* The fold exists.
LEMMA FoldExists ==
    ASSUME NEW D, NEW base \in D, NEW n \in Nat, NEW step \in [D \X (1 .. n) -> D]
    PROVE  \E iter : IsFold(iter, n, D, base, step)
<1> DEFINE IsF(f, m) ==
             /\ f \in [SUBSET (1 .. m) -> D]
             /\ \A s \in SUBSET (1 .. m) :
                  f[s] = IF s = {} THEN base ELSE step[<<f[s \ {Max(s)}], Max(s)>>]
           T == {m \in Nat : m <= n => \E f : IsF(f, m)}
<1>1. 0 \in T
  <2>1. 1 .. 0 = {}
    OBVIOUS
  <2>2. IsF([s \in SUBSET (1 .. 0) |-> base], 0)
    BY <2>1
  <2>3. QED
    BY <2>2
<1>2. ASSUME NEW m \in T PROVE m + 1 \in T
  <2> SUFFICES ASSUME m + 1 <= n PROVE \E f : IsF(f, m + 1)
    <3> HIDE DEF IsF
    <3>1. QED
      OBVIOUS
  <2>1. PICK f : IsF(f, m)
    <3> HIDE DEF IsF
    <3>1. QED
      OBVIOUS
  <2> DEFINE g == [s \in SUBSET (1 .. m + 1) |->
                     IF m + 1 \in s THEN step[<<f[s \ {m + 1}], m + 1>>] ELSE f[s]]
  <2>2. m + 1 \in Nat /\ m + 1 \in 1 .. n
    OBVIOUS
  <2>3. \A s \in SUBSET (1 .. m + 1) : /\ s \ {m + 1} \in SUBSET (1 .. m)
                                       /\ m + 1 \notin s => s \in SUBSET (1 .. m)
    OBVIOUS
  <2>4. g \in [SUBSET (1 .. m + 1) -> D]
    <3>1. ASSUME NEW s \in SUBSET (1 .. m + 1) PROVE g[s] \in D
      <4>1. f[s \ {m + 1}] \in D
        BY <2>1, <2>3, Zenon
      <4>2. <<f[s \ {m + 1}], m + 1>> \in D \X (1 .. n)
        BY <4>1, <2>2
      <4>3. step[<<f[s \ {m + 1}], m + 1>>] \in D
        BY <4>2, Zenon
      <4>4. m + 1 \notin s => f[s] \in D
        BY <2>1, <2>3, Zenon
      <4>5. QED
        BY <4>3, <4>4, Zenon
    <3>2. QED
      BY <3>1, Zenon
  <2>5. ASSUME NEW s \in SUBSET (1 .. m + 1)
        PROVE  g[s] = IF s = {} THEN base ELSE step[<<g[s \ {Max(s)}], Max(s)>>]
    <3>1. CASE m + 1 \in s
      <4>1. Max(s) = m + 1
        <5>1. Max(s) \in s /\ m + 1 <= Max(s)
          BY <3>1, <2>2, Greatest
        <5>2. Max(s) \in 1 .. m + 1
          BY <5>1
        <5> HIDE DEF g, T, IsF
        <5>3. QED
          BY <2>2, <5>1, <5>2
      <4>2. g[s \ {m + 1}] = f[s \ {m + 1}]
        OBVIOUS
      <4>3. QED
        BY <3>1, <4>1, <4>2, Zenon
    <3>2. CASE m + 1 \notin s
      <4>1. g[s] = f[s] /\ f[s] = IF s = {} THEN base ELSE step[<<f[s \ {Max(s)}], Max(s)>>]
        BY <3>2, <2>1, <2>3, Zenon
      <4>2. m + 1 \notin s \ {Max(s)} /\ s \ {Max(s)} \in SUBSET (1 .. m + 1)
        BY <3>2
      <4>3. g[s \ {Max(s)}] = f[s \ {Max(s)}]
        BY <4>2, Zenon
      <4> HIDE DEF g
      <4>4. QED
        BY <4>1, <4>3, Zenon
    <3>3. QED
      BY <3>1, <3>2
  <2>6. QED
    BY <2>4, <2>5, Zenon
<1>3. T = Nat
  <2>1. T \subseteq Nat
    OBVIOUS
  <2> HIDE DEF T
  <2>2. QED
    BY <1>1, <1>2, <2>1, SetInduction
<1>4. \E f : IsF(f, n)
  <2> HIDE DEF IsF
  <2>1. QED
    BY <1>3
<1>5. QED
  BY <1>4, Zenon DEF IsFold

\* The value of digits runs through those of the first digits.
LEMMA HexRuns ==
    ASSUME NEW n \in Nat, NEW digits \in [1 .. n -> Int]
    PROVE  \E v \in [0 .. n -> Int] : /\ v[0] = 0 /\ HexValue(digits) = v[n]
                                      /\ \A m \in 1 .. n : v[m] = 16 * v[m - 1] + digits[m]
<1> DEFINE step == [x \in Int \X (1 .. n) |-> 16 * x[1] + digits[x[2]]]
           IsHex(f) == f = [s \in SUBSET (1 .. n) |->
                              IF s = {} THEN 0 ELSE 16 * f[s \ {Max(s)}] + digits[Max(s)]]
           iter == CHOOSE f : IsHex(f)
<1>1. \E f : IsHex(f)
  <2>1. step \in [Int \X (1 .. n) -> Int]
    OBVIOUS
  <2>2. PICK f : IsFold(f, n, Int, 0, step)
    <3>1. 0 \in Int
      OBVIOUS
    <3> HIDE DEF step
    <3>2. QED
      BY <2>1, <3>1, FoldExists, Zenon
  <2>3. ASSUME NEW s \in SUBSET (1 .. n), s # {}
        PROVE  step[<<f[s \ {Max(s)}], Max(s)>>] = 16 * f[s \ {Max(s)}] + digits[Max(s)]
    <3>1. Max(s) \in 1 .. n /\ f[s \ {Max(s)}] \in Int
      <4>1. Max(s) \in s /\ s \ {Max(s)} \in SUBSET (1 .. n)
        BY <2>3, Greatest, Zenon
      <4>2. f \in [SUBSET (1 .. n) -> Int]
        BY <2>2, Zenon DEF IsFold
      <4>3. QED
        BY <4>1, <4>2, Zenon
    <3>2. QED
      BY <3>1
  <2>4. IsHex(f)
    <3> HIDE DEF step
    <3>1. QED
      BY <2>2, <2>3, Zenon DEF IsFold
  <2>5. QED
    BY <2>4
<1>2. IsHex(iter)
  BY <1>1, Zenon
<1>3. HexValue(digits) = iter[1 .. n]
  <2>1. DOMAIN digits = 1 .. n
    OBVIOUS
  <2>2. QED
    BY <2>1, Zenon DEF HexValue, FoldLeft, MapThenFoldSet
<1> DEFINE v == [m \in 0 .. n |-> iter[1 .. m]]
<1>4. ASSUME NEW m \in 1 .. n PROVE v[m] = 16 * v[m - 1] + digits[m]
  <2>1. /\ 1 .. m \in SUBSET (1 .. n) /\ 1 .. m # {} /\ Max(1 .. m) = m
        /\ (1 .. m) \ {Max(1 .. m)} = 1 .. m - 1
    BY LastOfFirst
  <2>2. iter[1 .. m] = 16 * iter[1 .. m - 1] + digits[m]
    <3> HIDE DEF iter
    <3>1. QED
      BY <1>2, <2>1, Zenon
  <2>3. v[m] = iter[1 .. m] /\ v[m - 1] = iter[1 .. m - 1]
    OBVIOUS
  <2>4. QED
    BY <2>2, <2>3, Zenon
<1>5. v[0] = 0 /\ v[n] = iter[1 .. n]
  <2>1. 1 .. 0 = {} /\ 0 \in 0 .. n /\ n \in 0 .. n
    OBVIOUS
  <2> HIDE DEF iter
  <2>2. iter[{}] = 0
    BY <1>2
  <2>3. QED
    BY <2>1, <2>2
<1>6. v \in [0 .. n -> Int]
  <2> DEFINE T == {m \in Nat : m <= n => v[m] \in Int}
  <2>1. 0 \in T
    BY <1>5
  <2>2. ASSUME NEW m \in T PROVE m + 1 \in T
    <3>1. CASE m + 1 <= n
      <4>1. m + 1 \in 1 .. n /\ (m + 1) - 1 = m /\ v[m] \in Int
        BY <3>1
      <4>2. digits[m + 1] \in Int
        BY <4>1
      <4> HIDE DEF v
      <4>3. v[m + 1] \in Int
        BY <1>4, <4>1, <4>2
      <4>4. QED
        BY <4>3
    <3>2. QED
      BY <3>1
  <2>3. T = Nat
    <3>1. T \subseteq Nat
      OBVIOUS
    <3> HIDE DEF T
    <3>2. QED
      BY <2>1, <2>2, <3>1, SetInduction
  <2>4. \A m \in 0 .. n : v[m] \in Int
    <3> HIDE DEF v
    <3>1. QED
      BY <2>3
  <2>5. QED
    BY <2>4, Zenon
<1> HIDE DEF v, iter
<1>7. QED
  BY <1>3, <1>4, <1>5, <1>6, Zenon

-----------------------------------------------------------------------------
(* Hexadecimal digits.                                                     *)

\* Numbers of 32 bits: two halves of 16.
Wide == {n \in Nat : n \div 65536 < 65536}

\* The identifiers that 24 digits can name.
Named == [id : Wide, pid : Words16, vid : Words16, reserve : Words16]

Digit == {n \in Nat : n < 16}

\* A digit is what it is compared with.
LEMMA DigitRange == 0 .. 15 = Digit
BY DEF Digit

\* Four digits at most are a value of 16 bits.
LEMMA FewDigits ==
    ASSUME NEW n \in Nat, n <= 4, NEW digits \in [1 .. n -> Digit]
    PROVE  HexValue(digits) \in Words16
<1>1. n \in Nat /\ digits \in [1 .. n -> Int]
  BY DEF Digit
<1>2. PICK v \in [0 .. n -> Int] : /\ v[0] = 0 /\ HexValue(digits) = v[n]
               /\ \A m \in 1 .. n : v[m] = 16 * v[m - 1] + digits[m]
  BY <1>1, HexRuns, Zenon
<1>3. ASSUME NEW m \in 1 .. n, NEW k \in Nat, v[m - 1] \in Nat, v[m - 1] < k
      PROVE  v[m] \in Nat /\ v[m] < 16 * k
  <2>1. digits[m] \in Nat /\ digits[m] < 16
    <3>1. digits[m] \in Digit
      BY Zenon
    <3>2. QED
      BY <3>1 DEF Digit
  <2>2. v[m] = 16 * v[m - 1] + digits[m]
    BY <1>2
  <2>3. QED
    BY <1>3, <2>1, <2>2
<1>4. v[0] \in Nat /\ v[0] < 1
  BY <1>2
<1>5. 1 \in 1 .. n => v[1] \in Nat /\ v[1] < 16
  BY <1>3, <1>4
<1>6. 2 \in 1 .. n => v[2] \in Nat /\ v[2] < 256
  BY <1>3, <1>5
<1>7. 3 \in 1 .. n => v[3] \in Nat /\ v[3] < 4096
  BY <1>3, <1>6
<1>8. 4 \in 1 .. n => v[4] \in Nat /\ v[4] < 65536
  BY <1>3, <1>7
<1>9. n = 0 \/ n = 1 \/ n = 2 \/ n = 3 \/ n = 4
  OBVIOUS
<1>10. HexValue(digits) \in Nat /\ HexValue(digits) < 65536
  <2>1. HexValue(digits) = v[n]
    BY <1>2
  <2>2. CASE n = 0
    BY <1>4, <2>1, <2>2
  <2>3. CASE n = 1
    BY <1>5, <2>1, <2>3
  <2>4. CASE n = 2
    BY <1>6, <2>1, <2>4
  <2>5. CASE n = 3
    BY <1>7, <2>1, <2>5
  <2>6. CASE n = 4
    BY <1>8, <2>1, <2>6
  <2>7. QED
    BY <1>9, <2>2, <2>3, <2>4, <2>5, <2>6
<1>11. QED
  BY <1>10 DEF Words16

\* The value of four and of eight digits.
LEMMA FourDigits ==
    ASSUME NEW d \in [1 .. 4 -> Digit]
    PROVE  HexValue(d) = 4096 * d[1] + 256 * d[2] + 16 * d[3] + d[4]
<1>1. 4 \in Nat /\ d \in [1 .. 4 -> Int]
  BY DEF Digit
<1>2. PICK v \in [0 .. 4 -> Int] : /\ v[0] = 0 /\ HexValue(d) = v[4]
               /\ \A m \in 1 .. 4 : v[m] = 16 * v[m - 1] + d[m]
  BY <1>1, HexRuns, Zenon
<1>3. d[1] \in Int /\ d[2] \in Int /\ d[3] \in Int /\ d[4] \in Int
  BY DEF Digit
<1>4. /\ v[1] = 16 * v[0] + d[1] /\ v[2] = 16 * v[1] + d[2]
      /\ v[3] = 16 * v[2] + d[3] /\ v[4] = 16 * v[3] + d[4]
  BY <1>2
<1>5. QED
  BY <1>2, <1>3, <1>4

\* The value of eight digits, by halves.
LEMMA EightDigits ==
    ASSUME NEW d \in [1 .. 8 -> Digit]
    PROVE  HexValue(d) = 65536 * (4096 * d[1] + 256 * d[2] + 16 * d[3] + d[4])
                         + (4096 * d[5] + 256 * d[6] + 16 * d[7] + d[8])
<1>1. 8 \in Nat /\ d \in [1 .. 8 -> Int]
  BY SMT DEF Digit
<1>2. PICK v \in [0 .. 8 -> Int] : /\ v[0] = 0 /\ HexValue(d) = v[8]
               /\ \A m \in 1 .. 8 : v[m] = 16 * v[m - 1] + d[m]
  BY <1>1, HexRuns, Zenon
<1>3. /\ d[1] \in Int /\ d[2] \in Int /\ d[3] \in Int /\ d[4] \in Int
      /\ d[5] \in Int /\ d[6] \in Int /\ d[7] \in Int /\ d[8] \in Int
  BY SMT DEF Digit
<1>4. /\ v[1] = 16 * v[0] + d[1] /\ v[2] = 16 * v[1] + d[2]
      /\ v[3] = 16 * v[2] + d[3] /\ v[4] = 16 * v[3] + d[4]
      /\ v[5] = 16 * v[4] + d[5] /\ v[6] = 16 * v[5] + d[6]
      /\ v[7] = 16 * v[6] + d[7] /\ v[8] = 16 * v[7] + d[8]
  BY <1>2, SMT
<1>5. QED
  BY <1>2, <1>3, <1>4, SMT

\* A number is read from its digits as it was written.
LEMMA FourDigitsBack ==
    ASSUME NEW x \in Nat, x < 65536
    PROVE  HexDigits(x, 4) \in [1 .. 4 -> Digit] /\ HexValue(HexDigits(x, 4)) = x
<1> DEFINE d == HexDigits(x, 4)
<1>1. 16^3 = 4096 /\ 16^2 = 256 /\ 16^1 = 16 /\ 16^0 = 1
  BY SMT
<1>2. d = [i \in 1 .. 4 |-> x \div 16^(4 - i) % 16]
  BY SMT DEF HexDigits
<1>3. /\ d[1] = x \div 4096 % 16 /\ d[2] = x \div 256 % 16
      /\ d[3] = x \div 16 % 16 /\ d[4] = x \div 1 % 16
  BY <1>1, <1>2, SMT
<1>4. DOMAIN d = 1 .. 4 /\ d = [i \in 1 .. 4 |-> d[i]]
  BY <1>2, SMT
<1> HIDE DEF d
<1>5. /\ d[1] \in Digit /\ d[2] \in Digit /\ d[3] \in Digit /\ d[4] \in Digit
      /\ 4096 * d[1] + 256 * d[2] + 16 * d[3] + d[4] = x
  BY <1>3, SMT DEF Digit
<1>6. d \in [1 .. 4 -> Digit]
  BY <1>4, <1>5, SMT
<1>7. HexValue(d) = x
  BY <1>5, <1>6, FourDigits, SMT
<1>8. QED
  BY <1>6, <1>7, SMT DEF d

\* So is a number of 32 bits.
LEMMA EightDigitsBack ==
    ASSUME NEW x \in Wide
    PROVE  HexDigits(x, 8) \in [1 .. 8 -> Digit] /\ HexValue(HexDigits(x, 8)) = x
<1> DEFINE d == HexDigits(x, 8)
<1>1. x \in Nat /\ x \div 65536 < 65536
  BY SMT DEF Wide
<1>2. /\ 16^7 = 268435456 /\ 16^6 = 16777216 /\ 16^5 = 1048576 /\ 16^4 = 65536
      /\ 16^3 = 4096 /\ 16^2 = 256 /\ 16^1 = 16 /\ 16^0 = 1
  BY SMT
<1>3. d = [i \in 1 .. 8 |-> x \div 16^(8 - i) % 16]
  BY SMT DEF HexDigits
<1>4. /\ d[1] = x \div 268435456 % 16 /\ d[2] = x \div 16777216 % 16
      /\ d[3] = x \div 1048576 % 16 /\ d[4] = x \div 65536 % 16
      /\ d[5] = x \div 4096 % 16 /\ d[6] = x \div 256 % 16
      /\ d[7] = x \div 16 % 16 /\ d[8] = x \div 1 % 16
  BY <1>2, <1>3, <1>1, SMT
<1>5. DOMAIN d = 1 .. 8 /\ d = [i \in 1 .. 8 |-> d[i]]
  BY <1>3, SMT
<1> HIDE DEF d
<1>6. /\ d[1] \in Digit /\ d[2] \in Digit /\ d[3] \in Digit /\ d[4] \in Digit
      /\ d[5] \in Digit /\ d[6] \in Digit /\ d[7] \in Digit /\ d[8] \in Digit
  BY <1>4, <1>1, SMT DEF Digit
<1>7. 65536 * (4096 * d[1] + 256 * d[2] + 16 * d[3] + d[4])
      + (4096 * d[5] + 256 * d[6] + 16 * d[7] + d[8]) = x
  <2>1. PICK hi \in Nat, lo \in Nat :
          hi = x \div 65536 /\ lo = x % 65536 /\ x = 65536 * hi + lo /\ hi < 65536 /\ lo < 65536
    BY <1>1, SMT
  <2>2. d[1] = hi \div 4096 % 16 /\ d[2] = hi \div 256 % 16
    BY <1>4, <2>1, SMT
  <2>3. d[3] = hi \div 16 % 16
    <3>1. x \div 1048576 = hi \div 16
      BY <1>1, <2>1, SMT
    <3>2. QED
      BY <1>4, <3>1, SMT
  <2>4. d[4] = hi % 16
    BY <1>4, <2>1, SMT
  <2>5. d[5] = lo \div 4096 % 16 /\ d[6] = lo \div 256 % 16
    BY <1>4, <2>1, SMT
  <2>6. d[7] = lo \div 16 % 16 /\ d[8] = lo % 16
    BY <1>4, <2>1, SMT
  <2>7. 4096 * d[1] + 256 * d[2] + 16 * d[3] + d[4] = hi
    BY <2>1, <2>2, <2>3, <2>4, SMT
  <2>8. 4096 * d[5] + 256 * d[6] + 16 * d[7] + d[8] = lo
    BY <2>1, <2>5, <2>6, SMT
  <2>9. QED
    BY <1>6, <2>1, <2>7, <2>8, SMT DEF Digit
<1>8. d \in [1 .. 8 -> Digit]
  BY <1>5, <1>6, SMT
<1>9. HexValue(d) = x
  BY <1>7, <1>8, EightDigits, SMT
<1>10. QED
  BY <1>8, <1>9, SMT DEF d

-----------------------------------------------------------------------------
(* Sequences, their parts, and the URI of a device.                        *)

\* A concatenation, by its parts of m and n elements.
HasParts(p, s, m, t, n) ==
    /\ Len(p) = m + n
    /\ \A i \in 1 .. m : p[i] = s[i]
    /\ \A i \in 1 .. n : p[m + i] = t[i]

\* A concatenation is a sequence of the same elements.
LEMMA JoinParts ==
    ASSUME NEW S, NEW s \in Seq(S), NEW t \in Seq(S), NEW m \in Nat, NEW n \in Nat,
           Len(s) = m, Len(t) = n
    PROVE  s \o t \in Seq(S) /\ HasParts(s \o t, s, m, t, n)
<1>1. PICK p : p = s \o t
  BY Zenon
<1>2. /\ p \in Seq(S) /\ Len(p) = m + n
      /\ \A i \in 1 .. m + n : p[i] = IF i <= m THEN s[i] ELSE t[i - m]
  BY <1>1, ConcatProperties, Zenon
<1>3. ASSUME NEW i \in 1 .. m PROVE p[i] = s[i]
  <2>1. i \in 1 .. m + n /\ i <= m
    OBVIOUS
  <2>2. QED
    BY <1>2, <2>1, Zenon
<1>4. ASSUME NEW i \in 1 .. n PROVE p[m + i] = t[i]
  <2>1. m + i \in 1 .. m + n /\ ~(m + i <= m) /\ (m + i) - m = i
    OBVIOUS
  <2>2. QED
    BY <1>2, <2>1, Zenon
<1>5. QED
  BY <1>1, <1>2, <1>3, <1>4, Zenon DEF HasParts

\* A stretch of a sequence that is another one, element by element.
LEMMA CutIs ==
    ASSUME NEW S, NEW p \in Seq(S), NEW q \in Seq(S), NEW k \in Nat, NEW n \in Nat,
           Len(q) = n, k + n <= Len(p), \A i \in 1 .. n : p[k + i] = q[i]
    PROVE  SubSeq(p, k + 1, k + n) = q
<1>1. PICK lo \in Int, hi \in Int : lo = k + 1 /\ hi = k + n
  OBVIOUS
<1>2. \A i \in lo .. hi : p[i] \in S
  <2>1. \A i \in lo .. hi : i \in 1 .. Len(p)
    BY <1>1, LenProperties
  <2>2. QED
    BY <2>1, ElementOfSeq, Zenon
<1>3. PICK c : c = SubSeq(p, lo, hi)
  BY Zenon
<1>4. /\ c \in Seq(S) /\ Len(c) = (IF lo <= hi THEN hi - lo + 1 ELSE 0)
      /\ \A i \in 1 .. hi - lo + 1 : c[i] = p[lo + i - 1]
  BY <1>2, <1>3, SubSeqProperties
<1>5. hi - lo + 1 = n /\ (lo <= hi <=> n # 0) /\ \A i \in 1 .. n : lo + i - 1 = k + i
  BY <1>1
<1>6. Len(c) = n /\ \A i \in 1 .. n : c[i] = q[i]
  BY <1>4, <1>5
<1>7. c = q
  BY <1>4, <1>6, SeqEqual
<1>8. QED
  BY <1>1, <1>3, <1>7, Zenon

\* A function on the first n numbers is a sequence.
LEMMA FunctionIsSeq ==
    ASSUME NEW S, NEW n \in Nat, NEW f \in [1 .. n -> S]
    PROVE  f \in Seq(S) /\ Len(f) = n
<1>1. f \in Seq(S)
  BY SeqDef
<1>2. DOMAIN f = 1 .. n /\ Len(f) \in Nat /\ DOMAIN f = 1 .. Len(f)
  BY <1>1, LenProperties
<1>3. QED
  BY <1>1, <1>2

\* Twenty-four digits are four stretches.
Stretches(s, a, b, c, e) ==
    /\ s \in Seq(Digit) /\ Len(s) = 24
    /\ SubSeq(s, 1, 8) = a /\ SubSeq(s, 9, 12) = b
    /\ SubSeq(s, 13, 16) = c /\ SubSeq(s, 17, 24) = e

\* The digits of four fields, one behind the other.
LEMMA FourStretches ==
    ASSUME NEW a \in [1 .. 8 -> Digit], NEW b \in [1 .. 4 -> Digit],
           NEW c \in [1 .. 4 -> Digit], NEW e \in [1 .. 8 -> Digit],
           NEW s, s = a \o b \o c \o e
    PROVE  Stretches(s, a, b, c, e)
<1>1. /\ a \in Seq(Digit) /\ Len(a) = 8 /\ b \in Seq(Digit) /\ Len(b) = 4
      /\ c \in Seq(Digit) /\ Len(c) = 4 /\ e \in Seq(Digit) /\ Len(e) = 8
  <2>1. 8 \in Nat /\ 4 \in Nat
    OBVIOUS
  <2>2. QED
    BY <2>1, FunctionIsSeq, Zenon
<1>2. PICK ab, abc : ab = a \o b /\ abc = ab \o c /\ s = abc \o e
  BY Zenon
<1>3. 4 \in Nat /\ 8 \in Nat /\ 8 + 4 \in Nat /\ (8 + 4) + 4 \in Nat
  OBVIOUS
<1>4. ab \in Seq(Digit) /\ HasParts(ab, a, 8, b, 4)
  BY <1>1, <1>2, <1>3, JoinParts, Zenon
<1>5. abc \in Seq(Digit) /\ HasParts(abc, ab, 12, c, 4)
  <2>1. Len(ab) = 12 /\ 12 \in Nat
    BY <1>4 DEF HasParts
  <2>2. QED
    BY <1>1, <1>2, <1>3, <1>4, <2>1, JoinParts, Zenon
<1>6. s \in Seq(Digit) /\ HasParts(s, abc, 16, e, 8)
  <2>1. Len(abc) = 16 /\ 16 \in Nat /\ 8 \in Nat
    BY <1>5 DEF HasParts
  <2>2. abc \in Seq(Digit) /\ e \in Seq(Digit) /\ Len(e) = 8
    BY <1>1, <1>5, Zenon
  <2>3. abc \o e \in Seq(Digit) /\ HasParts(abc \o e, abc, 16, e, 8)
    BY <2>1, <2>2, JoinParts, Zenon
  <2>4. QED
    BY <1>2, <2>3, Zenon
<1>7. Len(s) = 24
  BY <1>6 DEF HasParts
<1> HIDE DEF Digit
<1>8. (\A i \in 1 .. 8 : ab[i] = a[i]) /\ (\A i \in 1 .. 4 : ab[8 + i] = b[i])
  BY <1>4, Zenon DEF HasParts
<1>9. (\A i \in 1 .. 12 : abc[i] = ab[i]) /\ (\A i \in 1 .. 4 : abc[12 + i] = c[i])
  BY <1>5, Zenon DEF HasParts
<1>10. (\A i \in 1 .. 16 : s[i] = abc[i]) /\ (\A i \in 1 .. 8 : s[16 + i] = e[i])
  BY <1>6, Zenon DEF HasParts
<1>11. ASSUME NEW i \in 1 .. 8 PROVE s[0 + i] = a[i]
  <2>1. i \in 1 .. 12 /\ i \in 1 .. 16 /\ 0 + i = i
    OBVIOUS
  <2>2. QED
    BY <1>8, <1>9, <1>10, <2>1, Zenon
<1>12. ASSUME NEW i \in 1 .. 4 PROVE s[8 + i] = b[i]
  <2>1. 8 + i \in 1 .. 12 /\ 8 + i \in 1 .. 16
    OBVIOUS
  <2>2. QED
    BY <1>8, <1>9, <1>10, <2>1, Zenon
<1>13. ASSUME NEW i \in 1 .. 4 PROVE s[12 + i] = c[i]
  <2>1. 12 + i \in 1 .. 16
    OBVIOUS
  <2>2. QED
    BY <1>9, <1>10, <2>1, Zenon
<1>14. \A i \in 1 .. 8 : s[16 + i] = e[i]
  BY <1>10, Zenon
<1>15. 0 \in Nat /\ 4 \in Nat /\ 8 \in Nat /\ 12 \in Nat /\ 16 \in Nat
  OBVIOUS
<1>16. 0 + 8 <= Len(s) /\ 8 + 4 <= Len(s) /\ 12 + 4 <= Len(s) /\ 16 + 8 <= Len(s)
  BY <1>7
<1>17. /\ SubSeq(s, 0 + 1, 0 + 8) = a /\ SubSeq(s, 8 + 1, 8 + 4) = b
       /\ SubSeq(s, 12 + 1, 12 + 4) = c /\ SubSeq(s, 16 + 1, 16 + 8) = e
  <2>1. SubSeq(s, 0 + 1, 0 + 8) = a
    BY <1>1, <1>6, <1>11, <1>15, <1>16, CutIs, Zenon
  <2>2. SubSeq(s, 8 + 1, 8 + 4) = b
    BY <1>1, <1>6, <1>12, <1>15, <1>16, CutIs, Zenon
  <2>3. SubSeq(s, 12 + 1, 12 + 4) = c
    BY <1>1, <1>6, <1>13, <1>15, <1>16, CutIs, Zenon
  <2>4. SubSeq(s, 16 + 1, 16 + 8) = e
    BY <1>1, <1>6, <1>14, <1>15, <1>16, CutIs, Zenon
  <2>5. QED
    BY <2>1, <2>2, <2>3, <2>4, Zenon
<1>18. /\ 0 + 1 = 1 /\ 0 + 8 = 8 /\ 8 + 1 = 9 /\ 8 + 4 = 12
       /\ 12 + 1 = 13 /\ 12 + 4 = 16 /\ 16 + 1 = 17 /\ 16 + 8 = 24
  OBVIOUS
<1>19. QED
  BY <1>6, <1>7, <1>17, <1>18, Zenon DEF Stretches

\* The URI that the client makes of an identifier names that identifier, whatever it is:
\* the places of reserve, VID, PID and id are the same in xi_net_dev_uris and in the
\* parser, and no digit is lost.
THEOREM UriNamesItsDevice ==
    ASSUME NEW host, NEW d \in Named
    PROVE  /\ IsUri(UriOf(host, d)) /\ DevIdOfUri(UriOf(host, d)) = d
           /\ UriOf(host, d).digits \in Seq(Digit)
<1>1. /\ d.id \in Wide /\ d.pid \in Nat /\ d.pid < 65536 /\ d.vid \in Nat /\ d.vid < 65536
      /\ d.reserve \in Nat /\ d.reserve < 65536 /\ d = DevId(d.id, d.pid, d.vid, d.reserve)
  BY DEF Named, Words16, DevId
<1>2. d.reserve \in Wide
  BY <1>1, SMT DEF Wide
<1>3. PICK a, b, c, e : /\ a = HexDigits(d.reserve, 8) /\ b = HexDigits(d.vid, 4)
                        /\ c = HexDigits(d.pid, 4) /\ e = HexDigits(d.id, 8)
  BY Zenon
<1>4. /\ a \in [1 .. 8 -> Digit] /\ HexValue(a) = d.reserve
      /\ b \in [1 .. 4 -> Digit] /\ HexValue(b) = d.vid
      /\ c \in [1 .. 4 -> Digit] /\ HexValue(c) = d.pid
      /\ e \in [1 .. 8 -> Digit] /\ HexValue(e) = d.id
  BY <1>1, <1>2, <1>3, FourDigitsBack, EightDigitsBack
<1>5. PICK s : s = a \o b \o c \o e
  BY Zenon
<1>6. UriOf(host, d) = [host |-> host, digits |-> s]
  BY <1>3, <1>5, Zenon DEF UriOf
<1>7. Stretches(s, a, b, c, e)
  BY <1>4, <1>5, FourStretches, Zenon
<1>8. s \in Seq(Digit) /\ Len(s) = 24
  BY <1>7, Zenon DEF Stretches
<1>9. /\ SubSeq(s, 1, 8) = a /\ SubSeq(s, 9, 12) = b
       /\ SubSeq(s, 13, 16) = c /\ SubSeq(s, 17, 24) = e
  BY <1>7, Zenon DEF Stretches
<1>10. Padded(s) = s
  <2>1. [i \in 1 .. 24 - Len(s) |-> 0] = <<>>
    BY <1>8
  <2>2. <<>> \o s = s
    BY <1>8, ConcatEmptySeq
  <2>3. QED
    BY <2>1, <2>2, Zenon DEF Padded
<1>11. d.reserve % 65536 = d.reserve
  BY <1>1, SMT
<1>12. DevIdOfUri([host |-> host, digits |-> s])
         = DevId(HexValue(e), HexValue(c), HexValue(b), HexValue(a) % 65536)
  <2>1. [host |-> host, digits |-> s].digits = s
    OBVIOUS
  <2>2. PICK u : u = [host |-> host, digits |-> s]
    BY Zenon
  <2>3. PICK p : p = Padded(u.digits)
    BY Zenon
  <2>4. p = s
    BY <1>10, <2>1, <2>2, <2>3, Zenon
  <2>5. PICK we, wc, wb, wa : /\ we = SubSeq(p, 17, 24) /\ wc = SubSeq(p, 13, 16)
                              /\ wb = SubSeq(p, 9, 12) /\ wa = SubSeq(p, 1, 8)
    BY Zenon
  <2>6. DevIdOfUri(u) = DevId(HexValue(we), HexValue(wc), HexValue(wb), HexValue(wa) % 65536)
    BY <2>3, <2>5, SMT DEF DevIdOfUri
  <2>7. we = e /\ wc = c /\ wb = b /\ wa = a
    BY <1>9, <2>4, <2>5, Zenon
  <2>8. QED
    BY <2>2, <2>6, <2>7, SMT
<1>13. QED
  <2>1. DevIdOfUri(UriOf(host, d)) = d
    BY <1>1, <1>4, <1>6, <1>11, <1>12, SMT
  <2>2. UriOf(host, d).digits = s
    BY <1>6
  <2>3. IsUri(UriOf(host, d))
    <3>1. Len(UriOf(host, d).digits) = 24
      BY <1>8, <2>2, Zenon
    <3>2. QED
      BY <3>1 DEF IsUri
  <2>4. QED
    BY <1>8, <2>1, <2>2, <2>3, Zenon

\* Eight digits are a value of 32 bits, and four one of 16.
LEMMA WideValue ==
    ASSUME NEW d \in [1 .. 8 -> Digit]
    PROVE  HexValue(d) \in Wide
<1>1. HexValue(d) = 65536 * (4096 * d[1] + 256 * d[2] + 16 * d[3] + d[4])
                    + (4096 * d[5] + 256 * d[6] + 16 * d[7] + d[8])
  BY EightDigits, SMT
<1>2. /\ d[1] \in Digit /\ d[2] \in Digit /\ d[3] \in Digit /\ d[4] \in Digit
      /\ d[5] \in Digit /\ d[6] \in Digit /\ d[7] \in Digit /\ d[8] \in Digit
  BY SMT
<1>3. PICK hi \in Nat, lo \in Nat :
        /\ hi = 4096 * d[1] + 256 * d[2] + 16 * d[3] + d[4] /\ hi < 65536
        /\ lo = 4096 * d[5] + 256 * d[6] + 16 * d[7] + d[8] /\ lo < 65536
  BY <1>2, SMT DEF Digit
<1>4. HexValue(d) = 65536 * hi + lo
  BY <1>1, <1>3, SMT
<1>5. QED
  BY <1>3, <1>4, SMT DEF Wide

\* A stretch of digits.
LEMMA CutOfDigits ==
    ASSUME NEW s \in Seq(Digit), NEW k \in Nat, NEW n \in Nat, k + n <= Len(s)
    PROVE  SubSeq(s, k + 1, k + n) \in [1 .. n -> Digit]
<1>1. PICK lo \in Int, hi \in Int : lo = k + 1 /\ hi = k + n
  OBVIOUS
<1>2. \A i \in lo .. hi : s[i] \in Digit
  <2>1. \A i \in lo .. hi : i \in 1 .. Len(s)
    BY <1>1, LenProperties
  <2>2. QED
    BY <2>1, ElementOfSeq, Zenon
<1>3. PICK c : c = SubSeq(s, lo, hi)
  BY Zenon
<1>4. c \in Seq(Digit) /\ Len(c) = (IF lo <= hi THEN hi - lo + 1 ELSE 0)
  BY <1>2, <1>3, SubSeqProperties
<1>5. Len(c) = n
  BY <1>1, <1>4
<1>6. c \in [1 .. n -> Digit]
  BY <1>4, <1>5, LenProperties, Zenon
<1>7. QED
  BY <1>1, <1>3, <1>6, Zenon

\* What a URI of digits names is an identifier.
LEMMA UriNamesOne ==
    ASSUME NEW u, u.digits \in Seq(0 .. 15), IsUri(u)
    PROVE  DevIdOfUri(u) \in Named
<1>1. PICK s, n : s = Padded(u.digits) /\ n = Len(u.digits)
  BY Zenon
<1>2. s \in Seq(Digit) /\ Len(s) = 24
  <2>1. u.digits \in Seq(Digit) /\ n \in Nat /\ n <= 24
    BY <1>1, DigitRange, LenProperties DEF IsUri
  <2>2. PICK z : z = [i \in 1 .. 24 - n |-> 0]
    BY Zenon
  <2>3. PICK m \in Nat : m = 24 - n
    BY <2>1
  <2>4. z \in [1 .. m -> Digit]
    BY <2>2, <2>3 DEF Digit
  <2>5. z \in Seq(Digit) /\ Len(z) = m
    BY <2>4, FunctionIsSeq, Zenon
  <2>6. s = z \o u.digits
    BY <1>1, <2>2, Zenon DEF Padded
  <2>7. s \in Seq(Digit) /\ Len(s) = Len(z) + Len(u.digits)
    BY <2>1, <2>5, <2>6, ConcatProperties, Zenon
  <2>8. QED
    BY <1>1, <2>1, <2>3, <2>5, <2>7
<1>3. /\ 0 \in Nat /\ 8 \in Nat /\ 12 \in Nat /\ 16 \in Nat /\ 4 \in Nat
      /\ 0 + 8 <= Len(s) /\ 8 + 4 <= Len(s) /\ 12 + 4 <= Len(s) /\ 16 + 8 <= Len(s)
  BY <1>2
<1>4. PICK we, wc, wb, wa : /\ we = SubSeq(s, 17, 24) /\ wc = SubSeq(s, 13, 16)
                            /\ wb = SubSeq(s, 9, 12) /\ wa = SubSeq(s, 1, 8)
  BY Zenon
<1>5. /\ 0 + 1 = 1 /\ 0 + 8 = 8 /\ 8 + 1 = 9 /\ 8 + 4 = 12
      /\ 12 + 1 = 13 /\ 12 + 4 = 16 /\ 16 + 1 = 17 /\ 16 + 8 = 24
  OBVIOUS
<1>6. /\ SubSeq(s, 16 + 1, 16 + 8) \in [1 .. 8 -> Digit]
      /\ SubSeq(s, 12 + 1, 12 + 4) \in [1 .. 4 -> Digit]
      /\ SubSeq(s, 8 + 1, 8 + 4) \in [1 .. 4 -> Digit]
      /\ SubSeq(s, 0 + 1, 0 + 8) \in [1 .. 8 -> Digit]
  BY <1>2, <1>3, CutOfDigits, Zenon
<1>7. /\ we \in [1 .. 8 -> Digit] /\ wc \in [1 .. 4 -> Digit]
      /\ wb \in [1 .. 4 -> Digit] /\ wa \in [1 .. 8 -> Digit]
  BY <1>4, <1>5, <1>6, Zenon
<1>8. HexValue(we) \in Wide /\ HexValue(wa) \in Wide
  BY <1>7, WideValue, Zenon
<1>9. HexValue(wc) \in Words16 /\ HexValue(wb) \in Words16
  <2>1. 4 \in Nat /\ 4 <= 4
    OBVIOUS
  <2>2. QED
    BY <1>7, <2>1, FewDigits, Zenon
<1>10. HexValue(wa) % 65536 \in Words16
  BY <1>8, SMT DEF Wide, Words16
<1>11. DevIdOfUri(u) = DevId(HexValue(we), HexValue(wc), HexValue(wb), HexValue(wa) % 65536)
  BY <1>1, <1>4, SMT DEF DevIdOfUri
<1>12. QED
  BY <1>8, <1>9, <1>10, <1>11 DEF Named, DevId

\* The identifiers of ports.  In every mode but one they are serials.
PortIdsOf(m) == {d \in Named : d.reserve = 0 /\ (m # "by_serialpidvid" => d = Serial(d.id))}

\* A serial of 16 bits is an identifier in every mode.
LEMMA SmallIds ==
    ASSUME NEW n \in Words16
    PROVE  n \in Wide /\ \A m : Serial(n) \in PortIdsOf(m)
<1>1. n \in Wide /\ 0 \in Words16
  BY SMT DEF Wide, Words16
<1>2. Serial(n) \in Named /\ Serial(n).reserve = 0 /\ Serial(n).id = n
  BY <1>1 DEF Named, Serial, DevId
<1>3. QED
  BY <1>1, <1>2 DEF PortIdsOf

\* The hexadecimal digits at the beginning of four characters.
LEMMA SerialOfPort ==
    ASSUME NEW s \in Seq(0 .. NoDigit), Len(s) >= 4
    PROVE  HexValue(LeadingDigits(LastFour(s))) \in Words16
<1>1. PICK t : t = LastFour(s)
  BY Zenon
<1>2. t \in [1 .. 4 -> 0 .. 16] /\ Len(t) = 4
  <2>1. PICK n \in Nat : n = Len(s) /\ n >= 4
    BY LenProperties
  <2>2. PICK lo \in Int, hi \in Int : lo = n - 3 /\ hi = n
    BY <2>1
  <2>3. \A i \in lo .. hi : s[i] \in 0 .. 16
    <3>1. \A i \in lo .. hi : i \in 1 .. Len(s)
      BY <2>1, <2>2
    <3>2. QED
      BY <3>1, ElementOfSeq, Zenon DEF NoDigit
  <2>4. t = SubSeq(s, lo, hi)
    BY <1>1, <2>1, <2>2, Zenon DEF LastFour
  <2>5. t \in Seq(0 .. 16) /\ Len(t) = (IF lo <= hi THEN hi - lo + 1 ELSE 0)
    BY <2>3, <2>4, SubSeqProperties
  <2>6. Len(t) = 4
    BY <2>2, <2>5
  <2>7. QED
    BY <2>5, <2>6, LenProperties, Zenon
<1>3. \A i \in 1 .. 4 : t[i] < 16 \/ t[i] = 16
  BY <1>2
<1> DEFINE Leads(n) == (\A i \in 1 .. n : t[i] < 16) /\ (n < 4 => t[n + 1] = 16)
<1>4. \E n \in 0 .. 4 : Leads(n)
  <2>1. t[1] = 16 => Leads(0)
    OBVIOUS
  <2>2. t[1] < 16 /\ t[2] = 16 => Leads(1)
    OBVIOUS
  <2>3. t[1] < 16 /\ t[2] < 16 /\ t[3] = 16 => Leads(2)
    OBVIOUS
  <2>4. t[1] < 16 /\ t[2] < 16 /\ t[3] < 16 /\ t[4] = 16 => Leads(3)
    OBVIOUS
  <2>5. t[1] < 16 /\ t[2] < 16 /\ t[3] < 16 /\ t[4] < 16 => Leads(4)
    OBVIOUS
  <2> HIDE DEF Leads
  <2>6. QED
    BY <1>3, <2>1, <2>2, <2>3, <2>4, <2>5
<1>5. PICK n : n = CHOOSE k \in 0 .. 4 : Leads(k)
  BY Zenon
<1>6. n \in 0 .. 4 /\ Leads(n)
  <2> HIDE DEF Leads
  <2>1. QED
    BY <1>4, <1>5, Zenon
<1>7. LeadingDigits(t) = SubSeq(t, 1, n)
  <2>1. n = CHOOSE k \in 0 .. Len(t) : /\ \A i \in 1 .. k : t[i] < NoDigit
                                       /\ k < Len(t) => t[k + 1] = NoDigit
    BY <1>2, <1>5, Zenon DEF NoDigit
  <2>2. QED
    BY <2>1, Zenon DEF LeadingDigits
<1>8. \A i \in 1 .. n : t[i] \in Digit
  BY <1>2, <1>6 DEF Digit
<1>9. SubSeq(t, 1, n) \in Seq(Digit) /\ Len(SubSeq(t, 1, n)) = n
  <2>1. 1 \in Int /\ n \in Int /\ n >= 0
    BY <1>6
  <2>2. SubSeq(t, 1, n) \in Seq(Digit) /\ Len(SubSeq(t, 1, n)) = IF 1 <= n THEN n - 1 + 1 ELSE 0
    BY <1>8, <2>1, SubSeqProperties
  <2>3. QED
    BY <2>1, <2>2
<1>10. SubSeq(t, 1, n) \in [1 .. n -> Digit]
  BY <1>9, LenProperties, Zenon
<1>11. n \in Nat /\ n <= 4
  BY <1>6
<1>12. QED
  BY <1>1, <1>7, <1>10, <1>11, FewDigits, Zenon

-----------------------------------------------------------------------------
(* What a mode calls its ports.                                            *)

\* What a port is called is an identifier of the mode.
LEMMA PortIsNamed ==
    ASSUME NEW m \in Modes, NEW p \in Ports
    PROVE  GetDevId(m, p).dev \in PortIdsOf(m)
<1>1. /\ p.location.hub \in Words16 /\ p.location.device \in Words16 /\ p.address \in Words16
      /\ p.serial \in Seq(0 .. NoDigit) /\ p.vid \in Words16 /\ p.pid \in Words16
  BY DEF Ports
<1>2. 0 \in Words16
  BY DEF Words16
<1>3. Serial(0) \in PortIdsOf(m)
  BY <1>2, SmallIds, Zenon
<1>4. LocationId(p.location) \in Wide
  <2>1. PICK h \in Nat, d \in Nat : h = p.location.hub /\ d = p.location.device /\ h < 65536 /\ d < 65536
    BY <1>1 DEF Words16
  <2>2. LocationId(p.location) \in Nat /\ LocationId(p.location) <= 65536 * 5 + 6
    BY <2>1, SMT DEF LocationId
  <2>3. QED
    BY <2>2, SMT DEF Wide
<1>5. GetBvvu(p).dev \in PortIdsOf(m)
  <2>1. PICK n \in Wide : n = LocationId(p.location)
    BY <1>4, Zenon
  <2>2. Serial(n) \in Named /\ Serial(n).reserve = 0 /\ Serial(n).id = n
    BY <1>2 DEF Named, Serial, DevId
  <2>3. Serial(n) \in PortIdsOf(m)
    BY <2>2 DEF PortIdsOf
  <2>4. QED
    BY <1>3, <2>1, <2>3 DEF GetBvvu, Identified, Unidentified
<1>6. GetByAddr(p).dev \in PortIdsOf(m)
  <2>1. Serial(p.address) \in PortIdsOf(m)
    BY <1>1, SmallIds, Zenon
  <2>2. QED
    BY <1>3, <2>1 DEF GetByAddr, Identified, Unidentified
<1>7. \E n \in Words16 : GetBySerial(p).dev = Serial(n)
  <2>1. CASE "serial" \notin p.known \/ Len(p.serial) < 4
    BY <1>2, <2>1 DEF GetBySerial, Unidentified
  <2>2. CASE ~("serial" \notin p.known \/ Len(p.serial) < 4)
    <3>1. Len(p.serial) >= 4
      BY <1>1, <2>2, LenProperties
    <3>2. PICK n \in Words16 : n = HexValue(LeadingDigits(LastFour(p.serial)))
      BY <1>1, <3>1, SerialOfPort, Zenon
    <3>3. GetBySerial(p).dev = Serial(n) \/ GetBySerial(p).dev = Serial(0)
      BY <3>2 DEF GetBySerial, Identified, Unidentified
    <3>4. QED
      BY <1>2, <3>3, Zenon
  <2>3. QED
    BY <2>1, <2>2, Zenon
<1>8. GetBySerial(p).dev \in PortIdsOf(m)
  BY <1>7, SmallIds, Zenon
<1>9. m = "by_serialpidvid" => GetBySerialPidVid(p).dev \in PortIdsOf(m)
  <2>1. PICK n \in Words16 : GetBySerial(p).dev = Serial(n)
    BY <1>7
  <2>2. n \in Wide
    BY SmallIds
  <2>3. DevId(n, p.pid, p.vid, 0) \in Named /\ DevId(n, p.pid, p.vid, 0).reserve = 0
    BY <1>1, <1>2, <2>2 DEF Named, DevId
  <2>4. GetBySerial(p).dev.id = n
    BY <2>1 DEF Serial, DevId
  <2>5. \/ GetBySerialPidVid(p).dev = DevId(n, p.pid, p.vid, 0)
        \/ GetBySerialPidVid(p).dev = Serial(0)
    BY <2>4 DEF GetBySerialPidVid, Identified, Unidentified
  <2>6. QED
    BY <1>3, <2>3, <2>5 DEF PortIdsOf
<1>10. QED
  BY <1>5, <1>6, <1>8, <1>9 DEF GetDevId, Modes

\* The list that the server makes of its ports has nothing but such identifiers.
LEMMA VectorIsNamed ==
    ASSUME NEW m \in Modes, NEW ports \in Seq(Ports)
    PROVE  DevIdVector(m, ports) \in Seq(PortIdsOf(m))
<1> DEFINE n == Len(ports)
           D == Seq(PortIdsOf(m))
           Found(list, p) == IF GetDevId(m, p).ok THEN Append(list, GetDevId(m, p).dev) ELSE list
           step == [x \in D \X (1 .. n) |-> Found(x[1], ports[x[2]])]
           IsList(f) == f = [s \in SUBSET (1 .. n) |->
                               IF s = {} THEN <<>> ELSE Found(f[s \ {Max(s)}], ports[Max(s)])]
           iter == CHOOSE f : IsList(f)
<1>1. n \in Nat /\ <<>> \in D /\ DOMAIN ports = 1 .. n
  BY LenProperties, EmptySeq
<1>2. ASSUME NEW list \in D, NEW i \in 1 .. n PROVE Found(list, ports[i]) \in D
  <2>1. ports[i] \in Ports
    BY ElementOfSeq
  <2>2. GetDevId(m, ports[i]).dev \in PortIdsOf(m)
    BY <2>1, PortIsNamed
  <2>3. Append(list, GetDevId(m, ports[i]).dev) \in D
    BY <2>2, AppendProperties
  <2>4. QED
    BY <2>3, Zenon
<1>3. \E f : IsList(f)
  <2>1. step \in [D \X (1 .. n) -> D]
    <3> HIDE DEF D, n, Found
    <3>1. \A x \in D \X (1 .. n) : Found(x[1], ports[x[2]]) \in D
      BY <1>2
    <3>2. QED
      BY <3>1, Zenon
  <2>2. PICK f : IsFold(f, n, D, <<>>, step)
    <3> HIDE DEF step, D, n
    <3>1. QED
      BY <1>1, <2>1, FoldExists, Zenon
  <2>3. ASSUME NEW s \in SUBSET (1 .. n), s # {}
        PROVE  step[<<f[s \ {Max(s)}], Max(s)>>] = Found(f[s \ {Max(s)}], ports[Max(s)])
    <3> HIDE DEF D, n, Found
    <3>1. Max(s) \in s /\ s \ {Max(s)} \in SUBSET (1 .. n)
      BY <1>1, <2>3, Greatest, Zenon
    <3>2. f \in [SUBSET (1 .. n) -> D]
      BY <2>2, Zenon DEF IsFold
    <3>3. <<f[s \ {Max(s)}], Max(s)>> \in D \X (1 .. n)
      BY <3>1, <3>2
    <3>4. QED
      BY <3>3
  <2>4. IsList(f)
    <3> HIDE DEF step, D, n, Found
    <3>1. QED
      BY <2>2, <2>3, Zenon DEF IsFold
  <2>5. QED
    BY <2>4, Zenon
<1>4. IsList(iter)
  BY <1>3, Zenon
<1>5. DevIdVector(m, ports) = iter[1 .. n]
  BY <1>1, Zenon DEF DevIdVector, FoldLeft, MapThenFoldSet
<1> HIDE DEF iter
<1> DEFINE T == {k \in Nat : k <= n => iter[1 .. k] \in D}
<1>6. 0 \in T
  <2>1. 1 .. 0 = {}
    OBVIOUS
  <2>2. {} \in SUBSET (1 .. n)
    OBVIOUS
  <2>3. iter[{}] = <<>>
    BY <1>4, <2>2, Zenon
  <2>4. QED
    BY <1>1, <2>1, <2>3
<1>7. ASSUME NEW k \in T PROVE k + 1 \in T
  <2> HIDE DEF D, n
  <2> SUFFICES ASSUME k + 1 <= n PROVE iter[1 .. k + 1] \in D
    OBVIOUS
  <2>1. k + 1 \in 1 .. n /\ (k + 1) - 1 = k /\ iter[1 .. k] \in D
    BY <1>1
  <2>2. /\ 1 .. k + 1 \in SUBSET (1 .. n) /\ 1 .. k + 1 # {} /\ Max(1 .. k + 1) = k + 1
        /\ (1 .. k + 1) \ {Max(1 .. k + 1)} = 1 .. (k + 1) - 1
    BY <1>1, <2>1, LastOfFirst
  <2>3. iter[1 .. k + 1] = Found(iter[1 .. k], ports[k + 1])
    <3> HIDE DEF Found
    <3>1. QED
      BY <1>4, <2>1, <2>2, Zenon
  <2>4. QED
    BY <1>2, <2>1, <2>3, Zenon
<1>8. T = Nat
  <2>1. T \subseteq Nat
    OBVIOUS
  <2> HIDE DEF T
  <2>2. QED
    BY <1>6, <1>7, <2>1, SetInduction
<1>9. iter[1 .. n] \in D
  <2>1. n \in T /\ n <= n
    BY <1>1, <1>8
  <2> HIDE DEF n, D
  <2>2. QED
    BY <2>1
<1>10. QED
  BY <1>5, <1>9, Zenon

-----------------------------------------------------------------------------
(* The port of a device, and sequences of sequences.                       *)

\* A port that is found is the place of one that matches, and one is found if there is one.
LEMMA PortIsFound ==
    ASSUME NEW m, NEW ports \in Seq(Ports), NEW dev
    PROVE  LET places == {i \in DOMAIN ports : Matches(m, ports[i], dev)}
           IN  PortOf(m, ports, dev) \in (IF places = {} THEN {0} ELSE places)
<1> DEFINE I == {i \in 1 .. Len(ports) : Matches(m, ports[i], dev)}
<1>1. PortOf(m, ports, dev) = IF I # {} THEN Max(I) ELSE 0
  BY Zenon DEF PortOf, SelectLastInSeq
<1>2. Len(ports) \in Nat /\ DOMAIN ports = 1 .. Len(ports)
  BY LenProperties
<1>3. I \in SUBSET (1 .. Len(ports))
  OBVIOUS
<1> HIDE DEF I
<1>4. I # {} => Max(I) \in I
  BY <1>2, <1>3, Greatest, Zenon
<1>5. I = {i \in DOMAIN ports : Matches(m, ports[i], dev)}
  BY <1>2, Zenon DEF I
<1>6. QED
  BY <1>1, <1>4, <1>5, Zenon

\* The concatenation of a sequence of sequences runs through those of the first ones.
FlatRuns(f, W, n) ==
    /\ f[1] = W[1] /\ FlattenSeq(W) = f[n]
    /\ \A i \in 1 .. n : i # 1 => f[i] = f[i - 1] \o W[i]

\* The concatenation exists and is built up from the first.
LEMMA FlattenRuns ==
    ASSUME NEW n \in Nat, n # 0, NEW W, Len(W) = n
    PROVE  \E f : FlatRuns(f, W, n)
<1> DEFINE Runs(f, m) == f = [i \in 1 .. m |-> IF i = 1 THEN W[i] ELSE f[i - 1] \o W[i]]
           T == {m \in Nat : \E f : Runs(f, m)}
<1>1. 0 \in T
  <2>1. Runs([i \in 1 .. 0 |-> 0], 0)
    OBVIOUS
  <2> HIDE DEF Runs
  <2>2. QED
    BY <2>1
<1>2. ASSUME NEW m \in T PROVE m + 1 \in T
  <2>1. PICK f : Runs(f, m)
    <3> HIDE DEF Runs
    <3>1. QED
      OBVIOUS
  <2> DEFINE g == [i \in 1 .. m + 1 |-> IF i = 1 THEN W[i] ELSE f[i - 1] \o W[i]]
  <2>2. m \in Nat
    OBVIOUS
  <2>3. ASSUME NEW i \in 1 .. m + 1, i # 1 PROVE g[i - 1] = f[i - 1]
    <3>1. i - 1 \in 1 .. m /\ i - 1 \in 1 .. m + 1
      BY <2>2, <2>3
    <3>2. g[i - 1] = IF i - 1 = 1 THEN W[i - 1] ELSE f[(i - 1) - 1] \o W[i - 1]
      BY <3>1, Zenon
    <3>3. f[i - 1] = IF i - 1 = 1 THEN W[i - 1] ELSE f[(i - 1) - 1] \o W[i - 1]
      BY <2>1, <3>1, Zenon
    <3>4. QED
      BY <3>2, <3>3, Zenon
  <2>4. Runs(g, m + 1)
    <3>1. \A i \in 1 .. m + 1 : g[i] = IF i = 1 THEN W[i] ELSE g[i - 1] \o W[i]
      <4>1. \A i \in 1 .. m + 1 : g[i] = IF i = 1 THEN W[i] ELSE f[i - 1] \o W[i]
        BY Zenon
      <4> HIDE DEF g
      <4>2. QED
        BY <2>3, <4>1, Zenon
    <3>2. g = [i \in 1 .. m + 1 |-> g[i]]
      BY Zenon
    <3> HIDE DEF g
    <3>3. QED
      BY <3>1, <3>2, Zenon
  <2> HIDE DEF Runs
  <2>5. QED
    BY <2>2, <2>4
<1>3. T = Nat
  <2>1. T \subseteq Nat
    OBVIOUS
  <2> HIDE DEF T
  <2>2. QED
    BY <1>1, <1>2, <2>1, SetInduction
<1>4. \E f : Runs(f, n)
  <2> HIDE DEF Runs
  <2>1. QED
    BY <1>3
<1> DEFINE h == CHOOSE f : Runs(f, n)
<1>5. Runs(h, n)
  BY <1>4, Zenon
<1>6. FlattenSeq(W) = h[n]
  <2>1. ~(Len(W) = 0)
    OBVIOUS
  <2>2. QED
    BY <2>1, Zenon DEF FlattenSeq
<1> HIDE DEF h
<1>7. 1 \in 1 .. n
  OBVIOUS
<1>8. \A i \in 1 .. n : h[i] = IF i = 1 THEN W[i] ELSE h[i - 1] \o W[i]
  BY <1>5, Zenon
<1>9. h[1] = W[1]
  BY <1>7, <1>8, Zenon
<1>10. \A i \in 1 .. n : i # 1 => h[i] = h[i - 1] \o W[i]
  BY <1>8, Zenon
<1>11. FlatRuns(h, W, n)
  BY <1>6, <1>9, <1>10, Zenon DEF FlatRuns
<1>12. QED
  BY <1>11, Zenon

\* Sequences of three words in one.
IsTriples(p, W, n) ==
    /\ p \in Seq(Int) /\ Len(p) = 3 * n
    /\ \A i \in 1 .. n : /\ p[3 * i - 2] = W[i][1]
                         /\ p[3 * i - 1] = W[i][2]
                         /\ p[3 * i] = W[i][3]

\* The words of the i-th are the i-th three of the concatenation.
LEMMA FlattenTriples ==
    ASSUME NEW n \in Nat, NEW W \in [1 .. n -> Seq(Int)], \A i \in 1 .. n : Len(W[i]) = 3
    PROVE  IsTriples(FlattenSeq(W), W, n)
<1>1. W \in Seq(Seq(Int)) /\ Len(W) = n
  BY FunctionIsSeq
<1>2. CASE n = 0
  <2>1. FlattenSeq(W) = W
    BY <1>1, <1>2, Zenon DEF FlattenSeq
  <2>2. W = <<>>
    BY <1>2
  <2>3. <<>> \in Seq(Int) /\ Len(<<>>) = 0
    BY EmptySeq
  <2>4. QED
    BY <1>2, <2>1, <2>2, <2>3 DEF IsTriples
<1>3. CASE n # 0
  <2>1. PICK f : FlatRuns(f, W, n)
    BY <1>1, <1>3, FlattenRuns, Zenon
  <2>2. /\ f[1] = W[1] /\ FlattenSeq(W) = f[n]
        /\ \A i \in 1 .. n : i # 1 => f[i] = f[i - 1] \o W[i]
    BY <2>1, Zenon DEF FlatRuns
  <2> DEFINE T == {m \in Nat : m + 1 <= n => IsTriples(f[m + 1], W, m + 1)}
  <2>3. 0 \in T
    <3>1. 1 \in 1 .. n
      BY <1>3
    <3>2. W[1] \in Seq(Int) /\ Len(W[1]) = 3
      BY <3>1
    <3>3. IsTriples(f[1], W, 1)
      BY <2>2, <3>2 DEF IsTriples
    <3>4. QED
      BY <3>3
  <2>4. ASSUME NEW m \in T PROVE m + 1 \in T
    <3> SUFFICES ASSUME (m + 1) + 1 <= n PROVE IsTriples(f[(m + 1) + 1], W, (m + 1) + 1)
      OBVIOUS
    <3>1. PICK k \in Nat : k = m + 1 /\ k \in 1 .. n /\ k + 1 \in 1 .. n /\ k + 1 # 1 /\ (k + 1) - 1 = k
      OBVIOUS
    <3>2. IsTriples(f[k], W, k)
      BY <3>1
    <3>3. W[k + 1] \in Seq(Int) /\ Len(W[k + 1]) = 3
      BY <3>1
    <3>4. f[k + 1] = f[k] \o W[k + 1]
      BY <2>2, <3>1, Zenon
    <3>5. PICK p, t : p = f[k] /\ t = W[k + 1]
      BY Zenon
    <3>6. /\ p \in Seq(Int) /\ Len(p) = 3 * k /\ 3 * k \in Nat /\ 3 \in Nat
          /\ t \in Seq(Int) /\ Len(t) = 3
      BY <3>2, <3>3, <3>5 DEF IsTriples
    <3>7. p \o t \in Seq(Int) /\ HasParts(p \o t, p, 3 * k, t, 3)
      BY <3>6, JoinParts, Zenon
    <3>8. PICK q : q = p \o t
      BY Zenon
    <3>9. /\ q \in Seq(Int) /\ Len(q) = 3 * k + 3
          /\ \A i \in 1 .. 3 * k : q[i] = p[i]
          /\ \A i \in 1 .. 3 : q[3 * k + i] = t[i]
      BY <3>7, <3>8, Zenon DEF HasParts
    <3>10. ASSUME NEW i \in 1 .. k
           PROVE  q[3 * i - 2] = W[i][1] /\ q[3 * i - 1] = W[i][2] /\ q[3 * i] = W[i][3]
      <4>1. 3 * i - 2 \in 1 .. 3 * k /\ 3 * i - 1 \in 1 .. 3 * k /\ 3 * i \in 1 .. 3 * k
        OBVIOUS
      <4>2. p[3 * i - 2] = W[i][1] /\ p[3 * i - 1] = W[i][2] /\ p[3 * i] = W[i][3]
        BY <3>2, <3>5, Zenon DEF IsTriples
      <4>3. QED
        BY <3>9, <4>1, <4>2, Zenon
    <3>11. /\ q[3 * (k + 1) - 2] = W[k + 1][1] /\ q[3 * (k + 1) - 1] = W[k + 1][2]
           /\ q[3 * (k + 1)] = W[k + 1][3]
      <4>1. 3 * (k + 1) - 2 = 3 * k + 1 /\ 3 * (k + 1) - 1 = 3 * k + 2 /\ 3 * (k + 1) = 3 * k + 3
        OBVIOUS
      <4>2. 1 \in 1 .. 3 /\ 2 \in 1 .. 3 /\ 3 \in 1 .. 3
        OBVIOUS
      <4>3. QED
        BY <3>5, <3>9, <4>1, <4>2, Zenon
    <3>12. \A i \in 1 .. k + 1 : i \in 1 .. k \/ i = k + 1
      OBVIOUS
    <3>13. Len(q) = 3 * (k + 1)
      BY <3>9
    <3>14. IsTriples(q, W, k + 1)
      BY <3>9, <3>10, <3>11, <3>12, <3>13, Zenon DEF IsTriples
    <3>15. QED
      BY <3>1, <3>4, <3>5, <3>8, <3>14, Zenon
  <2>5. T = Nat
    <3>1. T \subseteq Nat
      OBVIOUS
    <3> HIDE DEF T
    <3>2. QED
      BY <2>3, <2>4, <3>1, SetInduction
  <2>6. n - 1 \in Nat /\ (n - 1) + 1 = n /\ n <= n
    BY <1>3
  <2>7. IsTriples(f[n], W, n)
    BY <2>5, <2>6
  <2>8. QED
    BY <2>2, <2>7, Zenon
<1>4. QED
  BY <1>2, <1>3

-----------------------------------------------------------------------------
(* Headers, buffers, and what a request that is taken has in it.           *)

\* The identifiers that both sides can write down.
Identifiers == [id : Nat, pid : Words16, vid : Words16, reserve : Nat]

\* What a URI names can be written into a packet.
LEMMA NamedAreIdentifiers == Named \subseteq Identifiers
<1>1. Wide \subseteq Nat
  BY SMT DEF Wide
<1>2. ASSUME NEW d \in Named PROVE d \in Identifiers
  <2>1. d.id \in Wide /\ d.pid \in Words16 /\ d.vid \in Words16 /\ d.reserve \in Words16
    BY DEF Named
  <2>2. d.id \in Nat
    BY <1>1, <2>1, Zenon
  <2>3. d = DevId(d.id, d.pid, d.vid, d.reserve)
    BY SMT DEF Named, DevId
  <2>4. Words16 \subseteq Nat
    BY SMT DEF Words16
  <2>5. QED
    BY <2>1, <2>2, <2>3, <2>4, SMT DEF Identifiers, DevId
<1>3. QED
  BY <1>2, Zenon

\* An identifier survives its three words: VID and PID, which share one, come out of it.
THEOREM IdentifierSurvives ==
    ASSUME NEW d \in Identifiers
    PROVE  IdWords(d) \in Seq(Int) /\ Len(IdWords(d)) = 3 /\ IdOf(IdWords(d)) = d
<1>1. d.pid < 65536
  BY DEF Identifiers, Words16
<1>2. /\ d.id \in Nat /\ d.pid \in Nat /\ d.vid \in Nat /\ d.reserve \in Nat
      /\ d = DevId(d.id, d.pid, d.vid, d.reserve)
  BY DEF Identifiers, Words16, DevId
<1>3. PICK w \in Nat : w = d.vid * 65536 + d.pid /\ w \div 65536 = d.vid /\ w % 65536 = d.pid
  BY <1>1, <1>2, SMT
<1>4. IdWords(d) = <<d.reserve, w, d.id>>
  BY <1>3, SMT DEF IdWords
<1>5. IdOf(IdWords(d)) = DevId(d.id, w % 65536, w \div 65536, d.reserve)
  BY <1>4, SMT DEF IdOf
<1>6. QED
  BY <1>2, <1>3, <1>4, <1>5, SMT

\* A packet of protocol 3: the type, the words of the device, and what follows the header.
IsExtended(p, type, words, body) ==
    /\ p \in Seq(Int) /\ Len(p) = 8 + Len(body)
    /\ p[1] = 3 /\ p[2] = type /\ p[3] = 0
    /\ p[4] = words[1] /\ p[5] = words[2] /\ p[6] = words[3]
    /\ p[7] = 0 /\ p[8] = 0
    /\ \A i \in 1 .. Len(body) : p[8 + i] = body[i]

\* The parts of a packet of protocol 3.
LEMMA ExtendedHeader ==
    ASSUME NEW type \in Int, NEW words \in Seq(Int), Len(words) = 3, NEW body \in Seq(Int)
    PROVE  IsExtended(<<3, type, 0>> \o words \o <<0, 0>> \o body, type, words, body)
<1> DEFINE a == <<3, type, 0>>  c == <<0, 0>>
<1>1. /\ a \in Seq(Int) /\ c \in Seq(Int) /\ Len(a) = 3 /\ Len(c) = 2
      /\ a[1] = 3 /\ a[2] = type /\ a[3] = 0 /\ c[1] = 0 /\ c[2] = 0
  OBVIOUS
<1>2. PICK n \in Nat : n = Len(body)
  BY LenProperties
<1>3. 2 \in Nat /\ 3 \in Nat /\ 3 + 3 \in Nat /\ 6 + 2 \in Nat /\ 6 \in Nat /\ 8 \in Nat
  OBVIOUS
<1> HIDE DEF a, c
<1>4. PICK s, t, p : s = a \o words /\ t = s \o c /\ p = t \o body
  BY Zenon
<1>5. s \in Seq(Int) /\ HasParts(s, a, 3, words, 3)
  BY <1>1, <1>3, <1>4, JoinParts, Zenon
<1>6. Len(s) = 6
  BY <1>5 DEF HasParts
<1>7. t \in Seq(Int) /\ HasParts(t, s, 6, c, 2)
  BY <1>1, <1>3, <1>4, <1>5, <1>6, JoinParts, Zenon
<1>8. Len(t) = 8
  BY <1>7 DEF HasParts
<1>9. p \in Seq(Int) /\ HasParts(p, t, 8, body, n)
  BY <1>2, <1>3, <1>4, <1>7, <1>8, JoinParts, Zenon
<1>10. s[1] = a[1] /\ s[2] = a[2] /\ s[3] = a[3] /\ s[4] = words[1] /\ s[5] = words[2] /\ s[6] = words[3]
  BY <1>5 DEF HasParts
<1>11. /\ t[1] = s[1] /\ t[2] = s[2] /\ t[3] = s[3] /\ t[4] = s[4] /\ t[5] = s[5] /\ t[6] = s[6]
       /\ t[7] = c[1] /\ t[8] = c[2]
  BY <1>7 DEF HasParts
<1>12. /\ p[1] = t[1] /\ p[2] = t[2] /\ p[3] = t[3] /\ p[4] = t[4] /\ p[5] = t[5] /\ p[6] = t[6]
       /\ p[7] = t[7] /\ p[8] = t[8]
  BY <1>9 DEF HasParts
<1>13. Len(p) = 8 + n /\ \A i \in 1 .. n : p[8 + i] = body[i]
  BY <1>9 DEF HasParts
<1>14. IsExtended(p, type, words, body)
  BY <1>1, <1>2, <1>9, <1>10, <1>11, <1>12, <1>13, Zenon DEF IsExtended
<1>15. QED
  BY <1>4, <1>14, Zenon DEF a, c

\* A packet of the protocols 1 and 2: the same for a header of six words.
IsPlain(p, v, type, id, body) ==
    /\ p \in Seq(Int) /\ Len(p) = 6 + Len(body)
    /\ p[1] = v /\ p[2] = type /\ p[3] = 0 /\ p[4] = id /\ p[5] = 0 /\ p[6] = 0
    /\ \A i \in 1 .. Len(body) : p[6 + i] = body[i]

\* Its parts.
LEMMA PlainHeader ==
    ASSUME NEW v \in Int, NEW type \in Int, NEW id \in Int, NEW body \in Seq(Int)
    PROVE  IsPlain(<<v, type, 0, id, 0, 0>> \o body, v, type, id, body)
<1> DEFINE a == <<v, type, 0, id, 0, 0>>
<1>1. /\ a \in Seq(Int) /\ Len(a) = 6
      /\ a[1] = v /\ a[2] = type /\ a[3] = 0 /\ a[4] = id /\ a[5] = 0 /\ a[6] = 0
  OBVIOUS
<1>2. PICK n \in Nat : n = Len(body)
  BY LenProperties
<1>3. 6 \in Nat
  OBVIOUS
<1> HIDE DEF a
<1>4. PICK p : p = a \o body
  BY Zenon
<1>5. p \in Seq(Int) /\ HasParts(p, a, 6, body, n)
  BY <1>1, <1>2, <1>3, <1>4, JoinParts, Zenon
<1>6. /\ p[1] = a[1] /\ p[2] = a[2] /\ p[3] = a[3] /\ p[4] = a[4] /\ p[5] = a[5] /\ p[6] = a[6]
      /\ Len(p) = 6 + n /\ \A i \in 1 .. n : p[6 + i] = body[i]
  BY <1>5 DEF HasParts
<1>7. IsPlain(p, v, type, id, body)
  BY <1>1, <1>2, <1>5, <1>6, Zenon DEF IsPlain
<1>8. QED
  BY <1>4, <1>7, Zenon DEF a

\* A buffer with nothing wrong, read or moved within its data.
At(p, k) == [data |-> p, pos |-> k, broken |-> FALSE]
\* What a request of protocol 3 that is taken has in it.
IsTaken3(p, r) ==
    /\ r.dev = IdOf(<<p[4], p[5], p[6]>>) /\ Len(p) >= 7
    /\ p[2] = Code3.cmd_req =>
        /\ Len(p) >= 10 /\ p[9] >= 0 /\ 4 * (Len(p) - 10) = p[9]
        /\ r.data = SubSeq(Rest(At(p, 9)), 1, p[9] \div 4) /\ r.resp = p[Len(p)]

Moves(p, k, n) ==
    /\ Read(At(p, k), n) = At(p, k + n)
    /\ Seek(At(p, k), n) = At(p, k + n)
    /\ Ahead(At(p, k), n) = p[k + n]

\* Reading and moving within the data.
LEMMA WithinData ==
    ASSUME NEW p, Len(p) \in Nat, NEW k \in Nat, NEW n \in Nat, k + n <= Len(p)
    PROVE  Moves(p, k, n)
<1>1. Read(At(p, k), n) = At(p, k + n)
  BY DEF Read, At
<1>2. k + n \in 0 .. Len(p)
  OBVIOUS
<1>3. Seek(At(p, k), n) = [At(p, k) EXCEPT !.pos = @ + n]
  BY <1>2 DEF Seek, At
<1>4. Ahead(At(p, k), n) = p[k + n]
  BY DEF Ahead, At
<1>5. QED
  BY <1>1, <1>3, <1>4 DEF Moves, At

\* A buffer that something was read or moved past the end of.
Broken(b) == DOMAIN b = {"data", "pos", "broken"} /\ b.broken

\* Past its end both leave the buffer broken.
LEMMA PastData ==
    ASSUME NEW p, Len(p) \in Nat, NEW k \in Nat, NEW n \in Nat, ~(k + n <= Len(p))
    PROVE  Broken(Read(At(p, k), n)) /\ Broken(Seek(At(p, k), n))
<1>1. k + n \notin 0 .. Len(p)
  OBVIOUS
<1>2. Read(At(p, k), n) = [At(p, k) EXCEPT !.pos = Len(p), !.broken = TRUE]
  BY DEF Read, At
<1>3. Seek(At(p, k), n) = [At(p, k) EXCEPT !.broken = TRUE]
  BY <1>1 DEF Seek, At
<1>4. QED
  BY <1>2, <1>3 DEF At, Broken

\* Nothing repairs a broken buffer.
LEMMA BrokenStays ==
    ASSUME NEW b, Broken(b), NEW n
    PROVE  Broken(Read(b, n)) /\ Broken(Seek(b, n))
BY SMT DEF Broken, Read, Seek

\* What follows the current position.
LEMMA RestOfData ==
    ASSUME NEW p \in Seq(Int), NEW k \in Nat, NEW m \in Nat, Len(p) = k + m
    PROVE  /\ Rest(At(p, k)) \in Seq(Int) /\ Len(Rest(At(p, k))) = m
           /\ \A i \in 1 .. m : Rest(At(p, k))[i] = p[k + i]
<1>1. PICK lo \in Int, hi \in Int : lo = k + 1 /\ hi = k + m
  OBVIOUS
<1>2. PICK q : q = SubSeq(p, lo, hi)
  BY Zenon
<1>3. Rest(At(p, k)) = q
  BY <1>1, <1>2 DEF Rest, At
<1>4. \A i \in lo .. hi : p[i] \in Int
  <2>1. \A i \in lo .. hi : i \in 1 .. Len(p)
    BY <1>1
  <2>2. QED
    BY <2>1, ElementOfSeq, Zenon
<1>5. /\ q \in Seq(Int) /\ Len(q) = (IF lo <= hi THEN hi - lo + 1 ELSE 0)
      /\ \A i \in 1 .. hi - lo + 1 : q[i] = p[lo + i - 1]
  BY <1>2, <1>4, SubSeqProperties
<1>6. hi - lo + 1 = m /\ (lo <= hi <=> m # 0) /\ \A i \in 1 .. m : lo + i - 1 = k + i
  BY <1>1
<1>7. q \in Seq(Int) /\ Len(q) = m /\ \A i \in 1 .. m : q[i] = p[k + i]
  BY <1>5, <1>6
<1>8. QED
  BY <1>3, <1>7, Zenon

\* A request that is taken was long enough for what was read of it.
LEMMA Request3Taken ==
    ASSUME NEW p \in Seq(Int), GetRequest3(p).ok
    PROVE  IsTaken3(p, GetRequest3(p))
<1>1. Len(p) \in Nat /\ Buf(p) = At(p, 0)
  BY LenProperties DEF Buf, At
<1>2. 0 \in Nat /\ 1 \in Nat /\ 2 \in Nat /\ 3 \in Nat /\ 6 \in Nat /\ 1 # 0 /\ 2 # 0 /\ 8 \in Nat
  OBVIOUS
<1>3. Len(p) >= 6
  <2>1. CASE ~(0 + 6 <= Len(p))
    <3>1. PICK b, b8, b9 : b = Read(Buf(p), 6) /\ b8 = Seek(b, 2) /\ b9 = Read(b8, 1)
      BY Zenon
    <3>2. Broken(b)
      BY <1>1, <1>2, <2>1, <3>1, PastData, Zenon
    <3>3. Broken(Read(b, 1)) /\ Broken(b8)
      BY <3>1, <3>2, BrokenStays, Zenon
    <3>4. Broken(b9)
      BY <3>1, <3>3, BrokenStays, Zenon
    <3>5. b9.broken /\ Read(b, 1).broken
      BY <3>3, <3>4, Zenon DEF Broken
    <3>6. ~GetRequest3(p).ok
      BY <3>1, <3>5, SMT DEF GetRequest3, Request
    <3>7. QED
      BY <3>6
  <2>2. QED
    BY <1>1, <2>1
<1>4. Read(Buf(p), 6) = At(p, 6) /\ Read(Buf(p), 3) = At(p, 3)
  <2>1. 0 + 6 <= Len(p) /\ 0 + 3 <= Len(p) /\ 0 + 6 = 6 /\ 0 + 3 = 3
    BY <1>1, <1>3
  <2>2. Moves(p, 0, 6) /\ Moves(p, 0, 3)
    BY <1>1, <1>2, <2>1, WithinData, Zenon
  <2>3. QED
    BY <1>1, <2>1, <2>2, Zenon DEF Moves
<1>5. IdOf([i \in 1 .. 3 |-> Ahead(At(p, 3), i)]) = IdOf(<<p[4], p[5], p[6]>>)
  <2>1. \A i \in 1 .. 3 : 3 + i <= Len(p) /\ i \in Nat
    BY <1>1, <1>3
  <2>2. \A i \in 1 .. 3 : Ahead(At(p, 3), i) = p[3 + i]
    <3>1. \A i \in 1 .. 3 : Moves(p, 3, i)
      BY <1>1, <1>2, <2>1, WithinData, Zenon
    <3>2. QED
      BY <3>1, Zenon DEF Moves
  <2>3. QED
    BY <2>2, SMT DEF IdOf
<1>6. PICK b, b3, b8, b9 : b = At(p, 6) /\ b3 = At(p, 3) /\ b8 = Seek(b, 2) /\ b9 = Read(b8, 1)
  BY Zenon
<1>7. GetRequest3(p).dev = IdOf([i \in 1 .. 3 |-> Ahead(Read(Buf(p), 3), i)])
  BY SMT DEF GetRequest3, Request
<1>8. GetRequest3(p).dev = IdOf(<<p[4], p[5], p[6]>>)
  BY <1>4, <1>5, <1>7, Zenon
<1>9. CASE p[2] # Code3.cmd_req
  <2>1. ~Read(b, 1).broken
    BY <1>4, <1>6, <1>9, SMT DEF GetRequest3, Request
  <2>2. ASSUME ~(6 + 1 <= Len(p)) PROVE FALSE
    <3>1. Broken(Read(b, 1))
      BY <1>1, <1>2, <1>6, <2>2, PastData, Zenon
    <3>2. QED
      BY <2>1, <3>1, Zenon DEF Broken
  <2>3. 6 + 1 <= Len(p)
    BY <2>2
  <2>4. Len(p) >= 7
    BY <1>1, <2>3
  <2>5. QED
    BY <1>8, <1>9, <2>4 DEF IsTaken3
<1>10. CASE p[2] = Code3.cmd_req
  <2>1. PICK size : size = Ahead(b8, 1)
    BY Zenon
  <2>2. PICK at, n, rest : n = size \div 4 /\ at = Seek(b9, n) /\ rest = Rest(b9)
    BY Zenon
  <2>3. PICK r : r = GetRequest3(p)
    BY Zenon
  <2>4. r.ok
    BY <2>3
  <2>5. /\ Code3["cmd_req"] \in {Code3[k] : k \in {"cmd_req", "open_req", "close_req", "enum_req", "ver_req"}}
         /\ Code3["cmd_req"] = Code3.cmd_req
    BY Zenon
  <2>6. PICK dev : dev = r.dev
    BY Zenon
  <2>7. IdOf([i \in 1 .. 3 |-> Ahead(Read(Buf(p), 3), i)]) = dev
    BY <1>7, <2>3, <2>6, Zenon
  <2>8. r = IF b9.broken \/ size < 0 \/ Bytes(rest) # size + 4
            THEN Request(FALSE, ERR_PCKT_FMT, p[2], dev, <<>>, 0)
            ELSE IF Read(at, 1).broken THEN Request(FALSE, ERR_PCKT_FMT, p[2], dev, <<>>, 0)
            ELSE Request(TRUE, 0, p[2], dev, SubSeq(rest, 1, n), Ahead(at, 1))
    BY <1>4, <1>6, <1>10, <2>1, <2>2, <2>3, <2>5, <2>6, <2>7 DEF GetRequest3, Request
  <2>9. /\ ~b9.broken /\ ~(size < 0) /\ Bytes(rest) = size + 4 /\ ~Read(at, 1).broken
        /\ r.data = SubSeq(rest, 1, n) /\ r.resp = Ahead(at, 1)
    <3>1. ~(b9.broken \/ size < 0 \/ Bytes(rest) # size + 4)
      <4>1. ~Request(FALSE, ERR_PCKT_FMT, p[2], dev, <<>>, 0).ok
        BY Zenon DEF Request
      <4>2. QED
        BY <2>4, <2>8, <4>1, Zenon
    <3>2. ~Read(at, 1).broken
      <4>1. ~Request(FALSE, ERR_PCKT_FMT, p[2], dev, <<>>, 0).ok
        BY Zenon DEF Request
      <4>2. QED
        BY <2>4, <2>8, <3>1, <4>1, Zenon
    <3>3. r = Request(TRUE, 0, p[2], dev, SubSeq(rest, 1, n), Ahead(at, 1))
      BY <2>8, <3>1, <3>2, Zenon
    <3>4. r.data = SubSeq(rest, 1, n) /\ r.resp = Ahead(at, 1)
      BY <3>3 DEF Request
    <3>5. QED
      BY <3>1, <3>2, <3>4, Zenon
  <2>10. 6 + 2 <= Len(p) /\ 8 + 1 <= Len(p) /\ b8 = At(p, 8) /\ b9 = At(p, 9)
    <3>1. ASSUME ~(6 + 2 <= Len(p)) PROVE FALSE
      <4>1. Broken(b8)
        BY <1>1, <1>2, <1>6, <3>1, PastData, Zenon
      <4>2. Broken(b9)
        BY <1>6, <4>1, BrokenStays, Zenon
      <4>3. QED
        BY <2>9, <4>2, Zenon DEF Broken
    <3>2. 6 + 2 <= Len(p) /\ b8 = At(p, 8)
      <4>1. Moves(p, 6, 2) /\ 6 + 2 = 8
        BY <1>1, <1>2, <3>1, WithinData
      <4>2. QED
        BY <1>6, <3>1, <4>1 DEF Moves
    <3>3. ASSUME ~(8 + 1 <= Len(p)) PROVE FALSE
      <4>1. Broken(b9)
        BY <1>1, <1>2, <1>6, <3>2, <3>3, PastData, Zenon
      <4>2. QED
        BY <2>9, <4>1, Zenon DEF Broken
    <3>4. Moves(p, 8, 1) /\ 8 + 1 = 9
      BY <1>1, <1>2, <3>3, WithinData
    <3>5. QED
      BY <1>6, <3>2, <3>3, <3>4 DEF Moves
  <2>11. PICK m \in Nat : Len(p) = 9 + m
    <3>1. Len(p) >= 9
      BY <1>1, <2>10
    <3>2. Len(p) - 9 \in Nat /\ Len(p) = 9 + (Len(p) - 9)
      BY <1>1, <3>1
    <3>3. QED
      BY <3>2, Zenon
  <2>12. rest \in Seq(Int) /\ Len(rest) = m
    <3>1. 9 \in Nat
      OBVIOUS
    <3>2. QED
      <4>1. Rest(At(p, 9)) \in Seq(Int) /\ Len(Rest(At(p, 9))) = m
        BY <2>11, <3>1, RestOfData
      <4>2. QED
        BY <2>2, <2>10, <4>1, Zenon
  <2>13. size = p[9] /\ size \in Int
    <3>1. Moves(p, 8, 1) /\ 8 + 1 = 9 /\ 9 \in 1 .. Len(p)
      BY <1>1, <1>2, <2>10, WithinData
    <3>2. size = p[9]
      BY <2>1, <2>10, <3>1 DEF Moves
    <3>3. QED
      BY <3>1, <3>2, ElementOfSeq
  <2>14. 4 * m = size + 4 /\ size >= 0
    BY <2>9, <2>12, <2>13 DEF Bytes
  <2>15. n \in Nat /\ size = 4 * n /\ m = n + 1
    <3>1. m - 1 \in Nat /\ size = 4 * (m - 1)
      BY <2>13, <2>14
    <3>2. PICK k \in Nat : k = m - 1
      BY <3>1, Zenon
    <3>3. size \div 4 = k
      BY <3>1, <3>2, SMT
    <3>4. QED
      BY <2>2, <3>1, <3>2, <3>3
  <2>16. Ahead(at, 1) = p[Len(p)]
    <3>1. 9 \in Nat /\ 9 + n <= Len(p) /\ 9 + n \in Nat /\ (9 + n) + 1 <= Len(p) /\ (9 + n) + 1 = Len(p)
      BY <2>11, <2>15
    <3>2. at = At(p, 9 + n)
      <4>1. Moves(p, 9, n)
        BY <1>1, <2>15, <3>1, WithinData, Zenon
      <4>2. QED
        BY <2>2, <2>10, <4>1, Zenon DEF Moves
    <3>3. Moves(p, 9 + n, 1)
      BY <1>1, <1>2, <3>1, WithinData, Zenon
    <3>4. QED
      BY <3>1, <3>2, <3>3, Zenon DEF Moves
  <2>17. Len(p) >= 10 /\ p[9] >= 0 /\ 4 * (Len(p) - 10) = p[9] /\ Len(p) >= 7
    BY <2>11, <2>13, <2>15
  <2>18. r.data = SubSeq(Rest(At(p, 9)), 1, p[9] \div 4) /\ r.resp = p[Len(p)]
    BY <2>2, <2>9, <2>10, <2>13, <2>16, Zenon
  <2>19. QED
    BY <1>8, <2>3, <2>17, <2>18, Zenon DEF IsTaken3
<1>11. QED
  BY <1>9, <1>10

-----------------------------------------------------------------------------
(* Requests, as the server reads them.                                     *)

\* The first words of a packet.
IsStart(q, p, k) ==
    /\ q \in Seq(Int) /\ Len(q) = k
    /\ \A i \in 1 .. k : q[i] = p[i]

\* SubSeq cuts them off.
LEMMA StartOf ==
    ASSUME NEW p \in Seq(Int), NEW k \in Nat, k <= Len(p)
    PROVE  IsStart(SubSeq(p, 1, k), p, k)
<1>1. \A i \in 1 .. k : p[i] \in Int
  <2>1. \A i \in 1 .. k : i \in 1 .. Len(p)
    BY LenProperties
  <2>2. QED
    BY <2>1, ElementOfSeq, Zenon
<1>2. PICK q : q = SubSeq(p, 1, k)
  BY Zenon
<1>3. /\ q \in Seq(Int) /\ Len(q) = (IF 1 <= k THEN k - 1 + 1 ELSE 0)
      /\ \A i \in 1 .. k - 1 + 1 : q[i] = p[1 + i - 1]
  BY <1>1, <1>2, SubSeqProperties
<1>4. Len(q) = k
  BY <1>3
<1>5. ASSUME NEW i \in 1 .. k PROVE q[i] = p[i]
  <2>1. i \in 1 .. k - 1 + 1 /\ 1 + i - 1 = i
    OBVIOUS
  <2>2. QED
    BY <1>3, <2>1
<1>6. QED
  BY <1>2, <1>3, <1>4, <1>5, Zenon DEF IsStart

\* Nothing is missing from the whole.
LEMMA WholeSeq ==
    ASSUME NEW p \in Seq(Int), NEW k, k = Len(p)
    PROVE  SubSeq(p, 1, k) = p
<1>1. k \in Nat /\ k <= Len(p)
  BY LenProperties
<1>2. IsStart(SubSeq(p, 1, k), p, k)
  BY <1>1, StartOf, Zenon
<1>3. PICK q : q = SubSeq(p, 1, k)
  BY Zenon
<1>4. q \in Seq(Int) /\ Len(q) = Len(p) /\ \A i \in 1 .. Len(p) : q[i] = p[i]
  BY <1>2, <1>3, Zenon DEF IsStart
<1>5. q = p
  BY <1>4, SeqEqual
<1>6. QED
  BY <1>3, <1>5, Zenon

\* The packets that the client makes: a header with the device, and a body.
LEMMA ExtendedRequestIs ==
    ASSUME NEW d \in Identifiers, NEW kind \in {"open_req", "close_req", "cmd_req"},
           NEW body \in Seq(Int), kind = "cmd_req" \/ body = <<>>
    PROVE  IsExtended(ExtendedRequest(kind, d, body), Code3[kind], IdWords(d), body)
<1>1. IdWords(d) \in Seq(Int) /\ Len(IdWords(d)) = 3
  BY IdentifierSurvives
<1>2. Code3[kind] \in Int
  BY DEF Code3
<1>3. ExtendedRequest(kind, d, body) = <<3, Code3[kind], 0>> \o IdWords(d) \o <<0, 0>> \o body
  BY Zenon DEF ExtendedRequest
<1>4. IsExtended(<<3, Code3[kind], 0>> \o IdWords(d) \o <<0, 0>> \o body, Code3[kind], IdWords(d), body)
  BY <1>1, <1>2, ExtendedHeader, Zenon
<1>5. QED
  BY <1>3, <1>4, Zenon

\* The same for the protocols 1 and 2.
LEMMA PlainRequestIs ==
    ASSUME NEW d \in Identifiers, NEW kind \in {"open_req", "close_req", "cmd_req"},
           NEW v \in {1, 2}, NEW body \in Seq(Int), kind = "cmd_req" \/ body = <<>>
    PROVE  IsPlain(SerialRequest(v, kind, d, body), v, Code(v)[kind], d.id, body)
<1>1. d.id \in Int /\ v \in Int
  BY DEF Identifiers
<1>2. Code(v)[kind] \in Int
  BY DEF Code, Code1, Code2
<1>3. SerialRequest(v, kind, d, body) = <<v, Code(v)[kind], 0, d.id, 0, 0>> \o body
  BY Zenon DEF SerialRequest
<1>4. IsPlain(<<v, Code(v)[kind], 0, d.id, 0, 0>> \o body, v, Code(v)[kind], d.id, body)
  BY <1>1, <1>2, PlainHeader, Zenon
<1>5. QED
  BY <1>3, <1>4, Zenon

\* The identifier in the header of a packet of protocol 3, which may be cut behind it.
LEMMA DeviceOfHeader ==
    ASSUME NEW d \in Identifiers, NEW p, NEW type, NEW body, IsExtended(p, type, IdWords(d), body),
           NEW q, NEW k \in Nat, k >= 6, IsStart(q, p, k)
    PROVE  IdOf(<<q[4], q[5], q[6]>>) = d
<1>1. q[4] = p[4] /\ q[5] = p[5] /\ q[6] = p[6]
  BY DEF IsStart
<1>2. p[4] = IdWords(d)[1] /\ p[5] = IdWords(d)[2] /\ p[6] = IdWords(d)[3]
  BY Zenon DEF IsExtended
<1>3. IdOf(<<q[4], q[5], q[6]>>) = IdOf(IdWords(d))
  BY <1>1, <1>2 DEF IdOf
<1>4. QED
  BY <1>3, IdentifierSurvives, Zenon

\* An open or a close of protocol 3 that is taken, cut or not, names the client's device.
LEMMA OpenArrives ==
    ASSUME NEW d \in Identifiers, NEW kind \in {"open_req", "close_req"}, NEW q, NEW k \in Nat,
           k <= Len(ExtendedRequest(kind, d, <<>>)), q = SubSeq(ExtendedRequest(kind, d, <<>>), 1, k),
           GetRequest3(q).ok
    PROVE  GetRequest3(q).dev = d
<1>1. PICK p : p = ExtendedRequest(kind, d, <<>>)
  BY Zenon
<1>2. IsExtended(p, Code3[kind], IdWords(d), <<>>)
  BY <1>1, ExtendedRequestIs, EmptySeq, Zenon
<1>3. p \in Seq(Int)
  BY <1>2, Zenon DEF IsExtended
<1>4. IsStart(q, p, k)
  BY <1>1, <1>3, StartOf, Zenon
<1>5. q \in Seq(Int) /\ Len(q) = k
  BY <1>4, Zenon DEF IsStart
<1>6. IsTaken3(q, GetRequest3(q))
  BY <1>5, Request3Taken, Zenon
<1>7. k >= 6 /\ GetRequest3(q).dev = IdOf(<<q[4], q[5], q[6]>>)
  <2>1. Len(q) >= 7 /\ GetRequest3(q).dev = IdOf(<<q[4], q[5], q[6]>>)
    BY <1>6, Zenon DEF IsTaken3
  <2>2. k >= 6
    BY <1>5, <2>1
  <2>3. QED
    BY <2>1, <2>2, Zenon
<1>8. QED
  BY <1>2, <1>4, <1>7, DeviceOfHeader, Zenon

\* The length of the data, the data, and the length of the answer.
IsBody(body, data, n, resp) ==
    /\ body \in Seq(Int) /\ Len(body) = n + 2
    /\ body[1] = 4 * n /\ body[n + 2] = resp
    /\ \A i \in 1 .. n : body[1 + i] = data[i]

\* The body of a command of protocol 3.
LEMMA BodyOfCommand ==
    ASSUME NEW data \in Seq(Int), NEW resp \in Int, NEW n \in Nat, n = Len(data),
           NEW body, body = CmdBody3(data, resp)
    PROVE  IsBody(body, data, n, resp)
<1> DEFINE one == <<Bytes(data)>>  s == one \o data  last == <<resp>>
<1>1. one \in Seq(Int) /\ Len(one) = 1 /\ one[1] = 4 * n
  BY DEF Bytes
<1>2. last \in Seq(Int) /\ Len(last) = 1 /\ last[1] = resp
  OBVIOUS
<1>3. 1 \in Nat /\ 1 + n \in Nat
  OBVIOUS
<1> HIDE DEF one, last
<1>4. s \in Seq(Int) /\ HasParts(s, one, 1, data, n)
  BY <1>1, <1>3, JoinParts, Zenon
<1> HIDE DEF s
<1>5. Len(s) = 1 + n
  BY <1>4 DEF HasParts
<1>6. body = s \o last
  BY Zenon DEF CmdBody3, one, s, last
<1>7. body \in Seq(Int) /\ HasParts(body, s, 1 + n, last, 1)
  BY <1>2, <1>3, <1>4, <1>5, <1>6, JoinParts, Zenon
<1>8. s[1] = 4 * n /\ \A i \in 1 .. n : s[1 + i] = data[i]
  BY <1>1, <1>4 DEF HasParts
<1>9. /\ Len(body) = n + 2
      /\ \A i \in 1 .. 1 + n : body[i] = s[i]
      /\ body[n + 2] = resp
  BY <1>2, <1>7 DEF HasParts
<1>10. body[1] = 4 * n /\ \A i \in 1 .. n : body[1 + i] = data[i]
  BY <1>8, <1>9
<1>11. QED
  BY <1>7, <1>9, <1>10, Zenon DEF IsBody

\* What a command of protocol 3 gives the server.
IsMeant(r, d, data, resp) == r.dev = d /\ r.data = data /\ r.resp = resp

\* A command of protocol 3, cut anywhere, is refused or gives the server the device, the
\* data and the length of the answer that the client meant: the length in front of the data
\* leaves no room for a part of it.
THEOREM CommandArrivesOrIsRefused ==
    ASSUME NEW d \in Identifiers, NEW data \in Seq(Int), NEW resp \in Int, NEW k \in Nat,
           k >= 4, k <= Len(CreateCmdRequest(3, d, data, resp)),
           NEW q, q = SubSeq(CreateCmdRequest(3, d, data, resp), 1, k), GetRequest3(q).ok
    PROVE  IsMeant(GetRequest3(q), d, data, resp)
<1>1. PICK n \in Nat : n = Len(data)
  BY LenProperties
<1>2. PICK body : body = CmdBody3(data, resp)
  BY Zenon
<1>3. IsBody(body, data, n, resp)
  BY <1>1, <1>2, BodyOfCommand, Zenon
<1>4. body \in Seq(Int) /\ Len(body) = n + 2
  BY <1>3, Zenon DEF IsBody
<1>5. PICK p : p = ExtendedRequest("cmd_req", d, body)
  BY Zenon
<1>6. CreateCmdRequest(3, d, data, resp) = p
  <2>1. ~(3 = 1) /\ ~(3 = 2)
    OBVIOUS
  <2>2. QED
    BY <1>2, <1>5, <2>1, Zenon DEF CreateCmdRequest, ClientRequest
<1>7. IsExtended(p, Code3["cmd_req"], IdWords(d), body)
  BY <1>4, <1>5, ExtendedRequestIs, Zenon
<1>8. p \in Seq(Int)
  BY <1>7, Zenon DEF IsExtended
<1>9. IsStart(q, p, k)
  BY <1>6, <1>8, StartOf, Zenon
<1>10. q \in Seq(Int) /\ Len(q) = k
  BY <1>9, Zenon DEF IsStart
<1>11. PICK r : r = GetRequest3(q)
  BY Zenon
<1>12. IsTaken3(q, r)
  BY <1>10, <1>11, Request3Taken, Zenon
<1>13. q[2] = Code3.cmd_req
  <2>1. q[2] = p[2]
    BY <1>9 DEF IsStart
  <2>2. p[2] = Code3["cmd_req"]
    BY <1>7, Zenon DEF IsExtended
  <2>3. QED
    BY <2>1, <2>2
<1>14. /\ k >= 10 /\ 4 * (k - 10) = q[9] /\ r.dev = IdOf(<<q[4], q[5], q[6]>>)
       /\ r.data = SubSeq(Rest(At(q, 9)), 1, q[9] \div 4) /\ r.resp = q[k]
  BY <1>10, <1>12, <1>13 DEF IsTaken3
<1>15. Len(p) = n + 10 /\ p[9] = 4 * n /\ p[n + 10] = resp /\ \A i \in 1 .. n : p[9 + i] = data[i]
  <2>1. 1 \in 1 .. Len(body) /\ n + 2 \in 1 .. Len(body) /\ \A i \in 1 .. n : 1 + i \in 1 .. Len(body)
    BY <1>4
  <2>2. \A i \in 1 .. Len(body) : p[8 + i] = body[i]
    BY <1>7, Zenon DEF IsExtended
  <2>3. body[1] = 4 * n /\ body[n + 2] = resp /\ \A i \in 1 .. n : body[1 + i] = data[i]
    BY <1>3, Zenon DEF IsBody
  <2>4. Len(p) = 8 + Len(body)
    BY <1>7, Zenon DEF IsExtended
  <2>5. p[8 + 1] = 4 * n /\ p[8 + (n + 2)] = resp /\ \A i \in 1 .. n : p[8 + (1 + i)] = data[i]
    BY <2>1, <2>2, <2>3, Zenon
  <2>6. 8 + 1 = 9 /\ 8 + (n + 2) = n + 10 /\ \A i \in 1 .. n : 8 + (1 + i) = 9 + i
    OBVIOUS
  <2>7. Len(p) = n + 10
    BY <1>4, <2>4
  <2>8. QED
    BY <2>5, <2>6, <2>7
<1>16. k = n + 10 /\ q[9] = 4 * n
  <2>1. 9 \in 1 .. k
    BY <1>14
  <2>2. q[9] = p[9]
    BY <1>9, <2>1, Zenon DEF IsStart
  <2>3. QED
    BY <1>14, <1>15, <2>2
<1>17. r.dev = d
  <2>1. k >= 6
    BY <1>14
  <2>2. IdOf(<<q[4], q[5], q[6]>>) = d
    BY <1>7, <1>9, <2>1, DeviceOfHeader, Zenon
  <2>3. QED
    BY <1>14, <2>2, Zenon
<1>18. r.resp = resp
  <2>1. k \in 1 .. k
    BY <1>14
  <2>2. QED
    BY <1>9, <1>14, <1>15, <1>16, <2>1, Zenon DEF IsStart
<1>19. r.data = data
  <2>1. PICK m \in Nat : m = n + 1 /\ Len(q) = 9 + m /\ 9 \in Nat
    BY <1>10, <1>16
  <2>2. PICK rest : rest = Rest(At(q, 9))
    BY Zenon
  <2>3. m \in Nat /\ 9 \in Nat /\ Len(q) = 9 + m /\ q \in Seq(Int)
    BY <1>10, <2>1, Zenon
  <2>4. /\ Rest(At(q, 9)) \in Seq(Int) /\ Len(Rest(At(q, 9))) = m
        /\ \A i \in 1 .. m : Rest(At(q, 9))[i] = q[9 + i]
    BY <2>3, RestOfData, Zenon
  <2>5. rest \in Seq(Int) /\ Len(rest) = n + 1 /\ \A i \in 1 .. n + 1 : rest[i] = q[9 + i]
    BY <2>1, <2>2, <2>4, Zenon
  <2>6. ASSUME NEW i \in 1 .. n PROVE rest[i] = data[i]
    <3>1. i \in 1 .. n + 1 /\ 9 + i \in 1 .. k
      BY <1>16
    <3>2. QED
      BY <1>9, <1>15, <2>5, <3>1, Zenon DEF IsStart
  <2>7. n <= Len(rest)
    BY <2>5
  <2>8. IsStart(SubSeq(rest, 1, n), rest, n)
    BY <2>5, <2>7, StartOf, Zenon
  <2>9. PICK s : s = SubSeq(rest, 1, n)
    BY Zenon
  <2>10. s \in Seq(Int) /\ Len(s) = Len(data) /\ \A i \in 1 .. Len(data) : s[i] = data[i]
    BY <1>1, <2>6, <2>8, <2>9, Zenon DEF IsStart
  <2>11. s = data
    BY <2>10, SeqEqual
  <2>12. (4 * n) \div 4 = n
    BY SMT
  <2>13. r.data = SubSeq(rest, 1, n)
    BY <1>14, <1>16, <2>2, <2>12
  <2>14. QED
    BY <2>9, <2>11, <2>13, Zenon
<1>20. QED
  BY <1>11, <1>17, <1>18, <1>19, Zenon DEF IsMeant

-----------------------------------------------------------------------------
(* Protocol 2: the identifier of the command goes before the length.       *)

IsBody2(body, data, n, resp) ==
    /\ body \in Seq(Int) /\ Len(body) = n + 1
    /\ body[1] = data[1] /\ body[2] = resp - 4
    /\ \A i \in 2 .. n : body[1 + i] = data[i]

\* The body of a command of protocol 2.
LEMMA BodyOfCommand2 ==
    ASSUME NEW data \in Seq(Int), NEW resp \in Int, NEW n \in Nat, n = Len(data), n # 0
    PROVE  IsBody2(CmdBody2(data, resp), data, n, resp)
<1>1. 1 \in 1 .. Len(data)
  OBVIOUS
<1>2. data[1] \in Int
  BY <1>1, ElementOfSeq
<1>3. PICK a, t : a = <<data[1], resp - 4>> /\ t = Tail(data)
  BY Zenon
<1>4. a \in Seq(Int) /\ Len(a) = 2 /\ a[1] = data[1] /\ a[2] = resp - 4
  BY <1>2, <1>3
<1>5. n - 1 \in Nat /\ 2 \in Nat /\ data # <<>>
  OBVIOUS
<1>6. t \in Seq(Int) /\ Len(t) = n - 1 /\ \A i \in 1 .. n - 1 : t[i] = data[i + 1]
  BY <1>3, <1>5
<1>7. a \o t \in Seq(Int) /\ HasParts(a \o t, a, 2, t, n - 1)
  BY <1>4, <1>5, <1>6, JoinParts, Zenon
<1>8. PICK body : body = a \o t
  BY Zenon
<1>9. /\ body \in Seq(Int) /\ Len(body) = 2 + (n - 1)
      /\ \A i \in 1 .. 2 : body[i] = a[i]
      /\ \A i \in 1 .. n - 1 : body[2 + i] = t[i]
  BY <1>7, <1>8, Zenon DEF HasParts
<1>10. Len(body) = n + 1 /\ body[1] = data[1] /\ body[2] = resp - 4
  BY <1>4, <1>9
<1>11. ASSUME NEW i \in 2 .. n PROVE body[1 + i] = data[i]
  <2>1. i - 1 \in 1 .. n - 1 /\ 2 + (i - 1) = 1 + i /\ (i - 1) + 1 = i
    OBVIOUS
  <2>2. QED
    BY <1>6, <1>9, <2>1
<1>12. CmdBody2(data, resp) = body
  BY <1>3, <1>5, <1>8, Zenon DEF CmdBody2
<1>13. QED
  BY <1>9, <1>10, <1>11, <1>12, Zenon DEF IsBody2

\* A command of protocol 2, which carries the serial alone.
THEOREM Command2Arrives ==
    ASSUME NEW d \in Identifiers, NEW data \in Seq(Int), data # <<>>, NEW resp \in Int
    PROVE  GetRequest2(CreateCmdRequest(2, d, data, resp))
             = Request(TRUE, 0, Code2.cmd_req, Serial(d.id), data, resp - 4)
<1>1. PICK n \in Nat : n = Len(data) /\ n # 0
  OBVIOUS
<1>2. PICK body : body = CmdBody2(data, resp)
  BY Zenon
<1>3. IsBody2(body, data, n, resp)
  BY <1>1, <1>2, BodyOfCommand2, Zenon
<1>4. body \in Seq(Int) /\ Len(body) = n + 1
  BY <1>3, Zenon DEF IsBody2
<1>5. PICK p : p = SerialRequest(2, "cmd_req", d, body)
  BY Zenon
<1>6. CreateCmdRequest(2, d, data, resp) = p
  <2>1. ~(2 = 1) /\ ~(2 = 3)
    OBVIOUS
  <2>2. QED
    BY <1>2, <1>5, <2>1, Zenon DEF CreateCmdRequest, ClientRequest
<1>7. IsPlain(p, 2, Code(2)["cmd_req"], d.id, body)
  BY <1>4, <1>5, PlainRequestIs, Zenon
<1>8. /\ p \in Seq(Int) /\ Len(p) = 6 + Len(body) /\ p[2] = Code(2)["cmd_req"] /\ p[4] = d.id
      /\ \A i \in 1 .. Len(body) : p[6 + i] = body[i]
  BY <1>7, Zenon DEF IsPlain
<1>9. Len(p) = n + 7 /\ p[7] = data[1] /\ p[8] = resp - 4 /\ \A i \in 2 .. n : p[7 + i] = data[i]
  <2>1. 1 \in 1 .. Len(body) /\ 2 \in 1 .. Len(body) /\ \A i \in 2 .. n : 1 + i \in 1 .. Len(body)
    BY <1>1, <1>4
  <2>2. body[1] = data[1] /\ body[2] = resp - 4 /\ \A i \in 2 .. n : body[1 + i] = data[i]
    BY <1>3, Zenon DEF IsBody2
  <2>3. p[6 + 1] = data[1] /\ p[6 + 2] = resp - 4 /\ \A i \in 2 .. n : p[6 + (1 + i)] = data[i]
    BY <1>8, <2>1, <2>2, Zenon
  <2>4. 6 + 1 = 7 /\ 6 + 2 = 8 /\ \A i \in 2 .. n : 6 + (1 + i) = 7 + i
    OBVIOUS
  <2>5. Len(p) = n + 7
    BY <1>4, <1>8
  <2>6. QED
    BY <2>3, <2>4, <2>5
<1>10. Buf(p) = At(p, 0)
  BY DEF Buf, At
<1>11. Moves(p, 0, 4) /\ Moves(p, 4, 2) /\ Moves(p, 6, 1) /\ Moves(p, 7, 1)
  <2>1. Len(p) \in Nat /\ Len(p) >= 8
    BY <1>1, <1>9
  <2>2. /\ 0 \in Nat /\ 1 \in Nat /\ 2 \in Nat /\ 4 \in Nat /\ 6 \in Nat /\ 7 \in Nat
        /\ 0 + 4 <= Len(p) /\ 4 + 2 <= Len(p) /\ 6 + 1 <= Len(p) /\ 7 + 1 <= Len(p)
    BY <2>1
  <2>3. QED
    BY <2>1, <2>2, WithinData, Zenon
<1>12. /\ Read(Buf(p), 4) = At(p, 4) /\ Seek(At(p, 4), 2) = At(p, 6) /\ Seek(At(p, 6), 1) = At(p, 7)
       /\ Read(At(p, 7), 1) = At(p, 8) /\ Ahead(At(p, 7), 1) = p[8]
  BY <1>10, <1>11 DEF Moves
<1>13. PICK b, b6, b7, b8 : b = At(p, 4) /\ b6 = At(p, 6) /\ b7 = At(p, 7) /\ b8 = At(p, 8)
  BY Zenon
<1>14. PICK cid, rest : cid = Rest(b6) /\ rest = Rest(b8)
  BY Zenon
<1>15. p \in Seq(Int)
  BY <1>8
<1>16. cid # <<>> /\ cid[1] = data[1]
  <2>1. PICK m \in Nat : m = n + 1 /\ Len(p) = 6 + m /\ 6 \in Nat
    BY <1>9
  <2>2. m \in Nat /\ 6 \in Nat /\ Len(p) = 6 + m
    BY <2>1, Zenon
  <2>3. /\ Rest(At(p, 6)) \in Seq(Int) /\ Len(Rest(At(p, 6))) = m
        /\ \A i \in 1 .. m : Rest(At(p, 6))[i] = p[6 + i]
    BY <1>15, <2>2, RestOfData, Zenon
  <2>4. Len(cid) = m /\ cid \in Seq(Int) /\ \A i \in 1 .. m : cid[i] = p[6 + i]
    BY <1>13, <1>14, <2>3, Zenon
  <2>5. 1 \in 1 .. m /\ 6 + 1 = 7 /\ m # 0
    BY <2>1
  <2>6. QED
    BY <1>9, <2>4, <2>5
<1>17. rest \in Seq(Int) /\ Len(rest) = n - 1 /\ \A i \in 1 .. n - 1 : rest[i] = data[1 + i]
  <2>1. PICK m \in Nat : m = n - 1 /\ Len(p) = 8 + m /\ 8 \in Nat
    <3>1. n - 1 \in Nat /\ Len(p) = 8 + (n - 1) /\ 8 \in Nat
      BY <1>1, <1>9
    <3>2. QED
      BY <3>1, Zenon
  <2>2. m \in Nat /\ 8 \in Nat /\ Len(p) = 8 + m
    BY <2>1, Zenon
  <2>3. /\ Rest(At(p, 8)) \in Seq(Int) /\ Len(Rest(At(p, 8))) = m
        /\ \A i \in 1 .. m : Rest(At(p, 8))[i] = p[8 + i]
    BY <1>15, <2>2, RestOfData, Zenon
  <2>4. rest \in Seq(Int) /\ Len(rest) = n - 1 /\ \A i \in 1 .. n - 1 : rest[i] = p[8 + i]
    BY <1>13, <1>14, <2>1, <2>3, Zenon
  <2>5. ASSUME NEW i \in 1 .. n - 1 PROVE rest[i] = data[1 + i]
    <3>1. 1 + i \in 2 .. n /\ 7 + (1 + i) = 8 + i
      OBVIOUS
    <3>2. QED
      BY <1>9, <2>4, <3>1
  <2>6. QED
    BY <2>4, <2>5, Zenon
<1>18. <<data[1]>> \o rest = data
  <2>1. data[1] \in Int
    <3>1. 1 \in 1 .. Len(data)
      BY <1>1
    <3>2. QED
      BY <3>1, ElementOfSeq
  <2>2. PICK a : a = <<data[1]>>
    BY Zenon
  <2>3. a \in Seq(Int) /\ Len(a) = 1 /\ a[1] = data[1] /\ 1 \in Nat /\ n - 1 \in Nat
    BY <1>1, <2>1, <2>2
  <2>4. PICK s : s = a \o rest
    BY Zenon
  <2>5. s \in Seq(Int) /\ HasParts(s, a, 1, rest, n - 1)
    BY <1>17, <2>3, <2>4, JoinParts, Zenon
  <2>6. Len(s) = 1 + (n - 1) /\ s[1] = a[1] /\ \A i \in 1 .. n - 1 : s[1 + i] = rest[i]
    BY <2>5 DEF HasParts
  <2>7. ASSUME NEW i \in 1 .. n PROVE s[i] = data[i]
    <3>1. CASE i = 1
      BY <2>3, <2>6, <3>1
    <3>2. CASE i # 1
      <4>1. i - 1 \in 1 .. n - 1 /\ 1 + (i - 1) = i
        BY <3>2
      <4>2. QED
        BY <1>17, <2>6, <4>1
    <3>3. QED
      BY <3>1, <3>2
  <2>8. s = data
    BY <1>1, <2>5, <2>6, <2>7, SeqEqual
  <2>9. QED
    BY <2>2, <2>4, <2>8, Zenon
<1>19. ~b8.broken
  BY <1>13 DEF At
<1>20. p[2] = Code2["cmd_req"] /\ Code2.cmd_req = Code2["cmd_req"] /\ Code2.cmd_req \notin {Code2.open_req, Code2.close_req}
  BY <1>8 DEF Code, Code2
<1>21. PICK type : type = p[2]
  BY Zenon
<1>22. type = Code2.cmd_req /\ type \notin {Code2.open_req, Code2.close_req}
  BY <1>20, <1>21, Zenon
<1>23. /\ Read(Buf(p), 4) = b /\ Seek(b, 2) = b6 /\ Seek(b6, 1) = b7 /\ Read(b7, 1) = b8
       /\ Ahead(b7, 1) = resp - 4
  BY <1>9, <1>12, <1>13, Zenon
<1>24. GetRequest2(p) = Request(~b8.broken, 0, type, Serial(p[4]),
                                <<IF cid = <<>> THEN Junk ELSE cid[1]>> \o rest,
                                IF b8.broken THEN 0 ELSE Ahead(b7, 1))
  BY <1>14, <1>21, <1>22, <1>23, Zenon DEF GetRequest2
<1>25. <<IF cid = <<>> THEN Junk ELSE cid[1]>> \o rest = data
  BY <1>16, <1>18, Zenon
<1>26. GetRequest2(p) = Request(TRUE, 0, type, Serial(d.id), data, resp - 4)
  <2>1. ~b8.broken = TRUE /\ (IF b8.broken THEN 0 ELSE Ahead(b7, 1)) = resp - 4 /\ p[4] = d.id
    BY <1>8, <1>19, <1>23, Zenon
  <2>2. QED
    BY <1>24, <1>25, <2>1, Zenon
<1>27. QED
  BY <1>6, <1>22, <1>26, Zenon

\* The server takes every whole command of protocol 3, with the device, the data and the
\* length of the answer that the client put into it.
THEOREM CommandArrives ==
    ASSUME NEW d \in Identifiers, NEW data \in Seq(Int), NEW resp \in Int
    PROVE  GetRequest3(CreateCmdRequest(3, d, data, resp))
             = Request(TRUE, 0, Code3.cmd_req, d, data, resp)
<1>1. PICK n \in Nat : n = Len(data)
  BY LenProperties
<1>2. PICK body : body = CmdBody3(data, resp)
  BY Zenon
<1>3. IsBody(body, data, n, resp)
  BY <1>1, <1>2, BodyOfCommand, Zenon
<1>4. body \in Seq(Int) /\ Len(body) = n + 2
  BY <1>3, Zenon DEF IsBody
<1>5. PICK p : p = ExtendedRequest("cmd_req", d, body)
  BY Zenon
<1>6. CreateCmdRequest(3, d, data, resp) = p
  <2>1. ~(3 = 1) /\ ~(3 = 2)
    OBVIOUS
  <2>2. QED
    BY <1>2, <1>5, <2>1, Zenon DEF CreateCmdRequest, ClientRequest
<1>7. IsExtended(p, Code3["cmd_req"], IdWords(d), body)
  BY <1>4, <1>5, ExtendedRequestIs, Zenon
<1>8. /\ p \in Seq(Int) /\ Len(p) = n + 10 /\ p[2] = Code3["cmd_req"]
      /\ p[9] = 4 * n /\ p[n + 10] = resp
  <2>1. 1 \in 1 .. Len(body) /\ n + 2 \in 1 .. Len(body)
    BY <1>4
  <2>2. p[8 + 1] = body[1] /\ p[8 + (n + 2)] = body[n + 2]
    BY <1>7, <2>1, Zenon DEF IsExtended
  <2>3. body[1] = 4 * n /\ body[n + 2] = resp
    BY <1>3, Zenon DEF IsBody
  <2>4. p \in Seq(Int) /\ Len(p) = 8 + Len(body) /\ p[2] = Code3["cmd_req"]
    BY <1>7, Zenon DEF IsExtended
  <2>5. 8 + 1 = 9 /\ 8 + (n + 2) = n + 10
    OBVIOUS
  <2>6. Len(p) = n + 10
    BY <1>4, <2>4
  <2>7. QED
    BY <2>2, <2>3, <2>4, <2>5, <2>6
<1>9. Buf(p) = At(p, 0) /\ Len(p) \in Nat
  BY <1>8 DEF Buf, At
<1>10. /\ Moves(p, 0, 6) /\ Moves(p, 0, 3) /\ Moves(p, 6, 2) /\ Moves(p, 8, 1)
       /\ Moves(p, 9, n) /\ Moves(p, 9 + n, 1)
  <2>1. /\ 0 \in Nat /\ 1 \in Nat /\ 2 \in Nat /\ 3 \in Nat /\ 6 \in Nat /\ 8 \in Nat /\ 9 \in Nat
        /\ 9 + n \in Nat /\ 0 + 6 <= Len(p) /\ 0 + 3 <= Len(p) /\ 6 + 2 <= Len(p) /\ 8 + 1 <= Len(p)
        /\ 9 + n <= Len(p) /\ (9 + n) + 1 <= Len(p)
    BY <1>8
  <2>2. QED
    BY <1>9, <2>1, WithinData, Zenon
<1>11. PICK b, b3, b8, b9, at, end, size :
         /\ b = At(p, 6) /\ b3 = At(p, 3) /\ b8 = At(p, 8) /\ b9 = At(p, 9)
         /\ at = At(p, 9 + n) /\ end = At(p, (9 + n) + 1) /\ size = 4 * n
  BY Zenon
<1>12. /\ Read(Buf(p), 6) = b /\ Read(Buf(p), 3) = b3 /\ Seek(b, 2) = b8 /\ Read(b8, 1) = b9
       /\ Ahead(b8, 1) = size /\ Seek(b9, n) = at /\ Read(at, 1) = end
  <2>1. 0 + 6 = 6 /\ 0 + 3 = 3 /\ 6 + 2 = 8 /\ 8 + 1 = 9
    OBVIOUS
  <2>2. QED
    BY <1>8, <1>9, <1>10, <1>11, <2>1, Zenon DEF Moves
<1>13. Ahead(at, 1) = resp
  <2>1. (9 + n) + 1 = n + 10
    OBVIOUS
  <2>2. QED
    BY <1>8, <1>10, <1>11, <2>1, Zenon DEF Moves
<1>14. IdOf([i \in 1 .. 3 |-> Ahead(b3, i)]) = d
  <2>1. PICK w : w = [i \in 1 .. 3 |-> Ahead(b3, i)]
    BY Zenon
  <2>2. \A i \in 1 .. 3 : i \in Nat /\ 3 \in Nat /\ 3 + i <= Len(p)
    BY <1>8
  <2>3. \A i \in 1 .. 3 : Ahead(b3, i) = p[3 + i]
    <3>1. \A i \in 1 .. 3 : Moves(p, 3, i)
      BY <1>9, <2>2, WithinData, Zenon
    <3>2. QED
      BY <1>11, <3>1, Zenon DEF Moves
  <2>4. w[1] = p[4] /\ w[2] = p[5] /\ w[3] = p[6]
    BY <2>1, <2>3
  <2>5. p[4] = IdWords(d)[1] /\ p[5] = IdWords(d)[2] /\ p[6] = IdWords(d)[3]
    BY <1>7, Zenon DEF IsExtended
  <2>6. IdOf(w) = IdOf(IdWords(d))
    BY <2>4, <2>5 DEF IdOf
  <2>7. QED
    BY <2>1, <2>6, IdentifierSurvives, Zenon
<1>15. SubSeq(Rest(b9), 1, n) = data /\ Bytes(Rest(b9)) = size + 4
  <2>1. 9 \in Nat /\ n + 1 \in Nat /\ Len(p) = 9 + (n + 1)
    BY <1>8
  <2>2. PICK rest : rest = Rest(b9)
    BY Zenon
  <2>3. rest \in Seq(Int) /\ Len(rest) = n + 1 /\ \A i \in 1 .. n + 1 : rest[i] = p[9 + i]
    <3>1. rest \in Seq(Int) /\ Len(rest) = n + 1
      BY <1>8, <1>11, <2>1, <2>2, RestOfData
    <3>2. \A i \in 1 .. n + 1 : rest[i] = p[9 + i]
      BY <1>8, <1>11, <2>1, <2>2, RestOfData
    <3>3. QED
      BY <3>1, <3>2, Zenon
  <2>4. ASSUME NEW i \in 1 .. n PROVE rest[0 + i] = data[i]
    <3>1. i \in 1 .. n + 1 /\ 1 + i \in 1 .. Len(body) /\ 8 + (1 + i) = 9 + i /\ 0 + i = i
      BY <1>4
    <3>2. p[8 + (1 + i)] = body[1 + i] /\ body[1 + i] = data[i]
      BY <1>3, <1>7, <3>1, Zenon DEF IsExtended, IsBody
    <3>3. QED
      BY <2>3, <3>1, <3>2
  <2>5. 0 \in Nat /\ 0 + n <= Len(rest) /\ 0 + 1 = 1 /\ 0 + n = n
    BY <2>3
  <2>6. SubSeq(rest, 0 + 1, 0 + n) = data
    BY <1>1, <2>3, <2>4, <2>5, CutIs, Zenon
  <2>7. Bytes(rest) = size + 4
    BY <1>11, <2>3 DEF Bytes
  <2>8. QED
    BY <2>2, <2>5, <2>6, <2>7, Zenon
<1>16. ~b9.broken /\ ~end.broken
  BY <1>11 DEF At
<1>17. size \div 4 = n /\ ~(size < 0)
  <2>1. (4 * n) \div 4 = n /\ ~(4 * n < 0)
    BY SMT
  <2>2. QED
    BY <1>11, <2>1
<1>18. p[2] = Code3.cmd_req /\ Code3.cmd_req = Code3["cmd_req"]
       /\ Code3["cmd_req"] \in {Code3[k] : k \in {"cmd_req", "open_req", "close_req", "enum_req", "ver_req"}}
  BY <1>8, Zenon
<1>19. GetRequest3(p) = Request(TRUE, 0, Code3.cmd_req, d, data, resp)
  BY <1>12, <1>13, <1>14, <1>15, <1>16, <1>17, <1>18 DEF GetRequest3
<1>20. QED
  BY <1>6, <1>19, Zenon

-----------------------------------------------------------------------------
(* The list of devices, as the client reads it.                            *)

\* A request of protocol 3 without data of its own is taken if its header is there.
LEMMA HeaderIsEnough ==
    ASSUME NEW p \in Seq(Int), Len(p) >= 7,
           p[2] \in {Code3.open_req, Code3.close_req, Code3.enum_req, Code3.ver_req}
    PROVE  GetRequest3(p).ok
<1>1. Len(p) \in Nat /\ Buf(p) = At(p, 0)
  BY LenProperties DEF Buf, At
<1>2. /\ 0 \in Nat /\ 1 \in Nat /\ 6 \in Nat /\ 0 + 6 <= Len(p) /\ 6 + 1 <= Len(p)
      /\ 0 + 6 = 6 /\ 6 + 1 = 7
  BY <1>1
<1>3. Moves(p, 0, 6) /\ Moves(p, 6, 1)
  BY <1>1, <1>2, WithinData, Zenon
<1>4. PICK b, end : b = At(p, 6) /\ end = At(p, 7)
  BY Zenon
<1>5. Read(Buf(p), 6) = b /\ Read(b, 1) = end
  BY <1>1, <1>2, <1>3, <1>4, Zenon DEF Moves
<1>6. ~end.broken
  BY <1>4 DEF At
<1>7. PICK type : type = p[2]
  BY Zenon
<1>8. type # Code3.cmd_req
  BY <1>7 DEF Code3
<1>9. type \in {Code3[k] : k \in {"cmd_req", "open_req", "close_req", "enum_req", "ver_req"}}
  <2>1. type \in {Code3["open_req"], Code3["close_req"], Code3["enum_req"], Code3["ver_req"]}
    BY <1>7, Zenon
  <2>2. QED
    BY <2>1, Zenon
<1>10. QED
  BY <1>5, <1>6, <1>7, <1>8, <1>9, Zenon DEF GetRequest3, Request

\* The words of the devices of an enumeration.
WordsOf(list) == FlattenSeq([i \in DOMAIN list |-> IdWords(list[i])])

IsWordsOf(words, list, n) ==
    /\ words \in Seq(Int) /\ Len(words) = 3 * n
    /\ \A i \in 1 .. n, k \in 1 .. 3 : words[3 * (i - 1) + k] = IdWords(list[i])[k]

\* Three words of the concatenation belong to each device.
LEMMA WordsOfDevices ==
    ASSUME NEW list \in Seq(Identifiers), NEW n, n = Len(list)
    PROVE  IsWordsOf(WordsOf(list), list, n)
<1>1. n \in Nat /\ DOMAIN list = 1 .. n
  BY LenProperties
<1>2. PICK W : W = [i \in 1 .. n |-> IdWords(list[i])]
  BY Zenon
<1>3. \A i \in 1 .. n : IdWords(list[i]) \in Seq(Int) /\ Len(IdWords(list[i])) = 3
  <2>1. \A i \in 1 .. n : list[i] \in Identifiers
    BY ElementOfSeq
  <2>2. QED
    BY <2>1, IdentifierSurvives, Zenon
<1>4. W \in [1 .. n -> Seq(Int)] /\ \A i \in 1 .. n : Len(W[i]) = 3 /\ W[i] = IdWords(list[i])
  BY <1>2, <1>3, Zenon
<1>5. IsTriples(FlattenSeq(W), W, n)
  BY <1>1, <1>4, FlattenTriples, Zenon
<1>6. WordsOf(list) = FlattenSeq(W)
  BY <1>1, <1>2, Zenon DEF WordsOf
<1>7. PICK p : p = FlattenSeq(W)
  BY Zenon
<1>8. /\ p \in Seq(Int) /\ Len(p) = 3 * n
      /\ \A i \in 1 .. n : /\ p[3 * i - 2] = W[i][1]
                           /\ p[3 * i - 1] = W[i][2]
                           /\ p[3 * i] = W[i][3]
  BY <1>5, <1>7, Zenon DEF IsTriples
<1>9. ASSUME NEW i \in 1 .. n, NEW k \in 1 .. 3 PROVE p[3 * (i - 1) + k] = IdWords(list[i])[k]
  <2>1. CASE k = 1
    <3>1. 3 * (i - 1) + 1 = 3 * i - 2
      BY <1>1
    <3>2. QED
      BY <1>4, <1>8, <2>1, <3>1, Zenon
  <2>2. CASE k = 2
    <3>1. 3 * (i - 1) + 2 = 3 * i - 1
      BY <1>1
    <3>2. QED
      BY <1>4, <1>8, <2>2, <3>1, Zenon
  <2>3. CASE k = 3
    <3>1. 3 * (i - 1) + 3 = 3 * i
      BY <1>1
    <3>2. QED
      BY <1>4, <1>8, <2>3, <3>1, Zenon
  <2>4. QED
    BY <2>1, <2>2, <2>3
<1>10. QED
  BY <1>6, <1>7, <1>8, <1>9, Zenon DEF IsWordsOf

\* The words of an identifier are all there is of it.
LEMMA SameWords ==
    ASSUME NEW d \in Identifiers, NEW w, \A k \in 1 .. 3 : w[k] = IdWords(d)[k]
    PROVE  IdOf(w) = d
<1>1. w[1] = IdWords(d)[1] /\ w[2] = IdWords(d)[2] /\ w[3] = IdWords(d)[3]
  OBVIOUS
<1>2. IdOf(w) = IdOf(IdWords(d))
  BY <1>1, SMT DEF IdOf
<1>3. QED
  BY <1>2, IdentifierSurvives, Zenon

\* What the client reads out of an enumeration.
IsListed(r, list, n) ==
    /\ r = Response(TRUE, 0, n, r.data)
    /\ \A i \in 1 .. n : IdOf(SubSeq(r.data, 3 * i - 2, 3 * i)) = list[i]

\* The body of the answer to an enumeration: the number of devices, their words and a zero.
IsListBody(body, words, n) ==
    /\ body \in Seq(Int) /\ Len(body) = 3 * n + 2 /\ body[1] = n
    /\ \A j \in 1 .. 3 * n : body[1 + j] = words[j]

\* The answer that carries the words of a list.
LEMMA ListAnswerIs ==
    ASSUME NEW list \in Seq(Identifiers), NEW n \in Nat, n = Len(list), NEW words, words = WordsOf(list)
    PROVE  \E body : /\ IsExtended(CreateEnumResponse(list), Code3["enum_resp"], IdWords(NoDevice), body)
                     /\ IsListBody(body, words, n)
<1>1. IsWordsOf(words, list, n)
  BY WordsOfDevices, Zenon
<1>2. words \in Seq(Int) /\ Len(words) = 3 * n
  BY <1>1, Zenon DEF IsWordsOf
<1>3. Len(words) \div 3 = n
  <2>1. (3 * n) \div 3 = n
    BY SMT
  <2>2. QED
    BY <1>2, <2>1
<1>4. PICK one, last : one = <<n>> /\ last = <<0>>
  BY Zenon
<1>5. PICK s, body : s = one \o words /\ body = s \o last
  BY Zenon
<1>6. /\ one \in Seq(Int) /\ Len(one) = 1 /\ one[1] = n
      /\ last \in Seq(Int) /\ Len(last) = 1 /\ 1 \in Nat /\ 3 * n \in Nat /\ 1 + 3 * n \in Nat
  BY <1>4
<1>7. s \in Seq(Int) /\ HasParts(s, one, 1, words, 3 * n)
  BY <1>2, <1>5, <1>6, JoinParts, Zenon
<1>8. Len(s) = 1 + 3 * n
  BY <1>7, Zenon DEF HasParts
<1>9. body \in Seq(Int) /\ HasParts(body, s, 1 + 3 * n, last, 1)
  BY <1>5, <1>6, <1>7, <1>8, JoinParts, Zenon
<1>10. Len(body) = 3 * n + 2 /\ body[1] = n
  <2>1. Len(body) = (1 + 3 * n) + 1 /\ \A i \in 1 .. 1 + 3 * n : body[i] = s[i]
    BY <1>9, Zenon DEF HasParts
  <2>2. s[1] = one[1]
    BY <1>7 DEF HasParts
  <2>3. QED
    BY <1>6, <2>1, <2>2
<1>11. ASSUME NEW j \in 1 .. 3 * n PROVE body[1 + j] = words[j]
  <2>1. body[1 + j] = s[1 + j]
    <3>1. 1 + j \in 1 .. 1 + 3 * n
      OBVIOUS
    <3>2. QED
      BY <1>9, <3>1, Zenon DEF HasParts
  <2>2. QED
    BY <1>7, <2>1, Zenon DEF HasParts
<1>12. PICK p : p = CreateEnumResponse(list)
  BY Zenon
<1>13. IsExtended(p, Code3["enum_resp"], IdWords(NoDevice), body)
  <2>1. NoDevice \in Identifiers
    BY SMT DEF NoDevice, Serial, DevId, Identifiers, Words16
  <2>2. IdWords(NoDevice) \in Seq(Int) /\ Len(IdWords(NoDevice)) = 3 /\ Code3["enum_resp"] \in Int
    BY <2>1, IdentifierSurvives DEF Code3
  <2>3. CreateEnumResponse(list) = ServerResponse3("enum_resp", 0, NoDevice, words)
    BY Zenon DEF CreateEnumResponse, WordsOf
  <2>4. p = <<3, Code3["enum_resp"], 0>> \o IdWords(NoDevice) \o <<0, 0>> \o body
    <3>1. "cmd_resp" # "enum_resp"
      BY Zenon
    <3>2. \A any : (CASE "enum_resp" = "cmd_resp" -> any [] "enum_resp" = "enum_resp" -> body
                      [] "enum_resp" = "ver_resp" -> <<3>> [] OTHER -> <<0>>) = body
      BY SMT
    <3>3. body = <<Len(words) \div 3>> \o words \o <<0>>
      BY <1>3, <1>4, <1>5, Zenon
    <3>4. QED
      BY <1>12, <2>3, <3>1, <3>2, <3>3 DEF ServerResponse3
  <2>5. QED
    BY <1>9, <2>2, <2>4, ExtendedHeader, Zenon
<1>14. QED
  BY <1>9, <1>10, <1>11, <1>12, <1>13, Zenon DEF IsListBody

\* An enumeration of any number of devices is read as it was made: as many identifiers, in
\* their order, each with its own three words.
THEOREM EnumerationArrives ==
    ASSUME NEW list \in Seq(Identifiers)
    PROVE  IsListed(GetResponse(3, CreateEnumResponse(list)), list, Len(list))
<1>1. PICK n \in Nat : n = Len(list)
  BY LenProperties
<1>2. PICK words : words = WordsOf(list)
  BY Zenon
<1>3. IsWordsOf(words, list, n)
  BY <1>1, <1>2, WordsOfDevices, Zenon
<1>4. words \in Seq(Int) /\ Len(words) = 3 * n
  BY <1>3, Zenon DEF IsWordsOf
<1>5. PICK p, body : /\ p = CreateEnumResponse(list)
                     /\ IsExtended(p, Code3["enum_resp"], IdWords(NoDevice), body)
                     /\ IsListBody(body, words, n)
  BY <1>1, <1>2, ListAnswerIs, Zenon
<1>6. /\ Len(body) = 3 * n + 2 /\ body[1] = n /\ \A j \in 1 .. 3 * n : body[1 + j] = words[j]
      /\ 3 * n \in Nat
  BY <1>5 DEF IsListBody
<1>7. p \in Seq(Int) /\ Len(p) = 3 * n + 10 /\ p[2] = Code3["enum_resp"] /\ p[9] = n
  <2>1. p \in Seq(Int) /\ Len(p) = 8 + Len(body) /\ p[2] = Code3["enum_resp"]
        /\ \A i \in 1 .. Len(body) : p[8 + i] = body[i]
    BY <1>5, Zenon DEF IsExtended
  <2>2. 1 \in 1 .. Len(body) /\ 8 + 1 = 9 /\ 8 + Len(body) = 3 * n + 10
    BY <1>6
  <2>3. QED
    BY <1>6, <2>1, <2>2, Zenon
<1>8. ASSUME NEW j \in 1 .. 3 * n PROVE p[9 + j] = words[j]
  <2>1. 1 + j \in 1 .. Len(body) /\ 8 + (1 + j) = 9 + j
    BY <1>6
  <2>2. QED
    BY <1>6, <1>5, <2>1, Zenon DEF IsExtended
<1>9. Buf(p) = At(p, 0) /\ Len(p) \in Nat
  BY <1>7 DEF Buf, At
<1>10. /\ Moves(p, 0, 6) /\ Moves(p, 0, 1) /\ Moves(p, 1, 1) /\ Moves(p, 6, 2) /\ Moves(p, 8, 1)
       /\ Moves(p, 9, 3 * n)
  <2>1. /\ 0 \in Nat /\ 1 \in Nat /\ 2 \in Nat /\ 6 \in Nat /\ 8 \in Nat /\ 9 \in Nat
        /\ 0 + 6 <= Len(p) /\ 0 + 1 <= Len(p) /\ 1 + 1 <= Len(p) /\ 6 + 2 <= Len(p) /\ 8 + 1 <= Len(p)
        /\ 9 + 3 * n <= Len(p)
    BY <1>7
  <2>2. QED
    BY <1>6, <1>9, <2>1, WithinData, Zenon
<1>11. PICK b1, b, d : b1 = At(p, 1) /\ b = At(p, 6) /\ d = At(p, 9)
  BY Zenon
<1>12. /\ Read(Buf(p), 6) = b /\ Read(Buf(p), 1) = b1 /\ Ahead(b1, 1) = Code3["enum_resp"]
       /\ Read(Seek(b, 2), 1) = d /\ Ahead(Seek(b, 2), 1) = n
       /\ ~b.broken /\ ~d.broken /\ ~Seek(d, 3 * n).broken
  <2>1. Read(Buf(p), 6) = b /\ Read(Buf(p), 1) = b1
    BY <1>9, <1>10, <1>11 DEF Moves
  <2>2. Ahead(b1, 1) = Code3["enum_resp"]
    BY <1>7, <1>10, <1>11 DEF Moves
  <2>3. Read(Seek(b, 2), 1) = d /\ Ahead(Seek(b, 2), 1) = n
    BY <1>7, <1>10, <1>11 DEF Moves
  <2>4. \A k : ~At(p, k).broken
    BY DEF At
  <2>5. Seek(d, 3 * n) = At(p, 9 + 3 * n)
    BY <1>10, <1>11, Zenon DEF Moves
  <2>6. QED
    BY <1>11, <2>1, <2>2, <2>3, <2>4, <2>5, Zenon
<1>13. ASSUME NEW i \in 1 .. n
       PROVE  IdWords(IdOf([k \in 1 .. 3 |-> Ahead(Seek(d, 3 * (i - 1)), k)])) = IdWords(list[i])
  <2>1. PICK m \in Nat : m = 3 * (i - 1) /\ m + 3 <= 3 * n
    <3>1. i - 1 \in Nat /\ 3 * (i - 1) \in Nat /\ 3 * (i - 1) + 3 <= 3 * n
      OBVIOUS
    <3>2. QED
      BY <3>1, Zenon
  <2>2. Seek(d, m) = At(p, 9 + m)
    <3>1. 9 \in Nat /\ 9 + m <= Len(p)
      BY <1>7, <2>1
    <3>2. Moves(p, 9, m)
      BY <1>9, <3>1, WithinData, Zenon
    <3>3. QED
      BY <1>11, <3>2, Zenon DEF Moves
  <2>3. ASSUME NEW k \in 1 .. 3 PROVE Ahead(At(p, 9 + m), k) = IdWords(list[i])[k]
    <3>1. k \in Nat /\ 9 + m \in Nat /\ (9 + m) + k <= Len(p) /\ m + k \in 1 .. 3 * n
          /\ (9 + m) + k = 9 + (m + k)
      BY <1>7, <2>1
    <3>2. Moves(p, 9 + m, k)
      BY <1>9, <3>1, WithinData, Zenon
    <3>3. Ahead(At(p, 9 + m), k) = words[m + k]
      BY <1>8, <3>1, <3>2, Zenon DEF Moves
    <3>4. QED
      BY <1>3, <2>1, <3>3, Zenon DEF IsWordsOf
  <2>4. list[i] \in Identifiers
    BY <1>1, ElementOfSeq
  <2>5. PICK w : w = [k \in 1 .. 3 |-> Ahead(Seek(d, 3 * (i - 1)), k)]
    BY Zenon
  <2>6. \A k \in 1 .. 3 : w[k] = IdWords(list[i])[k]
    BY <2>1, <2>2, <2>3, <2>5, Zenon
  <2>7. IdOf(w) = list[i]
    BY <2>4, <2>6, SameWords, Zenon
  <2>8. QED
    BY <2>5, <2>7, Zenon
<1>14. FlattenSeq([i \in 1 .. n |-> IdWords(IdOf([k \in 1 .. 3 |-> Ahead(Seek(d, 3 * (i - 1)), k)]))]) = words
  <2>1. [i \in 1 .. n |-> IdWords(IdOf([k \in 1 .. 3 |-> Ahead(Seek(d, 3 * (i - 1)), k)]))]
          = [i \in 1 .. n |-> IdWords(list[i])]
    BY <1>13, Zenon
  <2>2. DOMAIN list = 1 .. n
    BY <1>1, LenProperties
  <2>3. QED
    BY <1>2, <2>1, <2>2, Zenon DEF WordsOf
<1>15. GetResponse3(b, Code3["enum_resp"])
         = Response(TRUE, 0, n,
                    FlattenSeq([i \in 1 .. n |-> IdWords(IdOf([k \in 1 .. 3 |-> Ahead(Seek(d, 3 * (i - 1)), k)]))]))
  <2>1. /\ Code3["enum_resp"] = Code3.enum_resp /\ Code3["enum_resp"] # Code3.cmd_resp
        /\ Code3["enum_resp"] \notin {Code3.open_resp, Code3.close_resp, Code3.ver_resp}
        /\ Code3["enum_resp"] # Code3.error_resp
    BY DEF Code3
  <2>2. PICK type : type = Code3["enum_resp"]
    BY Zenon
  <2>3. PICK b8 : b8 = Seek(b, 2)
    BY Zenon
  <2>4. Read(b8, 1) = d /\ Ahead(b8, 1) = n /\ ~d.broken /\ ~Seek(d, 3 * n).broken
    BY <1>12, <2>3, Zenon
  <2>5. GetResponse3(b, type) = IF d.broken \/ Seek(d, 3 * n).broken THEN [BadFormat EXCEPT !.val = n]
          ELSE Response(TRUE, 0, n,
                    FlattenSeq([i \in 1 .. n |-> IdWords(IdOf([k \in 1 .. 3 |-> Ahead(Seek(d, 3 * (i - 1)), k)]))]))
    BY <2>1, <2>2, <2>3, <2>4 DEF GetResponse3
  <2>6. QED
    BY <2>2, <2>4, <2>5, Zenon
<1>16. GetResponse(3, p) = Response(TRUE, 0, n, words)
  <2>1. ~(3 = 1) /\ ~(3 = 2)
    OBVIOUS
  <2>2. GetResponse(3, p) = GetResponse3(b, Code3["enum_resp"])
    BY <1>12, <2>1, Zenon DEF GetResponse
  <2>3. QED
    BY <1>14, <1>15, <2>2, Zenon
<1>17. Response(TRUE, 0, n, words).data = words
  BY DEF Response
<1>18. ASSUME NEW i \in 1 .. n PROVE IdOf(SubSeq(words, 3 * i - 2, 3 * i)) = list[i]
  <2>1. list[i] \in Identifiers
    BY <1>1, ElementOfSeq
  <2>2. PICK lo \in Int, hi \in Int : lo = 3 * i - 2 /\ hi = 3 * i
    OBVIOUS
  <2>3. \A j \in lo .. hi : words[j] \in Int
    <3>1. \A j \in lo .. hi : j \in 1 .. Len(words)
      BY <1>4, <2>2
    <3>2. QED
      BY <1>4, <3>1, ElementOfSeq, Zenon
  <2>4. PICK q : q = SubSeq(words, lo, hi)
    BY Zenon
  <2>5. \A j \in 1 .. hi - lo + 1 : q[j] = words[lo + j - 1]
    BY <2>3, <2>4, SubSeqProperties
  <2>6. ASSUME NEW k \in 1 .. 3 PROVE q[k] = IdWords(list[i])[k]
    <3>1. k \in 1 .. hi - lo + 1 /\ lo + k - 1 = 3 * (i - 1) + k
      BY <2>2
    <3>2. QED
      BY <1>3, <2>5, <3>1, Zenon DEF IsWordsOf
  <2>7. IdOf(q) = list[i]
    BY <2>1, <2>6, SameWords, Zenon
  <2>8. QED
    BY <2>2, <2>4, <2>7, Zenon
<1>19. QED
  BY <1>1, <1>5, <1>16, <1>17, <1>18, Zenon DEF IsListed

-----------------------------------------------------------------------------
(* The call that a request is for.                                         *)

Ops == {"open", "close", "command", "enumerate", "version", "other"}

CallFits(c) ==
    /\ c.op \in Ops /\ c.ver \in 1 .. 3 /\ c.dev \in Named
    /\ c.data \in Seq(Int) /\ c.resp \in Nat
    /\ c.op = "version" => c.ver = 3
    /\ c.op = "enumerate" => ~c.own

\* The packet that a call is for, and what is sent of it: all, or the caller's own part.
RequestOf(c) ==
    CASE c.op = "open" -> CreateOpenRequest(c.ver, c.dev)
      [] c.op = "close" -> CreateCloseRequest(c.ver, c.dev)
      [] c.op = "command" -> CreateCmdRequest(c.ver, c.dev, c.data, c.resp)
      [] c.op = "enumerate" -> CreateEnumRequest(c.ver)
      [] c.op = "version" -> CreateVersionRequest(c.ver)
      [] OTHER -> <<c.ver, 9, 0, 0, 0, 0>>

IsRequest(r, c) ==
    /\ \E k \in 0 .. Len(RequestOf(c)) : r = SubSeq(RequestOf(c), 1, k)
    /\ ~c.own => r = RequestOf(c)

KindOf(op) ==
    CASE op = "open" -> "open_req" [] op = "close" -> "close_req" [] op = "command" -> "cmd_req"
      [] op = "enumerate" -> "enum_req" [] op = "version" -> "ver_req" [] OTHER -> "none"
TypeOf(c) == IF c.op = "other" THEN 9 ELSE Code(c.ver)[KindOf(c.op)]

Begins(r, v, type) == r \in Seq(Int) /\ (r # <<>> => r[1] = v /\ r[2] = type)

\* The kinds of the operations.
LEMMA Kinds == /\ KindOf("open") = "open_req" /\ KindOf("close") = "close_req"
               /\ KindOf("command") = "cmd_req" /\ KindOf("enumerate") = "enum_req"
               /\ KindOf("version") = "ver_req"
BY DEF KindOf

\* A device's request begins with the version and the type.
LEMMA DeviceRequestBegins ==
    ASSUME NEW d \in Identifiers, NEW v \in 1 .. 3, NEW kind \in {"open_req", "close_req", "cmd_req"},
           NEW body \in Seq(Int), kind = "cmd_req" \/ body = <<>>
    PROVE  Begins(ClientRequest(v, kind, d, body), v, Code(v)[kind])
<1>1. CASE v = 3
  <2>1. ClientRequest(v, kind, d, body) = ExtendedRequest(kind, d, body)
    BY <1>1, Zenon DEF ClientRequest
  <2>2. IsExtended(ExtendedRequest(kind, d, body), Code3[kind], IdWords(d), body)
    BY ExtendedRequestIs, Zenon
  <2>3. Code(v) = Code3
    BY <1>1, SMT DEF Code
  <2>4. QED
    BY <1>1, <2>1, <2>2, <2>3, Zenon DEF IsExtended, Begins
<1>2. CASE v # 3
  <2>1. v \in {1, 2}
    BY <1>2
  <2>2. ClientRequest(v, kind, d, body) = SerialRequest(v, kind, d, body)
    BY <1>2, Zenon DEF ClientRequest
  <2>3. IsPlain(SerialRequest(v, kind, d, body), v, Code(v)[kind], d.id, body)
    BY <2>1, PlainRequestIs, Zenon
  <2>4. QED
    BY <2>2, <2>3, Zenon DEF IsPlain, Begins
<1>3. QED
  BY <1>1, <1>2

\* Those of no device: an enumeration and the version.
LEMMA NoDeviceIs == NoDevice \in Identifiers /\ NoDevice \in Named /\ Serial(0) = NoDevice
<1>1. 0 \in Words16 /\ 0 \in Nat /\ 0 \in Wide
  BY SMT DEF Words16, Wide
<1>2. QED
  BY <1>1 DEF NoDevice, Serial, DevId, Identifiers, Named

\* A request of protocol 3 that names no device, whatever identifier it was given.
LEMMA PlainExtendedIs ==
    ASSUME NEW kind \in {"enum_req", "ver_req"}, NEW d
    PROVE  IsExtended(ExtendedRequest(kind, d, <<>>), Code3[kind], <<0, 0, 0>>, <<>>)
<1>1. Code3[kind] \in Int
  BY DEF Code3
<1>2. ExtendedRequest(kind, d, <<>>) = <<3, Code3[kind], 0>> \o <<0, 0, 0>> \o <<0, 0>> \o <<>>
  BY Zenon DEF ExtendedRequest
<1>3. <<0, 0, 0>> \in Seq(Int) /\ Len(<<0, 0, 0>>) = 3 /\ <<>> \in Seq(Int)
  OBVIOUS
<1>4. PICK w : w = <<0, 0, 0>>
  BY Zenon
<1>5. IsExtended(<<3, Code3[kind], 0>> \o w \o <<0, 0>> \o <<>>, Code3[kind], w, <<>>)
  BY <1>1, <1>3, <1>4, ExtendedHeader, Zenon
<1>6. QED
  BY <1>2, <1>4, <1>5, Zenon

\* An enumeration begins with the version and the type; protocol 2 has none.
LEMMA EnumRequestBegins ==
    ASSUME NEW v \in 1 .. 3
    PROVE  Begins(CreateEnumRequest(v), v, Code(v)["enum_req"])
<1>1. CASE v = 1
  <2>1. CreateEnumRequest(v) = <<1, 3, 0, 0, 0, 0>> \o <<0>>
    BY <1>1 DEF CreateEnumRequest, ClientRequest, SerialRequest, Code, Code1, Serial, DevId
  <2>2. <<0>> \in Seq(Int) /\ 0 \in Int /\ 1 \in Int /\ 3 \in Int
    OBVIOUS
  <2>3. IsPlain(<<1, 3, 0, 0, 0, 0>> \o <<0>>, 1, 3, 0, <<0>>)
    BY <2>2, PlainHeader, Zenon
  <2>4. Code(v)["enum_req"] = 3
    BY <1>1 DEF Code, Code1
  <2>5. QED
    BY <1>1, <2>1, <2>3, <2>4, Zenon DEF IsPlain, Begins
<1>2. CASE v = 2
  <2>1. CreateEnumRequest(v) = <<>>
    BY <1>2 DEF CreateEnumRequest
  <2>2. QED
    BY <2>1, EmptySeq DEF Begins
<1>3. CASE v = 3
  <2>1. ~(3 = 2)
    OBVIOUS
  <2>2. CreateEnumRequest(v) = ExtendedRequest("enum_req", Serial(0), <<>>)
    BY <1>3, <2>1, Zenon DEF CreateEnumRequest, ClientRequest
  <2>3. IsExtended(ExtendedRequest("enum_req", Serial(0), <<>>), Code3["enum_req"], <<0, 0, 0>>, <<>>)
    BY PlainExtendedIs, Zenon
  <2>4. Code(v) = Code3
    BY <1>3, SMT DEF Code
  <2>5. QED
    BY <1>3, <2>2, <2>3, <2>4, Zenon DEF IsExtended, Begins
<1>4. QED
  BY <1>1, <1>2, <1>3

\* The body of a command.
LEMMA CommandBodyIs ==
    ASSUME NEW v \in 1 .. 3, NEW data \in Seq(Int), NEW resp \in Int
    PROVE  (IF v = 1 THEN data ELSE IF v = 2 THEN CmdBody2(data, resp) ELSE CmdBody3(data, resp)) \in Seq(Int)
<1>1. CmdBody3(data, resp) \in Seq(Int)
  <2>1. PICK n \in Nat : n = Len(data)
    BY LenProperties
  <2>2. IsBody(CmdBody3(data, resp), data, n, resp)
    BY <2>1, BodyOfCommand, Zenon
  <2>3. QED
    BY <2>2, Zenon DEF IsBody
<1>2. CmdBody2(data, resp) \in Seq(Int)
  <2>1. CASE data = <<>>
    BY <2>1, EmptySeq, Zenon DEF CmdBody2
  <2>2. CASE data # <<>>
    <3>1. PICK n \in Nat : n = Len(data) /\ n # 0
      BY <2>2
    <3>2. IsBody2(CmdBody2(data, resp), data, n, resp)
      BY <3>1, BodyOfCommand2, Zenon
    <3>3. QED
      BY <3>2, Zenon DEF IsBody2
  <2>3. QED
    BY <2>1, <2>2
<1>3. QED
  BY <1>1, <1>2, Zenon

\* Every request begins with the version and the type of its operation.
LEMMA RequestBegins ==
    ASSUME NEW c, CallFits(c)
    PROVE  Begins(RequestOf(c), c.ver, TypeOf(c))
<1>1. c.op \in Ops /\ c.ver \in 1 .. 3 /\ c.dev \in Identifiers /\ c.data \in Seq(Int) /\ c.resp \in Int
  <2>1. c.resp \in Nat
    BY Zenon DEF CallFits
  <2>2. QED
    BY <2>1, NamedAreIdentifiers DEF CallFits
<1>2. PICK op : op = c.op
  BY Zenon
<1>3. CASE op = "open"
  <2>1. RequestOf(c) = ClientRequest(c.ver, "open_req", c.dev, <<>>)
    BY <1>2, <1>3, Zenon DEF RequestOf, CreateOpenRequest
  <2>2. TypeOf(c) = Code(c.ver)["open_req"]
    BY <1>2, <1>3, Kinds, Zenon DEF TypeOf
  <2>3. QED
    BY <1>1, <2>1, <2>2, DeviceRequestBegins, EmptySeq, Zenon
<1>4. CASE op = "close"
  <2>1. RequestOf(c) = ClientRequest(c.ver, "close_req", c.dev, <<>>)
    BY <1>2, <1>4, Zenon DEF RequestOf, CreateCloseRequest
  <2>2. TypeOf(c) = Code(c.ver)["close_req"]
    BY <1>2, <1>4, Kinds, Zenon DEF TypeOf
  <2>3. QED
    BY <1>1, <2>1, <2>2, DeviceRequestBegins, EmptySeq, Zenon
<1>5. CASE op = "command"
  <2>1. PICK body : body = IF c.ver = 1 THEN c.data ELSE IF c.ver = 2 THEN CmdBody2(c.data, c.resp)
                           ELSE CmdBody3(c.data, c.resp)
    BY Zenon
  <2>2. RequestOf(c) = ClientRequest(c.ver, "cmd_req", c.dev, body)
    BY <1>2, <1>5, <2>1, Zenon DEF RequestOf, CreateCmdRequest
  <2>3. TypeOf(c) = Code(c.ver)["cmd_req"]
    BY <1>2, <1>5, Kinds, Zenon DEF TypeOf
  <2>4. body \in Seq(Int)
    BY <1>1, <2>1, CommandBodyIs, Zenon
  <2>5. QED
    BY <1>1, <2>2, <2>3, <2>4, DeviceRequestBegins, Zenon
<1>6. CASE op = "enumerate"
  <2>1. RequestOf(c) = CreateEnumRequest(c.ver)
    BY <1>2, <1>6, Zenon DEF RequestOf
  <2>2. TypeOf(c) = Code(c.ver)["enum_req"]
    BY <1>2, <1>6, Kinds, Zenon DEF TypeOf
  <2>3. QED
    BY <1>1, <2>1, <2>2, EnumRequestBegins, Zenon
<1>7. CASE op = "version"
  <2>1. c.ver = 3
    BY <1>2, <1>7, Zenon DEF CallFits
  <2>2. RequestOf(c) = ExtendedRequest("ver_req", Serial(0), <<>>)
    BY <1>2, <1>7, <2>1, Zenon DEF RequestOf, CreateVersionRequest
  <2>3. IsExtended(ExtendedRequest("ver_req", Serial(0), <<>>), Code3["ver_req"], <<0, 0, 0>>, <<>>)
    BY PlainExtendedIs, Zenon
  <2>4. TypeOf(c) = Code(c.ver)["ver_req"]
    BY <1>2, <1>7, Kinds, Zenon DEF TypeOf
  <2>5. Code(c.ver) = Code3
    BY <2>1, SMT DEF Code
  <2>6. QED
    BY <2>1, <2>2, <2>3, <2>4, <2>5, Zenon DEF IsExtended, Begins
<1>8. CASE op = "other"
  <2>1. RequestOf(c) = <<c.ver, 9, 0, 0, 0, 0>>
    BY <1>2, <1>8, Zenon DEF RequestOf
  <2>2. TypeOf(c) = 9
    BY <1>2, <1>8, Zenon DEF TypeOf
  <2>3. PICK v \in Int : v = c.ver
    BY <1>1
  <2>4. Begins(<<v, 9, 0, 0, 0, 0>>, v, 9)
    BY DEF Begins
  <2>5. QED
    BY <2>1, <2>2, <2>3, <2>4, Zenon
<1>9. QED
  BY <1>1, <1>2, <1>3, <1>4, <1>5, <1>6, <1>7, <1>8, Zenon DEF Ops

\* What the server has of a request of four words at least.
IsReceived(r, c) ==
    /\ r \in Seq(Int) /\ r[1] = c.ver /\ r[2] = TypeOf(c)
    /\ \E k \in Nat : k >= 4 /\ k = Len(r) /\ k <= Len(RequestOf(c)) /\ r = SubSeq(RequestOf(c), 1, k)

\* The start of the request that the client made.
LEMMA RequestIsReceived ==
    ASSUME NEW c, CallFits(c), NEW r, IsRequest(r, c), Len(r) >= 4
    PROVE  IsReceived(r, c)
<1>1. PICK k \in 0 .. Len(RequestOf(c)) : r = SubSeq(RequestOf(c), 1, k)
  BY Zenon DEF IsRequest
<1>2. k \in Nat /\ k <= Len(RequestOf(c)) /\ r = SubSeq(RequestOf(c), 1, k)
  <2>1. Len(RequestOf(c)) \in Nat
    <3>1. RequestOf(c) \in Seq(Int)
      BY RequestBegins, Zenon DEF Begins
    <3>2. QED
      BY <3>1, LenProperties
  <2>2. QED
    BY <1>1, <2>1
<1>3. PICK p : p = RequestOf(c)
  BY Zenon
<1>4. Begins(p, c.ver, TypeOf(c))
  BY <1>3, RequestBegins, Zenon
<1>5. p \in Seq(Int)
  BY <1>4, Zenon DEF Begins
<1>6. IsStart(r, p, k)
  BY <1>2, <1>3, <1>5, StartOf, Zenon
<1>7. r \in Seq(Int) /\ Len(r) = k
  BY <1>6, Zenon DEF IsStart
<1>8. k >= 4
  BY <1>7
<1>9. 1 \in 1 .. k /\ 2 \in 1 .. k
  BY <1>8
<1>10. r[1] = p[1] /\ r[2] = p[2]
  BY <1>6, <1>9, Zenon DEF IsStart
<1>11. p # <<>>
  BY <1>2, <1>3, <1>8
<1>12. QED
  BY <1>2, <1>4, <1>7, <1>8, <1>10, <1>11, Zenon DEF Begins, IsReceived

\* The type of a packet tells the operation.
LEMMA TypeTellsOp ==
    ASSUME NEW c, CallFits(c), c.ver \in {2, 3}, c.op = "enumerate" => c.ver = 3
    PROVE  /\ TypeOf(c) = Code(c.ver)["open_req"] => c.op = "open"
           /\ TypeOf(c) = Code(c.ver)["close_req"] => c.op = "close"
           /\ TypeOf(c) = Code(c.ver)["cmd_req"] => c.op = "command"
           /\ c.ver = 3 /\ TypeOf(c) = Code3["enum_req"] => c.op = "enumerate"
           /\ c.ver = 3 /\ TypeOf(c) = Code3["ver_req"] => c.op = "version"
<1>1. c.op \in Ops /\ (c.op = "version" => c.ver = 3)
  BY Zenon DEF CallFits
<1>2. CASE c.ver = 2
  BY <1>1, <1>2 DEF TypeOf, KindOf, Code, Code2, Ops
<1>3. CASE c.ver = 3
  BY <1>1, <1>3 DEF TypeOf, KindOf, Code, Code3, Ops
<1>4. QED
  BY <1>2, <1>3

\* The device that the server is asked for: its serial alone in protocol 2.
MeantDevice(c) == IF c.ver = 3 THEN c.dev ELSE Serial(c.dev.id)
ParseOf(r) == IF r[1] = 2 THEN GetRequest2(r) ELSE GetRequest3(r)

\* Natural numbers are integers.
LEMMA NatIsInt == \A n \in Nat : n \in Int
OBVIOUS

\* A request for a device that is taken asks for the caller's.
LEMMA DeviceIsMeant ==
    ASSUME NEW c, CallFits(c), NEW r, IsReceived(r, c), c.ver \in {2, 3},
           c.op \in {"open", "close", "command"}, r[1] = 3 => ParseOf(r).ok
    PROVE  ParseOf(r).dev = MeantDevice(c)
<1>1. /\ c.dev \in Identifiers /\ c.data \in Seq(Int) /\ c.resp \in Int /\ c.ver \in 1 .. 3
      /\ r \in Seq(Int) /\ r[1] = c.ver
  BY NamedAreIdentifiers, NatIsInt, Zenon DEF CallFits, IsReceived
<1>2. PICK k \in Nat : k >= 4 /\ k = Len(r) /\ k <= Len(RequestOf(c)) /\ r = SubSeq(RequestOf(c), 1, k)
  BY Zenon DEF IsReceived
<1>3. PICK kind, body : /\ kind = KindOf(c.op)
                        /\ body = IF c.op = "command"
                                  THEN IF c.ver = 1 THEN c.data ELSE IF c.ver = 2 THEN CmdBody2(c.data, c.resp)
                                       ELSE CmdBody3(c.data, c.resp)
                                  ELSE <<>>
  BY Zenon
<1>4. kind \in {"open_req", "close_req", "cmd_req"} /\ body \in Seq(Int) /\ (kind = "cmd_req" \/ body = <<>>)
  <2>1. CASE c.op = "command"
    <3>1. body \in Seq(Int)
      BY <1>1, <1>3, <2>1, CommandBodyIs, Zenon
    <3>2. QED
      BY <1>3, <2>1, <3>1, Kinds, Zenon
  <2>2. CASE c.op \in {"open", "close"}
    <3>1. body = <<>>
      BY <1>3, <2>2
    <3>2. kind \in {"open_req", "close_req"}
      BY <1>3, <2>2, Kinds, Zenon
    <3>3. QED
      BY <3>1, <3>2, EmptySeq, Zenon
  <2>3. QED
    BY <2>1, <2>2
<1>5. RequestOf(c) = ClientRequest(c.ver, kind, c.dev, body)
  <2>1. CASE c.op = "command"
    BY <1>3, <2>1, Kinds, Zenon DEF RequestOf, CreateCmdRequest
  <2>2. CASE c.op = "open"
    <3>1. body = <<>>
      BY <1>3, <2>2
    <3>2. QED
      BY <1>3, <2>2, <3>1, Kinds, Zenon DEF RequestOf, CreateOpenRequest
  <2>3. CASE c.op = "close"
    <3>1. body = <<>>
      BY <1>3, <2>3
    <3>2. QED
      BY <1>3, <2>3, <3>1, Kinds, Zenon DEF RequestOf, CreateCloseRequest
  <2>4. QED
    BY <2>1, <2>2, <2>3
<1>6. PICK p : p = RequestOf(c)
  BY Zenon
<1>7. CASE c.ver = 3
  <2>1. p = ExtendedRequest(kind, c.dev, body)
    BY <1>5, <1>6, <1>7, Zenon DEF ClientRequest
  <2>2. IsExtended(p, Code3[kind], IdWords(c.dev), body)
    BY <1>1, <1>4, <2>1, ExtendedRequestIs, Zenon
  <2>3. p \in Seq(Int)
    BY <2>2, Zenon DEF IsExtended
  <2>4. IsStart(r, p, k)
    BY <1>2, <1>6, <2>3, StartOf, Zenon
  <2>5. ParseOf(r) = GetRequest3(r) /\ GetRequest3(r).ok
    <3>1. r[1] = 3 /\ ~(r[1] = 2)
      BY <1>1, <1>7
    <3>2. QED
      BY <3>1, Zenon DEF ParseOf
  <2>6. IsTaken3(r, GetRequest3(r))
    BY <1>1, <2>5, Request3Taken, Zenon
  <2>7. GetRequest3(r).dev = IdOf(<<r[4], r[5], r[6]>>) /\ Len(r) >= 7
    BY <2>6, Zenon DEF IsTaken3
  <2>8. k >= 6
    BY <1>2, <2>7
  <2>9. IdOf(<<r[4], r[5], r[6]>>) = c.dev
    BY <1>1, <2>2, <2>4, <2>8, DeviceOfHeader, Zenon
  <2>10. QED
    BY <1>7, <2>5, <2>7, <2>9, Zenon DEF MeantDevice
<1>8. CASE c.ver = 2
  <2>1. p = SerialRequest(2, kind, c.dev, body)
    <3>1. ~(c.ver = 3)
      BY <1>8
    <3>2. QED
      BY <1>5, <1>6, <1>8, <3>1, Zenon DEF ClientRequest
  <2>2. 2 \in {1, 2}
    OBVIOUS
  <2>3. IsPlain(p, 2, Code(2)[kind], c.dev.id, body)
    BY <1>1, <1>4, <2>1, <2>2, PlainRequestIs, Zenon
  <2>4. p \in Seq(Int) /\ p[4] = c.dev.id
    BY <2>3, Zenon DEF IsPlain
  <2>5. IsStart(r, p, k)
    BY <1>2, <1>6, <2>4, StartOf, Zenon
  <2>6. 4 \in 1 .. k
    BY <1>2
  <2>7. r[4] = c.dev.id
    BY <2>4, <2>5, <2>6, Zenon DEF IsStart
  <2>8. ParseOf(r) = GetRequest2(r)
    BY <1>1, <1>8, Zenon DEF ParseOf
  <2>9. GetRequest2(r).dev = Serial(r[4])
    BY SMT DEF GetRequest2, Request
  <2>10. ~(c.ver = 3)
    BY <1>8
  <2>11. QED
    BY <2>7, <2>8, <2>9, <2>10, Zenon DEF MeantDevice
<1>9. QED
  BY <1>7, <1>8

\* A command that is taken has the caller's data and length: whole ones in protocol 2, all
\* in protocol 3.
LEMMA CommandIsMeant ==
    ASSUME NEW c, CallFits(c), NEW r, IsReceived(r, c), IsRequest(r, c), c.op = "command",
           \/ c.ver = 3 /\ ParseOf(r).ok
           \/ c.ver = 2 /\ ~c.own /\ c.data # <<>>
    PROVE  /\ ParseOf(r).data = c.data
           /\ ParseOf(r).resp = c.resp - (IF c.ver = 3 THEN 0 ELSE 4)
<1>1. /\ c.dev \in Identifiers /\ c.data \in Seq(Int) /\ c.resp \in Int
      /\ r \in Seq(Int) /\ r[1] = c.ver
  BY NamedAreIdentifiers, NatIsInt, Zenon DEF CallFits, IsReceived
<1>2. PICK k \in Nat : k >= 4 /\ k = Len(r) /\ k <= Len(RequestOf(c)) /\ r = SubSeq(RequestOf(c), 1, k)
  BY Zenon DEF IsReceived
<1>3. RequestOf(c) = CreateCmdRequest(c.ver, c.dev, c.data, c.resp)
  BY Zenon DEF RequestOf
<1>4. CASE c.ver = 3 /\ ParseOf(r).ok
  <2>1. ParseOf(r) = GetRequest3(r)
    <3>1. ~(r[1] = 2)
      BY <1>1, <1>4
    <3>2. QED
      BY <3>1, Zenon DEF ParseOf
  <2>2. IsMeant(GetRequest3(r), c.dev, c.data, c.resp)
    BY <1>1, <1>2, <1>3, <1>4, <2>1, CommandArrivesOrIsRefused, Zenon
  <2>3. c.resp - 0 = c.resp
    BY <1>1
  <2>4. QED
    BY <1>4, <2>1, <2>2, <2>3, Zenon DEF IsMeant
<1>5. CASE c.ver = 2 /\ ~c.own /\ c.data # <<>>
  <2>1. ParseOf(r) = GetRequest2(r)
    BY <1>1, <1>5, Zenon DEF ParseOf
  <2>2. r = CreateCmdRequest(2, c.dev, c.data, c.resp)
    BY <1>3, <1>5, Zenon DEF IsRequest
  <2>3. GetRequest2(r) = Request(TRUE, 0, Code2.cmd_req, Serial(c.dev.id), c.data, c.resp - 4)
    BY <1>1, <1>5, <2>2, Command2Arrives, Zenon
  <2>4. ~(c.ver = 3)
    BY <1>5
  <2>5. GetRequest2(r).data = c.data /\ GetRequest2(r).resp = c.resp - 4
    BY <2>3, SMT DEF Request
  <2>6. QED
    BY <2>1, <2>4, <2>5, Zenon
<1>6. QED
  BY <1>4, <1>5

\* Lengths of a byte reach the serial layer as they are.
LEMMA ShortData ==
    ASSUME NEW data \in Seq(Int), Bytes(data) < 256
    PROVE  SubSeq(data, 1, Uint8(Bytes(data)) \div 4) = data
<1>1. PICK n \in Nat : n = Len(data) /\ 4 * n < 256 /\ Bytes(data) = 4 * n
  BY DEF Bytes
<1>2. Uint8(4 * n) \div 4 = n
  BY <1>1, SMT DEF Uint8
<1>3. SubSeq(data, 1, n) = data
  BY <1>1, WholeSeq, Zenon
<1>4. QED
  BY <1>1, <1>2, <1>3, Zenon

\* The same with the identifier of the command in front.
LEMMA ShortTail ==
    ASSUME NEW data \in Seq(Int), data # <<>>, Bytes(Tail(data)) < 256
    PROVE  <<data[1]>> \o SubSeq(data, 2, 1 + Uint8(Bytes(Tail(data))) \div 4) = data
<1>1. PICK m \in Nat : Len(data) = m + 1
  <2>1. Len(data) - 1 \in Nat /\ Len(data) = (Len(data) - 1) + 1
    OBVIOUS
  <2>2. QED
    BY <2>1, Zenon
<1>2. Bytes(Tail(data)) = 4 * m /\ 4 * m < 256
  BY <1>1 DEF Bytes
<1>3. Uint8(4 * m) \div 4 = m
  BY <1>2, SMT DEF Uint8
<1>4. PICK lo \in Int, hi \in Int : lo = 2 /\ hi = 1 + m
  OBVIOUS
<1>5. \A i \in lo .. hi : data[i] \in Int
  <2>1. \A i \in lo .. hi : i \in 1 .. Len(data)
    BY <1>1, <1>4
  <2>2. QED
    BY <2>1, ElementOfSeq, Zenon
<1>6. PICK q, a : q = SubSeq(data, lo, hi) /\ a = <<data[1]>>
  BY Zenon
<1>7. /\ q \in Seq(Int) /\ Len(q) = (IF lo <= hi THEN hi - lo + 1 ELSE 0)
      /\ \A i \in 1 .. hi - lo + 1 : q[i] = data[lo + i - 1]
  BY <1>5, <1>6, SubSeqProperties
<1>8. Len(q) = m /\ \A i \in 1 .. m : q[i] = data[1 + i]
  BY <1>4, <1>7
<1>9. a \in Seq(Int) /\ Len(a) = 1 /\ a[1] = data[1] /\ 1 \in Nat
  <2>1. 1 \in 1 .. Len(data)
    BY <1>1
  <2>2. data[1] \in Int
    BY <2>1, ElementOfSeq
  <2>3. QED
    BY <1>6, <2>2
<1>10. PICK s : s = a \o q
  BY Zenon
<1>11. s \in Seq(Int) /\ HasParts(s, a, 1, q, m)
  BY <1>7, <1>8, <1>9, <1>10, JoinParts, Zenon
<1>12. Len(s) = 1 + m /\ s[1] = a[1] /\ \A i \in 1 .. m : s[1 + i] = q[i]
  BY <1>11 DEF HasParts
<1>13. ASSUME NEW i \in 1 .. m + 1 PROVE s[i] = data[i]
  <2>1. CASE i = 1
    BY <1>9, <1>12, <2>1
  <2>2. CASE i # 1
    <3>1. i - 1 \in 1 .. m /\ 1 + (i - 1) = i
      BY <2>2
    <3>2. QED
      BY <1>8, <1>12, <3>1
  <2>3. QED
    BY <2>1, <2>2
<1>14. s = data
  BY <1>1, <1>11, <1>12, <1>13, SeqEqual
<1>15. QED
  BY <1>2, <1>3, <1>4, <1>6, <1>10, <1>14, Zenon

-----------------------------------------------------------------------------
(* The invariant: what the server knows of the call it answers.            *)

ConnFits == conn # None => conn.ver \in 1 .. 3 /\ conn.dev \in Named
ListFits == /\ listed \in Seq(PortIdsOf(mode)) /\ DOMAIN uris = DOMAIN listed
            /\ \A i \in DOMAIN listed : uris[i] = UriOf(Host, listed[i])
PeerFits == mode \in Modes /\ plugged \in Seq(Ports) /\ ConnFits /\ ListFits

CallIsFit == pc # "idle" => CallFits(call)
ReqFits == pc = "sent" => IsRequest(req, call)
FromFits == pc # "idle" /\ call.from > 0 => call.from \in DOMAIN listed /\ call.dev = listed[call.from]
EnumFits ==
    pc = "answered" /\ call.op = "enumerate" /\ ans # <<>> /\ ~AnotherVersion =>
        /\ call.ver = 3 /\ done.devs \in Seq(PortIdsOf(mode))
        /\ ans = CreateEnumResponse(done.devs)
SentFits == PeerFits /\ CallIsFit /\ ReqFits /\ FromFits /\ EnumFits

\* The simulator asks no table.
NothingAsked == asked = None /\ done \in {None, NoVal}

Core == SentFits /\ AskedIsMeant /\ EnumeratedIsOpened
WireInv == IF peer = 0 THEN Core ELSE NothingAsked

\* The invariant holds in the initial states.
LEMMA InitWireInv == Init => WireInv
<1> SUFFICES ASSUME Init PROVE WireInv
  OBVIOUS
<1>1. pc = "idle" /\ asked = None /\ done = None /\ conn = None /\ uris = <<>> /\ listed = <<>>
  BY Zenon DEF Init
<1>2. CASE peer = 0
  <2>1. mode \in Modes /\ plugged \in PortLists
    BY <1>2, Zenon DEF Init
  <2>2. plugged \in Seq(Ports)
    BY <2>1, ConstantsAssumption, Zenon DEF ConstantsAssumption
  <2>3. ConnFits /\ CallIsFit /\ ReqFits /\ FromFits /\ EnumFits
    BY <1>1 DEF ConnFits, CallIsFit, ReqFits, FromFits, EnumFits
  <2>4. ListFits
    BY <1>1 DEF ListFits
  <2>5. AskedIsMeant /\ EnumeratedIsOpened
    BY <1>1 DEF AskedIsMeant, EnumeratedIsOpened
  <2>6. QED
    BY <1>2, <2>1, <2>2, <2>3, <2>4, <2>5, Zenon DEF WireInv, Core, SentFits, PeerFits
<1>3. CASE peer # 0
  BY <1>1, <1>3, Zenon DEF WireInv, NothingAsked
<1>4. QED
  BY <1>2, <1>3

\* Whatever the caller calls for.
LEMMA CallMade ==
    ASSUME SentFits, NEW c, NEW packet, Call(c, packet), PeerFits', CallFits(c), IsRequest(packet, c),
           c.from > 0 => c.from \in DOMAIN listed' /\ c.dev = listed'[c.from]
    PROVE  Core'
<1>1. call' = c /\ req' = packet /\ asked' = None /\ pc' \in {"sent", "idle"}
  BY DEF Call
<1>2. CallIsFit' /\ ReqFits'
  BY <1>1, Zenon DEF CallIsFit, ReqFits
<1>3. FromFits' /\ EnumFits'
  BY <1>1 DEF FromFits, EnumFits
<1>4. AskedIsMeant' /\ EnumeratedIsOpened'
  BY <1>1 DEF AskedIsMeant, EnumeratedIsOpened
<1>5. QED
  BY <1>2, <1>3, <1>4, Zenon DEF Core, SentFits

\* Whatever the server answers.
LEMMA AnswerMade ==
    ASSUME SentFits, pc = "sent", NEW a, NEW d, NEW packet, Answer(a, d, packet),
           EnumFits', AskedIsMeant', EnumeratedIsOpened'
    PROVE  Core'
<1>1. UNCHANGED <<peer, mode, plugged, conn, uris, listed, call>> /\ pc' = "answered"
  BY DEF Answer, here
<1>2. PeerFits'
  BY <1>1 DEF SentFits, PeerFits, ConnFits, ListFits
<1>3. CallIsFit' /\ FromFits'
  <2>1. CallFits(call)
    BY DEF SentFits, CallIsFit
  <2>2. CallIsFit'
    BY <1>1, <2>1, Zenon DEF CallIsFit
  <2>3. FromFits'
    BY <1>1 DEF SentFits, FromFits
  <2>4. QED
    BY <2>2, <2>3
<1>4. ReqFits'
  BY <1>1 DEF ReqFits
<1>5. QED
  BY <1>2, <1>3, <1>4, Zenon DEF Core, SentFits

\* Whatever the caller is returned.
LEMMA Returned ==
    ASSUME Core, NEW r, Return(r), PeerFits'
    PROVE  Core'
<1>1. pc' = "idle" /\ UNCHANGED <<call, asked>>
  BY DEF Return
<1>2. CallIsFit' /\ ReqFits' /\ FromFits' /\ EnumFits' /\ EnumeratedIsOpened'
  BY <1>1 DEF CallIsFit, ReqFits, FromFits, EnumFits, EnumeratedIsOpened
<1>3. AskedIsMeant'
  BY <1>1 DEF Core, AskedIsMeant, Fits
<1>4. QED
  BY <1>2, <1>3, Zenon DEF Core, SentFits

\* What the server has before it answers.
LEMMA ReceivedIs ==
    ASSUME SentFits, Received
    PROVE  /\ pc = "sent" /\ CallFits(call) /\ IsRequest(req, call) /\ IsReceived(req, call)
           /\ req[1] = call.ver /\ req[2] = TypeOf(call) /\ Parsed = ParseOf(req)
           /\ call.op = "enumerate" => call.ver # 2
<1>1. pc = "sent" /\ Len(req) >= 4
  BY Zenon DEF Received
<1>2. CallFits(call) /\ IsRequest(req, call)
  BY <1>1, Zenon DEF SentFits, CallIsFit, ReqFits
<1>3. IsReceived(req, call)
  BY <1>1, <1>2, RequestIsReceived, Zenon
<1>4. req[1] = call.ver /\ req[2] = TypeOf(call)
  BY <1>3, Zenon DEF IsReceived
<1>5. Parsed = ParseOf(req)
  BY Zenon DEF Parsed, ParseOf
<1>6. ASSUME call.op = "enumerate", call.ver = 2 PROVE FALSE
  <2>1. RequestOf(call) = <<>>
    BY <1>6 DEF RequestOf, CreateEnumRequest
  <2>2. \E k \in Nat : k >= 4 /\ k <= Len(RequestOf(call))
    BY <1>3, Zenon DEF IsReceived
  <2>3. QED
    BY <2>1, <2>2
<1>7. QED
  BY <1>1, <1>2, <1>3, <1>4, <1>5, <1>6, Zenon

\* A request that is taken for one of a kind is one of that kind.
LEMMA ReceivedKind ==
    ASSUME SentFits, NEW kind, ReceivedOf(kind)
    PROVE  /\ call.ver \in {2, 3} /\ (call.ver = 3 => Parsed.ok)
           /\ kind = "open_req" => call.op = "open"
           /\ kind = "close_req" => call.op = "close"
           /\ kind = "cmd_req" => call.op = "command"
           /\ kind = "enum_req" => call.op = "enumerate" /\ call.ver = 3
           /\ kind = "ver_req" => call.op = "version" /\ call.ver = 3
<1>1. /\ Received /\ req[1] \in {2, 3} /\ kind \in DOMAIN Code(req[1])
      /\ req[2] = Code(req[1])[kind] /\ (req[1] = 3 => Parsed.ok)
  BY Zenon DEF ReceivedOf
<1>2. /\ CallFits(call) /\ req[1] = call.ver /\ req[2] = TypeOf(call)
      /\ call.op = "enumerate" => call.ver # 2
  BY <1>1, ReceivedIs, Zenon
<1>3. call.ver \in {2, 3} /\ (call.op = "enumerate" => call.ver = 3)
  BY <1>1, <1>2
<1>4. kind \in {"enum_req", "ver_req"} => call.ver = 3
  <2>1. kind \notin DOMAIN Code2 \/ kind \notin {"enum_req", "ver_req"}
    BY DEF Code2
  <2>2. call.ver = 2 => Code(call.ver) = Code2
    BY SMT DEF Code
  <2>3. QED
    BY <1>1, <1>2, <1>3, <2>1, <2>2
<1>5. call.ver = 3 => Code(call.ver) = Code3
  BY SMT DEF Code
<1>6. TypeOf(call) = Code(call.ver)[kind]
  BY <1>1, <1>2, Zenon
<1>7. QED
  BY <1>1, <1>2, <1>3, <1>4, <1>5, <1>6, TypeTellsOp, Zenon

-----------------------------------------------------------------------------
(* The steps of the server.                                                *)

\* An answer for which nothing was asked.
LEMMA NothingAskedFor ==
    ASSUME SentFits, pc = "sent", NEW d, NEW packet, Answer(None, d, packet),
           packet = <<>> \/ packet[1] % 256 # call.ver \/ call.op # "enumerate"
    PROVE  Core'
<1>1. asked' = None /\ call' = call /\ ans' = packet
  BY DEF Answer
<1>2. AskedIsMeant' /\ EnumeratedIsOpened'
  <2>1. None.op # "open"
    BY DEF None
  <2>2. QED
    BY <1>1, <2>1 DEF AskedIsMeant, EnumeratedIsOpened
<1>3. EnumFits'
  BY <1>1 DEF EnumFits, AnotherVersion
<1>4. QED
  BY <1>2, <1>3, AnswerMade, Zenon

\* An error packet is of protocol 3.
LEMMA ErrorIs ==
    ASSUME NEW err \in Int
    PROVE  IsExtended(CreateErrorResponse(err), Code3["error_resp"], IdWords(NoDevice), <<err>>)
<1>1. IdWords(NoDevice) \in Seq(Int) /\ Len(IdWords(NoDevice)) = 3 /\ Code3["error_resp"] \in Int
  BY NoDeviceIs, IdentifierSurvives DEF Code3
<1>2. <<err>> \in Seq(Int)
  OBVIOUS
<1>3. CreateErrorResponse(err) = <<3, Code3["error_resp"], 0>> \o IdWords(NoDevice) \o <<0, 0>> \o <<err>>
  <2>1. \A a, b, c : (CASE "error_resp" = "cmd_resp" -> a [] "error_resp" = "enum_resp" -> b
                      [] "error_resp" = "ver_resp" -> c [] OTHER -> <<err>>) = <<err>>
    BY SMT
  <2>2. QED
    BY <2>1 DEF CreateErrorResponse, ServerResponse3
<1>4. QED
  BY <1>1, <1>2, <1>3, ExtendedHeader, Zenon

\* A refusal asks the table nothing.
LEMMA RefusalKeeps == ASSUME SentFits, ServerRefuses PROVE Core'
<1>1. /\ Received
      /\ \/ req[1] \notin {2, 3} /\ Answer(None, NoVal, CreateErrorResponse(ERR_NO_PROTOCOL))
         \/ req[1] = 3 /\ ~Parsed.ok /\ Answer(None, NoVal, CreateErrorResponse(Parsed.err))
  BY Zenon DEF ServerRefuses
<1>2. /\ pc = "sent" /\ req[1] = call.ver /\ CallFits(call) /\ IsRequest(req, call)
      /\ IsReceived(req, call) /\ req[2] = TypeOf(call) /\ Parsed = ParseOf(req)
  BY <1>1, ReceivedIs, Zenon
<1>3. CASE req[1] \notin {2, 3} /\ Answer(None, NoVal, CreateErrorResponse(ERR_NO_PROTOCOL))
  <2>1. ERR_NO_PROTOCOL \in Int
    BY DEF ERR_NO_PROTOCOL
  <2>2. CreateErrorResponse(ERR_NO_PROTOCOL)[1] = 3
    BY <2>1, ErrorIs, Zenon DEF IsExtended
  <2>3. 3 % 256 = 3 /\ call.ver # 3
    BY <1>2, <1>3, SMT
  <2>4. CreateErrorResponse(ERR_NO_PROTOCOL)[1] % 256 # call.ver
    BY <2>2, <2>3
  <2>5. QED
    BY <1>2, <1>3, <2>4, NothingAskedFor, Zenon
<1>4. CASE req[1] = 3 /\ ~Parsed.ok /\ Answer(None, NoVal, CreateErrorResponse(Parsed.err))
  <2>1. ASSUME call.op = "enumerate" PROVE FALSE
    <3>1. Parsed = GetRequest3(req)
      <4>1. ~(req[1] = 2)
        BY <1>4
      <4>2. QED
        BY <4>1, Zenon DEF Parsed
    <3>2. req \in Seq(Int)
      BY <1>2, Zenon DEF IsReceived
    <3>3. req[2] = Code3.enum_req
      <4>1. req[2] = Code(3)["enum_req"]
        BY <1>2, <1>4, <2>1, Kinds, Zenon DEF TypeOf
      <4>2. QED
        BY <4>1 DEF Code
    <3>4. Len(req) >= 7
      <4>1. req = RequestOf(call)
        BY <1>2, <2>1, Zenon DEF IsRequest, CallFits
      <4>2. RequestOf(call) = CreateEnumRequest(3)
        BY <1>2, <1>4, <2>1, Zenon DEF RequestOf
      <4>3. ~(3 = 2)
        OBVIOUS
      <4>4. CreateEnumRequest(3) = ExtendedRequest("enum_req", Serial(0), <<>>)
        BY <4>3, Zenon DEF CreateEnumRequest, ClientRequest
      <4>5. IsExtended(req, Code3["enum_req"], <<0, 0, 0>>, <<>>)
        BY <4>1, <4>2, <4>4, PlainExtendedIs, Zenon
      <4>6. Len(req) = 8 + Len(<<>>)
        BY <4>5, Zenon DEF IsExtended
      <4>7. QED
        BY <4>6
    <3>5. GetRequest3(req).ok
      BY <3>2, <3>3, <3>4, HeaderIsEnough, Zenon
    <3>6. QED
      BY <1>4, <3>1, <3>5, Zenon
  <2>2. QED
    BY <1>2, <1>4, <2>1, NothingAskedFor, Zenon
<1>5. QED
  BY <1>1, <1>3, <1>4, Zenon

\* An open asks for the device that the caller meant.
LEMMA OpenKeeps == ASSUME SentFits, ServerOpens PROVE Core'
<1>1. ReceivedOf("open_req")
  BY Zenon DEF ServerOpens
<1>2. Received
  BY <1>1, Zenon DEF ReceivedOf
<1>3. /\ pc = "sent" /\ req[1] = call.ver /\ CallFits(call) /\ IsReceived(req, call) /\ Parsed = ParseOf(req)
  BY <1>2, ReceivedIs, Zenon
<1>4. call.ver \in {2, 3} /\ (call.ver = 3 => Parsed.ok) /\ call.op = "open"
  BY <1>1, ReceivedKind, Zenon
<1>5. Parsed.dev = MeantDevice(call)
  <2>1. req[1] = 3 => ParseOf(req).ok
    BY <1>3, <1>4, Zenon
  <2>2. call.op \in {"open", "close", "command"}
    BY <1>4
  <2>3. ParseOf(req).dev = MeantDevice(call)
    BY <1>3, <1>4, <2>1, <2>2, DeviceIsMeant, Zenon
  <2>4. QED
    BY <1>3, <2>3, Zenon
<1>6. PICK a, d, packet : /\ a = [op |-> "open", dev |-> Parsed.dev, port |-> PortOf(mode, plugged, Parsed.dev)]
                          /\ Answer(a, d, packet)
  BY Zenon DEF ServerOpens
<1>7. a.op = "open" /\ a.dev = MeantDevice(call) /\ a.port = PortOf(mode, plugged, MeantDevice(call))
  BY <1>5, <1>6
<1>8. asked' = a /\ UNCHANGED <<call, mode, plugged, listed>>
  BY <1>6 DEF Answer, here
<1>9. AskedIsMeant'
  <2>1. a.dev = IF call.ver = 3 THEN call.dev ELSE Serial(call.dev.id)
    BY <1>7, Zenon DEF MeantDevice
  <2>2. QED
    BY <1>4, <1>7, <1>8, <2>1 DEF AskedIsMeant
<1>10. EnumFits'
  BY <1>4, <1>8 DEF EnumFits
<1>11. EnumeratedIsOpened'
  <2>1. SUFFICES ASSUME call.from > 0
                 PROVE  LET dev == listed[call.from]
                            places == {i \in DOMAIN plugged : Matches(mode, plugged[i], dev)}
                        IN  IF call.ver = 3 \/ mode # "by_serialpidvid"
                            THEN a.dev = dev /\ a.port \in (IF places = {} THEN {0} ELSE places)
                            ELSE a.port # 0 => plugged[a.port].vid = 0 /\ plugged[a.port].pid = 0
    BY <1>8, Zenon DEF EnumeratedIsOpened
  <2>2. call.from \in DOMAIN listed /\ call.dev = listed[call.from]
    BY <1>3, <2>1 DEF SentFits, FromFits
  <2>3. plugged \in Seq(Ports) /\ mode \in Modes /\ call.dev \in PortIdsOf(mode)
    <3>1. plugged \in Seq(Ports) /\ mode \in Modes /\ listed \in Seq(PortIdsOf(mode))
      BY Zenon DEF SentFits, PeerFits, ListFits
    <3>2. call.dev \in PortIdsOf(mode)
      <4>1. DOMAIN listed = 1 .. Len(listed)
        BY <3>1, LenProperties
      <4>2. QED
        BY <2>2, <3>1, <4>1, ElementOfSeq, Zenon
    <3>3. QED
      BY <3>1, <3>2, Zenon
  <2>4. PICK asks : asks = MeantDevice(call)
    BY Zenon
  <2>5. LET places == {i \in DOMAIN plugged : Matches(mode, plugged[i], asks)}
        IN  a.port \in (IF places = {} THEN {0} ELSE places)
    BY <1>7, <2>3, <2>4, PortIsFound, Zenon
  <2>6. CASE call.ver = 3 \/ mode # "by_serialpidvid"
    <3>1. asks = call.dev
      <4>1. CASE call.ver = 3
        BY <2>4, <4>1, Zenon DEF MeantDevice
      <4>2. CASE call.ver # 3 /\ mode # "by_serialpidvid"
        <5>1. call.dev = Serial(call.dev.id)
          BY <2>3, <4>2 DEF PortIdsOf
        <5>2. QED
          BY <2>4, <4>2, <5>1, Zenon DEF MeantDevice
      <4>3. QED
        BY <2>6, <4>1, <4>2, Zenon
    <3>2. QED
      BY <1>7, <2>2, <2>4, <2>5, <2>6, <3>1, Zenon
  <2>7. CASE ~(call.ver = 3 \/ mode # "by_serialpidvid")
    <3>1. asks = Serial(call.dev.id)
      BY <2>4, <2>7, Zenon DEF MeantDevice
    <3>2. ASSUME a.port # 0 PROVE plugged[a.port].vid = 0 /\ plugged[a.port].pid = 0
      <4>1. a.port \in DOMAIN plugged /\ Matches(mode, plugged[a.port], asks)
        BY <2>5, <3>2, Zenon
      <4>2. PICK port : port = plugged[a.port]
        BY Zenon
      <4>3. GetBySerialPidVid(port) = Identified(asks)
        BY <2>7, <4>1, <4>2 DEF Matches, GetDevId
      <4>4. Identified(asks).ok /\ Identified(asks).dev = asks
        BY DEF Identified
      <4>5. GetBySerialPidVid(port) = Identified(DevId(GetBySerial(port).dev.id, port.pid, port.vid, 0))
        <5>1. ~Unidentified.ok
          BY DEF Unidentified
        <5>2. GetBySerialPidVid(port) # Unidentified
          BY <4>3, <4>4, <5>1
        <5>3. QED
          BY <5>2, Zenon DEF GetBySerialPidVid
      <4>6. DevId(GetBySerial(port).dev.id, port.pid, port.vid, 0) = asks
        BY <4>3, <4>5 DEF Identified
      <4>7. port.pid = 0 /\ port.vid = 0
        BY <3>1, <4>6 DEF Serial, DevId
      <4>8. QED
        BY <4>2, <4>7, Zenon
    <3>3. QED
      BY <2>7, <3>2, Zenon
  <2>8. QED
    BY <2>6, <2>7, Zenon
<1>12. QED
  BY <1>3, <1>6, <1>9, <1>10, <1>11, AnswerMade, Zenon

\* So does a close.
LEMMA CloseKeeps == ASSUME SentFits, ServerCloses PROVE Core'
<1>1. ReceivedOf("close_req")
  BY Zenon DEF ServerCloses
<1>2. Received
  BY <1>1, Zenon DEF ReceivedOf
<1>3. /\ pc = "sent" /\ req[1] = call.ver /\ CallFits(call) /\ IsReceived(req, call) /\ Parsed = ParseOf(req)
  BY <1>2, ReceivedIs, Zenon
<1>4. call.ver \in {2, 3} /\ (call.ver = 3 => Parsed.ok) /\ call.op = "close"
  BY <1>1, ReceivedKind, Zenon
<1>5. Parsed.dev = MeantDevice(call)
  <2>1. req[1] = 3 => ParseOf(req).ok
    BY <1>3, <1>4, Zenon
  <2>2. call.op \in {"open", "close", "command"}
    BY <1>4
  <2>3. ParseOf(req).dev = MeantDevice(call)
    BY <1>3, <1>4, <2>1, <2>2, DeviceIsMeant, Zenon
  <2>4. QED
    BY <1>3, <2>3, Zenon
<1>6. PICK a, d, packet : a = [op |-> "close", dev |-> Parsed.dev] /\ Answer(a, d, packet)
  BY Zenon DEF ServerCloses
<1>7. a.op = "close" /\ a.dev = MeantDevice(call)
  BY <1>5, <1>6
<1>8. asked' = a /\ UNCHANGED call
  BY <1>6 DEF Answer
<1>9. AskedIsMeant'
  <2>1. a.dev = IF call.ver = 3 THEN call.dev ELSE Serial(call.dev.id)
    BY <1>7, Zenon DEF MeantDevice
  <2>2. QED
    BY <1>4, <1>7, <1>8, <2>1 DEF AskedIsMeant
<1>10. EnumFits' /\ EnumeratedIsOpened'
  BY <1>4, <1>7, <1>8 DEF EnumFits, EnumeratedIsOpened
<1>11. QED
  BY <1>3, <1>6, <1>9, <1>10, AnswerMade, Zenon

\* A command asks for the device, the data and the length that the caller meant.
LEMMA CommandKeeps == ASSUME SentFits, ServerCommands PROVE Core'
<1>1. ReceivedOf("cmd_req")
  BY Zenon DEF ServerCommands
<1>2. Received
  BY <1>1, Zenon DEF ReceivedOf
<1>3. /\ pc = "sent" /\ req[1] = call.ver /\ CallFits(call) /\ IsReceived(req, call) /\ Parsed = ParseOf(req)
      /\ IsRequest(req, call)
  BY <1>2, ReceivedIs, Zenon
<1>4. call.ver \in {2, 3} /\ (call.ver = 3 => Parsed.ok) /\ call.op = "command"
  BY <1>1, ReceivedKind, Zenon
<1>5. Parsed.dev = MeantDevice(call)
  <2>1. req[1] = 3 => ParseOf(req).ok
    BY <1>3, <1>4, Zenon
  <2>2. call.op \in {"open", "close", "command"}
    BY <1>4
  <2>3. ParseOf(req).dev = MeantDevice(call)
    BY <1>3, <1>4, <2>1, <2>2, DeviceIsMeant, Zenon
  <2>4. QED
    BY <1>3, <2>3, Zenon
<1>6. PICK a, d, packet : /\ a = [op |-> "command", dev |-> Parsed.dev, data |-> Reaching(Parsed.data),
                                  resp |-> Uint8(Parsed.resp)]
                          /\ Answer(a, d, packet)
  BY Zenon DEF ServerCommands
<1>7. a.op = "command" /\ a.dev = MeantDevice(call) /\ a.data = Reaching(Parsed.data) /\ a.resp = Uint8(Parsed.resp)
  BY <1>5, <1>6
<1>8. asked' = a /\ UNCHANGED call
  BY <1>6 DEF Answer
<1>9. ASSUME Fits, call.ver = 3 \/ ~call.own
      PROVE  a.data = call.data /\ a.resp = call.resp - (IF call.ver = 3 THEN 0 ELSE 4)
  <2>1. call.data \in Seq(Int) /\ call.resp \in Nat
    BY <1>3, Zenon DEF CallFits
  <2>2. CASE call.ver = 3
    <3>1. Parsed.data = call.data /\ Parsed.resp = call.resp
      <4>1. Parsed.data = call.data /\ Parsed.resp = call.resp - (IF call.ver = 3 THEN 0 ELSE 4)
        BY <1>3, <1>4, <2>2, CommandIsMeant, Zenon
      <4>2. QED
        BY <2>1, <2>2, <4>1
    <3>2. Bytes(call.data) < 256 /\ call.resp < 256
      BY <1>9, <2>2, Zenon DEF Fits
    <3>3. Reaching(Parsed.data) = call.data
      <4>1. SubSeq(call.data, 1, Uint8(Bytes(call.data)) \div 4) = call.data
        BY <2>1, <3>2, ShortData, Zenon
      <4>2. ~(req[1] = 2)
        BY <1>3, <2>2
      <4>3. QED
        BY <3>1, <4>1, <4>2, Zenon DEF Reaching
    <3>4. Uint8(call.resp) = call.resp - 0
      <4>1. PICK n \in Nat : n = call.resp
        BY <2>1, Zenon
      <4>2. n % 256 = n
        BY <3>2, <4>1, SMT
      <4>3. QED
        BY <4>1, <4>2 DEF Uint8
    <3>5. QED
      BY <1>7, <2>2, <3>1, <3>3, <3>4, Zenon
  <2>3. CASE call.ver = 2 /\ ~call.own
    <3>1. call.data # <<>> /\ Bytes(Tail(call.data)) < 256 /\ call.resp - 4 \in 0 .. 255
      BY <1>9, <2>3, SMT DEF Fits
    <3>2. Parsed.data = call.data /\ Parsed.resp = call.resp - 4
      <4>1. Parsed.data = call.data /\ Parsed.resp = call.resp - (IF call.ver = 3 THEN 0 ELSE 4)
        BY <1>3, <1>4, <2>3, <3>1, CommandIsMeant, Zenon
      <4>2. QED
        BY <2>3, <4>1
    <3>3. Reaching(Parsed.data) = call.data
      <4>1. <<call.data[1]>> \o SubSeq(call.data, 2, 1 + Uint8(Bytes(Tail(call.data))) \div 4) = call.data
        BY <2>1, <3>1, ShortTail, Zenon
      <4>2. req[1] = 2
        BY <1>3, <2>3
      <4>3. QED
        BY <3>2, <4>1, <4>2, Zenon DEF Reaching
    <3>4. Uint8(call.resp - 4) = call.resp - 4
      <4>1. PICK m \in 0 .. 255 : m = call.resp - 4
        BY <3>1, Zenon
      <4>2. PICK n \in Nat : n = call.resp - 4 /\ n < 256
        <5>1. PICK top \in Nat : top = 255 /\ top < 256
          OBVIOUS
        <5>2. m \in 0 .. top
          BY <5>1, Zenon
        <5>3. m \in Nat /\ m < 256
          BY <5>1, <5>2
        <5>4. QED
          BY <4>1, <5>3, Zenon
      <4>3. n % 256 = n
        BY <4>2, SMT
      <4>4. QED
        BY <4>2, <4>3 DEF Uint8
    <3>5. ~(call.ver = 3)
      BY <2>3
    <3>6. QED
      BY <1>7, <3>2, <3>3, <3>4, <3>5, Zenon
  <2>4. QED
    BY <1>4, <1>9, <2>2, <2>3
<1>10. AskedIsMeant'
  <2>1. a.dev = IF call.ver = 3 THEN call.dev ELSE Serial(call.dev.id)
    BY <1>7, Zenon DEF MeantDevice
  <2>2. Fits' <=> Fits
    BY <1>8, Zenon DEF Fits
  <2>3. QED
    BY <1>4, <1>7, <1>8, <1>9, <2>1, <2>2, Zenon DEF AskedIsMeant
<1>11. EnumFits' /\ EnumeratedIsOpened'
  BY <1>4, <1>7, <1>8 DEF EnumFits, EnumeratedIsOpened
<1>12. QED
  BY <1>3, <1>6, <1>10, <1>11, AnswerMade, Zenon

\* A list has identifiers of the mode, and is written as it was made.
LEMMA EnumerationKeeps == ASSUME SentFits, ServerEnumerates PROVE Core'
<1>1. ReceivedOf("enum_req")
  BY Zenon DEF ServerEnumerates
<1>2. call.ver = 3 /\ call.op = "enumerate"
  BY <1>1, ReceivedKind, Zenon
<1>3. pc = "sent"
  BY <1>1, Zenon DEF ReceivedOf, Received
<1>4. PICK list, a, d : /\ list = DevIdVector(mode, plugged)
                        /\ a = [op |-> "enumerate", dev |-> Serial(0)]
                        /\ d = [op |-> "enumerate", devs |-> list]
                        /\ Answer(a, d, CreateEnumResponse(list))
  BY Zenon DEF ServerEnumerates
<1>5. a.op = "enumerate" /\ d.devs = list
  BY <1>4
<1>6. list \in Seq(PortIdsOf(mode))
  BY <1>4, VectorIsNamed, Zenon DEF SentFits, PeerFits
<1>7. asked' = a /\ done' = d /\ ans' = CreateEnumResponse(list) /\ UNCHANGED <<call, mode>>
  BY <1>4 DEF Answer, here
<1>8. AskedIsMeant'
  BY <1>2, <1>5, <1>7 DEF AskedIsMeant
<1>9. EnumeratedIsOpened'
  BY <1>5, <1>7 DEF EnumeratedIsOpened
<1>10. EnumFits'
  BY <1>2, <1>5, <1>6, <1>7, Zenon DEF EnumFits
<1>11. QED
  BY <1>3, <1>4, <1>8, <1>9, <1>10, AnswerMade, Zenon

\* Every step of the server.
ServerSteps == \/ ServerThrows \/ ServerRefuses \/ ServerIgnores \/ ServerOpens \/ ServerCloses
               \/ ServerCommands \/ ServerCannotHold \/ ServerTellsVersion \/ ServerEnumerates

\* Whatever the server does.
LEMMA ServerKeeps == ASSUME SentFits, ServerSteps PROVE Core'
<1>1. CASE ServerThrows
  BY <1>1, NothingAskedFor, Zenon DEF ServerThrows
<1>2. CASE ServerIgnores
  BY <1>2, NothingAskedFor, Zenon DEF ServerIgnores, Received
<1>3. CASE ServerCannotHold
  BY <1>3, NothingAskedFor, Zenon DEF ServerCannotHold, ReceivedOf, Received
<1>4. CASE ServerTellsVersion
  <2>1. ReceivedOf("ver_req")
    BY <1>4, Zenon DEF ServerTellsVersion
  <2>2. call.op = "version"
    BY <2>1, ReceivedKind, Zenon
  <2>3. call.op # "enumerate"
    BY <2>2
  <2>4. QED
    BY <1>4, <2>1, <2>3, NothingAskedFor, Zenon DEF ServerTellsVersion, ReceivedOf, Received
<1>5. QED
  BY <1>1, <1>2, <1>3, <1>4, RefusalKeeps, OpenKeeps, CloseKeeps, CommandKeeps, EnumerationKeeps, Zenon
     DEF ServerSteps

-----------------------------------------------------------------------------
(* The calls of the client.                                                *)

\* Words are integers.
LEMMA SeqOfInts == \A s \in Seq(Nat) : s \in Seq(Int)
<1>1. ASSUME NEW s \in Seq(Nat) PROVE s \in Seq(Int)
  <2>1. \A i \in 1 .. Len(s) : s[i] \in Int
    BY ElementOfSeq
  <2>2. Len(s) \in Nat /\ s = [i \in 1 .. Len(s) |-> s[i]]
    OBVIOUS
  <2>3. s \in [1 .. Len(s) -> Int]
    BY <2>1, <2>2, Zenon
  <2>4. QED
    BY <2>2, <2>3, SeqDef
<1>2. QED
  BY <1>1, Zenon

\* Calls of the client's own.
LEMMA CallIs ==
    ASSUME NEW op \in Ops \ {"enumerate", "version"}, NEW v \in 1 .. 3, NEW d \in Named,
           NEW data \in Seq(Int), NEW resp \in Nat
    PROVE  /\ CallFits(TheCall(op, v, d))
           /\ CallFits([TheCall(op, v, d) EXCEPT !.data = data, !.resp = resp])
           /\ CallFits([TheCall(op, v, d) EXCEPT !.own = TRUE])
           /\ CallFits([[TheCall(op, v, d) EXCEPT !.data = data, !.resp = resp] EXCEPT !.own = TRUE])
<1>1. op \notin {"enumerate", "version"} /\ op \in Ops /\ <<>> \in Seq(Int) /\ 0 \in Nat
  OBVIOUS
<1>2. ASSUME NEW c, c.op = op, c.ver = v, c.dev = d, c.data \in Seq(Int), c.resp \in Nat
      PROVE  CallFits(c)
  BY <1>1, <1>2, Zenon DEF CallFits
<1>3. CallFits(TheCall(op, v, d))
  BY <1>1, <1>2 DEF TheCall
<1>4. CallFits([TheCall(op, v, d) EXCEPT !.data = data, !.resp = resp])
  BY <1>1, <1>2 DEF TheCall
<1>5. CallFits([TheCall(op, v, d) EXCEPT !.own = TRUE])
  BY <1>1, <1>2 DEF TheCall
<1>6. CallFits([[TheCall(op, v, d) EXCEPT !.data = data, !.resp = resp] EXCEPT !.own = TRUE])
  BY <1>1, <1>2 DEF TheCall
<1>7. QED
  BY <1>3, <1>4, <1>5, <1>6, Zenon

\* A whole request.
LEMMA WholeRequest ==
    ASSUME NEW c, CallFits(c)
    PROVE  IsRequest(RequestOf(c), c)
<1>1. PICK p : p = RequestOf(c)
  BY Zenon
<1>2. p \in Seq(Int)
  BY <1>1, RequestBegins, Zenon DEF Begins
<1>3. PICK k \in Nat : k = Len(p)
  BY <1>2, LenProperties
<1>4. p = SubSeq(p, 1, k)
  BY <1>2, <1>3, WholeSeq, Zenon
<1>5. k \in 0 .. Len(p)
  BY <1>3
<1>6. QED
  BY <1>1, <1>4, <1>5, Zenon DEF IsRequest

\* An open of a device on the list, by its URI, or of a device of the caller.
LEMMA OpenCallKeeps == ASSUME Core, peer = 0, Open PROVE Core'
<1>1. SentFits /\ UNCHANGED <<here, conn, uris, listed>>
  BY Zenon DEF Core, Open
<1>2. PeerFits'
  BY <1>1 DEF SentFits, PeerFits, ConnFits, ListFits, here
<1>3. ASSUME NEW u, NEW from, OpenWith(u, from), DevIdOfUri(u) \in Named,
             from > 0 => from \in DOMAIN listed /\ DevIdOfUri(u) = listed[from]
      PROVE  Core'
  <2>1. PICK v \in 1 .. 3 : Call([TheCall("open", v, DevIdOfUri(u)) EXCEPT !.from = from],
                                 CreateOpenRequest(v, DevIdOfUri(u)))
    BY <1>3, Zenon DEF OpenWith
  <2>2. PICK d, c : d = DevIdOfUri(u) /\ c = [TheCall("open", v, d) EXCEPT !.from = from]
    BY Zenon
  <2>3. c.op = "open" /\ c.ver = v /\ c.dev = d /\ c.data = <<>> /\ c.resp = 0 /\ c.from = from
    BY <2>2 DEF TheCall
  <2>4. CallFits(c)
    <3>1. <<>> \in Seq(Int) /\ 0 \in Nat /\ "open" \in Ops /\ "open" # "version" /\ "open" # "enumerate"
      BY DEF Ops
    <3>2. QED
      BY <1>3, <2>2, <2>3, <3>1, Zenon DEF CallFits
  <2>5. RequestOf(c) = CreateOpenRequest(v, d)
    BY <2>3, Zenon DEF RequestOf
  <2>6. IsRequest(CreateOpenRequest(v, d), c)
    BY <2>4, <2>5, WholeRequest, Zenon
  <2>7. Call(c, CreateOpenRequest(v, d))
    BY <2>1, <2>2, Zenon
  <2>8. c.from > 0 => c.from \in DOMAIN listed' /\ c.dev = listed'[c.from]
    BY <1>1, <1>3, <2>2, <2>3, Zenon
  <2>9. QED
    BY <1>1, <1>2, <2>4, <2>6, <2>7, <2>8, CallMade, Zenon
<1>4. CASE \E i \in DOMAIN uris : OpenWith(uris[i], i)
  <2>1. PICK i \in DOMAIN uris : OpenWith(uris[i], i)
    BY <1>4
  <2>2. i \in DOMAIN listed /\ uris[i] = UriOf(Host, listed[i]) /\ listed \in Seq(PortIdsOf(mode))
    BY <1>1, <2>1, Zenon DEF SentFits, PeerFits, ListFits
  <2>3. listed[i] \in Named
    <3>1. DOMAIN listed = 1 .. Len(listed)
      BY <2>2, LenProperties
    <3>2. listed[i] \in PortIdsOf(mode)
      BY <2>2, <3>1, ElementOfSeq, Zenon
    <3>3. QED
      BY <3>2, Zenon DEF PortIdsOf
  <2>4. DevIdOfUri(uris[i]) = listed[i]
    BY <2>2, <2>3, UriNamesItsDevice, Zenon
  <2>5. QED
    BY <1>3, <2>1, <2>2, <2>3, <2>4, Zenon
<1>5. CASE \E digits \in Uris : OpenWith([host |-> Host, digits |-> digits], 0)
  <2>1. PICK digits \in Uris : OpenWith([host |-> Host, digits |-> digits], 0)
    BY <1>5
  <2>2. PICK u : u = [host |-> Host, digits |-> digits]
    BY Zenon
  <2>3. u.digits \in Seq(0 .. 15)
    <3>1. digits \in Seq(0 .. 15)
      BY ConstantsAssumption, Zenon DEF ConstantsAssumption
    <3>2. u.digits = digits
      BY <2>2
    <3>3. QED
      BY <3>1, <3>2, Zenon
  <2>4. IsUri(u)
    BY <2>1, <2>2, Zenon DEF OpenWith
  <2>5. DevIdOfUri(u) \in Named
    BY <2>3, <2>4, UriNamesOne, Zenon
  <2>6. ~(0 > 0)
    OBVIOUS
  <2>7. QED
    BY <1>3, <2>1, <2>2, <2>5, <2>6, Zenon
<1>6. QED
  BY <1>4, <1>5, Zenon DEF Open

\* Calls on a connection: from is 0, and the connection stays or goes.
LEMMA CommandCallKeeps == ASSUME Core, peer = 0, Command PROVE Core'
<1>1. SentFits /\ UNCHANGED <<here, conn, uris, listed>> /\ conn # None
  BY Zenon DEF Core, Command
<1>2. PeerFits'
  BY <1>1 DEF SentFits, PeerFits, ConnFits, ListFits, here
<1>3. PICK data \in CallData, resp \in CallResp :
        Call(CommandCall(data, resp), CreateCmdRequest(conn.ver, conn.dev, data, resp))
  BY Zenon DEF Command
<1>4. data \in Seq(Int) /\ resp \in Nat
  <2>1. data \in Seq(Nat) /\ resp \in Nat
    BY ConstantsAssumption, Zenon DEF ConstantsAssumption
  <2>2. QED
    BY <2>1, SeqOfInts, Zenon
<1>5. conn.ver \in 1 .. 3 /\ conn.dev \in Named
  BY <1>1, Zenon DEF SentFits, PeerFits, ConnFits
<1>6. PICK c : c = CommandCall(data, resp)
  BY Zenon
<1>7. /\ c.op = "command" /\ c.ver = conn.ver /\ c.dev = conn.dev /\ c.data = data /\ c.resp = resp
      /\ c.from = 0
  BY <1>6 DEF CommandCall, TheCall
<1>8. CallFits(c)
  <2>1. "command" \in Ops \ {"enumerate", "version"}
    BY DEF Ops
  <2>2. QED
    BY <1>4, <1>5, <1>6, <2>1, CallIs, Zenon DEF CommandCall
<1>9. RequestOf(c) = CreateCmdRequest(conn.ver, conn.dev, data, resp)
  BY <1>7, Zenon DEF RequestOf
<1>10. IsRequest(CreateCmdRequest(conn.ver, conn.dev, data, resp), c)
  BY <1>8, <1>9, WholeRequest, Zenon
<1>11. ~(c.from > 0)
  BY <1>7
<1>12. QED
  BY <1>1, <1>2, <1>3, <1>6, <1>8, <1>10, <1>11, CallMade, Zenon

\* A close, of the device of the connection.
LEMMA CloseCallKeeps == ASSUME Core, peer = 0, Close PROVE Core'
<1>1. SentFits /\ UNCHANGED <<here, uris, listed>> /\ conn # None /\ conn' = None
  BY Zenon DEF Core, Close
<1>2. PeerFits'
  BY <1>1 DEF SentFits, PeerFits, ConnFits, ListFits, here
<1>3. conn.ver \in 1 .. 3 /\ conn.dev \in Named
  BY <1>1, Zenon DEF SentFits, PeerFits, ConnFits
<1>4. PICK c : c = TheCall("close", conn.ver, conn.dev)
  BY Zenon
<1>5. c.op = "close" /\ c.ver = conn.ver /\ c.dev = conn.dev /\ c.from = 0
  BY <1>4 DEF TheCall
<1>6. CallFits(c)
  <2>1. "close" \in Ops \ {"enumerate", "version"} /\ <<>> \in Seq(Int) /\ 0 \in Nat
    BY DEF Ops
  <2>2. QED
    BY <1>3, <1>4, <2>1, CallIs, Zenon
<1>7. RequestOf(c) = CreateCloseRequest(conn.ver, conn.dev)
  BY <1>5, Zenon DEF RequestOf
<1>8. IsRequest(CreateCloseRequest(conn.ver, conn.dev), c)
  BY <1>6, <1>7, WholeRequest, Zenon
<1>9. ~(c.from > 0)
  BY <1>5
<1>10. Call(c, CreateCloseRequest(conn.ver, conn.dev))
  BY <1>4, Zenon DEF Close
<1>11. QED
  BY <1>1, <1>2, <1>6, <1>8, <1>9, <1>10, CallMade, Zenon

\* A caller's own part of a request.
LEMMA CutRequest ==
    ASSUME NEW c, CallFits(c), c.own, NEW k \in 1 .. Len(RequestOf(c))
    PROVE  IsRequest(Cut(RequestOf(c), k), c)
<1>1. PICK p : p = RequestOf(c)
  BY Zenon
<1>2. p \in Seq(Int)
  BY <1>1, RequestBegins, Zenon DEF Begins
<1>3. PICK n \in Nat : n = Len(p)
  BY <1>2, LenProperties
<1>4. k \in 0 .. n
  BY <1>1, <1>3
<1>5. QED
  BY <1>1, <1>3, <1>4, Zenon DEF IsRequest, Cut

\* An enumeration.
LEMMA EnumerateCallKeeps == ASSUME Core, peer = 0, Enumerate PROVE Core'
<1>1. SentFits /\ UNCHANGED <<here, conn>> /\ uris' = <<>> /\ listed' = <<>>
  BY Zenon DEF Core, Enumerate
<1>2. PeerFits'
  BY <1>1 DEF SentFits, PeerFits, ConnFits, ListFits, here
<1>3. PICK v \in 1 .. 3 : Call(TheCall("enumerate", v, Serial(0)), CreateEnumRequest(v))
  BY Zenon DEF Enumerate
<1>4. PICK c : c = TheCall("enumerate", v, Serial(0))
  BY Zenon
<1>5. /\ c.op = "enumerate" /\ c.ver = v /\ c.dev = Serial(0) /\ c.from = 0 /\ c.own = FALSE
      /\ c.data = <<>> /\ c.resp = 0
  BY <1>4 DEF TheCall
<1>6. CallFits(c)
  <2>1. <<>> \in Seq(Int) /\ 0 \in Nat /\ "enumerate" \in Ops /\ "enumerate" # "version"
    BY DEF Ops
  <2>2. QED
    BY <1>5, <2>1, NoDeviceIs, Zenon DEF CallFits
<1>7. RequestOf(c) = CreateEnumRequest(v)
  BY <1>5, Zenon DEF RequestOf
<1>8. IsRequest(CreateEnumRequest(v), c)
  BY <1>6, <1>7, WholeRequest, Zenon
<1>9. ~(c.from > 0)
  BY <1>5
<1>10. QED
  BY <1>1, <1>2, <1>3, <1>4, <1>6, <1>8, <1>9, CallMade, Zenon

\* A question for the version.
LEMMA VersionCallKeeps == ASSUME Core, peer = 0, AskVersion PROVE Core'
<1>1. SentFits /\ UNCHANGED <<here, conn, uris, listed>>
  BY Zenon DEF Core, AskVersion
<1>2. PeerFits'
  BY <1>1 DEF SentFits, PeerFits, ConnFits, ListFits, here
<1>3. PICK c : c = TheCall("version", 3, Serial(0))
  BY Zenon
<1>4. /\ c.op = "version" /\ c.ver = 3 /\ c.dev = Serial(0) /\ c.from = 0 /\ c.own = FALSE
      /\ c.data = <<>> /\ c.resp = 0
  BY <1>3 DEF TheCall
<1>5. CallFits(c)
  <2>1. <<>> \in Seq(Int) /\ 0 \in Nat /\ 3 \in 1 .. 3 /\ "version" \in Ops /\ "version" # "enumerate"
    BY DEF Ops
  <2>2. QED
    BY <1>4, <2>1, NoDeviceIs, Zenon DEF CallFits
<1>6. RequestOf(c) = CreateVersionRequest(3)
  BY <1>4, Zenon DEF RequestOf
<1>7. IsRequest(CreateVersionRequest(3), c)
  BY <1>5, <1>6, WholeRequest, Zenon
<1>8. ~(c.from > 0)
  BY <1>4
<1>9. Call(c, CreateVersionRequest(3))
  BY <1>3, Zenon DEF AskVersion
<1>10. QED
  BY <1>1, <1>2, <1>5, <1>7, <1>8, <1>9, CallMade, Zenon

\* Packets of the caller's own.
LEMMA WriteKeeps == ASSUME Core, peer = 0, Write PROVE Core'
<1>1. SentFits /\ UNCHANGED <<here, conn, uris, listed>> /\ conn # None
  BY Zenon DEF Core, Write
<1>2. PeerFits'
  BY <1>1 DEF SentFits, PeerFits, ConnFits, ListFits, here
<1>3. conn.ver \in 1 .. 3 /\ conn.dev \in Named
  BY <1>1, Zenon DEF SentFits, PeerFits, ConnFits
<1>4. <<5>> \in Seq(Int) /\ 4 \in Nat
  OBVIOUS
<1>5. ASSUME NEW c, CallFits(c), c.from = 0, NEW packet, Call(c, packet), IsRequest(packet, c)
      PROVE  Core'
  <2>1. ~(c.from > 0)
    BY <1>5
  <2>2. QED
    BY <1>1, <1>2, <1>5, <2>1, CallMade, Zenon
<1>6. ASSUME NEW n \in 1 .. Len(CreateCmdRequest(conn.ver, conn.dev, << 5 >>, 4)),
             Call([CommandCall(<< 5 >>, 4) EXCEPT !.own = TRUE],
                  Cut(CreateCmdRequest(conn.ver, conn.dev, << 5 >>, 4), n))
      PROVE  Core'
  <2>1. PICK c : c = [CommandCall(<<5>>, 4) EXCEPT !.own = TRUE]
    BY Zenon
  <2>2. /\ c.op = "command" /\ c.ver = conn.ver /\ c.dev = conn.dev /\ c.data = <<5>> /\ c.resp = 4
        /\ c.from = 0 /\ c.own = TRUE
    BY <2>1 DEF CommandCall, TheCall
  <2>3. CallFits(c)
    <3>1. "command" \in Ops \ {"enumerate", "version"}
      BY DEF Ops
    <3>2. QED
      BY <1>3, <1>4, <2>1, <3>1, CallIs, Zenon DEF CommandCall
  <2>4. RequestOf(c) = CreateCmdRequest(conn.ver, conn.dev, <<5>>, 4)
    BY <2>2, Zenon DEF RequestOf
  <2>5. IsRequest(Cut(CreateCmdRequest(conn.ver, conn.dev, <<5>>, 4), n), c)
    BY <1>6, <2>2, <2>3, <2>4, CutRequest, Zenon
  <2>6. QED
    BY <1>5, <1>6, <2>1, <2>2, <2>3, <2>5, Zenon
<1>7. ASSUME NEW n \in 1 .. Len(CreateOpenRequest(conn.ver, conn.dev)),
             Call([TheCall("open", conn.ver, conn.dev) EXCEPT !.own = TRUE],
                  Cut(CreateOpenRequest(conn.ver, conn.dev), n))
      PROVE  Core'
  <2>1. PICK c : c = [TheCall("open", conn.ver, conn.dev) EXCEPT !.own = TRUE]
    BY Zenon
  <2>2. c.op = "open" /\ c.ver = conn.ver /\ c.dev = conn.dev /\ c.from = 0 /\ c.own = TRUE
    BY <2>1 DEF TheCall
  <2>3. CallFits(c)
    <3>1. "open" \in Ops \ {"enumerate", "version"}
      BY DEF Ops
    <3>2. QED
      BY <1>3, <1>4, <2>1, <3>1, CallIs, Zenon
  <2>4. RequestOf(c) = CreateOpenRequest(conn.ver, conn.dev)
    BY <2>2, Zenon DEF RequestOf
  <2>5. IsRequest(Cut(CreateOpenRequest(conn.ver, conn.dev), n), c)
    BY <1>7, <2>2, <2>3, <2>4, CutRequest, Zenon
  <2>6. QED
    BY <1>5, <1>7, <2>1, <2>2, <2>3, <2>5, Zenon
<1>8. ASSUME Call([TheCall("other", conn.ver, conn.dev) EXCEPT !.own = TRUE],
                  <<conn.ver, 9, 0, 0, 0, 0>>)
      PROVE  Core'
  <2>1. PICK c : c = [TheCall("other", conn.ver, conn.dev) EXCEPT !.own = TRUE]
    BY Zenon
  <2>2. c.op = "other" /\ c.ver = conn.ver /\ c.from = 0
    BY <2>1 DEF TheCall
  <2>3. CallFits(c)
    <3>1. "other" \in Ops \ {"enumerate", "version"}
      BY DEF Ops
    <3>2. QED
      BY <1>3, <1>4, <2>1, <3>1, CallIs, Zenon
  <2>4. RequestOf(c) = <<conn.ver, 9, 0, 0, 0, 0>>
    BY <2>2, SMT DEF RequestOf
  <2>5. IsRequest(<<conn.ver, 9, 0, 0, 0, 0>>, c)
    BY <2>3, <2>4, WholeRequest, Zenon
  <2>6. QED
    BY <1>5, <1>8, <2>1, <2>2, <2>3, <2>5, Zenon
<1>9. QED
  <2>1. \/ \E n \in 1 .. Len(CreateCmdRequest(conn.ver, conn.dev, <<5>>, 4)) :
              Call([CommandCall(<<5>>, 4) EXCEPT !.own = TRUE],
                   Cut(CreateCmdRequest(conn.ver, conn.dev, <<5>>, 4), n))
        \/ \E n \in 1 .. Len(CreateOpenRequest(conn.ver, conn.dev)) :
              Call([TheCall("open", conn.ver, conn.dev) EXCEPT !.own = TRUE],
                   Cut(CreateOpenRequest(conn.ver, conn.dev), n))
        \/ Call([TheCall("other", conn.ver, conn.dev) EXCEPT !.own = TRUE],
                <<conn.ver, 9, 0, 0, 0, 0>>)
    BY Zenon DEF Write
  <2>2. QED
    BY <1>6, <1>7, <1>8, <2>1, Zenon

\* Ports come and go, and nothing else changes.
LEMMA ReplugKeeps == ASSUME Core, Replug PROVE Core'
<1>1. /\ SentFits /\ pc = "idle" /\ plugged' \in PortLists
      /\ UNCHANGED <<peer, mode, conn, uris, listed, pc, call, req, ans, asked, done>>
  BY Zenon DEF Core, Replug
<1>2. plugged' \in Seq(Ports)
  BY <1>1, ConstantsAssumption, Zenon DEF ConstantsAssumption
<1>3. PeerFits'
  BY <1>1, <1>2 DEF SentFits, PeerFits, ConnFits, ListFits
<1>4. CallIsFit' /\ ReqFits' /\ FromFits' /\ EnumFits' /\ EnumeratedIsOpened'
  BY <1>1 DEF CallIsFit, ReqFits, FromFits, EnumFits, EnumeratedIsOpened
<1>5. AskedIsMeant'
  BY <1>1 DEF Core, AskedIsMeant, Fits
<1>6. QED
  BY <1>3, <1>4, <1>5, Zenon DEF Core, SentFits

-----------------------------------------------------------------------------
(* The answers that the client takes, and the invariant.                   *)

\* The caller's steps that leave the connection and the list alone.
LEMMA PlainTakenKeeps ==
    ASSUME Core, NEW r, Return(r), UNCHANGED <<conn, uris, listed>>
    PROVE  Core'
<1>1. PeerFits'
  BY DEF Core, SentFits, PeerFits, ConnFits, ListFits, Return, here
<1>2. QED
  BY <1>1, Returned, Zenon

\* The answer to an open sets the device of the connection.
LEMMA OpenTakenKeeps == ASSUME Core, OpenTaken PROVE Core'
<1>1. SentFits /\ pc = "answered"
  BY Zenon DEF Core, OpenTaken, Taking
<1>2. PICK r : Return(r)
  BY Zenon DEF OpenTaken
<1>3. \/ conn' = [op |-> "conn", ver |-> call.ver, dev |-> call.dev]
      \/ conn' = None
  BY Zenon DEF OpenTaken
<1>4. UNCHANGED <<here, uris, listed>>
  BY <1>2 DEF OpenTaken, Return
<1>5. call.ver \in 1 .. 3 /\ call.dev \in Named
  <2>1. pc # "idle"
    BY <1>1
  <2>2. QED
    BY <1>1, <2>1, Zenon DEF SentFits, CallIsFit, CallFits
<1>6. ConnFits'
  BY <1>3, <1>5 DEF ConnFits
<1>7. PeerFits'
  BY <1>1, <1>4, <1>6 DEF SentFits, PeerFits, ListFits, here
<1>8. QED
  BY <1>2, <1>7, Returned, Zenon

\* A list that is read becomes the list of URIs, each of the device of its place.
LEMMA EnumerateTakenKeeps == ASSUME Core, peer = 0, EnumerateTaken PROVE Core'
<1>1. SentFits /\ Taking("enumerate")
  BY Zenon DEF Core, EnumerateTaken
<1>2. pc = "answered" /\ ans # <<>> /\ call.op = "enumerate"
  BY <1>1, Zenon DEF Taking
<1>3. CASE AnotherVersion \/ ~Taken.ok
  <2>1. PICK r : Return(r) /\ UNCHANGED <<conn, uris, listed>>
    BY <1>3, Zenon DEF EnumerateTaken
  <2>2. QED
    BY <2>1, PlainTakenKeeps, Zenon
<1>4. CASE ~(AnotherVersion \/ ~Taken.ok)
  <2>1. PICK r : /\ Return(r) /\ UNCHANGED conn
                 /\ uris' = [i \in 1 .. Taken.val |-> UriOf(Host, IdOf(SubSeq(Taken.data, 3 * i - 2, 3 * i)))]
                 /\ listed' = IF peer = 0 THEN done.devs ELSE [i \in 1 .. 3 |-> Serial(SerialList[i])]
    BY <1>4, Zenon DEF EnumerateTaken
  <2>2. /\ call.ver = 3 /\ done.devs \in Seq(PortIdsOf(mode))
        /\ ans = CreateEnumResponse(done.devs)
    BY <1>1, <1>2, <1>4, Zenon DEF SentFits, EnumFits
  <2>3. PICK list : list = done.devs
    BY Zenon
  <2>4. list \in Seq(Identifiers)
    <3>1. PortIdsOf(mode) \subseteq Identifiers
      BY NamedAreIdentifiers, Zenon DEF PortIdsOf
    <3>2. Len(list) \in Nat /\ DOMAIN list = 1 .. Len(list) /\ list = [i \in 1 .. Len(list) |-> list[i]]
      BY <2>2, <2>3
    <3>3. \A i \in 1 .. Len(list) : list[i] \in Identifiers
      BY <2>2, <2>3, <3>1, ElementOfSeq, Zenon
    <3>4. QED
      BY <3>2, <3>3, SeqDef
  <2>5. PICK t : t = Taken
    BY Zenon
  <2>6. IsListed(t, list, Len(list))
    BY <2>2, <2>3, <2>4, <2>5, EnumerationArrives, Zenon DEF Taken
  <2>7. PICK n \in Nat : n = Len(list)
    BY <2>4, LenProperties
  <2>8. t.val = n /\ \A i \in 1 .. n : IdOf(SubSeq(t.data, 3 * i - 2, 3 * i)) = list[i]
    <3>1. PICK data : t = Response(TRUE, 0, n, data)
      BY <2>6, <2>7, Zenon DEF IsListed
    <3>2. t.val = n
      BY <3>1 DEF Response
    <3>3. QED
      BY <2>6, <2>7, <3>2, Zenon DEF IsListed
  <2>9. uris' = [i \in 1 .. n |-> UriOf(Host, IdOf(SubSeq(t.data, 3 * i - 2, 3 * i)))] /\ listed' = list
    BY <2>1, <2>3, <2>5, <2>8, Zenon
  <2>10. ListFits'
    <3>1. listed' \in Seq(PortIdsOf(mode')) /\ DOMAIN listed' = 1 .. n
      <4>1. mode' = mode
        BY <2>1 DEF Return, here
      <4>2. list \in Seq(PortIdsOf(mode)) /\ DOMAIN list = 1 .. n
        BY <2>2, <2>3, <2>7, LenProperties
      <4>3. QED
        BY <2>9, <4>1, <4>2, Zenon
    <3>2. DOMAIN uris' = 1 .. n
      BY <2>9, Zenon
    <3>3. \A i \in 1 .. n : uris'[i] = UriOf(Host, listed'[i])
      BY <2>8, <2>9, Zenon
    <3>4. QED
      BY <3>1, <3>2, <3>3, Zenon DEF ListFits
  <2>11. PeerFits'
    <3>1. UNCHANGED <<mode, plugged, conn>>
      BY <2>1 DEF Return, here
    <3>2. ConnFits'
      BY <1>1, <3>1 DEF SentFits, PeerFits, ConnFits
    <3>3. QED
      BY <1>1, <2>10, <3>1, <3>2, Zenon DEF SentFits, PeerFits
  <2>12. QED
    BY <2>1, <2>11, Returned, Zenon
<1>5. QED
  BY <1>3, <1>4, Zenon

\* Every step of the client that takes an answer.
TakenSteps == TimesOut \/ OpenTaken \/ CommandTaken \/ CloseTaken \/ EnumerateTaken \/ VersionTaken \/ ReadOwn

\* Whatever the client reads.
LEMMA TakenKeeps == ASSUME Core, peer = 0, TakenSteps PROVE Core'
<1>1. CASE TimesOut
  BY <1>1, PlainTakenKeeps, Zenon DEF TimesOut
<1>2. CASE CommandTaken
  BY <1>2, PlainTakenKeeps, Zenon DEF CommandTaken
<1>3. CASE CloseTaken
  BY <1>3, PlainTakenKeeps, Zenon DEF CloseTaken
<1>4. CASE VersionTaken
  BY <1>4, PlainTakenKeeps, Zenon DEF VersionTaken
<1>5. CASE ReadOwn
  BY <1>5, PlainTakenKeeps, Zenon DEF ReadOwn
<1>6. QED
  BY <1>1, <1>2, <1>3, <1>4, <1>5, OpenTakenKeeps, EnumerateTakenKeeps, Zenon DEF TakenSteps

\* Every call of the client's.
CallSteps == Open \/ Command \/ Close \/ Enumerate \/ AskVersion \/ Write

\* Whatever the client asks for.
LEMMA CallKeeps == ASSUME Core, peer = 0, CallSteps PROVE Core'
BY OpenCallKeeps, CommandCallKeeps, CloseCallKeeps, EnumerateCallKeeps, VersionCallKeeps, WriteKeeps, Zenon
   DEF CallSteps

\* The steps, by who takes them.
LEMMA NextIs == Next <=> Replug \/ CallSteps \/ ServerSteps \/ SimulatorAnswers \/ TakenSteps
BY Zenon DEF Next, CallSteps, ServerSteps, TakenSteps

\* No step changes who is at the other end.
LEMMA CallChanges ==
    ASSUME CallSteps
    PROVE  UNCHANGED peer /\ asked' = None /\ done' = None
<1>1. PICK c, packet : Call(c, packet)
  BY Zenon DEF CallSteps, Open, OpenWith, Command, Close, Enumerate, AskVersion, Write
<1>2. asked' = None /\ done' = None
  BY <1>1 DEF Call
<1>3. UNCHANGED here
  BY Zenon DEF CallSteps, Open, Command, Close, Enumerate, AskVersion, Write
<1>4. QED
  BY <1>2, <1>3 DEF here

\* The client asks no table.
LEMMA TakenChanges ==
    ASSUME TakenSteps
    PROVE  UNCHANGED <<peer, asked, done>>
<1>1. PICK r : Return(r)
  BY Zenon DEF TakenSteps, TimesOut, OpenTaken, CommandTaken, CloseTaken, EnumerateTaken, VersionTaken, ReadOwn
<1>2. QED
  BY <1>1 DEF Return, here

\* The server answers in the version of the request.
LEMMA ServerChanges ==
    ASSUME ServerSteps
    PROVE  peer = 0 /\ UNCHANGED peer
<1>1. peer = 0
  BY Zenon DEF ServerSteps, ServerThrows, ServerRefuses, ServerIgnores, ServerOpens, ServerCloses,
               ServerCommands, ServerCannotHold, ServerTellsVersion, ServerEnumerates, ReceivedOf, Received
<1>2. PICK a, d, packet : Answer(a, d, packet)
  BY Zenon DEF ServerSteps, ServerThrows, ServerRefuses, ServerIgnores, ServerOpens, ServerCloses,
               ServerCommands, ServerCannotHold, ServerTellsVersion, ServerEnumerates
<1>3. QED
  BY <1>1, <1>2 DEF Answer, here

\* The simulator asks no table either.
LEMMA SimulatorChanges ==
    ASSUME SimulatorAnswers
    PROVE  peer # 0 /\ UNCHANGED peer /\ asked' = None /\ done' = NoVal
<1>1. PICK packet : Answer(None, NoVal, packet)
  BY Zenon DEF SimulatorAnswers
<1>2. peer # 0
  BY Zenon DEF SimulatorAnswers
<1>3. QED
  BY <1>1, <1>2 DEF Answer, here

\* Every step keeps the invariant.
LEMMA NextWireInv == ASSUME WireInv, [Next]_vars PROVE WireInv'
<1>1. CASE UNCHANGED vars
  <2>1. UNCHANGED <<peer, mode, plugged, conn, uris, listed, pc, call, req, ans, asked, done>>
    BY <1>1 DEF vars, here
  <2>2. PeerFits' <=> PeerFits
    BY <2>1 DEF PeerFits, ConnFits, ListFits
  <2>3. (CallIsFit' <=> CallIsFit) /\ (ReqFits' <=> ReqFits)
    BY <2>1, Zenon DEF CallIsFit, ReqFits
  <2>4. (FromFits' <=> FromFits) /\ (EnumFits' <=> EnumFits)
    BY <2>1 DEF FromFits, EnumFits, AnotherVersion
  <2>5. AskedIsMeant' <=> AskedIsMeant
    BY <2>1, Zenon DEF AskedIsMeant, Fits
  <2>6. EnumeratedIsOpened' <=> EnumeratedIsOpened
    BY <2>1, Zenon DEF EnumeratedIsOpened
  <2>7. NothingAsked' <=> NothingAsked
    BY <2>1, Zenon DEF NothingAsked
  <2>8. QED
    BY <2>1, <2>2, <2>3, <2>4, <2>5, <2>6, <2>7, Zenon DEF WireInv, Core, SentFits
<1>2. CASE Replug
  <2>1. peer = 0 /\ peer' = peer
    BY <1>2 DEF Replug
  <2>2. QED
    BY <1>2, <2>1, ReplugKeeps, Zenon DEF WireInv
<1>3. CASE CallSteps
  <2>1. peer' = peer /\ asked' = None /\ done' = None
    BY <1>3, CallChanges, Zenon
  <2>2. QED
    BY <1>3, <2>1, CallKeeps, Zenon DEF WireInv, NothingAsked
<1>4. CASE ServerSteps
  <2>1. peer = 0 /\ peer' = peer
    BY <1>4, ServerChanges, Zenon
  <2>2. QED
    BY <1>4, <2>1, ServerKeeps, Zenon DEF WireInv, Core
<1>5. CASE SimulatorAnswers
  <2>1. peer # 0 /\ peer' = peer /\ asked' = None /\ done' = NoVal
    BY <1>5, SimulatorChanges, Zenon
  <2>2. QED
    BY <2>1, Zenon DEF WireInv, NothingAsked
<1>6. CASE TakenSteps
  <2>1. UNCHANGED <<peer, asked, done>>
    BY <1>6, TakenChanges, Zenon
  <2>2. QED
    BY <1>6, <2>1, TakenKeeps, Zenon DEF WireInv, NothingAsked
<1>7. QED
  BY <1>1, <1>2, <1>3, <1>4, <1>5, <1>6, NextIs, Zenon

\* The server answers the call that was made, in every state.
THEOREM WireInductive == Spec => []WireInv
<1>1. Init => WireInv
  BY InitWireInv
<1>2. WireInv /\ [Next]_vars => WireInv'
  BY NextWireInv
<1>3. QED
  BY <1>1, <1>2, PTL DEF Spec

\* What the server asks of its table of devices is what the caller meant: the device, the data
\* and the length of the answer, across packing, cutting and parsing.
THEOREM AskedMeant == Spec => []AskedIsMeant
<1>1. WireInv => AskedIsMeant
  <2>1. asked = None => AskedIsMeant
    BY Zenon DEF AskedIsMeant
  <2>2. QED
    BY <2>1, Zenon DEF WireInv, Core, NothingAsked
<1>2. QED
  BY <1>1, WireInductive, PTL

\* A device that the client opens by a URI of its list is looked up as the port that was
\* listed, or as one of the same identifier, or not at all.
THEOREM EnumeratedOpened == Spec => []EnumeratedIsOpened
<1>1. WireInv => EnumeratedIsOpened
  <2>1. asked = None => EnumeratedIsOpened
    BY DEF EnumeratedIsOpened, None
  <2>2. QED
    BY <2>1, Zenon DEF WireInv, Core, NothingAsked
<1>2. QED
  BY <1>1, WireInductive, PTL

-----------------------------------------------------------------------------
(* Answers, as the client reads them.                                      *)

\* What the client has before it in an answer: the header, and behind it the body.
IsAhead(b, p, k, body) ==
    /\ b = At(p, k) /\ ~b.broken
    /\ Moves(p, k, 2) /\ ~Seek(b, 2).broken
    /\ Rest(Seek(b, 2)) = body /\ Ahead(Seek(b, 2), 1) = IF body = <<>> THEN 0 ELSE body[1]

\* What was written behind a header is read behind it.
LEMMA BodyIsAhead ==
    ASSUME NEW p \in Seq(Int), NEW body \in Seq(Int), NEW k \in Nat, NEW j \in Nat, j = k + 2,
           Len(p) = j + Len(body), \A i \in 1 .. Len(body) : p[j + i] = body[i]
    PROVE  IsAhead(At(p, k), p, k, body)
<1>1. PICK m \in Nat : m = Len(body)
  BY LenProperties
<1>2. Len(p) = j + m
  BY <1>1
<1>3. Moves(p, k, 2)
  <2>1. Len(p) \in Nat /\ 2 \in Nat /\ k + 2 <= Len(p)
    BY <1>1
  <2>2. QED
    BY <2>1, WithinData, Zenon
<1>4. Seek(At(p, k), 2) = At(p, j)
  BY <1>3, Zenon DEF Moves
<1>5. \A n : ~At(p, n).broken
  BY DEF At
<1>6. Rest(At(p, j)) = body
  <2>1. PICK q : q = Rest(At(p, j))
    BY Zenon
  <2>2. q \in Seq(Int) /\ Len(q) = m /\ \A i \in 1 .. m : q[i] = p[j + i]
    BY <1>2, <2>1, RestOfData, Zenon
  <2>3. \A i \in 1 .. m : q[i] = body[i]
    BY <1>1, <1>2, <2>2, Zenon
  <2>4. q = body
    BY <1>1, <2>2, <2>3, SeqEqual
  <2>5. QED
    BY <2>1, <2>4, Zenon
<1>7. Ahead(At(p, j), 1) = IF body = <<>> THEN 0 ELSE body[1]
  <2>1. CASE body = <<>>
    <3>1. ~(j + 1 <= Len(p))
      BY <1>1, <1>2, <2>1
    <3>2. QED
      BY <2>1, <3>1 DEF Ahead, At
  <2>2. CASE body # <<>>
    <3>1. m >= 1 /\ j + 1 <= Len(p)
      BY <1>1, <1>2, <2>2
    <3>2. Ahead(At(p, j), 1) = p[j + 1]
      BY <3>1 DEF Ahead, At
    <3>3. 1 \in 1 .. m
      BY <3>1
    <3>4. QED
      BY <1>1, <1>2, <2>2, <3>2, <3>3, Zenon
  <2>3. QED
    BY <2>1, <2>2
<1>8. QED
  BY <1>3, <1>4, <1>5, <1>6, <1>7, Zenon DEF IsAhead

\* An answer of protocol 3.
LEMMA ExtendedAhead ==
    ASSUME NEW p, NEW type, NEW w, NEW body \in Seq(Int), IsExtended(p, type, w, body)
    PROVE  GetResponse(3, p) = GetResponse3(At(p, 6), type) /\ IsAhead(At(p, 6), p, 6, body)
<1>1. p \in Seq(Int) /\ Len(p) = 8 + Len(body) /\ p[2] = type /\ \A i \in 1 .. Len(body) : p[8 + i] = body[i]
  BY Zenon DEF IsExtended
<1>2. IsAhead(At(p, 6), p, 6, body)
  <2>1. 6 \in Nat /\ 8 \in Nat /\ 8 = 6 + 2
    OBVIOUS
  <2>2. QED
    BY <1>1, <2>1, BodyIsAhead, Zenon
<1>3. Buf(p) = At(p, 0) /\ Len(p) \in Nat
  BY <1>1 DEF Buf, At
<1>4. Moves(p, 0, 6) /\ Moves(p, 0, 1) /\ Moves(p, 1, 1)
  <2>1. 0 \in Nat /\ 1 \in Nat /\ 6 \in Nat /\ 0 + 6 <= Len(p) /\ 0 + 1 <= Len(p) /\ 1 + 1 <= Len(p)
    BY <1>1
  <2>2. QED
    BY <1>3, <2>1, WithinData, Zenon
<1>5. Read(Buf(p), 6) = At(p, 6) /\ Ahead(Read(Buf(p), 1), 1) = type
  BY <1>1, <1>3, <1>4 DEF Moves
<1>6. ~At(p, 6).broken
  BY DEF At
<1>7. ~(3 = 1) /\ ~(3 = 2)
  OBVIOUS
<1>8. GetResponse(3, p) = GetResponse3(At(p, 6), type)
  BY <1>5, <1>6, <1>7, Zenon DEF GetResponse
<1>9. QED
  BY <1>2, <1>8

\* An answer of protocol 2.
LEMMA PlainAhead ==
    ASSUME NEW p, NEW type, NEW id, NEW body \in Seq(Int), IsPlain(p, 2, type, id, body)
    PROVE  GetResponse(2, p) = GetResponse2(At(p, 4), type) /\ IsAhead(At(p, 4), p, 4, body)
<1>1. p \in Seq(Int) /\ Len(p) = 6 + Len(body) /\ p[2] = type /\ \A i \in 1 .. Len(body) : p[6 + i] = body[i]
  BY Zenon DEF IsPlain
<1>2. IsAhead(At(p, 4), p, 4, body)
  <2>1. 4 \in Nat /\ 6 \in Nat /\ 6 = 4 + 2
    OBVIOUS
  <2>2. QED
    BY <1>1, <2>1, BodyIsAhead, Zenon
<1>3. Buf(p) = At(p, 0) /\ Len(p) \in Nat
  BY <1>1 DEF Buf, At
<1>4. Moves(p, 0, 4) /\ Moves(p, 0, 1) /\ Moves(p, 1, 1)
  <2>1. 0 \in Nat /\ 1 \in Nat /\ 4 \in Nat /\ 0 + 4 <= Len(p) /\ 0 + 1 <= Len(p) /\ 1 + 1 <= Len(p)
    BY <1>1
  <2>2. QED
    BY <1>3, <2>1, WithinData, Zenon
<1>5. Read(Buf(p), 4) = At(p, 4) /\ Ahead(Read(Buf(p), 1), 1) = type
  BY <1>1, <1>3, <1>4 DEF Moves
<1>6. ~At(p, 4).broken
  BY DEF At
<1>7. ~(2 = 3) /\ ~(2 = 1)
  OBVIOUS
<1>8. GetResponse(2, p) = GetResponse2(At(p, 4), type)
  BY <1>5, <1>6, <1>7, Zenon DEF GetResponse
<1>9. QED
  BY <1>2, <1>8

\* A body of one word is a value, and any body is the rest.
LEMMA ValueIs ==
    ASSUME NEW b, NEW p, NEW k, NEW val \in Int, IsAhead(b, p, k, <<val>>)
    PROVE  GetValue(b) = Response(TRUE, 0, val, <<>>)
<1>1. PICK v : v = Seek(b, 2)
  BY Zenon
<1>2. Rest(v) = <<val>> /\ Ahead(v, 1) = IF <<val>> = <<>> THEN 0 ELSE <<val>>[1]
  BY <1>1, Zenon DEF IsAhead
<1>3. Len(<<val>>) = 1 /\ <<val>> # <<>> /\ <<val>>[1] = val
  OBVIOUS
<1>4. Len(Rest(v)) = 1 /\ Ahead(v, 1) = val
  BY <1>2, <1>3
<1>5. QED
  BY <1>1, <1>4, Zenon DEF GetValue

\* The rest of the buffer is the rest of the body.
LEMMA RestIs ==
    ASSUME NEW b, NEW p, NEW k, NEW body, IsAhead(b, p, k, body)
    PROVE  GetRest(b) = Response(TRUE, 0, 0, body)
BY Zenon DEF IsAhead, GetRest

\* An answer that is taken, and what is read in it.
IsRead(r, err, val, data) == r.ok /\ r.err = err /\ r.val = val /\ r.data = data

\* An answer has the fields that it was made of.
LEMMA ResponseIsRead == \A err, val, data : IsRead(Response(TRUE, err, val, data), err, val, data)
BY DEF IsRead, Response

\* The answers of the server.
ValueKinds == {"open_resp", "close_resp"}

\* They begin with the header of their protocol, and their type.
LEMMA ValueAnswerIs ==
    ASSUME NEW d \in Identifiers, NEW val \in Int, NEW kind \in ValueKinds
    PROVE  IsExtended(ServerResponse3(kind, val, d, <<>>), Code3[kind], IdWords(d), <<val>>)
<1>1. IdWords(d) \in Seq(Int) /\ Len(IdWords(d)) = 3
  BY IdentifierSurvives
<1>2. <<val>> \in Seq(Int)
  OBVIOUS
<1>3. Code3[kind] \in Int
  BY DEF Code3, ValueKinds
<1>4. PICK p : p = ServerResponse3(kind, val, d, <<>>)
  BY Zenon
<1>5. p = <<3, Code3[kind], 0>> \o IdWords(d) \o <<0, 0>> \o <<val>>
  <2>1. kind # "cmd_resp" /\ kind # "enum_resp" /\ kind # "ver_resp"
    BY DEF ValueKinds
  <2>2. QED
    BY <1>4, <2>1 DEF ServerResponse3
<1>6. IsExtended(p, Code3[kind], IdWords(d), <<val>>)
  BY <1>1, <1>2, <1>3, <1>5, ExtendedHeader, Zenon
<1>7. QED
  BY <1>4, <1>6, Zenon

\* The data of a command, behind their length.
IsSized(body, data) ==
    /\ body \in Seq(Int) /\ Len(body) = 1 + Len(data) /\ body[1] = 4 * Len(data)
    /\ \A i \in 1 .. Len(data) : body[1 + i] = data[i]

\* An answer with data, of protocol 3.
LEMMA DataAnswerIs ==
    ASSUME NEW d \in Identifiers, NEW val, NEW data \in Seq(Int)
    PROVE  \E body : /\ IsExtended(ServerResponse3("cmd_resp", val, d, data), Code3["cmd_resp"], IdWords(d), body)
                     /\ IsSized(body, data)
<1>1. IdWords(d) \in Seq(Int) /\ Len(IdWords(d)) = 3
  BY IdentifierSurvives
<1>2. Code3["cmd_resp"] \in Int
  BY DEF Code3
<1>3. PICK p : p = ServerResponse3("cmd_resp", val, d, data)
  BY Zenon
<1>4. PICK n \in Nat : n = Len(data)
  BY LenProperties
<1>5. PICK one, body : one = <<4 * n>> /\ body = one \o data
  BY Zenon
<1>6. one \in Seq(Int) /\ Len(one) = 1 /\ one[1] = 4 * n /\ 1 \in Nat
  BY <1>5
<1>7. body \in Seq(Int) /\ HasParts(body, one, 1, data, n)
  BY <1>4, <1>5, <1>6, JoinParts, Zenon
<1>8. Len(body) = 1 + n /\ body[1] = 4 * n /\ \A i \in 1 .. n : body[1 + i] = data[i]
  BY <1>6, <1>7 DEF HasParts
<1>9. p = <<3, Code3["cmd_resp"], 0>> \o IdWords(d) \o <<0, 0>> \o body
  <2>1. body = <<Bytes(data)>> \o data
    BY <1>4, <1>5, Zenon DEF Bytes
  <2>2. \A a, b, c : (CASE "cmd_resp" = "cmd_resp" -> body [] "cmd_resp" = "enum_resp" -> a
                      [] "cmd_resp" = "ver_resp" -> b [] OTHER -> c) = body
    BY SMT
  <2>3. QED
    BY <1>3, <2>1, <2>2 DEF ServerResponse3
<1>10. IsExtended(p, Code3["cmd_resp"], IdWords(d), body)
  BY <1>1, <1>2, <1>7, <1>9, ExtendedHeader, Zenon
<1>11. IsSized(body, data)
  BY <1>4, <1>7, <1>8, Zenon DEF IsSized
<1>12. QED
  BY <1>3, <1>10, <1>11, Zenon

\* An answer of protocol 2.
LEMMA Answer2Is ==
    ASSUME NEW d \in Identifiers, NEW val \in Int, NEW kind \in ValueKinds \cup {"cmd_resp"},
           NEW data \in Seq(Int), kind = "cmd_resp" \/ data = <<>>
    PROVE  /\ <<val>> \o data \in Seq(Int)
           /\ IsPlain(ServerResponse2(kind, val, d, data), 2, Code2[kind], d.id, <<val>> \o data)
<1>1. d.id \in Int /\ <<val>> \in Seq(Int) /\ 2 \in Int
  BY DEF Identifiers
<1>2. Code2[kind] \in Int
  BY DEF Code2, ValueKinds
<1>3. <<val>> \o data \in Seq(Int)
  BY <1>1, ConcatProperties, Zenon
<1>4. ServerResponse2(kind, val, d, data) = <<2, Code2[kind], 0, d.id, 0, 0>> \o (<<val>> \o data)
  <2>1. PICK h : h = <<2, Code2[kind], 0, d.id, 0, 0>>
    BY Zenon
  <2>2. h \in Seq(Int)
    BY <1>1, <1>2, <2>1
  <2>3. ServerResponse2(kind, val, d, data) = <<2, Code2[kind], 0, d.id, 0, 0, val>> \o data
    BY Zenon DEF ServerResponse2
  <2>4. <<2, Code2[kind], 0, d.id, 0, 0, val>> = h \o <<val>>
    BY <2>1
  <2>5. (h \o <<val>>) \o data = h \o (<<val>> \o data)
    BY <1>1, <2>2, ConcatAssociative
  <2>6. QED
    BY <2>1, <2>3, <2>4, <2>5, Zenon
<1>5. QED
  BY <1>1, <1>2, <1>3, <1>4, PlainHeader, Zenon

\* What the server answers in protocol 3 is what the client reads: a value, the data of a
\* command, of any length, and the code of an error, each under the type it was sent with.
THEOREM Answer3Arrives ==
    ASSUME NEW d \in Identifiers, NEW val \in Int, NEW data \in Seq(Int)
    PROVE  /\ \A kind \in ValueKinds :
                 IsRead(GetResponse(3, ServerResponse3(kind, val, d, <<>>)), 0, val, <<>>)
           /\ IsRead(GetResponse(3, ServerResponse3("cmd_resp", val, d, data)), 0, 0, data)
           /\ IsRead(GetResponse(3, CreateErrorResponse(val)), val, val, <<>>)
<1>1. IdWords(d) \in Seq(Int) /\ Len(IdWords(d)) = 3
  BY IdentifierSurvives
<1>2. <<val>> \in Seq(Int)
  OBVIOUS
<1>3. ASSUME NEW kind \in ValueKinds
      PROVE  IsRead(GetResponse(3, ServerResponse3(kind, val, d, <<>>)), 0, val, <<>>)
  <2>1. PICK p : p = ServerResponse3(kind, val, d, <<>>)
    BY Zenon
  <2>2. IsExtended(p, Code3[kind], IdWords(d), <<val>>)
    BY <2>1, ValueAnswerIs, Zenon
  <2>3. GetResponse(3, p) = GetResponse3(At(p, 6), Code3[kind]) /\ IsAhead(At(p, 6), p, 6, <<val>>)
    BY <1>2, <2>2, ExtendedAhead, Zenon
  <2>4. GetValue(At(p, 6)) = Response(TRUE, 0, val, <<>>)
    BY <2>3, ValueIs, Zenon
  <2>5. PICK b : b = At(p, 6)
    BY Zenon
  <2>6. /\ Code3[kind] # Code3.cmd_resp /\ Code3[kind] \in {Code3.open_resp, Code3.close_resp, Code3.ver_resp}
        /\ Code3[kind] # Code3.error_resp /\ Code3[kind] # Code3.enum_resp
    BY DEF Code3, ValueKinds
  <2>7. GetResponse3(b, Code3[kind]) = GetValue(b)
    BY <2>6, SMT DEF GetResponse3
  <2>8. QED
    BY <2>1, <2>3, <2>4, <2>5, <2>7, ResponseIsRead, Zenon
<1>4. IsRead(GetResponse(3, ServerResponse3("cmd_resp", val, d, data)), 0, 0, data)
  <2>1. PICK p, body : /\ p = ServerResponse3("cmd_resp", val, d, data)
                      /\ IsExtended(p, Code3["cmd_resp"], IdWords(d), body) /\ IsSized(body, data)
    BY DataAnswerIs, Zenon
  <2>2. PICK n \in Nat : n = Len(data)
    BY LenProperties
  <2>3. body \in Seq(Int)
    BY <2>1, Zenon DEF IsSized
  <2>4. Len(body) = 1 + n /\ body[1] = 4 * n /\ \A i \in 1 .. n : body[1 + i] = data[i]
    BY <2>1, <2>2, Zenon DEF IsSized
  <2>5. IsExtended(p, Code3["cmd_resp"], IdWords(d), body)
    BY <2>1
  <2>6. GetResponse(3, p) = GetResponse3(At(p, 6), Code3["cmd_resp"]) /\ IsAhead(At(p, 6), p, 6, body)
    BY <2>3, <2>5, ExtendedAhead, Zenon
  <2>7. p \in Seq(Int) /\ Len(p) = 9 + n
    <3>1. p \in Seq(Int) /\ Len(p) = 8 + Len(body)
      BY <2>5, Zenon DEF IsExtended
    <3>2. QED
      BY <2>4, <3>1
  <2>8. Moves(p, 6, 2) /\ Moves(p, 8, 1)
    <3>1. 8 \in Nat /\ 1 \in Nat /\ 8 + 1 <= Len(p) /\ Len(p) \in Nat
      BY <2>7
    <3>2. QED
      BY <2>6, <3>1, WithinData, Zenon DEF IsAhead
  <2>9. PICK b, d9 : b = At(p, 6) /\ d9 = At(p, 9)
    BY Zenon
  <2>10. Read(Seek(b, 2), 1) = d9 /\ Ahead(Seek(b, 2), 1) = 4 * n /\ ~d9.broken
    <3>1. Seek(b, 2) = At(p, 8) /\ Read(At(p, 8), 1) = At(p, 9)
      BY <2>8, <2>9 DEF Moves
    <3>2. body # <<>>
      BY <2>4
    <3>3. Ahead(Seek(b, 2), 1) = body[1]
      BY <2>6, <2>9, <3>2, Zenon DEF IsAhead
    <3>4. ~d9.broken
      BY <2>9 DEF At
    <3>5. QED
      BY <2>4, <2>9, <3>1, <3>3, <3>4
  <2>11. Rest(d9) = data
    <3>1. PICK q : q = Rest(d9)
      BY Zenon
    <3>2. q \in Seq(Int) /\ Len(q) = n /\ \A i \in 1 .. n : q[i] = p[9 + i]
      <4>1. 9 \in Nat
        OBVIOUS
      <4>2. QED
        BY <2>7, <2>9, <3>1, <4>1, RestOfData, Zenon
    <3>3. \A i \in 1 .. n : p[9 + i] = data[i]
      <4>1. \A i \in 1 .. n : 1 + i \in 1 .. Len(body) /\ 9 + i = 8 + (1 + i)
        BY <2>4
      <4>2. \A i \in 1 .. Len(body) : p[8 + i] = body[i]
        BY <2>5, Zenon DEF IsExtended
      <4>3. QED
        BY <2>4, <4>1, <4>2, Zenon
    <3>4. q = data
      BY <2>2, <3>2, <3>3, SeqEqual
    <3>5. QED
      BY <3>1, <3>4, Zenon
  <2>12. GetResponse3(b, Code3["cmd_resp"]) = Response(TRUE, 0, 0, data)
    <3>1. PICK b8 : b8 = Seek(b, 2)
      BY Zenon
    <3>2. Read(b8, 1) = d9 /\ Ahead(b8, 1) = 4 * n
      BY <2>10, <3>1, Zenon
    <3>3. Bytes(Rest(d9)) = 4 * n
      BY <2>2, <2>11 DEF Bytes
    <3>4. PICK type : type = Code3["cmd_resp"] /\ type = Code3.cmd_resp
      BY Zenon
    <3>5. /\ type \notin {Code3.open_resp, Code3.close_resp, Code3.ver_resp}
           /\ type # Code3.error_resp /\ type # Code3.enum_resp
      BY <3>4 DEF Code3
    <3>6. GetResponse3(b, type) = IF d9.broken \/ Bytes(Rest(d9)) # 4 * n THEN BadFormat
                                  ELSE Response(TRUE, 0, 0, Rest(d9))
      BY <3>1, <3>2, <3>4, <3>5 DEF GetResponse3
    <3>7. QED
      BY <2>10, <2>11, <3>3, <3>4, <3>6, Zenon
  <2>13. QED
    BY <2>1, <2>6, <2>9, <2>12, ResponseIsRead, Zenon
<1>5. IsRead(GetResponse(3, CreateErrorResponse(val)), val, val, <<>>)
  <2>1. PICK p : p = CreateErrorResponse(val)
    BY Zenon
  <2>2. IsExtended(p, Code3["error_resp"], IdWords(NoDevice), <<val>>)
    BY <2>1, ErrorIs, Zenon
  <2>3. GetResponse(3, p) = GetResponse3(At(p, 6), Code3["error_resp"]) /\ IsAhead(At(p, 6), p, 6, <<val>>)
    BY <1>2, <2>2, ExtendedAhead, Zenon
  <2>4. PICK b, r : b = At(p, 6) /\ r = GetValue(b)
    BY Zenon
  <2>5. r = Response(TRUE, 0, val, <<>>)
    BY <2>3, <2>4, ValueIs, Zenon
  <2>6. GetResponse3(b, Code3["error_resp"]) = IF r.ok THEN [r EXCEPT !.err = r.val] ELSE r
    <3>1. PICK type : type = Code3["error_resp"] /\ type = Code3.error_resp
      BY Zenon
    <3>2. /\ type # Code3.cmd_resp /\ type # Code3.enum_resp
          /\ type \notin {Code3.open_resp, Code3.close_resp, Code3.ver_resp}
      BY <3>1 DEF Code3
    <3>3. GetResponse3(b, type) = LET q == GetValue(b) IN IF q.ok THEN [q EXCEPT !.err = q.val] ELSE q
      BY <3>1, <3>2 DEF GetResponse3
    <3>4. QED
      BY <2>4, <3>1, <3>3, Zenon
  <2>7. r.ok /\ IsRead([r EXCEPT !.err = r.val], val, val, <<>>)
    BY <2>5 DEF Response, IsRead
  <2>8. QED
    BY <2>1, <2>3, <2>4, <2>6, <2>7, Zenon
<1>6. QED
  BY <1>3, <1>4, <1>5, Zenon

\* The same in protocol 2, where the result of a command stands in front of its data.
THEOREM Answer2Arrives ==
    ASSUME NEW d \in Identifiers, NEW val \in Int, NEW data \in Seq(Int)
    PROVE  /\ \A kind \in ValueKinds :
                 IsRead(GetResponse(2, ServerResponse2(kind, val, d, <<>>)), 0, val, <<>>)
           /\ IsRead(GetResponse(2, ServerResponse2("cmd_resp", val, d, data)), 0, 0, <<val>> \o data)
<1>1. d.id \in Int /\ <<val>> \in Seq(Int) /\ 2 \in Int
  BY DEF Identifiers
<1>2. ASSUME NEW kind \in ValueKinds
      PROVE  IsRead(GetResponse(2, ServerResponse2(kind, val, d, <<>>)), 0, val, <<>>)
  <2>1. PICK p : p = ServerResponse2(kind, val, d, <<>>)
    BY Zenon
  <2>2. IsPlain(p, 2, Code2[kind], d.id, <<val>>)
    <3>1. kind # "cmd_resp" /\ <<>> \in Seq(Int) /\ kind \in ValueKinds \cup {"cmd_resp"}
      BY DEF ValueKinds
    <3>2. IsPlain(p, 2, Code2[kind], d.id, <<val>> \o <<>>)
      BY <2>1, <3>1, Answer2Is, Zenon
    <3>3. <<val>> \o <<>> = <<val>>
      BY <1>1
    <3>4. QED
      BY <3>2, <3>3, Zenon
  <2>3. GetResponse(2, p) = GetResponse2(At(p, 4), Code2[kind]) /\ IsAhead(At(p, 4), p, 4, <<val>>)
    BY <1>1, <2>2, PlainAhead, Zenon
  <2>4. PICK b : b = At(p, 4)
    BY Zenon
  <2>5. GetValue(b) = Response(TRUE, 0, val, <<>>)
    BY <2>3, <2>4, ValueIs, Zenon
  <2>6. Code2[kind] # Code2.cmd_resp /\ Code2[kind] \in {Code2.open_resp, Code2.close_resp}
    BY DEF Code2, ValueKinds
  <2>7. GetResponse2(b, Code2[kind]) = GetValue(b)
    BY <2>6, SMT DEF GetResponse2
  <2>8. QED
    BY <2>1, <2>3, <2>4, <2>5, <2>7, ResponseIsRead, Zenon
<1>3. IsRead(GetResponse(2, ServerResponse2("cmd_resp", val, d, data)), 0, 0, <<val>> \o data)
  <2>1. PICK p, body : p = ServerResponse2("cmd_resp", val, d, data) /\ body = <<val>> \o data
    BY Zenon
  <2>2. body \in Seq(Int) /\ IsPlain(p, 2, Code2["cmd_resp"], d.id, body)
    <3>1. "cmd_resp" \in ValueKinds \cup {"cmd_resp"}
      OBVIOUS
    <3>2. QED
      BY <2>1, <3>1, Answer2Is, Zenon
  <2>3. GetResponse(2, p) = GetResponse2(At(p, 4), Code2["cmd_resp"]) /\ IsAhead(At(p, 4), p, 4, body)
    BY <2>2, PlainAhead, Zenon
  <2>4. PICK b : b = At(p, 4)
    BY Zenon
  <2>5. GetRest(b) = Response(TRUE, 0, 0, body)
    BY <2>3, <2>4, RestIs, Zenon
  <2>6. GetResponse2(b, Code2["cmd_resp"]) = GetRest(b)
    <3>1. Code2["cmd_resp"] = Code2.cmd_resp /\ Code2.cmd_resp \notin {Code2.open_resp, Code2.close_resp}
      BY DEF Code2
    <3>2. QED
      BY <3>1 DEF GetResponse2
  <2>7. QED
    BY <2>1, <2>3, <2>4, <2>5, <2>6, ResponseIsRead, Zenon
<1>4. QED
  BY <1>2, <1>3, Zenon

-----------------------------------------------------------------------------
(* The data of an answer.                                                  *)

\* The words of the device.
LEMMA DeviceDataIs ==
    ASSUME NEW n \in Nat
    PROVE  /\ DeviceData(n) \in Seq(Int) /\ Len(DeviceData(n)) = n \div 4
           /\ \A i \in 1 .. n \div 4 : DeviceData(n)[i] = 1000 + i
<1>1. PICK k \in Nat : k = n \div 4
  BY SMT
<1>2. PICK q : q = [i \in 1 .. k |-> 1000 + i]
  BY Zenon
<1>3. q \in [1 .. k -> Int]
  BY <1>2
<1>4. q \in Seq(Int) /\ Len(q) = k
  BY <1>3, FunctionIsSeq, Zenon
<1>5. \A i \in 1 .. k : q[i] = 1000 + i
  BY <1>2, Zenon
<1>6. DeviceData(n) = q
  BY <1>1, <1>2, Zenon DEF DeviceData
<1>7. QED
  BY <1>1, <1>4, <1>5, <1>6

\* The data of an answer: as many words as were asked for, those of the device and zeroes.
LEMMA RespDataIs ==
    ASSUME NEW res, NEW resp \in Int
    PROVE  /\ RespData(res, resp) \in Seq(Int)
           /\ resp >= 0 => Len(RespData(res, resp)) = resp \div 4
           /\ res = 0 /\ resp \in 0 .. 255 => RespData(res, resp) = DeviceData(resp)
<1>1. PICK given : given = IF res = 0 THEN DeviceData(Uint8(resp)) ELSE <<>>
  BY Zenon
<1>2. PICK u \in Nat : u = Uint8(resp)
  BY SMT DEF Uint8
<1>3. given \in Seq(Int)
  <2>1. DeviceData(u) \in Seq(Int) /\ <<>> \in Seq(Int)
    BY DeviceDataIs, EmptySeq, Zenon
  <2>2. QED
    BY <1>1, <1>2, <2>1, Zenon
<1>4. PICK g \in Nat : g = Len(given)
  BY <1>3, LenProperties
<1>5. PICK k \in Int : k = resp \div 4 /\ (resp >= 0 => k >= 0)
  <2>1. resp \div 4 \in Int /\ (resp >= 0 => resp \div 4 >= 0)
    BY SMT
  <2>2. QED
    BY <2>1, Zenon
<1>6. PICK n \in Nat : n = IF k >= 0 THEN k ELSE 0
  OBVIOUS
<1>7. 1 .. k = 1 .. n
  BY <1>6
<1>8. PICK q : q = [i \in 1 .. n |-> IF i <= g THEN given[i] ELSE 0]
  BY Zenon
<1>9. RespData(res, resp) = q
  BY <1>1, <1>4, <1>5, <1>7, <1>8, Zenon DEF RespData
<1>10. q \in Seq(Int) /\ Len(q) = n
  <2>1. ASSUME NEW i \in 1 .. n PROVE (IF i <= g THEN given[i] ELSE 0) \in Int
    <3>1. i <= g => i \in 1 .. Len(given)
      BY <1>4
    <3>2. i <= g => given[i] \in Int
      BY <1>3, <3>1, ElementOfSeq, Zenon
    <3>3. QED
      BY <3>2
  <2>2. q \in [1 .. n -> Int]
    BY <1>8, <2>1, Zenon
  <2>3. QED
    BY <2>2, FunctionIsSeq, Zenon
<1>11. resp >= 0 => n = k
  BY <1>5, <1>6
<1>12. ASSUME res = 0, resp \in 0 .. 255 PROVE q = DeviceData(resp)
  <2>1. PICK top \in Nat : top = 255 /\ top < 256
    OBVIOUS
  <2>2. resp \in 0 .. top
    BY <1>12, <2>1, Zenon
  <2>3. PICK m \in Nat : m = resp /\ m < 256
    BY <2>1, <2>2
  <2>4. u = m
    <3>1. m % 256 = m
      BY <2>3, SMT
    <3>2. QED
      BY <1>2, <2>3, <3>1 DEF Uint8
  <2>5. PICK dd : dd = DeviceData(m)
    BY Zenon
  <2>6. dd \in Seq(Int) /\ Len(dd) = n
    <3>1. dd \in Seq(Int) /\ Len(dd) = m \div 4
      BY <2>5, DeviceDataIs, Zenon
    <3>2. n = m \div 4
      BY <1>5, <1>6, <2>3
    <3>3. QED
      BY <3>1, <3>2, Zenon
  <2>7. given = dd
    BY <1>1, <1>2, <1>12, <2>4, <2>5, Zenon
  <2>8. \A i \in 1 .. n : q[i] = dd[i]
    <3>1. \A i \in 1 .. n : i <= g
      BY <1>4, <2>6, <2>7
    <3>2. QED
      BY <1>8, <2>7, <3>1, Zenon
  <2>9. q = dd
    BY <1>10, <2>6, <2>8, SeqEqual
  <2>10. QED
    BY <2>3, <2>5, <2>9, Zenon
<1>13. QED
  BY <1>5, <1>9, <1>10, <1>11, <1>12, Zenon

\* Nothing is cut off what is no longer than it may be.
LEMMA UptoWhole ==
    ASSUME NEW s \in Seq(Int), NEW n \in Nat, Len(s) <= n
    PROVE  Upto(s, n) = s
<1>1. PICK k \in Nat : k = Len(s)
  BY LenProperties
<1>2. (IF n < Len(s) THEN n ELSE Len(s)) = k
  BY <1>1
<1>3. QED
  BY <1>1, <1>2, WholeSeq, Zenon DEF Upto

-----------------------------------------------------------------------------
(* The second invariant: an answer is what the table of devices said.      *)

(* TakenIsDone needs that an answer which was asked of the table of devices *)
(* carries what the table said, in the version of the call.                 *)

ResponseIn(v, kind, val, dev, data) ==
    IF v = 2 THEN ServerResponse2(kind, val, dev, data) ELSE ServerResponse3(kind, val, dev, data)
ResponseTo(kind, val, dev, data) == ResponseIn(call.ver, kind, val, dev, data)

OpenSays(dev) ==
    done.added \in BOOLEAN /\ ans = ResponseTo("open_resp", IF done.added THEN 1 ELSE 0, dev, <<>>)
CloseSays(dev) == ans = ResponseTo("close_resp", 0, dev, <<>>)
CommandSays3(dev) ==
    ans = IF done.res # 0 THEN CreateErrorResponse(XibErrorsToXibridge(done.res))
          ELSE ServerResponse3("cmd_resp", 0, dev, RespData(0, call.resp))
CommandSays2(dev) ==
    \E resp \in Int :
        /\ call.data # <<>> => resp = call.resp - 4
        /\ ans = ServerResponse2("cmd_resp", done.res, dev, RespData(done.res, resp))
ListSays == done.devs \in Seq(Identifiers) /\ ans = CreateEnumResponse(done.devs)

AnswerSays(dev) ==
    CASE call.op = "open" -> OpenSays(dev)
      [] call.op = "close" -> CloseSays(dev)
      [] call.op = "command" -> done.res \in Results /\ (IF call.ver = 3 THEN CommandSays3(dev) ELSE CommandSays2(dev))
      [] call.op = "enumerate" -> call.ver = 3 /\ ListSays
      [] OTHER -> FALSE
AnsFits ==
    pc = "answered" /\ done \notin {None, NoVal} /\ ~call.own =>
        call.ver \in {2, 3} /\ AnswerSays(MeantDevice(call))

AnswerInv == peer = 0 => AnsFits /\ TakenIsDone

\* A sequence of elements of a set is one of any greater set.
LEMMA WiderSeq ==
    ASSUME NEW S, NEW T, S \subseteq T, NEW s \in Seq(S)
    PROVE  s \in Seq(T)
<1>1. \A i \in 1 .. Len(s) : s[i] \in T
  BY ElementOfSeq
<1>2. Len(s) \in Nat /\ s = [i \in 1 .. Len(s) |-> s[i]]
  OBVIOUS
<1>3. s \in [1 .. Len(s) -> T]
  BY <1>1, <1>2, Zenon
<1>4. QED
  BY <1>2, <1>3, FunctionIsSeq, Zenon

\* The length of the answer in a request of protocol 2 is a number, wherever it ends.
LEMMA LengthIsNumber ==
    ASSUME NEW p \in Seq(Int), Len(p) >= 4
    PROVE  GetRequest2(p).resp \in Int
<1>1. Len(p) \in Nat /\ Buf(p) = At(p, 0)
  BY LenProperties DEF Buf, At
<1>2. 0 \in Nat /\ 1 \in Nat /\ 2 \in Nat /\ 4 \in Nat /\ 6 \in Nat /\ 7 \in Nat /\ 0 + 4 <= Len(p)
  BY <1>1
<1>3. Read(Buf(p), 4) = At(p, 4)
  <2>1. Moves(p, 0, 4) /\ 0 + 4 = 4
    BY <1>1, <1>2, WithinData
  <2>2. QED
    BY <1>1, <2>1 DEF Moves
<1>4. PICK b6, b7, b8 : b6 = Seek(At(p, 4), 2) /\ b7 = Seek(b6, 1) /\ b8 = Read(b7, 1)
  BY Zenon
<1>5. GetRequest2(p).resp \in {0, IF b8.broken THEN 0 ELSE Ahead(b7, 1)}
  <2>1. CASE p[2] \in {Code2.open_req, Code2.close_req}
    BY <2>1 DEF GetRequest2, Request
  <2>2. CASE p[2] \notin {Code2.open_req, Code2.close_req} /\ p[2] # Code2.cmd_req
    BY <2>2 DEF GetRequest2, Request
  <2>3. CASE p[2] \notin {Code2.open_req, Code2.close_req} /\ p[2] = Code2.cmd_req
    <3>1. PICK cid, rest, dev, type : cid = Rest(b6) /\ rest = Rest(b8) /\ dev = Serial(p[4]) /\ type = p[2]
      BY Zenon
    <3>2. PICK resp : resp = IF b8.broken THEN 0 ELSE Ahead(b7, 1)
      BY Zenon
    <3>3. GetRequest2(p) = Request(~b8.broken, 0, type, dev, <<IF cid = <<>> THEN Junk ELSE cid[1]>> \o rest, resp)
      BY <1>3, <1>4, <2>3, <3>1, <3>2, Zenon DEF GetRequest2
    <3>4. \A ok, err, data : Request(ok, err, type, dev, data, resp).resp = resp
      BY DEF Request
    <3>5. GetRequest2(p).resp = resp
      BY <3>3, <3>4, Zenon
    <3>6. QED
      BY <3>2, <3>5, Zenon
  <2>4. QED
    BY <2>1, <2>2, <2>3, Zenon
<1>6. ASSUME ~b8.broken PROVE Ahead(b7, 1) \in Int
  <2>1. 4 + 2 <= Len(p) /\ b6 = At(p, 6)
    <3>1. ASSUME ~(4 + 2 <= Len(p)) PROVE FALSE
      <4>1. Broken(b6)
        BY <1>1, <1>2, <1>4, <3>1, PastData, Zenon
      <4>2. Broken(b7)
        BY <1>4, <4>1, BrokenStays, Zenon
      <4>3. Broken(b8)
        BY <1>4, <4>2, BrokenStays, Zenon
      <4>4. QED
        BY <1>6, <4>3, Zenon DEF Broken
    <3>2. Moves(p, 4, 2) /\ 4 + 2 = 6
      BY <1>1, <1>2, <3>1, WithinData
    <3>3. QED
      BY <1>4, <3>1, <3>2 DEF Moves
  <2>2. 6 + 1 <= Len(p) /\ b7 = At(p, 7)
    <3>1. ASSUME ~(6 + 1 <= Len(p)) PROVE FALSE
      <4>1. Broken(b7)
        BY <1>1, <1>2, <1>4, <2>1, <3>1, PastData, Zenon
      <4>2. Broken(b8)
        BY <1>4, <4>1, BrokenStays, Zenon
      <4>3. QED
        BY <1>6, <4>2, Zenon DEF Broken
    <3>2. Moves(p, 6, 1) /\ 6 + 1 = 7
      BY <1>1, <1>2, <3>1, WithinData
    <3>3. QED
      BY <1>4, <2>1, <3>1, <3>2 DEF Moves
  <2>3. 7 + 1 <= Len(p)
    <3>1. ASSUME ~(7 + 1 <= Len(p)) PROVE FALSE
      <4>1. Broken(b8)
        BY <1>1, <1>2, <1>4, <2>2, <3>1, PastData, Zenon
      <4>2. QED
        BY <1>6, <4>1, Zenon DEF Broken
    <3>2. QED
      BY <3>1
  <2>4. Moves(p, 7, 1) /\ 8 \in 1 .. Len(p) /\ 7 + 1 = 8
    BY <1>1, <1>2, <2>3, WithinData
  <2>5. Ahead(b7, 1) = p[8]
    BY <2>2, <2>4 DEF Moves
  <2>6. QED
    BY <2>4, <2>5, ElementOfSeq, Zenon
<1>7. QED
  <2>1. 0 \in Int
    OBVIOUS
  <2>2. CASE b8.broken
    BY <1>5, <2>1, <2>2, Zenon
  <2>3. CASE ~b8.broken
    BY <1>5, <1>6, <2>1, <2>3, Zenon
  <2>4. QED
    BY <2>2, <2>3

\* The device of a response is that of the request.
LEMMA MeantIs ==
    ASSUME NEW c, CallFits(c)
    PROVE  MeantDevice(c) \in Identifiers
<1>1. c.dev \in Identifiers
  BY NamedAreIdentifiers, Zenon DEF CallFits
<1>2. c.dev.id \in Nat
  BY <1>1 DEF Identifiers
<1>3. 0 \in Words16
  BY SMT DEF Words16
<1>4. Serial(c.dev.id) \in Identifiers
  BY <1>2, <1>3 DEF Serial, DevId, Identifiers
<1>5. QED
  BY <1>1, <1>4, Zenon DEF MeantDevice

\* A request for a device that the server takes: the call that it came from.
LEMMA TakenRequest ==
    ASSUME SentFits, NEW kind \in {"open_req", "close_req", "cmd_req"}, ReceivedOf(kind)
    PROVE  /\ pc = "sent" /\ CallFits(call) /\ IsReceived(req, call) /\ IsRequest(req, call)
           /\ req[1] = call.ver /\ call.ver \in {2, 3} /\ Parsed = ParseOf(req) /\ (call.ver = 3 => Parsed.ok)
           /\ Parsed.dev = MeantDevice(call) /\ Parsed.dev \in Identifiers
           /\ kind = "open_req" => call.op = "open"
           /\ kind = "close_req" => call.op = "close"
           /\ kind = "cmd_req" => call.op = "command"
<1>1. Received
  BY Zenon DEF ReceivedOf
<1>2. /\ pc = "sent" /\ req[1] = call.ver /\ CallFits(call) /\ IsReceived(req, call) /\ IsRequest(req, call)
      /\ Parsed = ParseOf(req)
  BY <1>1, ReceivedIs, Zenon
<1>3. /\ call.ver \in {2, 3} /\ (call.ver = 3 => Parsed.ok)
      /\ kind = "open_req" => call.op = "open"
      /\ kind = "close_req" => call.op = "close"
      /\ kind = "cmd_req" => call.op = "command"
  BY ReceivedKind, Zenon
<1>4. Parsed.dev = MeantDevice(call)
  <2>1. req[1] = 3 => ParseOf(req).ok
    BY <1>2, <1>3, Zenon
  <2>2. call.op \in {"open", "close", "command"}
    BY <1>3
  <2>3. ParseOf(req).dev = MeantDevice(call)
    BY <1>2, <1>3, <2>1, <2>2, DeviceIsMeant, Zenon
  <2>4. QED
    BY <1>2, <2>3, Zenon
<1>5. Parsed.dev \in Identifiers
  BY <1>2, <1>4, MeantIs, Zenon
<1>6. QED
  BY <1>2, <1>3, <1>4, <1>5, Zenon

\* What the server responds with in the version of the request.
LEMMA RespondIs ==
    ASSUME req[1] = call.ver, NEW kind, NEW val, NEW dev, NEW data
    PROVE  Respond(kind, val, dev, data) = ResponseTo(kind, val, dev, data)
BY Zenon DEF Respond, ResponseTo, ResponseIn

\* TakenIsDone is about the time after the answer.
LEMMA AnsweredYet ==
    ASSUME NEW a, NEW d, NEW packet, Answer(a, d, packet)
    PROVE  TakenIsDone' /\ done' = d /\ ans' = packet /\ call' = call
<1>1. pc' = "answered" /\ done' = d /\ ans' = packet /\ call' = call
  BY DEF Answer
<1>2. pc' # "idle"
  BY <1>1
<1>3. QED
  BY <1>1, <1>2, Zenon DEF TakenIsDone

\* Answers for which nothing was asked.
LEMMA NothingDone ==
    ASSUME NEW a, NEW packet, Answer(a, NoVal, packet)
    PROVE  AnsFits' /\ TakenIsDone'
BY AnsweredYet, Zenon DEF AnsFits

\* Every other one, when it says what the table of devices said.
LEMMA SomethingDone ==
    ASSUME NEW a, NEW d, NEW packet, Answer(a, d, packet), call.ver \in {2, 3},
           NEW dev, dev = MeantDevice(call), AnswerSays(dev)'
    PROVE  AnsFits' /\ TakenIsDone'
<1>1. TakenIsDone' /\ call' = call
  BY AnsweredYet, Zenon
<1>2. MeantDevice(call)' = dev
  BY <1>1, Zenon DEF MeantDevice
<1>3. AnsFits'
  BY <1>1, <1>2, Zenon DEF AnsFits
<1>4. QED
  BY <1>1, <1>3, Zenon

\* An open is answered with what the table said of it.
LEMMA OpenIsSaid == ASSUME SentFits, ServerOpens PROVE AnsFits' /\ TakenIsDone'
<1>1. PICK added, a, d, packet :
        /\ added \in BOOLEAN /\ d = [op |-> "open", added |-> added]
        /\ packet = Respond("open_resp", IF added THEN 1 ELSE 0, Parsed.dev, <<>>)
        /\ Answer(a, d, packet)
  BY Zenon DEF ServerOpens
<1>2. ReceivedOf("open_req")
  BY Zenon DEF ServerOpens
<1>3. call.op = "open" /\ call.ver \in {2, 3} /\ req[1] = call.ver /\ Parsed.dev = MeantDevice(call)
  <2>1. "open_req" \in {"open_req", "close_req", "cmd_req"}
    OBVIOUS
  <2>2. QED
    BY <1>2, <2>1, TakenRequest, Zenon
<1>4. PICK dev : dev = MeantDevice(call)
  BY Zenon
<1>5. done' = d /\ ans' = packet /\ call' = call
  BY <1>1, AnsweredYet, Zenon
<1>6. d.added = added
  BY <1>1
<1>7. packet = ResponseTo("open_resp", IF d.added THEN 1 ELSE 0, dev, <<>>)
  <2>1. PICK val : val = IF added THEN 1 ELSE 0
    BY Zenon
  <2>2. packet = ResponseTo("open_resp", val, dev, <<>>)
    BY <1>1, <1>3, <1>4, <2>1, RespondIs, Zenon
  <2>3. QED
    BY <1>6, <2>1, <2>2, Zenon
<1>8. OpenSays(dev)'
  BY <1>1, <1>5, <1>6, <1>7, Zenon DEF OpenSays, ResponseTo
<1>9. AnswerSays(dev)'
  BY <1>3, <1>5, <1>8, Zenon DEF AnswerSays
<1>10. QED
  BY <1>1, <1>3, <1>4, <1>9, SomethingDone, Zenon

\* A close is answered.
LEMMA CloseIsSaid == ASSUME SentFits, ServerCloses PROVE AnsFits' /\ TakenIsDone'
<1>1. PICK a, d, packet :
        packet = Respond("close_resp", 0, Parsed.dev, <<>>) /\ Answer(a, d, packet)
  BY Zenon DEF ServerCloses
<1>2. ReceivedOf("close_req")
  BY Zenon DEF ServerCloses
<1>3. call.op = "close" /\ call.ver \in {2, 3} /\ req[1] = call.ver /\ Parsed.dev = MeantDevice(call)
  <2>1. "close_req" \in {"open_req", "close_req", "cmd_req"}
    OBVIOUS
  <2>2. QED
    BY <1>2, <2>1, TakenRequest, Zenon
<1>4. PICK dev : dev = MeantDevice(call)
  BY Zenon
<1>5. done' = d /\ ans' = packet /\ call' = call
  BY <1>1, AnsweredYet, Zenon
<1>6. packet = ResponseTo("close_resp", 0, dev, <<>>)
  BY <1>1, <1>3, <1>4, RespondIs, Zenon
<1>7. CloseSays(dev)'
  BY <1>5, <1>6, Zenon DEF CloseSays, ResponseTo
<1>8. AnswerSays(dev)'
  BY <1>3, <1>5, <1>7, Zenon DEF AnswerSays
<1>9. QED
  BY <1>1, <1>3, <1>4, <1>8, SomethingDone, Zenon

\* A command is answered with the result and the data of the device.
LEMMA CommandIsSaid == ASSUME SentFits, ServerCommands PROVE AnsFits' /\ TakenIsDone'
<1>1. PICK res, a, d, packet :
        /\ res \in Results /\ d = [op |-> "command", res |-> res]
        /\ packet = IF req[1] = 3 /\ res # 0 THEN CreateErrorResponse(XibErrorsToXibridge(res))
                    ELSE Respond("cmd_resp", res, Parsed.dev, RespData(res, Parsed.resp))
        /\ Answer(a, d, packet)
  BY Zenon DEF ServerCommands
<1>2. ReceivedOf("cmd_req")
  BY Zenon DEF ServerCommands
<1>3. /\ call.op = "command" /\ call.ver \in {2, 3} /\ req[1] = call.ver /\ Parsed.dev = MeantDevice(call)
      /\ CallFits(call) /\ IsReceived(req, call) /\ IsRequest(req, call) /\ Parsed = ParseOf(req)
      /\ call.ver = 3 => Parsed.ok
  <2>1. "cmd_req" \in {"open_req", "close_req", "cmd_req"}
    OBVIOUS
  <2>2. QED
    BY <1>2, <2>1, TakenRequest, Zenon
<1>4. PICK dev : dev = MeantDevice(call)
  BY Zenon
<1>5. done' = d /\ ans' = packet /\ call' = call
  <2>1. Answer(a, d, packet)
    BY <1>1
  <2>2. QED
    BY <2>1, AnsweredYet, Zenon
<1>6. d.res = res
  BY <1>1
<1>7. CASE call.ver = 3
  <2>1. Parsed.resp = call.resp
    <3>1. Parsed.resp = call.resp - (IF call.ver = 3 THEN 0 ELSE 4)
      BY <1>3, <1>7, CommandIsMeant, Zenon
    <3>2. call.resp \in Nat
      BY <1>3, Zenon DEF CallFits
    <3>3. QED
      BY <1>7, <3>1, <3>2
  <2>2. packet = IF res # 0 THEN CreateErrorResponse(XibErrorsToXibridge(res))
                 ELSE ServerResponse3("cmd_resp", 0, dev, RespData(0, call.resp))
    <3>1. ~(req[1] = 2) /\ req[1] = 3
      BY <1>3, <1>7
    <3>2. Respond("cmd_resp", res, dev, RespData(res, call.resp))
            = ServerResponse3("cmd_resp", res, dev, RespData(res, call.resp))
      BY <3>1, Zenon DEF Respond
    <3>3. QED
      BY <1>1, <1>3, <1>4, <2>1, <3>1, <3>2, Zenon
  <2>3. CommandSays3(dev)'
    BY <1>5, <1>6, <2>2, Zenon DEF CommandSays3
  <2>4. AnswerSays(dev)'
    BY <1>1, <1>3, <1>5, <1>6, <1>7, <2>3, Zenon DEF AnswerSays
  <2>5. QED
    BY <1>1, <1>3, <1>4, <2>4, SomethingDone, Zenon
<1>8. CASE call.ver = 2 /\ ~call.own
  <2>1. PICK resp : resp = Parsed.resp
    BY Zenon
  <2>2. resp \in Int
    <3>1. req \in Seq(Int) /\ Len(req) >= 4
      BY <1>3, Zenon DEF IsReceived
    <3>2. Parsed = GetRequest2(req)
      BY <1>3, <1>8, Zenon DEF Parsed
    <3>3. QED
      BY <2>1, <3>1, <3>2, LengthIsNumber, Zenon
  <2>3. call.data # <<>> => resp = call.resp - 4
    <3>1. ~(call.ver = 3)
      BY <1>8
    <3>2. QED
      BY <1>3, <1>8, <2>1, <3>1, CommandIsMeant, Zenon
  <2>4. packet = ServerResponse2("cmd_resp", res, dev, RespData(res, resp))
    <3>1. req[1] = 2 /\ ~(req[1] = 3)
      BY <1>3, <1>8
    <3>2. QED
      BY <1>1, <1>3, <1>4, <2>1, <3>1, Zenon DEF Respond
  <2>5. CommandSays2(dev)'
    BY <1>5, <1>6, <2>2, <2>3, <2>4, Zenon DEF CommandSays2
  <2>6. AnswerSays(dev)'
    <3>1. ~(call.ver = 3)
      BY <1>8
    <3>2. QED
      BY <1>1, <1>3, <1>5, <1>6, <2>5, <3>1, Zenon DEF AnswerSays
  <2>7. QED
    BY <1>1, <1>3, <1>4, <2>6, SomethingDone, Zenon
<1>9. CASE call.own
  <2>1. TakenIsDone' /\ call' = call
    BY <1>1, AnsweredYet, Zenon
  <2>2. QED
    BY <1>9, <2>1, Zenon DEF AnsFits
<1>10. QED
  BY <1>3, <1>7, <1>8, <1>9

\* An enumeration is answered with the list.
LEMMA EnumerationIsSaid == ASSUME SentFits, ServerEnumerates PROVE AnsFits' /\ TakenIsDone'
<1>1. ReceivedOf("enum_req")
  BY Zenon DEF ServerEnumerates
<1>2. call.ver = 3 /\ call.op = "enumerate"
  BY <1>1, ReceivedKind, Zenon
<1>3. PICK list, a, d : /\ list = DevIdVector(mode, plugged)
                        /\ d = [op |-> "enumerate", devs |-> list]
                        /\ Answer(a, d, CreateEnumResponse(list))
  BY Zenon DEF ServerEnumerates
<1>4. list \in Seq(Identifiers)
  <2>1. list \in Seq(PortIdsOf(mode))
    BY <1>3, VectorIsNamed, Zenon DEF SentFits, PeerFits
  <2>2. PortIdsOf(mode) \subseteq Identifiers
    BY NamedAreIdentifiers, Zenon DEF PortIdsOf
  <2>3. QED
    BY <2>1, <2>2, WiderSeq, Zenon
<1>5. done' = d /\ ans' = CreateEnumResponse(list) /\ call' = call
  BY <1>3, AnsweredYet, Zenon
<1>6. d.devs = list
  BY <1>3
<1>7. ListSays'
  BY <1>4, <1>5, <1>6, Zenon DEF ListSays
<1>8. PICK dev : dev = MeantDevice(call)
  BY Zenon
<1>9. AnswerSays(dev)'
  BY <1>2, <1>5, <1>7, Zenon DEF AnswerSays
<1>10. call.ver \in {2, 3}
  BY <1>2
<1>11. QED
  BY <1>3, <1>8, <1>9, <1>10, SomethingDone, Zenon

\* Whatever the server does.
LEMMA ServerSays == ASSUME SentFits, ServerSteps PROVE AnsFits' /\ TakenIsDone'
<1>1. CASE ServerThrows \/ ServerRefuses \/ ServerIgnores \/ ServerCannotHold \/ ServerTellsVersion
  <2>1. PICK a, packet : Answer(a, NoVal, packet)
    BY <1>1, Zenon DEF ServerThrows, ServerRefuses, ServerIgnores, ServerCannotHold, ServerTellsVersion
  <2>2. QED
    BY <2>1, NothingDone, Zenon
<1>2. QED
  BY <1>1, OpenIsSaid, CloseIsSaid, CommandIsSaid, EnumerationIsSaid, Zenon DEF ServerSteps

-----------------------------------------------------------------------------
(* What the client reads of each answer.                                   *)

\* An answer of the version of the call, with what is read in it.
IsTaken(p, v, err, val, data) == p # <<>> /\ p[1] = v /\ IsRead(GetResponse(v, p), err, val, data)

\* An answer that is read is there.
LEMMA TakenIsThere == \A p, v, err, val, data : IsTaken(p, v, err, val, data) => p # <<>>
BY Zenon DEF IsTaken

\* The client reads the value of an open or a close.
LEMMA ValueTaken ==
    ASSUME NEW v \in {2, 3}, NEW d \in Identifiers, NEW val \in Int, NEW kind \in ValueKinds, NEW p,
           p = ResponseIn(v, kind, val, d, <<>>)
    PROVE  IsTaken(p, v, 0, val, <<>>) /\ p[2] = Code(v)[kind]
<1>1. <<>> \in Seq(Int) /\ <<val>> \in Seq(Int)
  OBVIOUS
<1>2. CASE v = 2
  <2>1. p = ServerResponse2(kind, val, d, <<>>)
    BY <1>2, Zenon DEF ResponseIn
  <2>2. IsRead(GetResponse(2, p), 0, val, <<>>)
    BY <1>1, <2>1, Answer2Arrives, Zenon
  <2>3. IsPlain(p, 2, Code2[kind], d.id, <<val>> \o <<>>) /\ <<val>> \o <<>> \in Seq(Int)
    BY <1>1, <2>1, Answer2Is, Zenon
  <2>4. Len(p) = 6 + Len(<<val>> \o <<>>) /\ p[1] = 2 /\ p[2] = Code2[kind]
    BY <2>3, Zenon DEF IsPlain
  <2>5. p # <<>>
    BY <2>3, <2>4
  <2>6. Code(v) = Code2
    BY <1>2, SMT DEF Code
  <2>7. QED
    BY <1>2, <2>2, <2>4, <2>5, <2>6, Zenon DEF IsTaken
<1>3. CASE v = 3
  <2>1. p = ServerResponse3(kind, val, d, <<>>)
    BY <1>3, SMT DEF ResponseIn
  <2>2. IsRead(GetResponse(3, p), 0, val, <<>>)
    BY <1>1, <2>1, Answer3Arrives, Zenon
  <2>3. IsExtended(p, Code3[kind], IdWords(d), <<val>>)
    BY <2>1, ValueAnswerIs, Zenon
  <2>4. Len(p) = 8 + Len(<<val>>) /\ p[1] = 3 /\ p[2] = Code3[kind]
    BY <2>3, Zenon DEF IsExtended
  <2>5. p # <<>>
    BY <2>4
  <2>6. Code(v) = Code3
    BY <1>3, SMT DEF Code
  <2>7. QED
    BY <1>3, <2>2, <2>4, <2>5, <2>6, Zenon DEF IsTaken
<1>4. QED
  BY <1>2, <1>3

\* It reads the data of a command.
LEMMA DataTaken ==
    ASSUME NEW d \in Identifiers, NEW val \in Int, NEW data \in Seq(Int)
    PROVE  /\ IsTaken(ServerResponse2("cmd_resp", val, d, data), 2, 0, 0, <<val>> \o data)
           /\ IsTaken(ServerResponse3("cmd_resp", val, d, data), 3, 0, 0, data)
<1>1. PICK p : p = ServerResponse2("cmd_resp", val, d, data)
  BY Zenon
<1>2. IsTaken(p, 2, 0, 0, <<val>> \o data)
  <2>1. IsRead(GetResponse(2, p), 0, 0, <<val>> \o data)
    BY <1>1, Answer2Arrives, Zenon
  <2>2. IsPlain(p, 2, Code2["cmd_resp"], d.id, <<val>> \o data) /\ <<val>> \o data \in Seq(Int)
    <3>1. "cmd_resp" \in ValueKinds \cup {"cmd_resp"}
      OBVIOUS
    <3>2. QED
      BY <1>1, <3>1, Answer2Is, Zenon
  <2>3. Len(p) = 6 + Len(<<val>> \o data) /\ p[1] = 2
    BY <2>2, Zenon DEF IsPlain
  <2>4. p # <<>>
    BY <2>2, <2>3
  <2>5. QED
    BY <2>1, <2>3, <2>4, Zenon DEF IsTaken
<1>3. PICK q, body : /\ q = ServerResponse3("cmd_resp", val, d, data)
                     /\ IsExtended(q, Code3["cmd_resp"], IdWords(d), body) /\ IsSized(body, data)
  BY DataAnswerIs, Zenon
<1>4. IsTaken(q, 3, 0, 0, data)
  <2>1. IsRead(GetResponse(3, q), 0, 0, data)
    BY <1>3, Answer3Arrives, Zenon
  <2>2. body \in Seq(Int) /\ Len(q) = 8 + Len(body) /\ q[1] = 3
    BY <1>3, Zenon DEF IsExtended, IsSized
  <2>3. q # <<>>
    BY <2>2
  <2>4. QED
    BY <2>1, <2>2, <2>3, Zenon DEF IsTaken
<1>5. QED
  BY <1>1, <1>2, <1>3, <1>4, Zenon

\* It reads an error.
LEMMA ErrorTaken ==
    ASSUME NEW err \in Int
    PROVE  IsTaken(CreateErrorResponse(err), 3, err, err, <<>>)
<1>1. PICK p : p = CreateErrorResponse(err)
  BY Zenon
<1>2. IsExtended(p, Code3["error_resp"], IdWords(NoDevice), <<err>>)
  BY <1>1, ErrorIs, Zenon
<1>3. Len(p) = 8 + Len(<<err>>) /\ p[1] = 3
  BY <1>2, Zenon DEF IsExtended
<1>4. p # <<>>
  BY <1>3
<1>5. IsRead(GetResponse(3, p), err, err, <<>>)
  BY <1>1, Answer3Arrives, NoDeviceIs, EmptySeq, Zenon
<1>6. QED
  BY <1>1, <1>3, <1>4, <1>5, Zenon DEF IsTaken

\* It reads a list.
LEMMA ListTaken ==
    ASSUME NEW list \in Seq(Identifiers)
    PROVE  CreateEnumResponse(list) # <<>> /\ CreateEnumResponse(list)[1] = 3
<1>1. PICK p, words, body : /\ p = CreateEnumResponse(list) /\ words = WordsOf(list)
                            /\ body = <<Len(words) \div 3>> \o words \o <<0>>
  BY Zenon
<1>2. PICK n \in Nat : n = Len(list)
  BY LenProperties
<1>3. words \in Seq(Int) /\ Len(words) = 3 * n
  BY <1>1, <1>2, WordsOfDevices, Zenon DEF IsWordsOf
<1>4. (3 * n) \div 3 = n
  BY SMT
<1>5. body \in Seq(Int)
  BY <1>1, <1>3, <1>4
<1>6. p = <<3, Code3["enum_resp"], 0>> \o IdWords(NoDevice) \o <<0, 0>> \o body
  <2>1. p = ServerResponse3("enum_resp", 0, NoDevice, words)
    BY <1>1, Zenon DEF CreateEnumResponse, WordsOf
  <2>2. \A any : (CASE "enum_resp" = "cmd_resp" -> any [] "enum_resp" = "enum_resp" -> body
                  [] "enum_resp" = "ver_resp" -> <<3>> [] OTHER -> <<0>>) = body
    BY SMT
  <2>3. QED
    BY <1>1, <2>1, <2>2 DEF ServerResponse3
<1>7. IdWords(NoDevice) \in Seq(Int) /\ Len(IdWords(NoDevice)) = 3 /\ Code3["enum_resp"] \in Int
  BY NoDeviceIs, IdentifierSurvives DEF Code3
<1>8. IsExtended(p, Code3["enum_resp"], IdWords(NoDevice), body)
  BY <1>5, <1>6, <1>7, ExtendedHeader, Zenon
<1>9. Len(p) = 8 + Len(body) /\ p[1] = 3
  BY <1>8, Zenon DEF IsExtended
<1>10. p # <<>>
  BY <1>5, <1>9
<1>11. QED
  BY <1>1, <1>9, <1>10, Zenon

\* Errors of protocol 3: one for each result but ok.
LEMMA ErrorOfResult ==
    ASSUME NEW res \in Results, res # 0
    PROVE  /\ XibErrorsToXibridge(res) \in Int /\ XibErrorsToXibridge(res) # 0
           /\ XibErrorsToXibridge(res) = ERR_DEVICE_LOST <=> res = -4
<1>1. res \in {-1, -3, -4, -5}
  BY DEF Results
<1>2. QED
  BY <1>1, SMT DEF XibErrorsToXibridge, ERR_DEVICE_LOST, ERR_DEVICE_ERR, ERR_DEVICE_ERR_VAL, ERR_RECV_TIMEOUT

\* Before the client takes an answer.
Answered == /\ Core /\ AnsFits /\ pc = "answered" /\ done \notin {None, NoVal} /\ ~call.own

\* What the client knows of an answer before it reads it.
LEMMA AnsweredIs ==
    ASSUME Answered
    PROVE  /\ CallFits(call) /\ call.ver \in {2, 3} /\ MeantDevice(call) \in Identifiers
           /\ AnswerSays(MeantDevice(call))
<1>1. pc # "idle"
  BY DEF Answered
<1>2. CallFits(call)
  BY <1>1, Zenon DEF Answered, Core, SentFits, CallIsFit
<1>3. MeantDevice(call) \in Identifiers
  BY <1>2, MeantIs, Zenon
<1>4. QED
  BY <1>2, <1>3, Zenon DEF Answered, AnsFits

\* The answer has the version of the call.
LEMMA SameVersion ==
    ASSUME call.ver \in {2, 3}, ans[1] = call.ver
    PROVE  ~AnotherVersion
BY SMT DEF AnotherVersion

-----------------------------------------------------------------------------
(* What the client returns.                                                *)

\* An open that is returned was done, or not, as the table said.
LEMMA OpenTakenIsDone == ASSUME Answered, OpenTaken PROVE TakenIsDone'
<1>1. call.op = "open"
  BY Zenon DEF OpenTaken, Taking
<1>2. PICK dev : dev = MeantDevice(call)
  BY Zenon
<1>3. CallFits(call) /\ call.ver \in {2, 3} /\ dev \in Identifiers /\ OpenSays(dev)
  BY <1>1, <1>2, AnsweredIs, Zenon DEF AnswerSays
<1>4. done.added \in BOOLEAN /\ "open_resp" \in ValueKinds
  BY <1>3 DEF OpenSays, ValueKinds
<1>5. PICK val \in Int : val = IF done.added THEN 1 ELSE 0
  OBVIOUS
<1>6. IsTaken(ans, call.ver, 0, val, <<>>) /\ ans[2] = Code(call.ver)["open_resp"]
  <2>1. ans = ResponseIn(call.ver, "open_resp", val, dev, <<>>)
    BY <1>3, <1>5, Zenon DEF OpenSays, ResponseTo
  <2>2. PICK v \in {2, 3} : v = call.ver
    BY <1>3, Zenon
  <2>3. ans = ResponseIn(v, "open_resp", val, dev, <<>>)
    BY <2>1, <2>2, Zenon
  <2>4. IsTaken(ans, v, 0, val, <<>>) /\ ans[2] = Code(v)["open_resp"]
    <3>1. dev \in Identifiers /\ val \in Int /\ v \in {2, 3} /\ "open_resp" \in ValueKinds
      BY <1>3, <1>4, <1>5, <2>2, Zenon
    <3>2. QED
      BY <2>3, <3>1, ValueTaken
  <2>5. QED
    BY <2>2, <2>4, Zenon
<1>7. ~AnotherVersion
  BY <1>3, <1>6, SameVersion, Zenon DEF IsTaken
<1>8. PICK t : t = Taken
  BY Zenon
<1>9. t.ok /\ t.val = val
  BY <1>6, <1>8, Zenon DEF IsTaken, IsRead, Taken
<1>10. Translated(call.ver, ans[2], t) <=> done.added
  <2>1. call.ver = 3 => ans[2] # Code3.error_resp
    BY <1>6 DEF Code, Code3
  <2>2. val = 1 <=> done.added
    BY <1>4, <1>5
  <2>3. QED
    BY <1>9, <2>1, <2>2, Zenon DEF Translated
<1>11. PICK err : /\ err = IF AnotherVersion THEN ERR_ANOTHER_PROTOCOL ELSE IF ~t.ok THEN t.err
                           ELSE IF Translated(call.ver, ans[2], t) THEN 0 ELSE ERR_DEVICE_OPEN
                  /\ Return([op |-> "open", err |-> err])
  BY <1>8, Zenon DEF OpenTaken
<1>12. err = IF done.added THEN 0 ELSE ERR_DEVICE_OPEN
  BY <1>7, <1>9, <1>10, <1>11, Zenon
<1>13. err = 0 <=> done.added
  <2>1. ERR_DEVICE_OPEN # 0
    BY SMT DEF ERR_DEVICE_OPEN
  <2>2. QED
    BY <1>12, <2>1, Zenon
<1>14. result'.err = err /\ done' = done /\ call' = call
  BY <1>11 DEF Return
<1>15. QED
  BY <1>1, <1>13, <1>14, SMT DEF TakenIsDone

\* So was a close.
LEMMA CloseTakenIsDone == ASSUME Answered, CloseTaken PROVE TakenIsDone'
<1>1. call.op = "close" /\ Return([op |-> "close", err |-> 0])
  BY Zenon DEF CloseTaken, Taking
<1>2. result'.err = 0 /\ call' = call
  BY <1>1 DEF Return
<1>3. QED
  BY <1>1, <1>2, SMT DEF TakenIsDone

\* A list that is returned is the list that was made.
LEMMA EnumerateTakenIsDone == ASSUME Answered, peer = 0, EnumerateTaken PROVE TakenIsDone'
<1>1. call.op = "enumerate" /\ ans # <<>>
  BY Zenon DEF EnumerateTaken, Taking
<1>2. call.ver = 3 /\ ListSays
  BY <1>1, AnsweredIs, Zenon DEF AnswerSays
<1>3. PICK list : list = done.devs
  BY Zenon
<1>4. list \in Seq(Identifiers) /\ ans = CreateEnumResponse(list)
  BY <1>2, <1>3, Zenon DEF ListSays
<1>5. ~AnotherVersion
  <2>1. ans[1] = call.ver /\ call.ver \in {2, 3}
    BY <1>2, <1>4, ListTaken
  <2>2. QED
    BY <2>1, SameVersion, Zenon
<1>6. PICK t, n : t = Taken /\ n = Len(list)
  BY Zenon
<1>7. IsListed(t, list, n)
  BY <1>2, <1>4, <1>6, EnumerationArrives, Zenon DEF Taken
<1>8. t.ok /\ t.err = 0 /\ t.val = n
  <2>1. PICK data : t = Response(TRUE, 0, n, data)
    BY <1>7, Zenon DEF IsListed
  <2>2. QED
    BY <2>1 DEF Response
<1>9. /\ Return([op |-> "enumerate", err |-> t.err])
      /\ uris' = [i \in 1 .. t.val |-> UriOf(Host, IdOf(SubSeq(t.data, 3 * i - 2, 3 * i)))]
  BY <1>5, <1>6, <1>8, Zenon DEF EnumerateTaken
<1>10. uris' = [i \in DOMAIN list |-> UriOf(Host, list[i])]
  <2>1. DOMAIN list = 1 .. n
    BY <1>4, <1>6, LenProperties
  <2>2. \A i \in 1 .. n : IdOf(SubSeq(t.data, 3 * i - 2, 3 * i)) = list[i]
    BY <1>7, Zenon DEF IsListed
  <2>3. QED
    BY <1>8, <1>9, <2>1, <2>2, Zenon
<1>11. result'.err = 0 /\ done' = done /\ call' = call
  BY <1>8, <1>9 DEF Return
<1>12. uris' = [i \in DOMAIN done'.devs |-> UriOf(Host, done'.devs[i])]
  BY <1>3, <1>10, <1>11, Zenon
<1>13. result'.err = 0 /\ uris' = [i \in DOMAIN done'.devs |-> UriOf(Host, done'.devs[i])]
  BY <1>11, <1>12, Zenon
<1>14. PICK said : said <=> result'.err = 0 /\ uris' = [i \in DOMAIN done'.devs |-> UriOf(Host, done'.devs[i])]
  BY Zenon
<1>15. \A a, b, c, d : CASE "enumerate" = "open" -> a [] "enumerate" = "enumerate" -> TRUE
                         [] "enumerate" = "command" /\ call'.ver = 3 -> b
                         [] "enumerate" = "command" /\ call'.ver = 2 -> c [] OTHER -> d
  BY SMT
<1>16. QED
  BY <1>1, <1>11, <1>13, <1>15, Zenon DEF TakenIsDone

\* A command: what the caller gets of the data, and the error.
LEMMA CommandReturned ==
    ASSUME CommandTaken, NEW err, NEW val, NEW data \in Seq(Int), IsTaken(ans, call.ver, err, val, data),
           CallFits(call)
    PROVE  /\ result'.err = err /\ result'.data = Upto(data, call.resp \div 4)
           /\ done' = done /\ call' = call /\ call.op = "command"
<1>1. call.op = "command" /\ Return([op |-> "command", err |-> Taken.err, data |-> Upto(Taken.data, call.resp \div 4)])
  BY Zenon DEF CommandTaken, Taking
<1>2. Taken.err = err /\ Taken.data = data
  BY Zenon DEF IsTaken, IsRead, Taken
<1>3. PICK d : d = Upto(data, call.resp \div 4)
  BY Zenon
<1>4. Return([op |-> "command", err |-> err, data |-> d])
  BY <1>1, <1>2, <1>3, Zenon
<1>5. result'.err = err /\ result'.data = d /\ done' = done /\ call' = call
  BY <1>4 DEF Return
<1>6. QED
  BY <1>1, <1>3, <1>5, Zenon

\* The words that the caller wants of an answer.
LEMMA WordsWanted ==
    ASSUME CallFits(call)
    PROVE  call.resp \div 4 \in Nat /\ call.resp \in Nat
<1>1. PICK n \in Nat : n = call.resp
  BY Zenon DEF CallFits
<1>2. n \div 4 \in Nat
  BY SMT
<1>3. QED
  BY <1>1, <1>2, Zenon

\* The device's data when it went well.
LEMMA Command3Done ==
    ASSUME Answered, CommandTaken, call.ver = 3
    PROVE  /\ result'.err = 0 <=> done.res = 0
           /\ result'.err = ERR_DEVICE_LOST <=> done.res = -4
           /\ Fits => result'.data = IF done.res = 0 THEN DeviceData(call.resp) ELSE <<>>
<1>1. PICK dev : dev = MeantDevice(call)
  BY Zenon
<1>2. /\ CallFits(call) /\ dev \in Identifiers /\ done.res \in Results
      /\ CommandSays3(dev)
  <2>1. call.op = "command"
    BY Zenon DEF CommandTaken, Taking
  <2>2. QED
    BY <1>1, <2>1, AnsweredIs, Zenon DEF AnswerSays
<1>3. call.resp \div 4 \in Nat /\ call.resp \in Nat
  BY <1>2, WordsWanted, Zenon
<1>4. PICK n \in Nat, k \in Nat : n = call.resp /\ k = call.resp \div 4
  BY <1>3, Zenon
<1>5. CASE done.res = 0
  <2>1. PICK data : data = RespData(0, n)
    BY Zenon
  <2>2. /\ data \in Seq(Int) /\ Len(data) = n \div 4
        /\ n \in 0 .. 255 => data = DeviceData(n)
    <3>1. n \in Int /\ n >= 0
      OBVIOUS
    <3>2. 0 = 0
      OBVIOUS
    <3>3. QED
      BY <2>1, <3>1, <3>2, RespDataIs, Zenon
  <2>3. IsTaken(ans, call.ver, 0, 0, data)
    <3>1. ans = ServerResponse3("cmd_resp", 0, dev, data)
      BY <1>2, <1>4, <1>5, <2>1, Zenon DEF CommandSays3
    <3>2. 0 \in Int
      OBVIOUS
    <3>3. QED
      BY <1>2, <2>2, <3>1, <3>2, DataTaken, Zenon
  <2>4. result'.err = 0 /\ result'.data = Upto(data, k)
    BY <1>2, <1>4, <2>2, <2>3, CommandReturned, Zenon
  <2>5. Upto(data, k) = data
    <3>1. Len(data) <= k
      BY <1>4, <2>2
    <3>2. QED
      BY <2>2, <3>1, UptoWhole, Zenon
  <2>6. Fits => n \in 0 .. 255
    <3>1. Fits => n < 256
      BY <1>4, Zenon DEF Fits
    <3>2. n < 256 => n \in 0 .. 255
      BY SMT
    <3>3. QED
      BY <3>1, <3>2, Zenon
  <2>7. ERR_DEVICE_LOST # 0 /\ 0 # -4
    BY SMT DEF ERR_DEVICE_LOST
  <2>8. QED
    BY <1>4, <1>5, <2>2, <2>4, <2>5, <2>6, <2>7, Zenon
<1>6. CASE done.res # 0
  <2>1. PICK err : err = XibErrorsToXibridge(done.res)
    BY Zenon
  <2>2. err \in Int /\ err # 0 /\ (err = ERR_DEVICE_LOST <=> done.res = -4)
    BY <1>2, <1>6, <2>1, ErrorOfResult, Zenon
  <2>3. IsTaken(ans, call.ver, err, err, <<>>)
    <3>1. ans = CreateErrorResponse(err)
      BY <1>2, <1>6, <2>1, Zenon DEF CommandSays3
    <3>2. QED
      BY <2>2, <3>1, ErrorTaken, Zenon
  <2>4. <<>> \in Seq(Int) /\ Len(<<>>) <= k
    OBVIOUS
  <2>5. result'.err = err /\ result'.data = Upto(<<>>, k)
    BY <1>2, <1>4, <2>3, <2>4, CommandReturned, Zenon
  <2>6. Upto(<<>>, k) = <<>>
    BY <2>4, UptoWhole, Zenon
  <2>7. QED
    BY <1>6, <2>2, <2>5, <2>6, Zenon
<1>7. QED
  BY <1>5, <1>6, Zenon

\* In protocol 2 the result stands in front of the data.
LEMMA Command2Done ==
    ASSUME Answered, CommandTaken, call.ver = 2
    PROVE  /\ result'.err = 0
           /\ Fits => result'.data = <<done.res>> \o RespData(done.res, call.resp - 4)
<1>1. PICK dev : dev = MeantDevice(call)
  BY Zenon
<1>2. /\ CallFits(call) /\ dev \in Identifiers /\ done.res \in Results /\ CommandSays2(dev)
  <2>1. call.op = "command"
    BY Zenon DEF CommandTaken, Taking
  <2>2. ~(call.ver = 3)
    OBVIOUS
  <2>3. QED
    BY <1>1, <2>1, <2>2, AnsweredIs, Zenon DEF AnswerSays
<1>3. done.res \in Int
  BY <1>2 DEF Results
<1>4. PICK resp \in Int : /\ call.data # <<>> => resp = call.resp - 4
                          /\ ans = ServerResponse2("cmd_resp", done.res, dev, RespData(done.res, resp))
  BY <1>2, Zenon DEF CommandSays2
<1>5. PICK data, body : data = RespData(done.res, resp) /\ body = <<done.res>> \o data
  BY Zenon
<1>6. data \in Seq(Int) /\ (resp >= 0 => Len(data) = resp \div 4)
  BY <1>5, RespDataIs, Zenon
<1>7. body \in Seq(Int) /\ Len(body) = 1 + Len(data)
  BY <1>3, <1>5, <1>6
<1>8. IsTaken(ans, call.ver, 0, 0, body)
  BY <1>2, <1>3, <1>4, <1>5, <1>6, DataTaken, Zenon
<1>9. result'.err = 0 /\ result'.data = Upto(body, call.resp \div 4)
  BY <1>2, <1>7, <1>8, CommandReturned, Zenon
<1>10. ASSUME Fits PROVE result'.data = <<done.res>> \o RespData(done.res, call.resp - 4)
  <2>1. call.data # <<>> /\ call.resp - 4 \in 0 .. 255
    BY <1>10, SMT DEF Fits
  <2>2. PICK n \in Nat, k \in Nat : n = call.resp /\ k = call.resp \div 4
    BY <1>2, WordsWanted, Zenon
  <2>3. resp = n - 4 /\ n - 4 >= 0
    <3>1. PICK top \in Nat : top = 255
      OBVIOUS
    <3>2. n - 4 \in 0 .. top
      BY <2>1, <2>2, <3>1, Zenon
    <3>3. resp = n - 4
      BY <1>4, <2>1, <2>2, Zenon
    <3>4. QED
      BY <3>2, <3>3
  <2>4. Len(body) = k
    <3>1. n - 4 >= 0 => 1 + ((n - 4) \div 4) = n \div 4
      BY SMT
    <3>2. QED
      BY <1>6, <1>7, <2>2, <2>3, <3>1
  <2>5. Upto(body, k) = body
    <3>1. Len(body) <= k
      BY <2>4
    <3>2. QED
      BY <1>7, <3>1, UptoWhole, Zenon
  <2>6. QED
    BY <1>4, <1>5, <1>9, <2>1, <2>2, <2>5, Zenon
<1>11. QED
  BY <1>9, <1>10, Zenon

\* A command that is returned was done, with the data of the device.
LEMMA CommandTakenIsDone == ASSUME Answered, CommandTaken PROVE TakenIsDone'
<1>1. call.op = "command"
  BY Zenon DEF CommandTaken, Taking
<1>2. done' = done /\ call' = call
  BY DEF CommandTaken, Return
<1>3. call.ver \in {2, 3}
  BY AnsweredIs, Zenon
<1>4. Fits' <=> Fits
  BY <1>2, Zenon DEF Fits
<1>5. CASE call.ver = 3
  <2>1. /\ result'.err = 0 <=> done.res = 0
        /\ result'.err = ERR_DEVICE_LOST <=> done.res = -4
        /\ Fits => result'.data = IF done.res = 0 THEN DeviceData(call.resp) ELSE <<>>
    BY <1>5, Command3Done, Zenon
  <2>2. /\ result'.err = 0 <=> done'.res = 0
        /\ result'.err = ERR_DEVICE_LOST <=> done'.res = -4
        /\ Fits' => result'.data = IF done'.res = 0 THEN DeviceData(call'.resp) ELSE <<>>
    BY <1>2, <1>4, <2>1, Zenon
  <2>3. call'.op = "command" /\ call'.ver = 3
    BY <1>1, <1>2, <1>5, Zenon
  <2>4. QED
    BY <2>2, <2>3, SMT DEF TakenIsDone
<1>6. CASE call.ver = 2
  <2>1. /\ result'.err = 0
        /\ Fits => result'.data = <<done.res>> \o RespData(done.res, call.resp - 4)
    BY <1>6, Command2Done, Zenon
  <2>2. /\ result'.err = 0
        /\ Fits' => result'.data = <<done'.res>> \o RespData(done'.res, call'.resp - 4)
    BY <1>2, <1>4, <2>1, Zenon
  <2>3. call'.op = "command" /\ call'.ver = 2 /\ call'.ver # 3
    BY <1>1, <1>2, <1>6
  <2>4. QED
    BY <2>2, <2>3, SMT DEF TakenIsDone
<1>7. QED
  BY <1>3, <1>5, <1>6

\* An answer that the table of devices was asked for is never empty, and always the
\* server's own to a call of the client's.
LEMMA AnswerThereIs == ASSUME Answered PROVE ans # <<>> /\ call.op \in {"open", "close", "command", "enumerate"}
<1>1. PICK dev : dev = MeantDevice(call)
  BY Zenon
<1>2. CallFits(call) /\ call.ver \in {2, 3} /\ dev \in Identifiers /\ AnswerSays(dev)
  BY <1>1, AnsweredIs, Zenon
<1>3. call.op \in {"open", "close", "command", "enumerate"}
  BY <1>2, SMT DEF AnswerSays
<1>4. ASSUME NEW kind \in ValueKinds, NEW val \in Int, ans = ResponseIn(call.ver, kind, val, dev, <<>>)
      PROVE  ans # <<>>
  <2>1. PICK v \in {2, 3} : v = call.ver
    BY <1>2, Zenon
  <2>2. ans = ResponseIn(v, kind, val, dev, <<>>) /\ dev \in Identifiers
    BY <1>2, <1>4, <2>1, Zenon
  <2>3. IsTaken(ans, v, 0, val, <<>>)
    BY <2>1, <2>2, ValueTaken
  <2>4. QED
    BY <2>3, TakenIsThere, Zenon
<1>5. ASSUME call.op = "open" PROVE ans # <<>>
  <2>1. OpenSays(dev)
    BY <1>2, <1>5, Zenon DEF AnswerSays
  <2>2. PICK val \in Int : val = IF done.added THEN 1 ELSE 0
    OBVIOUS
  <2>3. ans = ResponseIn(call.ver, "open_resp", val, dev, <<>>)
    BY <2>1, <2>2, Zenon DEF OpenSays, ResponseTo
  <2>4. "open_resp" \in ValueKinds
    BY DEF ValueKinds
  <2>5. QED
    BY <1>4, <2>2, <2>3, <2>4, Zenon
<1>6. ASSUME call.op = "close" PROVE ans # <<>>
  <2>1. ans = ResponseIn(call.ver, "close_resp", 0, dev, <<>>)
    BY <1>2, <1>6, Zenon DEF AnswerSays, CloseSays, ResponseTo
  <2>2. "close_resp" \in ValueKinds /\ 0 \in Int
    BY DEF ValueKinds
  <2>3. QED
    BY <1>4, <2>1, <2>2, Zenon
<1>7. ASSUME call.op = "command" /\ call.ver = 3 PROVE ans # <<>>
  <2>1. done.res \in Results /\ CommandSays3(dev)
    BY <1>2, <1>7, Zenon DEF AnswerSays
  <2>2. ASSUME done.res # 0 PROVE ans # <<>>
    <3>1. PICK err \in Int : ans = CreateErrorResponse(err)
      BY <2>1, <2>2, ErrorOfResult, Zenon DEF CommandSays3
    <3>2. QED
      BY <3>1, ErrorTaken, TakenIsThere, Zenon
  <2>3. ASSUME done.res = 0 PROVE ans # <<>>
    <3>1. call.resp \in Nat
      BY <1>2, Zenon DEF CallFits
    <3>2. RespData(0, call.resp) \in Seq(Int)
      BY <3>1, NatIsInt, RespDataIs, Zenon
    <3>3. 0 \in Int
      OBVIOUS
    <3>4. IsTaken(ServerResponse3("cmd_resp", 0, dev, RespData(0, call.resp)), 3, 0, 0, RespData(0, call.resp))
      BY <1>2, <3>2, <3>3, DataTaken, Zenon
    <3>5. QED
      BY <2>1, <2>3, <3>4, TakenIsThere, Zenon DEF CommandSays3
  <2>4. QED
    BY <2>2, <2>3
<1>8. ASSUME call.op = "command" /\ call.ver = 2 PROVE ans # <<>>
  <2>1. ~(call.ver = 3)
    BY <1>8
  <2>2. done.res \in Results /\ CommandSays2(dev)
    BY <1>2, <1>8, <2>1, Zenon DEF AnswerSays
  <2>3. PICK resp \in Int : ans = ServerResponse2("cmd_resp", done.res, dev, RespData(done.res, resp))
    BY <2>2, Zenon DEF CommandSays2
  <2>4. done.res \in Int
    BY <2>2 DEF Results
  <2>5. PICK data : data = RespData(done.res, resp)
    BY Zenon
  <2>6. data \in Seq(Int)
    BY <2>3, <2>5, RespDataIs, Zenon
  <2>7. IsTaken(ServerResponse2("cmd_resp", done.res, dev, data), 2, 0, 0, <<done.res>> \o data)
    BY <1>2, <2>4, <2>6, DataTaken, Zenon
  <2>8. QED
    BY <2>3, <2>5, <2>7, TakenIsThere, Zenon
<1>9. ASSUME call.op = "enumerate" PROVE ans # <<>>
  <2>1. ListSays
    BY <1>2, <1>9, Zenon DEF AnswerSays
  <2>2. PICK list \in Seq(Identifiers) : ans = CreateEnumResponse(list)
    BY <2>1, Zenon DEF ListSays
  <2>3. QED
    BY <2>2, ListTaken, Zenon
<1>10. QED
  BY <1>2, <1>3, <1>5, <1>6, <1>7, <1>8, <1>9

\* Every answer that is taken gives the caller what the table of devices said.
LEMMA TakenSays == ASSUME Core, AnsFits, peer = 0, TakenSteps PROVE AnsFits' /\ TakenIsDone'
<1>1. PICK r : Return(r)
  BY Zenon DEF TakenSteps, TimesOut, OpenTaken, CommandTaken, CloseTaken, EnumerateTaken, VersionTaken, ReadOwn
<1>2. pc' = "idle" /\ done' = done /\ call' = call /\ pc = "answered"
  <2>1. pc = "answered"
    BY Zenon DEF TakenSteps, TimesOut, OpenTaken, CommandTaken, CloseTaken, EnumerateTaken, VersionTaken,
                 ReadOwn, Taking
  <2>2. QED
    BY <1>1, <2>1 DEF Return
<1>3. AnsFits'
  BY <1>2 DEF AnsFits
<1>4. ASSUME ~Answered PROVE TakenIsDone'
  <2>1. ~(done \notin {None, NoVal} /\ ~call.own)
    BY <1>2, <1>4, Zenon DEF Answered
  <2>2. ~(done' \notin {None, NoVal} /\ ~call'.own)
    BY <1>2, <2>1, Zenon
  <2>3. QED
    BY <2>2, Zenon DEF TakenIsDone
<1>5. ASSUME Answered PROVE TakenIsDone'
  <2>1. ans # <<>> /\ call.op # "version" /\ ~call.own
    BY <1>5, AnswerThereIs DEF Answered
  <2>2. ~TimesOut /\ ~VersionTaken /\ ~ReadOwn
    BY <2>1, Zenon DEF TimesOut, VersionTaken, ReadOwn, Taking
  <2>3. OpenTaken \/ CommandTaken \/ CloseTaken \/ EnumerateTaken
    BY <2>2, Zenon DEF TakenSteps
  <2>4. QED
    BY <1>5, <2>3, OpenTakenIsDone, CommandTakenIsDone, CloseTakenIsDone, EnumerateTakenIsDone, Zenon
<1>6. QED
  BY <1>3, <1>4, <1>5

\* Every step keeps the second invariant.
LEMMA NextAnswerInv == ASSUME WireInv, AnswerInv, [Next]_vars PROVE AnswerInv'
<1>1. CASE UNCHANGED vars
  <2>1. UNCHANGED <<peer, uris, pc, call, ans, done, result>>
    BY <1>1 DEF vars, here
  <2>2. MeantDevice(call)' = MeantDevice(call)
    BY <2>1, Zenon DEF MeantDevice
  <2>3. ASSUME NEW dev PROVE AnswerSays(dev)' <=> AnswerSays(dev)
    BY <2>1, Zenon DEF AnswerSays, OpenSays, CloseSays, CommandSays3, CommandSays2, ListSays, ResponseTo
  <2>4. AnsFits' <=> AnsFits
    BY <2>1, <2>2, <2>3, Zenon DEF AnsFits
  <2>5. uris' = uris /\ pc' = pc /\ call' = call /\ done' = done /\ result' = result
    BY <2>1, Zenon
  <2>6. TakenIsDone' <=> TakenIsDone
    BY <2>5, ZenonT(40) DEF TakenIsDone, Fits
  <2>7. QED
    BY <2>1, <2>4, <2>6, Zenon DEF AnswerInv
<1>2. CASE Replug
  <2>1. peer = 0 /\ UNCHANGED <<peer, uris, pc, call, ans, done, result>> /\ pc = "idle"
    BY <1>2, Zenon DEF Replug
  <2>2. AnsFits'
    BY <2>1 DEF AnsFits
  <2>3. uris' = uris /\ pc' = pc /\ call' = call /\ done' = done /\ result' = result
    BY <2>1, Zenon
  <2>4. TakenIsDone' <=> TakenIsDone
    BY <2>3, ZenonT(40) DEF TakenIsDone, Fits
  <2>5. QED
    BY <2>1, <2>2, <2>4, Zenon DEF AnswerInv
<1>3. CASE CallSteps
  <2>1. done' = None
    BY <1>3, CallChanges, Zenon
  <2>2. QED
    BY <2>1, Zenon DEF AnswerInv, AnsFits, TakenIsDone
<1>4. CASE ServerSteps
  <2>1. peer = 0 /\ peer' = peer
    BY <1>4, ServerChanges, Zenon
  <2>2. SentFits
    BY <2>1, Zenon DEF WireInv, Core
  <2>3. QED
    BY <1>4, <2>2, ServerSays, Zenon DEF AnswerInv
<1>5. CASE SimulatorAnswers
  <2>1. peer # 0 /\ peer' = peer
    BY <1>5, SimulatorChanges, Zenon
  <2>2. QED
    BY <2>1, Zenon DEF AnswerInv
<1>6. CASE TakenSteps
  <2>1. UNCHANGED peer
    BY <1>6, TakenChanges, Zenon
  <2>2. QED
    BY <1>6, <2>1, TakenSays, Zenon DEF WireInv, AnswerInv
<1>7. QED
  BY <1>1, <1>2, <1>3, <1>4, <1>5, <1>6, NextIs, Zenon

\* What the client returns of an exchange is what the table of devices did: no success of a
\* refused or failed operation, no data but those of the device.
THEOREM TakenDone == Spec => []TakenIsDone
<1>1. Init => WireInv /\ AnswerInv
  <2>1. Init => done = None
    BY Zenon DEF Init
  <2>2. QED
    BY <2>1, InitWireInv, Zenon DEF AnswerInv, AnsFits, TakenIsDone
<1>2. WireInv /\ AnswerInv /\ [Next]_vars => WireInv' /\ AnswerInv'
  BY NextWireInv, NextAnswerInv, Zenon
<1>3. WireInv /\ AnswerInv => TakenIsDone
  <2>1. done \in {None, NoVal} => TakenIsDone
    BY Zenon DEF TakenIsDone
  <2>2. QED
    BY <2>1, Zenon DEF WireInv, AnswerInv, NothingAsked
<1>4. QED
  BY <1>1, <1>2, <1>3, PTL DEF Spec

-----------------------------------------------------------------------------
(* The schemas, and the walk of is_match over one.                         *)

\* The letters of the schemas.
Letters == {"v", "p", "0", "d", "b", "u", "x", "I", "l"}

\* A schema with its first letters and the one behind them.
IsSchema(s, head, tail) ==
    /\ s \in Seq(Letters) /\ Len(s) = Len(head) + Len(tail)
    /\ \A i \in 1 .. Len(head) : s[i] = head[i]
    /\ \A i \in 1 .. Len(tail) : s[Len(head) + i] = tail[i]

\* The letters of a head and a tail.
LEMMA SchemaIs ==
    ASSUME NEW head \in Seq(Letters), NEW tail \in Seq(Letters)
    PROVE  IsSchema(head \o tail, head, tail) /\ IsSchema(head, head, <<>>)
<1>1. PICK m \in Nat, n \in Nat : m = Len(head) /\ n = Len(tail)
  BY LenProperties
<1>2. head \o tail \in Seq(Letters) /\ HasParts(head \o tail, head, m, tail, n)
  BY <1>1, JoinParts, Zenon
<1>3. IsSchema(head \o tail, head, tail)
  BY <1>1, <1>2, Zenon DEF IsSchema, HasParts
<1>4. Len(<<>>) = 0 /\ 1 .. 0 = {} /\ m + 0 = m
  OBVIOUS
<1>5. IsSchema(head, head, <<>>)
  BY <1>1, <1>4 DEF IsSchema
<1>6. QED
  BY <1>3, <1>5

\* The schema of each type.
Schema(v, type, head, tail) == IsSchema(GetSchema(v, type), head, tail)

\* They are letters of these.
LEMMA HeadsAre == /\ SerialHead \in Seq(Letters) /\ ExtendedHead \in Seq(Letters) /\ PlainHead \in Seq(Letters)
                  /\ \A c \in Letters : <<c>> \in Seq(Letters)
                  /\ <<"l", "u">> \in Seq(Letters)
<1>1. /\ "v" \in Letters /\ "p" \in Letters /\ "0" \in Letters /\ "d" \in Letters /\ "I" \in Letters
      /\ "u" \in Letters /\ "l" \in Letters
  BY DEF Letters
<1>2. \A a, b, c, d \in Letters : <<a, b, c, d, c, c>> \in Seq(Letters) /\ <<a, b, c, c, c, c, c, c>> \in Seq(Letters)
  BY SMT
<1>3. \A a, b \in Letters : <<a>> \in Seq(Letters) /\ <<a, b>> \in Seq(Letters)
  BY SMT
<1>4. SerialHead \in Seq(Letters)
  BY <1>1, <1>2, Zenon DEF SerialHead
<1>5. ExtendedHead \in Seq(Letters)
  BY <1>1, <1>2, Zenon DEF ExtendedHead
<1>6. PlainHead \in Seq(Letters)
  BY <1>1, <1>2, Zenon DEF PlainHead
<1>7. QED
  BY <1>1, <1>3, <1>4, <1>5, <1>6, Zenon

\* The schemas of protocol 1.
LEMMA SchemasOf1 ==
    ASSUME NEW k \in DOMAIN Code1
    PROVE  /\ k = "cmd_req" => Schema(1, Code1[k], SerialHead, <<"x">>)
           /\ k \in {"open_resp", "close_resp"} => Schema(1, Code1[k], SerialHead, <<"b">>)
           /\ k = "enum_req" => GetSchema(1, Code1[k]) = <<"v", "p", "0", "0", "0", "0", "0">>
           /\ k = "enum_resp" => GetSchema(1, Code1[k]) = <<"v", "p", "0", "u", "x">>
           /\ k \in {"open_req", "close_req"} => Schema(1, Code1[k], SerialHead, <<>>)
<1>1. PICK t \in Types(Code1) : t = Code1[k]
  BY Zenon DEF Types
<1>2. GetSchema(1, t) =
        CASE t = Code1.cmd_req -> SerialHead \o <<"x">>
          [] t \in {Code1.open_resp, Code1.close_resp} -> SerialHead \o <<"b">>
          [] t = Code1.enum_req -> <<"v", "p", "0", "0", "0", "0", "0">>
          [] t = Code1.enum_resp -> <<"v", "p", "0", "u", "x">>
          [] OTHER -> SerialHead
  <2>1. GetSchema(1, t) = Schemas1[t]
    BY SMT DEF GetSchema
  <2>2. QED
    BY <2>1, Zenon DEF Schemas1
<1>3. /\ t = Code1.cmd_req => GetSchema(1, t) = SerialHead \o <<"x">>
      /\ t \in {Code1.open_resp, Code1.close_resp} => GetSchema(1, t) = SerialHead \o <<"b">>
      /\ t = Code1.enum_req => GetSchema(1, t) = <<"v", "p", "0", "0", "0", "0", "0">>
      /\ t = Code1.enum_resp => GetSchema(1, t) = <<"v", "p", "0", "u", "x">>
      /\ t \in {Code1.open_req, Code1.close_req} => GetSchema(1, t) = SerialHead
  BY <1>2, SMT DEF Code1
<1>4. QED
  BY <1>1, <1>3, SchemaIs, HeadsAre, Zenon DEF Schema, Letters

\* Those of protocol 2.
LEMMA SchemasOf2 ==
    ASSUME NEW k \in DOMAIN Code2
    PROVE  /\ k \in {"cmd_req", "cmd_resp"} => Schema(2, Code2[k], SerialHead, <<"x">>)
           /\ k \in {"open_resp", "close_resp"} => Schema(2, Code2[k], SerialHead, <<"b">>)
           /\ k \in {"open_req", "close_req"} => Schema(2, Code2[k], SerialHead, <<>>)
<1>1. PICK t \in Types(Code2) : t = Code2[k]
  BY Zenon DEF Types
<1>2. GetSchema(2, t) =
        CASE t \in {Code2.cmd_req, Code2.cmd_resp} -> SerialHead \o <<"x">>
          [] t \in {Code2.open_resp, Code2.close_resp} -> SerialHead \o <<"b">>
          [] OTHER -> SerialHead
  <2>1. GetSchema(2, t) = Schemas2[t]
    BY SMT DEF GetSchema
  <2>2. QED
    BY <2>1, Zenon DEF Schemas2
<1>3. /\ t \in {Code2.cmd_req, Code2.cmd_resp} => GetSchema(2, t) = SerialHead \o <<"x">>
      /\ t \in {Code2.open_resp, Code2.close_resp} => GetSchema(2, t) = SerialHead \o <<"b">>
      /\ t \in {Code2.open_req, Code2.close_req} => GetSchema(2, t) = SerialHead
  BY <1>2, SMT DEF Code2
<1>4. QED
  BY <1>1, <1>3, SchemaIs, HeadsAre, Zenon DEF Schema, Letters

\* Those of protocol 3.
LEMMA SchemasOf3 ==
    ASSUME NEW k \in DOMAIN Code3
    PROVE  /\ k = "cmd_req" => Schema(3, Code3[k], ExtendedHead, <<"l", "u">>)
           /\ k = "cmd_resp" => Schema(3, Code3[k], ExtendedHead, <<"l">>)
           /\ k \in {"open_resp", "close_resp"} => Schema(3, Code3[k], ExtendedHead, <<"b">>)
           /\ k = "error_resp" => Schema(3, Code3[k], ExtendedHead, <<"u">>)
           /\ k \in {"ver_req", "enum_req"} => Schema(3, Code3[k], PlainHead, <<>>)
           /\ k = "ver_resp" => Schema(3, Code3[k], PlainHead, <<"u">>)
           /\ k = "enum_resp" => Schema(3, Code3[k], PlainHead, <<"x">>)
           /\ k \in {"open_req", "close_req"} => Schema(3, Code3[k], ExtendedHead, <<>>)
<1>1. PICK t \in Types(Code3) : t = Code3[k]
  BY Zenon DEF Types
<1>2. GetSchema(3, t) =
        CASE t = Code3.cmd_req -> ExtendedHead \o <<"l", "u">>
          [] t = Code3.cmd_resp -> ExtendedHead \o <<"l">>
          [] t \in {Code3.open_resp, Code3.close_resp} -> ExtendedHead \o <<"b">>
          [] t = Code3.error_resp -> ExtendedHead \o <<"u">>
          [] t \in {Code3.ver_req, Code3.enum_req} -> PlainHead
          [] t = Code3.ver_resp -> PlainHead \o <<"u">>
          [] t = Code3.enum_resp -> PlainHead \o <<"x">>
          [] OTHER -> ExtendedHead
  <2>1. GetSchema(3, t) = Schemas3[t]
    BY SMT DEF GetSchema
  <2>2. QED
    BY <2>1, Zenon DEF Schemas3
<1>3. /\ t = Code3.cmd_req => GetSchema(3, t) = ExtendedHead \o <<"l", "u">>
      /\ t = Code3.cmd_resp => GetSchema(3, t) = ExtendedHead \o <<"l">>
      /\ t \in {Code3.open_resp, Code3.close_resp} => GetSchema(3, t) = ExtendedHead \o <<"b">>
      /\ t = Code3.error_resp => GetSchema(3, t) = ExtendedHead \o <<"u">>
      /\ t \in {Code3.ver_req, Code3.enum_req} => GetSchema(3, t) = PlainHead
      /\ t = Code3.ver_resp => GetSchema(3, t) = PlainHead \o <<"u">>
      /\ t = Code3.enum_resp => GetSchema(3, t) = PlainHead \o <<"x">>
      /\ t \in {Code3.open_req, Code3.close_req} => GetSchema(3, t) = ExtendedHead
  BY <1>2, SMT DEF Code3
<1>4. QED
  BY <1>1, <1>3, SchemaIs, HeadsAre, Zenon DEF Schema, Letters

\* What a letter asks of the next word, and where reading goes on behind it.
Passes(ch, p, k, m, v, type, dev) ==
    LetterFits(ch, Ahead(At(p, k), 1), v, type, dev) /\ LetterRead(ch, At(p, k)) = At(p, m)

\* The first n letters of a schema fit, and reading goes on at m.
Walk(schema, n, p, m, v, type, dev) ==
    \E at \in [0 .. n -> 0 .. Len(p)] :
        /\ at[0] = 0 /\ at[n] = m
        /\ \A i \in 1 .. n : Passes(schema[i], p, at[i - 1], at[i], v, type, dev)

\* The values of the fold of is_match.
Buffers(p) == [data : {p}, pos : 0 .. Len(p), broken : BOOLEAN]

\* Reading leaves the buffer within its data.
LEMMA ReadStays ==
    ASSUME NEW p, Len(p) \in Nat, NEW b \in Buffers(p), NEW ch
    PROVE  LetterRead(ch, b) \in Buffers(p)
<1>1. ASSUME NEW c \in Buffers(p), NEW k \in Nat PROVE Read(c, k) \in Buffers(p)
  <2>1. c.data = p /\ c.pos \in 0 .. Len(p)
    BY DEF Buffers
  <2>2. CASE c.pos + k <= Len(p)
    <3>1. Read(c, k) = [c EXCEPT !.pos = @ + k]
      BY <2>1, <2>2 DEF Read
    <3>2. c.pos + k \in 0 .. Len(p)
      BY <2>1, <2>2
    <3>3. QED
      BY <3>1, <3>2 DEF Buffers
  <2>3. CASE ~(c.pos + k <= Len(p))
    <3>1. Read(c, k) = [c EXCEPT !.pos = Len(p), !.broken = TRUE]
      BY <2>1, <2>3 DEF Read
    <3>2. Len(p) \in 0 .. Len(p) /\ TRUE \in BOOLEAN
      OBVIOUS
    <3>3. [c EXCEPT !.pos = Len(p), !.broken = TRUE] \in Buffers(p)
      BY <3>2 DEF Buffers
    <3>4. QED
      BY <3>1, <3>3, Zenon
  <2>4. QED
    BY <2>2, <2>3
<1>2. ASSUME NEW c \in Buffers(p), NEW k PROVE Seek(c, k) \in Buffers(p)
  <2>1. c.data = p
    BY DEF Buffers
  <2>2. CASE c.pos + k \in 0 .. Len(p)
    <3>1. Seek(c, k) = [c EXCEPT !.pos = @ + k]
      BY <2>1, <2>2 DEF Seek
    <3>2. QED
      BY <2>2, <3>1 DEF Buffers
  <2>3. CASE c.pos + k \notin 0 .. Len(p)
    <3>1. Seek(c, k) = [c EXCEPT !.broken = TRUE]
      BY <2>1, <2>3 DEF Seek
    <3>2. [c EXCEPT !.broken = TRUE] \in Buffers(p)
      BY DEF Buffers
    <3>3. QED
      BY <3>1, <3>2, Zenon
  <2>4. QED
    BY <2>2, <2>3
<1>3. 1 \in Nat /\ 3 \in Nat
  OBVIOUS
<1>4. Read(b, 1) \in Buffers(p) /\ Read(b, 3) \in Buffers(p)
  BY <1>1, <1>3, Zenon
<1>5. Seek(Read(b, 1), Ahead(b, 1) \div 4) \in Buffers(p)
  BY <1>2, <1>4, Zenon
<1>6. QED
  BY <1>4, <1>5, Zenon DEF LetterRead

\* A packet along which all letters fit is one that is_match takes.
LEMMA WalkMatches ==
    ASSUME NEW S, NEW schema \in Seq(S), NEW p, Len(p) \in Nat, NEW m, NEW v, NEW type, NEW dev,
           Walk(schema, Len(schema), p, m, v, type, dev)
    PROVE  IsMatch(schema, p, v, type, dev)
<1> DEFINE n == Len(schema)
           D == [buf : Buffers(p), fits : BOOLEAN]
           Letter(s, ch) == [buf |-> LetterRead(ch, s.buf),
                             fits |-> s.fits /\ LetterFits(ch, Ahead(s.buf, 1), v, type, dev)]
           base == [buf |-> Buf(p), fits |-> TRUE]
           step == [x \in D \X (1 .. n) |-> Letter(x[1], schema[x[2]])]
           IsEnd(f) == f = [s \in SUBSET (1 .. n) |->
                               IF s = {} THEN base ELSE Letter(f[s \ {Max(s)}], schema[Max(s)])]
           iter == CHOOSE f : IsEnd(f)
<1>1. n \in Nat /\ DOMAIN schema = 1 .. n
  BY LenProperties
<1>2. base \in D
  <2>1. 0 \in 0 .. Len(p) /\ TRUE \in BOOLEAN /\ FALSE \in BOOLEAN
    OBVIOUS
  <2>2. Buf(p) \in Buffers(p)
    BY <2>1 DEF Buf, Buffers
  <2>3. QED
    BY <2>1, <2>2
<1>3. ASSUME NEW s \in D, NEW ch PROVE Letter(s, ch) \in D
  <2>1. s.buf \in Buffers(p) /\ s.fits \in BOOLEAN
    OBVIOUS
  <2>2. LetterRead(ch, s.buf) \in Buffers(p)
    BY <2>1, ReadStays, Zenon
  <2>3. (s.fits /\ LetterFits(ch, Ahead(s.buf, 1), v, type, dev)) \in BOOLEAN
    BY Zenon
  <2>4. QED
    BY <2>2, <2>3, Zenon
<1>4. \E f : IsEnd(f)
  <2>1. step \in [D \X (1 .. n) -> D]
    <3> HIDE DEF D, n, Letter
    <3>1. \A x \in D \X (1 .. n) : Letter(x[1], schema[x[2]]) \in D
      BY <1>3
    <3>2. QED
      BY <3>1, Zenon
  <2>2. PICK f : IsFold(f, n, D, base, step)
    <3> HIDE DEF step, D, n, base
    <3>1. QED
      BY <1>1, <1>2, <2>1, FoldExists, Zenon
  <2>3. ASSUME NEW s \in SUBSET (1 .. n), s # {}
        PROVE  step[<<f[s \ {Max(s)}], Max(s)>>] = Letter(f[s \ {Max(s)}], schema[Max(s)])
    <3> HIDE DEF D, n, Letter, base
    <3>1. Max(s) \in s /\ s \ {Max(s)} \in SUBSET (1 .. n)
      BY <1>1, <2>3, Greatest, Zenon
    <3>2. f \in [SUBSET (1 .. n) -> D]
      BY <2>2, Zenon DEF IsFold
    <3>3. <<f[s \ {Max(s)}], Max(s)>> \in D \X (1 .. n)
      BY <3>1, <3>2
    <3>4. QED
      BY <3>3
  <2>4. IsEnd(f)
    <3> HIDE DEF step, D, n, Letter, base
    <3>1. QED
      BY <2>2, <2>3, Zenon DEF IsFold
  <2>5. QED
    BY <2>4, Zenon
<1>5. IsEnd(iter)
  BY <1>4, Zenon
<1>6. IsMatch(schema, p, v, type, dev) <=> iter[1 .. n].fits /\ ~iter[1 .. n].buf.broken
  BY <1>1, Zenon DEF IsMatch, FoldLeft, MapThenFoldSet
<1> HIDE DEF iter
<1>7. PICK at \in [0 .. n -> 0 .. Len(p)] :
        /\ at[0] = 0 /\ at[n] = m
        /\ \A i \in 1 .. n : Passes(schema[i], p, at[i - 1], at[i], v, type, dev)
  BY Zenon DEF Walk
<1> DEFINE Place(k) == [buf |-> At(p, k), fits |-> TRUE]
           T == {k \in Nat : k <= n => iter[1 .. k] = Place(at[k])}
<1>8. 0 \in T
  <2>1. 1 .. 0 = {} /\ {} \in SUBSET (1 .. n)
    OBVIOUS
  <2>2. iter[{}] = base
    BY <1>5, <2>1, Zenon
  <2>3. base = Place(0)
    BY DEF Buf, At
  <2>4. QED
    BY <1>7, <2>1, <2>2, <2>3
<1>9. ASSUME NEW k \in T PROVE k + 1 \in T
  <2> HIDE DEF D, n
  <2> SUFFICES ASSUME k + 1 <= n PROVE iter[1 .. k + 1] = Place(at[k + 1])
    OBVIOUS
  <2>1. k + 1 \in 1 .. n /\ (k + 1) - 1 = k /\ iter[1 .. k] = Place(at[k])
    BY <1>1
  <2>2. /\ 1 .. k + 1 \in SUBSET (1 .. n) /\ 1 .. k + 1 # {} /\ Max(1 .. k + 1) = k + 1
        /\ (1 .. k + 1) \ {Max(1 .. k + 1)} = 1 .. (k + 1) - 1
    BY <1>1, <2>1, LastOfFirst
  <2>3. iter[1 .. k + 1] = Letter(iter[1 .. k], schema[k + 1])
    <3> HIDE DEF Letter, base
    <3>1. QED
      BY <1>5, <2>1, <2>2, Zenon
  <2>4. Passes(schema[k + 1], p, at[k], at[k + 1], v, type, dev)
    BY <1>7, <2>1, Zenon
  <2>5. PICK ch, i, j : ch = schema[k + 1] /\ i = at[k] /\ j = at[k + 1]
    BY Zenon
  <2>6. Passes(ch, p, i, j, v, type, dev)
    BY <2>4, <2>5, Zenon
  <2>7. Letter(Place(i), ch) = Place(j)
    <3>1. Place(i).buf = At(p, i) /\ Place(i).fits = TRUE
      BY Zenon
    <3>2. LetterRead(ch, Place(i).buf) = At(p, j) /\ LetterFits(ch, Ahead(Place(i).buf, 1), v, type, dev)
      BY <2>6, <3>1, Zenon DEF Passes
    <3>3. (Place(i).fits /\ LetterFits(ch, Ahead(Place(i).buf, 1), v, type, dev)) = TRUE
      BY <3>1, <3>2, Zenon
    <3>4. QED
      BY <3>2, <3>3, Zenon
  <2>8. QED
    BY <2>1, <2>3, <2>5, <2>7, Zenon
<1>10. T = Nat
  <2>1. T \subseteq Nat
    OBVIOUS
  <2> HIDE DEF T
  <2>2. QED
    BY <1>8, <1>9, <2>1, SetInduction
<1>11. iter[1 .. n] = Place(at[n])
  <2>1. n \in T /\ n <= n
    <3> HIDE DEF T, n
    <3>1. QED
      BY <1>1, <1>10
  <2> HIDE DEF n, Place
  <2>2. QED
    BY <2>1
<1>12. Place(at[n]).fits /\ ~Place(at[n]).buf.broken
  BY Zenon DEF At
<1>13. QED
  BY <1>6, <1>11, <1>12, Zenon

\* What each letter takes.
LEMMA LettersTake ==
    ASSUME NEW v, NEW type, NEW dev
    PROVE  /\ LetterFits("v", v, v, type, dev) /\ LetterFits("p", type, v, type, dev)
           /\ LetterFits("0", 0, v, type, dev) /\ LetterFits("d", dev.id, v, type, dev)
           /\ \A w \in {0, 1} : LetterFits("b", w, v, type, dev)
           /\ \A w : \A ch \in {"u", "x", "I", "l"} : LetterFits(ch, w, v, type, dev)
BY SMT DEF LetterFits

\* Letters of one word.
Wordy == {"v", "p", "0", "d", "b", "u"}

\* A letter of one word passes it.
LEMMA WordPasses ==
    ASSUME NEW p, Len(p) \in Nat, NEW k \in Nat, k + 1 <= Len(p), NEW ch \in Wordy,
           NEW v, NEW type, NEW dev, LetterFits(ch, p[k + 1], v, type, dev)
    PROVE  Passes(ch, p, k, k + 1, v, type, dev)
<1>1. 1 \in Nat
  OBVIOUS
<1>2. Moves(p, k, 1)
  BY <1>1, WithinData, Zenon
<1>3. \A b : LetterRead(ch, b) = Read(b, 1)
  BY SMT DEF LetterRead, Wordy
<1>4. LetterRead(ch, At(p, k)) = At(p, k + 1) /\ Ahead(At(p, k), 1) = p[k + 1]
  BY <1>2, <1>3, Zenon DEF Moves
<1>5. QED
  BY <1>4, Zenon DEF Passes

\* An identifier is three words, of any content.
LEMMA IdPasses ==
    ASSUME NEW p, Len(p) \in Nat, NEW k \in Nat, k + 3 <= Len(p), NEW v, NEW type, NEW dev
    PROVE  Passes("I", p, k, k + 3, v, type, dev)
<1>1. 3 \in Nat
  OBVIOUS
<1>2. Moves(p, k, 3)
  BY <1>1, WithinData, Zenon
<1>3. \A b : LetterRead("I", b) = Read(b, 3)
  BY SMT DEF LetterRead
<1>4. LetterRead("I", At(p, k)) = At(p, k + 3)
  BY <1>2, <1>3, Zenon DEF Moves
<1>5. LetterFits("I", Ahead(At(p, k), 1), v, type, dev)
  BY LettersTake, Zenon
<1>6. QED
  BY <1>4, <1>5, Zenon DEF Passes

\* Data without their length are not read.
LEMMA DataPass ==
    ASSUME NEW p, NEW k, NEW v, NEW type, NEW dev
    PROVE  Passes("x", p, k, k, v, type, dev)
<1>1. \A b : LetterRead("x", b) = b
  BY SMT DEF LetterRead
<1>2. LetterFits("x", Ahead(At(p, k), 1), v, type, dev)
  BY LettersTake, Zenon
<1>3. QED
  BY <1>1, <1>2, Zenon DEF Passes

\* Data of n words behind their length.
LEMMA SizedPass ==
    ASSUME NEW p, Len(p) \in Nat, NEW k \in Nat, NEW n \in Nat, (k + 1) + n <= Len(p),
           p[k + 1] \div 4 = n, NEW v, NEW type, NEW dev
    PROVE  Passes("l", p, k, (k + 1) + n, v, type, dev)
<1>1. 1 \in Nat /\ k + 1 \in Nat /\ k + 1 <= Len(p)
  OBVIOUS
<1>2. Moves(p, k, 1) /\ Moves(p, k + 1, n)
  BY <1>1, WithinData, Zenon
<1>3. \A b : LetterRead("l", b) = Seek(Read(b, 1), Ahead(b, 1) \div 4)
  BY SMT DEF LetterRead
<1>4. LetterRead("l", At(p, k)) = Seek(At(p, k + 1), n)
  <2>1. Read(At(p, k), 1) = At(p, k + 1) /\ Ahead(At(p, k), 1) = p[k + 1]
    BY <1>2, Zenon DEF Moves
  <2>2. QED
    BY <1>3, <2>1, Zenon
<1>5. LetterRead("l", At(p, k)) = At(p, (k + 1) + n)
  BY <1>2, <1>4, Zenon DEF Moves
<1>6. LetterFits("l", Ahead(At(p, k), 1), v, type, dev)
  BY LettersTake, Zenon
<1>7. QED
  BY <1>5, <1>6, Zenon DEF Passes

\* A walk begins at the first word.
LEMMA WalkBegins ==
    ASSUME NEW s, NEW p, Len(p) \in Nat, NEW v, NEW type, NEW dev
    PROVE  Walk(s, 0, p, 0, v, type, dev)
<1> DEFINE at == [i \in 0 .. 0 |-> 0]
<1>1. 0 \in 0 .. Len(p) /\ 0 \in 0 .. 0 /\ 1 .. 0 = {}
  OBVIOUS
<1>2. at \in [0 .. 0 -> 0 .. Len(p)] /\ at[0] = 0
  BY <1>1
<1> HIDE DEF at
<1>3. QED
  BY <1>1, <1>2, Zenon DEF Walk

\* And goes on with the next letter.
LEMMA WalkOn ==
    ASSUME NEW s, NEW p, Len(p) \in Nat, NEW n \in Nat, NEW k, NEW m \in 0 .. Len(p),
           NEW v, NEW type, NEW dev,
           Walk(s, n, p, k, v, type, dev), Passes(s[n + 1], p, k, m, v, type, dev)
    PROVE  Walk(s, n + 1, p, m, v, type, dev)
<1>1. PICK at \in [0 .. n -> 0 .. Len(p)] :
        /\ at[0] = 0 /\ at[n] = k
        /\ \A i \in 1 .. n : Passes(s[i], p, at[i - 1], at[i], v, type, dev)
  BY Zenon DEF Walk
<1> DEFINE to == [i \in 0 .. n + 1 |-> IF i \in 0 .. n THEN at[i] ELSE m]
<1>2. to \in [0 .. n + 1 -> 0 .. Len(p)]
  OBVIOUS
<1>3. /\ \A i \in 0 .. n : to[i] = at[i]
      /\ to[n + 1] = m /\ to[0] = 0 /\ to[n] = k
  BY <1>1
<1>4. ASSUME NEW i \in 1 .. n + 1 PROVE Passes(s[i], p, to[i - 1], to[i], v, type, dev)
  <2> HIDE DEF to
  <2>1. CASE i \in 1 .. n
    <3>1. i - 1 \in 0 .. n /\ i \in 0 .. n
      BY <2>1
    <3>2. to[i - 1] = at[i - 1] /\ to[i] = at[i]
      BY <1>3, <3>1
    <3>3. QED
      BY <1>1, <2>1, <3>2, Zenon
  <2>2. CASE i \notin 1 .. n
    <3>1. i = n + 1 /\ i - 1 = n
      BY <2>2
    <3>2. to[i - 1] = k /\ to[i] = m
      BY <1>3, <3>1
    <3>3. QED
      BY <3>1, <3>2, Zenon
  <2>3. QED
    BY <2>1, <2>2
<1> HIDE DEF to
<1>5. QED
  BY <1>2, <1>3, <1>4, Zenon DEF Walk

\* Or with several letters of one word.
LEMMA WalkWords ==
    ASSUME NEW s, NEW p, Len(p) \in Nat, NEW n \in Nat, NEW k \in Nat, NEW j \in Nat,
           k + j <= Len(p), NEW v, NEW type, NEW dev, Walk(s, n, p, k, v, type, dev),
           \A i \in 1 .. j : s[n + i] \in Wordy /\ LetterFits(s[n + i], p[k + i], v, type, dev)
    PROVE  Walk(s, n + j, p, k + j, v, type, dev)
<1> DEFINE T == {i \in Nat : i <= j => Walk(s, n + i, p, k + i, v, type, dev)}
<1>1. 0 \in T
  <2>1. n + 0 = n /\ k + 0 = k
    OBVIOUS
  <2>2. QED
    BY <2>1
<1>2. ASSUME NEW i \in T PROVE i + 1 \in T
  <2> SUFFICES ASSUME i + 1 <= j PROVE Walk(s, n + (i + 1), p, k + (i + 1), v, type, dev)
    OBVIOUS
  <2>1. /\ i + 1 \in 1 .. j /\ n + i \in Nat /\ k + i \in Nat /\ n + (i + 1) = (n + i) + 1
        /\ k + (i + 1) = (k + i) + 1 /\ (k + i) + 1 <= Len(p) /\ (k + i) + 1 \in 0 .. Len(p)
    OBVIOUS
  <2>2. Walk(s, n + i, p, k + i, v, type, dev)
    OBVIOUS
  <2>3. s[(n + i) + 1] \in Wordy /\ LetterFits(s[(n + i) + 1], p[(k + i) + 1], v, type, dev)
    BY <2>1, Zenon
  <2>4. Passes(s[(n + i) + 1], p, k + i, (k + i) + 1, v, type, dev)
    BY <2>1, <2>3, WordPasses, Zenon
  <2>5. QED
    BY <2>1, <2>2, <2>4, WalkOn, Zenon
<1>3. T = Nat
  <2>1. T \subseteq Nat
    OBVIOUS
  <2> HIDE DEF T
  <2>2. QED
    BY <1>1, <1>2, <2>1, SetInduction
<1>4. j \in T /\ j <= j
  <2> HIDE DEF T
  <2>1. QED
    BY <1>3
<1>5. QED
  BY <1>4

\* The first letters of a schema.
BeginsWith(s, head) == \A i \in 1 .. Len(head) : s[i] = head[i]

\* Six words of the protocols 1 and 2.
LEMMA SerialWalk ==
    ASSUME NEW s, BeginsWith(s, SerialHead), NEW p, Len(p) \in Nat, 6 <= Len(p),
           NEW v, NEW type, NEW dev, p[1] = v, p[2] = type, p[3] = 0, p[4] = dev.id, p[5] = 0, p[6] = 0
    PROVE  Walk(s, 6, p, 6, v, type, dev)
<1>1. 0 \in Nat /\ 6 \in Nat /\ 0 + 6 = 6 /\ 0 + 6 <= Len(p)
  OBVIOUS
<1>2. s[1] = "v" /\ s[2] = "p" /\ s[3] = "0" /\ s[4] = "d" /\ s[5] = "0" /\ s[6] = "0"
  BY SMT DEF BeginsWith, SerialHead
<1>3. /\ LetterFits(s[1], p[1], v, type, dev) /\ LetterFits(s[2], p[2], v, type, dev)
      /\ LetterFits(s[3], p[3], v, type, dev) /\ LetterFits(s[4], p[4], v, type, dev)
      /\ LetterFits(s[5], p[5], v, type, dev) /\ LetterFits(s[6], p[6], v, type, dev)
  BY <1>2, LettersTake, Zenon
<1>4. \A i \in 1 .. 6 : s[i] \in Wordy
  <2>1. \A i \in 1 .. 6 : i \in {1, 2, 3, 4, 5, 6}
    OBVIOUS
  <2>2. QED
    BY <1>2, <2>1, Zenon DEF Wordy
<1>5. \A i \in 1 .. 6 : s[0 + i] \in Wordy /\ LetterFits(s[0 + i], p[0 + i], v, type, dev)
  <2>1. \A i \in 1 .. 6 : 0 + i = i /\ i \in {1, 2, 3, 4, 5, 6}
    OBVIOUS
  <2>2. QED
    BY <1>3, <1>4, <2>1, Zenon
<1>6. Walk(s, 0 + 6, p, 0 + 6, v, type, dev)
  BY <1>1, <1>5, WalkBegins, WalkWords, Zenon
<1>7. QED
  BY <1>1, <1>6, Zenon

\* Eight words of protocol 3, three of which are an identifier.
LEMMA ExtendedWalk ==
    ASSUME NEW s, BeginsWith(s, ExtendedHead), NEW p, Len(p) \in Nat, 8 <= Len(p),
           NEW v, NEW type, NEW dev, p[1] = v, p[2] = type, p[3] = 0, p[7] = 0, p[8] = 0
    PROVE  Walk(s, 6, p, 8, v, type, dev)
<1>1. /\ 0 \in Nat /\ 2 \in Nat /\ 3 \in Nat /\ 4 \in Nat /\ 6 \in Nat /\ 6 \in 0 .. Len(p)
      /\ 0 + 3 = 3 /\ 3 + 1 = 4 /\ 3 + 3 = 6 /\ 4 + 2 = 6 /\ 6 + 2 = 8
      /\ 0 + 3 <= Len(p) /\ 3 + 3 <= Len(p) /\ 6 + 2 <= Len(p)
  OBVIOUS
<1>2. s[1] = "v" /\ s[2] = "p" /\ s[3] = "0" /\ s[4] = "I" /\ s[5] = "0" /\ s[6] = "0"
  BY SMT DEF BeginsWith, ExtendedHead
<1>3. /\ LetterFits(s[1], p[1], v, type, dev) /\ LetterFits(s[2], p[2], v, type, dev)
      /\ LetterFits(s[3], p[3], v, type, dev)
      /\ LetterFits(s[5], p[7], v, type, dev) /\ LetterFits(s[6], p[8], v, type, dev)
  BY <1>2, LettersTake, Zenon
<1>4. s[1] \in Wordy /\ s[2] \in Wordy /\ s[3] \in Wordy /\ s[5] \in Wordy /\ s[6] \in Wordy
  BY <1>2, Zenon DEF Wordy
<1>5. \A i \in 1 .. 3 : s[0 + i] \in Wordy /\ LetterFits(s[0 + i], p[0 + i], v, type, dev)
  <2>1. \A i \in 1 .. 3 : 0 + i = i /\ i \in {1, 2, 3}
    OBVIOUS
  <2>2. QED
    BY <1>3, <1>4, <2>1, Zenon
<1>6. Walk(s, 0 + 3, p, 0 + 3, v, type, dev)
  BY <1>1, <1>5, WalkBegins, WalkWords, Zenon
<1>7. Walk(s, 3, p, 3, v, type, dev) /\ Passes("I", p, 3, 3 + 3, v, type, dev)
  BY <1>1, <1>6, IdPasses, Zenon
<1>8. Walk(s, 3, p, 3, v, type, dev) /\ Passes(s[3 + 1], p, 3, 6, v, type, dev)
  BY <1>1, <1>2, <1>7, Zenon
<1>9. Walk(s, 3 + 1, p, 6, v, type, dev)
  BY <1>1, <1>8, WalkOn, Zenon
<1>10. Walk(s, 4, p, 6, v, type, dev)
  BY <1>1, <1>9, Zenon
<1>11. \A i \in 1 .. 2 : s[4 + i] \in Wordy /\ LetterFits(s[4 + i], p[6 + i], v, type, dev)
  <2>1. \A i \in 1 .. 2 : i = 1 \/ i = 2
    OBVIOUS
  <2>2. 4 + 1 = 5 /\ 6 + 1 = 7 /\ 4 + 2 = 6 /\ 6 + 2 = 8
    OBVIOUS
  <2>3. QED
    BY <1>3, <1>4, <2>1, <2>2, Zenon
<1>12. Walk(s, 4 + 2, p, 6 + 2, v, type, dev)
  BY <1>1, <1>10, <1>11, WalkWords, Zenon
<1>13. QED
  BY <1>1, <1>12, Zenon

\* The version, the type, and zeroes: n words.
LEMMA PlainWalk ==
    ASSUME NEW n \in Nat, NEW s, s[1] = "v", s[2] = "p", \A i \in 3 .. n : s[i] = "0",
           NEW p, Len(p) \in Nat, n <= Len(p),
           NEW v, NEW type, NEW dev, p[1] = v, p[2] = type, \A i \in 3 .. n : p[i] = 0
    PROVE  Walk(s, n, p, n, v, type, dev)
<1>1. 0 \in Nat /\ 0 + n = n /\ 0 + n <= Len(p)
  OBVIOUS
<1>2. \A i \in 1 .. n : 0 + i = i /\ (i = 1 \/ i = 2 \/ i \in 3 .. n)
  OBVIOUS
<1>3. ASSUME NEW i \in 1 .. n PROVE s[0 + i] \in Wordy /\ LetterFits(s[0 + i], p[0 + i], v, type, dev)
  <2>1. s[i] \in Wordy /\ LetterFits(s[i], p[i], v, type, dev)
    <3>1. i = 1 \/ i = 2 \/ i \in 3 .. n
      BY <1>2
    <3>2. LetterFits("v", v, v, type, dev) /\ LetterFits("p", type, v, type, dev) /\ LetterFits("0", 0, v, type, dev)
      BY LettersTake, Zenon
    <3>3. "v" \in Wordy /\ "p" \in Wordy /\ "0" \in Wordy
      BY Zenon DEF Wordy
    <3>4. QED
      BY <3>1, <3>2, <3>3, Zenon
  <2>2. 0 + i = i
    BY <1>2
  <2>3. QED
    BY <2>1, <2>2, Zenon
<1>4. Walk(s, 0 + n, p, 0 + n, v, type, dev)
  BY <1>1, <1>3, WalkBegins, WalkWords, Zenon
<1>5. QED
  BY <1>1, <1>4, Zenon

\* What stands behind a head.
HasTail(s, head, tail) ==
    /\ Len(s) = Len(head) + Len(tail)
    /\ \A i \in 1 .. Len(tail) : s[Len(head) + i] = tail[i]

\* A schema with its head.
LEMMA SchemaBegins ==
    ASSUME NEW v, NEW type, NEW head, NEW tail, Schema(v, type, head, tail), NEW s, s = GetSchema(v, type)
    PROVE  s \in Seq(Letters) /\ BeginsWith(s, head) /\ HasTail(s, head, tail)
BY Zenon DEF Schema, IsSchema, BeginsWith, HasTail

\* The first words of a packet of the protocols 1 and 2.
HasSerialHead(p, v, type, id) ==
    /\ Len(p) \in Nat /\ 6 <= Len(p)
    /\ p[1] = v /\ p[2] = type /\ p[3] = 0 /\ p[4] = id /\ p[5] = 0 /\ p[6] = 0

\* Packets of the protocols 1 and 2, with data or one value or nothing behind the head.
LEMMA SerialMatches ==
    ASSUME NEW v, NEW type, NEW dev, NEW p, HasSerialHead(p, v, type, dev.id),
           \/ Schema(v, type, SerialHead, <<>>)
           \/ Schema(v, type, SerialHead, <<"x">>)
           \/ Schema(v, type, SerialHead, <<"b">>) /\ 7 <= Len(p) /\ p[7] \in {0, 1}
    PROVE  IsMatch(GetSchema(v, type), p, v, type, dev)
<1>1. PICK s : s = GetSchema(v, type)
  BY Zenon
<1>2. Len(SerialHead) = 6
  BY DEF SerialHead
<1>3. s \in Seq(Letters) /\ BeginsWith(s, SerialHead)
  BY <1>1, SchemaBegins, Zenon
<1>4. /\ Len(p) \in Nat /\ 6 <= Len(p) /\ p[1] = v /\ p[2] = type /\ p[3] = 0 /\ p[4] = dev.id
      /\ p[5] = 0 /\ p[6] = 0
  BY Zenon DEF HasSerialHead
<1>5. Walk(s, 6, p, 6, v, type, dev)
  BY <1>3, <1>4, SerialWalk, Zenon
<1>6. 6 \in Nat /\ 6 \in 0 .. Len(p)
  BY <1>4
<1>7. CASE Schema(v, type, SerialHead, <<>>)
  <2>1. HasTail(s, SerialHead, <<>>)
    BY <1>1, <1>7, SchemaBegins, Zenon
  <2>2. Len(s) = 6
    BY <1>2, <2>1 DEF HasTail
  <2>3. QED
    BY <1>1, <1>3, <1>4, <1>5, <2>2, WalkMatches, Zenon
<1>8. CASE Schema(v, type, SerialHead, <<"x">>)
  <2>1. HasTail(s, SerialHead, <<"x">>)
    BY <1>1, <1>8, SchemaBegins, Zenon
  <2>2. Len(s) = 6 + 1 /\ s[6 + 1] = "x"
    BY <1>2, <2>1 DEF HasTail
  <2>3. Passes(s[6 + 1], p, 6, 6, v, type, dev)
    BY <2>2, DataPass, Zenon
  <2>4. Walk(s, 6 + 1, p, 6, v, type, dev)
    BY <1>4, <1>5, <1>6, <2>3, WalkOn, Zenon
  <2>5. QED
    BY <1>1, <1>3, <1>4, <2>2, <2>4, WalkMatches, Zenon
<1>9. CASE Schema(v, type, SerialHead, <<"b">>) /\ 7 <= Len(p) /\ p[7] \in {0, 1}
  <2>1. HasTail(s, SerialHead, <<"b">>)
    BY <1>1, <1>9, SchemaBegins, Zenon
  <2>2. Len(s) = 6 + 1 /\ s[6 + 1] = "b" /\ 6 + 1 <= Len(p) /\ 6 + 1 \in 0 .. Len(p) /\ p[6 + 1] \in {0, 1}
    BY <1>2, <1>4, <1>9, <2>1 DEF HasTail
  <2>3. LetterFits("b", p[6 + 1], v, type, dev) /\ "b" \in Wordy
    BY <2>2, LettersTake, Zenon DEF Wordy
  <2>4. Passes(s[6 + 1], p, 6, 6 + 1, v, type, dev)
    BY <1>4, <1>6, <2>2, <2>3, WordPasses, Zenon
  <2>5. Walk(s, 6 + 1, p, 6 + 1, v, type, dev)
    BY <1>4, <1>5, <1>6, <2>2, <2>4, WalkOn, Zenon
  <2>6. QED
    BY <1>1, <1>3, <1>4, <2>2, <2>5, WalkMatches, Zenon
<1>10. QED
  BY <1>7, <1>8, <1>9

\* The first words of a packet of protocol 3.
HasExtendedHead(p, type) ==
    /\ Len(p) \in Nat /\ 8 <= Len(p)
    /\ p[1] = 3 /\ p[2] = type /\ p[3] = 0 /\ p[7] = 0 /\ p[8] = 0

\* Packets of protocol 3 that name a device: with nothing, a value, or data behind the head.
LEMMA ExtendedMatches ==
    ASSUME NEW type, NEW dev, NEW p, HasExtendedHead(p, type), NEW n \in Nat,
           \/ Schema(3, type, ExtendedHead, <<>>)
           \/ Schema(3, type, ExtendedHead, <<"b">>) /\ 9 <= Len(p) /\ p[9] \in {0, 1}
           \/ Schema(3, type, ExtendedHead, <<"u">>) /\ 9 <= Len(p)
           \/ Schema(3, type, ExtendedHead, <<"l">>) /\ 9 + n <= Len(p) /\ p[9] \div 4 = n
           \/ Schema(3, type, ExtendedHead, <<"l", "u">>) /\ 9 + n + 1 <= Len(p) /\ p[9] \div 4 = n
    PROVE  IsMatch(GetSchema(3, type), p, 3, type, dev)
<1>1. PICK s : s = GetSchema(3, type)
  BY Zenon
<1>2. Len(ExtendedHead) = 6
  BY DEF ExtendedHead
<1>3. s \in Seq(Letters) /\ BeginsWith(s, ExtendedHead)
  BY <1>1, SchemaBegins, Zenon
<1>4. /\ Len(p) \in Nat /\ 8 <= Len(p) /\ p[1] = 3 /\ p[2] = type /\ p[3] = 0
      /\ p[7] = 0 /\ p[8] = 0
  BY Zenon DEF HasExtendedHead
<1>5. Walk(s, 6, p, 8, 3, type, dev)
  BY <1>3, <1>4, ExtendedWalk, Zenon
<1>6. 6 \in Nat /\ 8 \in Nat /\ 8 \in 0 .. Len(p) /\ 6 + 1 = 7 /\ 7 \in Nat /\ 7 + 1 = 8
  BY <1>4
<1>7. CASE Schema(3, type, ExtendedHead, <<>>)
  <2>1. HasTail(s, ExtendedHead, <<>>)
    BY <1>1, <1>7, SchemaBegins, Zenon
  <2>2. Len(s) = 6
    BY <1>2, <2>1 DEF HasTail
  <2>3. QED
    BY <1>1, <1>3, <1>4, <1>5, <2>2, WalkMatches, Zenon
<1>8. ASSUME NEW ch \in {"b", "u"}, Schema(3, type, ExtendedHead, <<ch>>), 9 <= Len(p), ch = "b" => p[9] \in {0, 1}
      PROVE  IsMatch(GetSchema(3, type), p, 3, type, dev)
  <2>1. HasTail(s, ExtendedHead, <<ch>>)
    BY <1>1, <1>8, SchemaBegins, Zenon
  <2>2. Len(s) = 6 + 1 /\ s[6 + 1] = ch /\ 8 + 1 = 9 /\ 9 \in 0 .. Len(p)
    BY <1>2, <1>4, <1>8, <2>1 DEF HasTail
  <2>3. LetterFits(ch, p[8 + 1], 3, type, dev) /\ ch \in Wordy
    BY <1>8, <2>2, LettersTake, Zenon DEF Wordy
  <2>4. Passes(s[6 + 1], p, 8, 8 + 1, 3, type, dev)
    BY <1>4, <1>6, <1>8, <2>2, <2>3, WordPasses, Zenon
  <2>5. Walk(s, 6 + 1, p, 9, 3, type, dev)
    BY <1>4, <1>5, <1>6, <2>2, <2>4, WalkOn, Zenon
  <2>6. QED
    BY <1>1, <1>3, <1>4, <2>2, <2>5, WalkMatches, Zenon
<1>9. CASE Schema(3, type, ExtendedHead, <<"b">>) /\ 9 <= Len(p) /\ p[9] \in {0, 1}
  BY <1>8, <1>9, Zenon
<1>10. CASE Schema(3, type, ExtendedHead, <<"u">>) /\ 9 <= Len(p)
  <2>1. "u" # "b"
    OBVIOUS
  <2>2. QED
    BY <1>8, <1>10, <2>1, Zenon
<1>11. ASSUME s[7] = "l", 9 + n <= Len(p), p[9] \div 4 = n
       PROVE  Walk(s, 7, p, 9 + n, 3, type, dev) /\ 9 + n \in 0 .. Len(p) /\ 9 + n \in Nat
  <2>1. 8 + 1 = 9 /\ (8 + 1) + n <= Len(p) /\ 9 + n \in 0 .. Len(p) /\ 9 + n \in Nat
    BY <1>4, <1>11
  <2>2. p[8 + 1] \div 4 = n
    BY <1>11, <2>1, Zenon
  <2>3. Passes("l", p, 8, (8 + 1) + n, 3, type, dev)
    BY <1>4, <1>6, <2>1, <2>2, SizedPass, Zenon
  <2>4. Passes(s[6 + 1], p, 8, 9 + n, 3, type, dev)
    BY <1>6, <1>11, <2>1, <2>3, Zenon
  <2>5. Walk(s, 6 + 1, p, 9 + n, 3, type, dev)
    BY <1>4, <1>5, <1>6, <2>1, <2>4, WalkOn, Zenon
  <2>6. QED
    BY <1>6, <2>1, <2>5, Zenon
<1>12. CASE Schema(3, type, ExtendedHead, <<"l">>) /\ 9 + n <= Len(p) /\ p[9] \div 4 = n
  <2>1. HasTail(s, ExtendedHead, <<"l">>)
    BY <1>1, <1>12, SchemaBegins, Zenon
  <2>2. Len(s) = 7 /\ s[7] = "l"
    BY <1>2, <2>1 DEF HasTail
  <2>3. Walk(s, 7, p, 9 + n, 3, type, dev)
    BY <1>11, <1>12, <2>2
  <2>4. QED
    BY <1>1, <1>3, <1>4, <2>2, <2>3, WalkMatches, Zenon
<1>13. CASE Schema(3, type, ExtendedHead, <<"l", "u">>) /\ 9 + n + 1 <= Len(p) /\ p[9] \div 4 = n
  <2>1. HasTail(s, ExtendedHead, <<"l", "u">>)
    BY <1>1, <1>13, SchemaBegins, Zenon
  <2>2. Len(s) = 8 /\ s[7] = "l" /\ s[8] = "u"
    BY <1>2, <2>1 DEF HasTail
  <2>3. 9 + n <= Len(p) /\ (9 + n) + 1 <= Len(p) /\ (9 + n) + 1 \in 0 .. Len(p)
    BY <1>4, <1>13
  <2>4. Walk(s, 7, p, 9 + n, 3, type, dev) /\ 9 + n \in Nat
    BY <1>11, <1>13, <2>2, <2>3
  <2>5. LetterFits("u", p[(9 + n) + 1], 3, type, dev) /\ "u" \in Wordy
    BY LettersTake, Zenon DEF Wordy
  <2>6. Passes("u", p, 9 + n, (9 + n) + 1, 3, type, dev)
    BY <1>4, <2>3, <2>4, <2>5, WordPasses, Zenon
  <2>7. Walk(s, 7 + 1, p, (9 + n) + 1, 3, type, dev)
    <3>1. s[7 + 1] = "u"
      BY <1>6, <2>2, Zenon
    <3>2. Passes(s[7 + 1], p, 9 + n, (9 + n) + 1, 3, type, dev)
      BY <2>6, <3>1, Zenon
    <3>3. QED
      BY <1>4, <1>6, <2>3, <2>4, <3>2, WalkOn, Zenon
  <2>8. QED
    BY <1>1, <1>3, <1>4, <1>6, <2>2, <2>7, WalkMatches, Zenon
<1>14. QED
  BY <1>7, <1>9, <1>10, <1>12, <1>13

\* Eight words of a packet of protocol 3 that names no device.
HasPlainHead(p, type) ==
    /\ Len(p) \in Nat /\ 8 <= Len(p) /\ p[1] = 3 /\ p[2] = type
    /\ \A i \in 3 .. 8 : p[i] = 0

\* Packets of protocol 3 that name no device.
LEMMA PlainMatches ==
    ASSUME NEW type, NEW dev, NEW p, HasPlainHead(p, type),
           \/ Schema(3, type, PlainHead, <<>>)
           \/ Schema(3, type, PlainHead, <<"x">>)
           \/ Schema(3, type, PlainHead, <<"u">>) /\ 9 <= Len(p)
    PROVE  IsMatch(GetSchema(3, type), p, 3, type, dev)
<1>1. PICK s : s = GetSchema(3, type)
  BY Zenon
<1>2. Len(PlainHead) = 8
  BY DEF PlainHead
<1>3. s \in Seq(Letters) /\ BeginsWith(s, PlainHead)
  BY <1>1, SchemaBegins, Zenon
<1>4. s[1] = "v" /\ s[2] = "p" /\ \A i \in 3 .. 8 : s[i] = "0"
  <2>1. \A i \in 3 .. 8 : i \in {3, 4, 5, 6, 7, 8}
    OBVIOUS
  <2>2. s[1] = "v" /\ s[2] = "p" /\ s[3] = "0" /\ s[4] = "0" /\ s[5] = "0" /\ s[6] = "0" /\ s[7] = "0" /\ s[8] = "0"
    BY <1>3, SMT DEF BeginsWith, PlainHead
  <2>3. QED
    BY <2>1, <2>2, Zenon
<1>5. /\ Len(p) \in Nat /\ 8 <= Len(p) /\ p[1] = 3 /\ p[2] = type
      /\ \A i \in 3 .. 8 : p[i] = 0
  BY Zenon DEF HasPlainHead
<1>6. 8 \in Nat /\ 8 \in 0 .. Len(p)
  BY <1>5
<1>7. Walk(s, 8, p, 8, 3, type, dev)
  BY <1>4, <1>5, <1>6, PlainWalk, Zenon
<1>8. CASE Schema(3, type, PlainHead, <<>>)
  <2>1. HasTail(s, PlainHead, <<>>)
    BY <1>1, <1>8, SchemaBegins, Zenon
  <2>2. Len(s) = 8
    BY <1>2, <2>1 DEF HasTail
  <2>3. QED
    BY <1>1, <1>3, <1>5, <1>7, <2>2, WalkMatches, Zenon
<1>9. CASE Schema(3, type, PlainHead, <<"x">>)
  <2>1. HasTail(s, PlainHead, <<"x">>)
    BY <1>1, <1>9, SchemaBegins, Zenon
  <2>2. Len(s) = 8 + 1 /\ s[8 + 1] = "x"
    BY <1>2, <2>1 DEF HasTail
  <2>3. Passes(s[8 + 1], p, 8, 8, 3, type, dev)
    BY <2>2, DataPass, Zenon
  <2>4. Walk(s, 8 + 1, p, 8, 3, type, dev)
    BY <1>5, <1>6, <1>7, <2>3, WalkOn, Zenon
  <2>5. QED
    BY <1>1, <1>3, <1>5, <2>2, <2>4, WalkMatches, Zenon
<1>10. CASE Schema(3, type, PlainHead, <<"u">>) /\ 9 <= Len(p)
  <2>1. HasTail(s, PlainHead, <<"u">>)
    BY <1>1, <1>10, SchemaBegins, Zenon
  <2>2. Len(s) = 8 + 1 /\ s[8 + 1] = "u" /\ 8 + 1 <= Len(p) /\ 8 + 1 \in 0 .. Len(p)
    BY <1>2, <1>5, <1>10, <2>1 DEF HasTail
  <2>3. LetterFits("u", p[8 + 1], 3, type, dev) /\ "u" \in Wordy
    BY LettersTake, Zenon DEF Wordy
  <2>4. Passes(s[8 + 1], p, 8, 8 + 1, 3, type, dev)
    BY <1>5, <1>6, <2>2, <2>3, WordPasses, Zenon
  <2>5. Walk(s, 8 + 1, p, 8 + 1, 3, type, dev)
    BY <1>5, <1>6, <1>7, <2>2, <2>4, WalkOn, Zenon
  <2>6. QED
    BY <1>1, <1>3, <1>5, <2>2, <2>5, WalkMatches, Zenon
<1>11. QED
  BY <1>8, <1>9, <1>10

\* The enumeration of protocol 1, and its answer.
LEMMA Enum1Matches ==
    ASSUME NEW p, Len(p) \in Nat, NEW dev, p[1] = 1, p[3] = 0
    PROVE  /\ 7 <= Len(p) /\ p[2] = Code1.enum_req /\ p[4] = 0 /\ p[5] = 0 /\ p[6] = 0 /\ p[7] = 0
                => IsMatch(GetSchema(1, Code1.enum_req), p, 1, Code1.enum_req, dev)
           /\ 4 <= Len(p) /\ p[2] = Code1.enum_resp
                => IsMatch(GetSchema(1, Code1.enum_resp), p, 1, Code1.enum_resp, dev)
<1>1. /\ GetSchema(1, Code1.enum_req) = <<"v", "p", "0", "0", "0", "0", "0">>
      /\ GetSchema(1, Code1.enum_resp) = <<"v", "p", "0", "u", "x">>
  <2>1. "enum_req" \in DOMAIN Code1 /\ "enum_resp" \in DOMAIN Code1
    BY DEF Code1
  <2>2. QED
    BY <2>1, SchemasOf1, Zenon
<1>2. ASSUME 7 <= Len(p), p[2] = Code1.enum_req, p[4] = 0, p[5] = 0, p[6] = 0, p[7] = 0
      PROVE  IsMatch(GetSchema(1, Code1.enum_req), p, 1, Code1.enum_req, dev)
  <2>1. PICK s : s = GetSchema(1, Code1.enum_req)
    BY Zenon
  <2>2. s = <<"v", "p", "0", "0", "0", "0", "0">>
    BY <1>1, <2>1, Zenon
  <2>3. s \in Seq(Letters) /\ Len(s) = 7 /\ s[1] = "v" /\ s[2] = "p" /\ \A i \in 3 .. 7 : s[i] = "0"
    <3>1. "v" \in Letters /\ "p" \in Letters /\ "0" \in Letters
      BY DEF Letters
    <3>2. \A a, b, c \in Letters : <<a, b, c, c, c, c, c>> \in Seq(Letters)
      BY SMT
    <3>3. s \in Seq(Letters)
      BY <2>2, <3>1, <3>2, Zenon
    <3>4. Len(s) = 7 /\ s[1] = "v" /\ s[2] = "p" /\ s[3] = "0" /\ s[4] = "0" /\ s[5] = "0" /\ s[6] = "0" /\ s[7] = "0"
      BY <2>2, SMT
    <3>5. \A i \in 3 .. 7 : i \in {3, 4, 5, 6, 7}
      OBVIOUS
    <3>6. QED
      BY <3>3, <3>4, <3>5, Zenon
  <2>4. \A i \in 3 .. 7 : i \in {3, 4, 5, 6, 7}
    OBVIOUS
  <2>5. 7 \in Nat /\ \A i \in 3 .. 7 : p[i] = 0
    BY <1>2, <2>4
  <2>6. Walk(s, 7, p, 7, 1, Code1.enum_req, dev)
    BY <1>2, <2>3, <2>5, PlainWalk, Zenon
  <2>7. QED
    BY <2>1, <2>3, <2>6, WalkMatches, Zenon
<1>3. ASSUME 4 <= Len(p), p[2] = Code1.enum_resp
      PROVE  IsMatch(GetSchema(1, Code1.enum_resp), p, 1, Code1.enum_resp, dev)
  <2>1. PICK s, t : s = GetSchema(1, Code1.enum_resp) /\ t = Code1.enum_resp
    BY Zenon
  <2>2. s = <<"v", "p", "0", "u", "x">>
    BY <1>1, <2>1, Zenon
  <2>3. s \in Seq(Letters) /\ Len(s) = 5 /\ s[1] = "v" /\ s[2] = "p" /\ s[3] = "0" /\ s[4] = "u" /\ s[5] = "x"
    <3>1. "v" \in Letters /\ "p" \in Letters /\ "0" \in Letters /\ "u" \in Letters /\ "x" \in Letters
      BY DEF Letters
    <3>2. \A a, b, c, d, e \in Letters : <<a, b, c, d, e>> \in Seq(Letters)
      BY SMT
    <3>3. s \in Seq(Letters)
      BY <2>2, <3>1, <3>2, Zenon
    <3>4. Len(s) = 5 /\ s[1] = "v" /\ s[2] = "p" /\ s[3] = "0" /\ s[4] = "u" /\ s[5] = "x"
      BY <2>2, SMT
    <3>5. QED
      BY <3>3, <3>4, Zenon
  <2>4. /\ 3 \in Nat /\ 4 \in Nat /\ 3 <= Len(p) /\ 3 + 1 <= Len(p) /\ 3 + 1 \in 0 .. Len(p) /\ 4 \in 0 .. Len(p)
        /\ 3 + 1 = 4 /\ 4 + 1 = 5 /\ \A i \in 3 .. 3 : i = 3
    BY <1>3
  <2>5. Walk(s, 3, p, 3, 1, t, dev)
    BY <1>3, <2>1, <2>3, <2>4, PlainWalk, Zenon
  <2>6. Passes(s[3 + 1], p, 3, 3 + 1, 1, t, dev)
    <3>1. LetterFits("u", p[3 + 1], 1, t, dev) /\ "u" \in Wordy /\ s[3 + 1] = "u"
      BY <2>3, <2>4, LettersTake, Zenon DEF Wordy
    <3>2. QED
      BY <2>4, <3>1, WordPasses, Zenon
  <2>7. Walk(s, 3 + 1, p, 3 + 1, 1, t, dev)
    BY <2>4, <2>5, <2>6, WalkOn, Zenon
  <2>8. Walk(s, 4, p, 4, 1, t, dev) /\ Passes(s[4 + 1], p, 4, 4, 1, t, dev)
    BY <2>3, <2>4, <2>7, DataPass, Zenon
  <2>9. Walk(s, 4 + 1, p, 4, 1, t, dev)
    BY <2>4, <2>8, WalkOn, Zenon
  <2>10. QED
    BY <2>1, <2>3, <2>4, <2>9, WalkMatches, Zenon
<1>4. QED
  BY <1>2, <1>3

\* A concatenation, by the places at which its parts end.
IsFlat(p, W, n, at, S) ==
    /\ p \in Seq(S) /\ Len(p) = at[n]
    /\ \A i \in 1 .. n : \A j \in 1 .. Len(W[i]) : at[i - 1] + j <= at[n] /\ p[at[i - 1] + j] = W[i][j]

\* A place among the first, and the one before it.
LEMMA PlaceBefore ==
    \A n \in Nat : \A k \in 1 .. n : \A i \in 1 .. k : i \in 1 .. n /\ i - 1 \in 0 .. n
OBVIOUS

\* Every part is found at its place.
LEMMA FlattenPlaces ==
    ASSUME NEW S, NEW n \in Nat, n # 0, NEW W \in [1 .. n -> Seq(S)], NEW at \in [0 .. n -> Nat],
           at[0] = 0, \A i \in 1 .. n : at[i] = at[i - 1] + Len(W[i])
    PROVE  IsFlat(FlattenSeq(W), W, n, at, S)
<1>1. Len(W) = n
  BY FunctionIsSeq, Zenon
<1>2. PICK f : FlatRuns(f, W, n)
  BY <1>1, FlattenRuns, Zenon
<1>3. /\ f[1] = W[1] /\ FlattenSeq(W) = f[n]
      /\ \A i \in 1 .. n : i # 1 => f[i] = f[i - 1] \o W[i]
  BY <1>2, Zenon DEF FlatRuns
<1> DEFINE T == {m \in Nat : m + 1 <= n => IsFlat(f[m + 1], W, m + 1, at, S)}
<1>4. 0 \in T
  <2>1. 1 \in 1 .. n /\ 1 - 1 = 0 /\ 0 + 1 = 1 /\ \A i \in 1 .. 1 : i = 1
    OBVIOUS
  <2>2. W[1] \in Seq(S) /\ at[1] = at[0] + Len(W[1])
    BY <2>1, Zenon
  <2>3. PICK k \in Nat : k = Len(W[1])
    BY <2>2, LenProperties
  <2>4. at[1] = k /\ \A j \in 1 .. k : 0 + j = j /\ j <= k
    BY <2>2, <2>3
  <2>5. IsFlat(W[1], W, 1, at, S)
    <3>1. PICK w : w = W[1]
      BY Zenon
    <3>2. w \in Seq(S) /\ Len(w) = at[1]
      BY <2>2, <2>3, <2>4, <3>1, Zenon
    <3>3. ASSUME NEW i \in 1 .. 1, NEW j \in 1 .. Len(W[i])
          PROVE  at[i - 1] + j <= at[1] /\ w[at[i - 1] + j] = W[i][j]
      <4>1. i = 1 /\ at[i - 1] = 0
        BY <2>1, Zenon
      <4>2. j \in 1 .. k /\ W[i] = w
        BY <2>3, <3>1, <4>1, Zenon
      <4>3. 0 + j = j /\ j <= k
        BY <2>4, <4>2, Zenon
      <4>4. QED
        BY <2>4, <4>1, <4>2, <4>3, Zenon
    <3>4. QED
      BY <3>1, <3>2, <3>3, Zenon DEF IsFlat
  <2>6. 0 \in Nat
    OBVIOUS
  <2>7. QED
    BY <1>3, <2>1, <2>5, <2>6, Zenon
<1>5. ASSUME NEW m \in T PROVE m + 1 \in T
  <2> SUFFICES ASSUME (m + 1) + 1 <= n PROVE IsFlat(f[(m + 1) + 1], W, (m + 1) + 1, at, S)
    OBVIOUS
  <2>1. PICK k \in Nat : k = m + 1 /\ k \in 1 .. n /\ k + 1 \in 1 .. n /\ k + 1 # 1 /\ (k + 1) - 1 = k
    OBVIOUS
  <2>2. IsFlat(f[k], W, k, at, S)
    BY <2>1
  <2>3. PICK p, t, a, b : p = f[k] /\ t = W[k + 1] /\ a = at[k] /\ b = Len(t) /\ a \in Nat /\ b \in Nat
    <3>1. W[k + 1] \in Seq(S) /\ k \in 0 .. n
      BY <2>1
    <3>2. Len(W[k + 1]) \in Nat
      BY <3>1, LenProperties
    <3>3. at[k] \in Nat
      BY <3>1
    <3>4. QED
      BY <3>2, <3>3, Zenon
  <2>4. p \in Seq(S) /\ Len(p) = a /\ t \in Seq(S)
    BY <2>1, <2>2, <2>3, Zenon DEF IsFlat
  <2>5. p \o t \in Seq(S) /\ HasParts(p \o t, p, a, t, b)
    BY <2>3, <2>4, JoinParts, Zenon
  <2>6. PICK q : q = p \o t
    BY Zenon
  <2>7. /\ q \in Seq(S) /\ Len(q) = a + b
        /\ \A i \in 1 .. a : q[i] = p[i]
        /\ \A i \in 1 .. b : q[a + i] = t[i]
    BY <2>5, <2>6, Zenon DEF HasParts
  <2>8. at[k + 1] = a + b
    BY <2>1, <2>3, Zenon
  <2>9. ASSUME NEW i \in 1 .. k, NEW j \in 1 .. Len(W[i])
        PROVE  at[i - 1] + j <= at[k + 1] /\ q[at[i - 1] + j] = W[i][j]
    <3>1. at[i - 1] + j <= a /\ p[at[i - 1] + j] = W[i][j]
      BY <2>2, <2>3, Zenon DEF IsFlat
    <3>2. at[i - 1] \in Nat /\ j \in Nat /\ 1 <= j
      <4>1. i \in 1 .. n /\ i - 1 \in 0 .. n
        <5>1. i \in 1 .. k /\ k \in 1 .. n /\ n \in Nat
          BY <2>1, <2>9, Zenon
        <5>2. QED
          BY <5>1, PlaceBefore, Zenon
      <4>2. Len(W[i]) \in Nat
        BY <4>1, LenProperties
      <4>3. QED
        BY <4>1, <4>2
    <3>3. at[i - 1] + j \in 1 .. a /\ at[i - 1] + j <= a + b
      <4>1. PICK x \in Nat : x = at[i - 1]
        BY <3>2, Zenon
      <4>2. x + j <= a /\ j \in Nat /\ 1 <= j /\ a \in Nat /\ b \in Nat
        BY <2>3, <3>1, <3>2, <4>1, Zenon
      <4>3. x + j \in 1 .. a /\ x + j <= a + b
        BY <4>2
      <4>4. QED
        BY <4>1, <4>3, Zenon
    <3>4. QED
      BY <2>7, <2>8, <3>1, <3>3, Zenon
  <2>10. ASSUME NEW j \in 1 .. b PROVE a + j <= at[k + 1] /\ q[a + j] = t[j]
    <3>1. a + j <= a + b
      <4>1. a \in Nat /\ b \in Nat /\ j \in 1 .. b
        BY <2>3, <2>10, Zenon
      <4>2. QED
        BY <4>1
    <3>2. QED
      BY <2>7, <2>8, <3>1, Zenon
  <2>11. \A i \in 1 .. k + 1 : i \in 1 .. k \/ i = k + 1
    OBVIOUS
  <2>12. IsFlat(q, W, k + 1, at, S)
    <3>1. ASSUME NEW i \in 1 .. k + 1, NEW j \in 1 .. Len(W[i])
          PROVE  at[i - 1] + j <= at[k + 1] /\ q[at[i - 1] + j] = W[i][j]
      <4>1. CASE i \in 1 .. k
        BY <2>9, <4>1, Zenon
      <4>2. CASE i = k + 1
        BY <2>1, <2>3, <2>10, <4>2, Zenon
      <4>3. QED
        BY <2>11, <4>1, <4>2, Zenon
    <3>2. QED
      BY <2>7, <2>8, <3>1, Zenon DEF IsFlat
  <2>13. f[k + 1] = q
    BY <1>3, <2>1, <2>3, <2>6, Zenon
  <2>14. QED
    BY <2>1, <2>12, <2>13, Zenon
<1>6. T = Nat
  <2>1. T \subseteq Nat
    OBVIOUS
  <2> HIDE DEF T
  <2>2. QED
    BY <1>4, <1>5, <2>1, SetInduction
<1>7. n - 1 \in T /\ (n - 1) + 1 = n /\ n <= n
  <2>1. n - 1 \in Nat /\ (n - 1) + 1 = n /\ n <= n
    OBVIOUS
  <2> HIDE DEF T
  <2>2. QED
    BY <1>6, <2>1
<1>8. IsFlat(f[n], W, n, at, S)
  BY <1>7
<1>9. QED
  BY <1>3, <1>8, Zenon

-----------------------------------------------------------------------------
(* What the simulator generates of a schema.                               *)

\* The word of a letter of one word.
WordOf(ch, v, type, id, zero_one, some) ==
    CASE ch = "v" -> v [] ch = "p" -> type [] ch = "0" -> 0 [] ch = "d" -> id
      [] ch = "b" -> zero_one [] OTHER -> some

\* What gen_plain_command writes for a letter.
LEMMA LetterWrites ==
    ASSUME NEW ch, NEW v, NEW type, NEW dev, NEW zero_one, NEW some
    PROVE  /\ ch \in Wordy => PlainWords(ch, v, type, dev, zero_one, some)
                                = <<WordOf(ch, v, type, dev.id, zero_one, some)>>
           /\ ch = "I" => PlainWords(ch, v, type, dev, zero_one, some) = IdWords(dev)
<1>1. CASE ch = "v"
  BY <1>1 DEF PlainWords, WordOf, Wordy
<1>2. CASE ch = "p"
  BY <1>2 DEF PlainWords, WordOf, Wordy
<1>3. CASE ch = "0"
  BY <1>3 DEF PlainWords, WordOf, Wordy
<1>4. CASE ch = "d"
  BY <1>4 DEF PlainWords, WordOf, Wordy
<1>5. CASE ch = "b"
  BY <1>5 DEF PlainWords, WordOf, Wordy
<1>6. CASE ch = "u"
  BY <1>6 DEF PlainWords, WordOf, Wordy
<1>7. CASE ch = "I"
  BY <1>7 DEF PlainWords, WordOf, Wordy
<1>8. CASE ch \notin Wordy /\ ch # "I"
  BY <1>8 DEF Wordy
<1>9. QED
  BY <1>1, <1>2, <1>3, <1>4, <1>5, <1>6, <1>7, <1>8 DEF Wordy

\* One word for each letter.
IsSpelt(p, s, n, v, type, id, zero_one, some) ==
    Len(p) = n /\ \A i \in 1 .. n : p[i] = WordOf(s[i], v, type, id, zero_one, some)

\* So it is where every letter is of one word.
LEMMA WordyGen ==
    ASSUME NEW n \in Nat, n # 0, NEW s, DOMAIN s = 1 .. n, \A i \in 1 .. n : s[i] \in Wordy,
           NEW v, NEW type, NEW dev, NEW zero_one, NEW some,
           NEW p, p = GenPlain(s, v, type, dev, zero_one, some)
    PROVE  IsSpelt(p, s, n, v, type, dev.id, zero_one, some)
<1> DEFINE w(i) == WordOf(s[i], v, type, dev.id, zero_one, some)
           S == {w(i) : i \in 1 .. n}
<1>1. PICK W : W = [i \in 1 .. n |-> PlainWords(s[i], v, type, dev, zero_one, some)]
  BY Zenon
<1>2. ASSUME NEW i \in 1 .. n PROVE W[i] = <<w(i)>>
  <2>1. PICK ch : ch = s[i] /\ ch \in Wordy
    BY Zenon
  <2>2. PlainWords(ch, v, type, dev, zero_one, some) = <<WordOf(ch, v, type, dev.id, zero_one, some)>>
    <3>1. ch \in Wordy => PlainWords(ch, v, type, dev, zero_one, some)
                              = <<WordOf(ch, v, type, dev.id, zero_one, some)>>
      BY LetterWrites
    <3>2. QED
      BY <2>1, <3>1, Zenon
  <2>3. W[i] = PlainWords(s[i], v, type, dev, zero_one, some)
    BY <1>1, Zenon
  <2>4. QED
    BY <2>1, <2>2, <2>3, Zenon
<1>3. p = FlattenSeq(W)
  BY <1>1, Zenon DEF GenPlain
<1>4. \A x \in S : <<x>> \in Seq(S) /\ Len(<<x>>) = 1 /\ <<x>>[1] = x
  <2> HIDE DEF S
  <2>1. QED
    OBVIOUS
<1>5. \A i \in 1 .. n : w(i) \in S
  BY Zenon
<1> HIDE DEF S, w
<1>6. \A i \in 1 .. n : W[i] \in Seq(S) /\ Len(W[i]) = 1 /\ W[i][1] = w(i)
  BY <1>2, <1>4, <1>5, Zenon
<1>7. W \in [1 .. n -> Seq(S)]
  BY <1>1, <1>6, Zenon
<1>8. PICK at : at = [i \in 0 .. n |-> i]
  BY Zenon
<1>9. /\ at \in [0 .. n -> Nat] /\ at[0] = 0 /\ at[n] = n
      /\ \A i \in 1 .. n : at[i] = at[i - 1] + 1 /\ at[i - 1] + 1 = i
  BY <1>8
<1>10. \A i \in 1 .. n : at[i] = at[i - 1] + Len(W[i])
  BY <1>6, <1>9, Zenon
<1>11. IsFlat(p, W, n, at, S)
  BY <1>3, <1>7, <1>9, <1>10, FlattenPlaces, Zenon
<1>12. Len(p) = n /\ \A i \in 1 .. n : \A j \in 1 .. Len(W[i]) : p[at[i - 1] + j] = W[i][j]
  BY <1>9, <1>11, Zenon DEF IsFlat
<1>13. 1 \in 1 .. 1
  OBVIOUS
<1>14. ASSUME NEW i \in 1 .. n PROVE p[i] = w(i)
  <2>1. Len(W[i]) = 1 /\ W[i][1] = w(i) /\ at[i - 1] + 1 = i
    BY <1>6, <1>9, Zenon
  <2>2. 1 \in 1 .. Len(W[i])
    BY <1>13, <2>1, Zenon
  <2>3. p[at[i - 1] + 1] = W[i][1]
    BY <1>12, <2>2, Zenon
  <2>4. QED
    BY <2>1, <2>3, Zenon
<1>15. QED
  BY <1>12, <1>14, Zenon DEF w, IsSpelt

\* What the simulator generates of a schema of the protocols 1 and 2.
LEMMA SerialGen ==
    ASSUME NEW s, DOMAIN s = 1 .. 7, BeginsWith(s, SerialHead), s[7] \in {"0", "b"},
           NEW v, NEW type, NEW dev, NEW zero_one, NEW some,
           NEW p, p = GenPlain(s, v, type, dev, zero_one, some)
    PROVE  HasSerialHead(p, v, type, dev.id) /\ Len(p) = 7 /\ (s[7] = "b" => p[7] = zero_one)
<1>1. s[1] = "v" /\ s[2] = "p" /\ s[3] = "0" /\ s[4] = "d" /\ s[5] = "0" /\ s[6] = "0"
  BY SMT DEF BeginsWith, SerialHead
<1>2. \A i \in 1 .. 7 : i \in {1, 2, 3, 4, 5, 6, 7}
  OBVIOUS
<1>3. \A i \in 1 .. 7 : s[i] \in Wordy
  <2>1. "v" \in Wordy /\ "p" \in Wordy /\ "0" \in Wordy /\ "d" \in Wordy /\ "b" \in Wordy
    BY DEF Wordy
  <2>2. s[7] \in Wordy
    BY <2>1, Zenon
  <2>3. QED
    BY <1>1, <1>2, <2>1, <2>2, Zenon
<1>4. 7 \in Nat /\ 7 # 0
  OBVIOUS
<1>5. Len(p) = 7 /\ \A i \in 1 .. 7 : p[i] = WordOf(s[i], v, type, dev.id, zero_one, some)
  <2>1. PICK n : n = 7
    BY Zenon
  <2>2. n \in Nat /\ n # 0 /\ DOMAIN s = 1 .. n /\ \A i \in 1 .. n : s[i] \in Wordy
    BY <1>3, <1>4, <2>1, Zenon
  <2>3. IsSpelt(p, s, n, v, type, dev.id, zero_one, some)
    BY <2>2, WordyGen, Zenon
  <2>4. QED
    BY <2>1, <2>3, Zenon DEF IsSpelt
<1>6. /\ WordOf("v", v, type, dev.id, zero_one, some) = v
      /\ WordOf("p", v, type, dev.id, zero_one, some) = type
      /\ WordOf("0", v, type, dev.id, zero_one, some) = 0
      /\ WordOf("d", v, type, dev.id, zero_one, some) = dev.id
      /\ WordOf("b", v, type, dev.id, zero_one, some) = zero_one
  BY SMT DEF WordOf
<1>7. /\ 1 \in 1 .. 7 /\ 2 \in 1 .. 7 /\ 3 \in 1 .. 7 /\ 4 \in 1 .. 7 /\ 5 \in 1 .. 7
      /\ 6 \in 1 .. 7 /\ 7 \in 1 .. 7
  OBVIOUS
<1>8. p[1] = v /\ p[2] = type /\ p[3] = 0 /\ p[4] = dev.id /\ p[5] = 0 /\ p[6] = 0 /\ (s[7] = "b" => p[7] = zero_one)
  <2>1. p[1] = v /\ p[2] = type /\ p[3] = 0
    BY <1>1, <1>5, <1>6, <1>7, ZenonT(40)
  <2>2. p[4] = dev.id /\ p[5] = 0 /\ p[6] = 0
    BY <1>1, <1>5, <1>6, <1>7, ZenonT(40)
  <2>3. s[7] = "b" => p[7] = zero_one
    BY <1>5, <1>6, <1>7, Zenon
  <2>4. QED
    BY <2>1, <2>2, <2>3, Zenon
<1>9. Len(p) \in Nat /\ 6 <= Len(p)
  BY <1>5
<1>10. QED
  BY <1>5, <1>8, <1>9, Zenon DEF HasSerialHead

\* The same for a schema of protocol 3 that names no device, and a value.
LEMMA PlainGen ==
    ASSUME NEW s, DOMAIN s = 1 .. 9, BeginsWith(s, PlainHead), s[9] = "u",
           NEW type, NEW dev, NEW zero_one, NEW some,
           NEW p, p = GenPlain(s, 3, type, dev, zero_one, some)
    PROVE  HasPlainHead(p, type) /\ Len(p) = 9
<1>1. s[1] = "v" /\ s[2] = "p" /\ s[3] = "0" /\ s[4] = "0" /\ s[5] = "0" /\ s[6] = "0" /\ s[7] = "0" /\ s[8] = "0"
  BY SMT DEF BeginsWith, PlainHead
<1>2. \A i \in 1 .. 9 : i \in {1, 2, 3, 4, 5, 6, 7, 8, 9}
  OBVIOUS
<1>3. \A i \in 1 .. 9 : s[i] \in Wordy
  <2>1. "v" \in Wordy /\ "p" \in Wordy /\ "0" \in Wordy /\ "u" \in Wordy
    BY DEF Wordy
  <2>2. QED
    BY <1>1, <1>2, <2>1, Zenon
<1>4. 9 \in Nat /\ 9 # 0
  OBVIOUS
<1>5. Len(p) = 9 /\ \A i \in 1 .. 9 : p[i] = WordOf(s[i], 3, type, dev.id, zero_one, some)
  <2>1. PICK n : n = 9
    BY Zenon
  <2>2. n \in Nat /\ n # 0 /\ DOMAIN s = 1 .. n /\ \A i \in 1 .. n : s[i] \in Wordy
    BY <1>3, <1>4, <2>1, Zenon
  <2>3. IsSpelt(p, s, n, 3, type, dev.id, zero_one, some)
    BY <2>2, WordyGen, Zenon
  <2>4. QED
    BY <2>1, <2>3, Zenon DEF IsSpelt
<1>6. /\ WordOf("v", 3, type, dev.id, zero_one, some) = 3
      /\ WordOf("p", 3, type, dev.id, zero_one, some) = type
      /\ WordOf("0", 3, type, dev.id, zero_one, some) = 0
  BY SMT DEF WordOf
<1>7. 1 \in 1 .. 9 /\ 2 \in 1 .. 9 /\ \A i \in 3 .. 8 : i \in 1 .. 9 /\ i \in {3, 4, 5, 6, 7, 8}
  OBVIOUS
<1>8. \A i \in 3 .. 8 : s[i] = "0"
  BY <1>1, <1>7, Zenon
<1>9. p[1] = 3 /\ p[2] = type
  BY <1>1, <1>5, <1>6, <1>7, Zenon
<1>10. \A i \in 3 .. 8 : p[i] = 0
  BY <1>5, <1>6, <1>7, <1>8, ZenonT(40)
<1>11. Len(p) \in Nat /\ 8 <= Len(p)
  BY <1>5
<1>12. QED
  BY <1>5, <1>9, <1>10, <1>11, Zenon DEF HasPlainHead

\* And for one that has the words of a device, and a value.
IsGenerated(p, type, n, word) == HasExtendedHead(p, type) /\ Len(p) = n + 2 /\ p[9] = word

\* A schema of a device and one value, with a zero behind it or not.
LEMMA ExtendedGen ==
    ASSUME NEW n \in {7, 8}, NEW s, DOMAIN s = 1 .. n, BeginsWith(s, ExtendedHead), s[7] \in {"b", "u"},
           n = 8 => s[8] = "0", NEW type \in Int, NEW zero_one \in Int, NEW some \in Int,
           NEW word, word = IF s[7] = "b" THEN zero_one ELSE some,
           NEW p, p = GenPlain(s, 3, type, NoDevice, zero_one, some)
    PROVE  IsGenerated(p, type, n, word)
<1> DEFINE w(ch) == WordOf(ch, 3, type, NoDevice.id, zero_one, some)
<1>1. s[1] = "v" /\ s[2] = "p" /\ s[3] = "0" /\ s[4] = "I" /\ s[5] = "0" /\ s[6] = "0"
  BY SMT DEF BeginsWith, ExtendedHead
<1>2. n \in Nat /\ n # 0 /\ 7 <= n /\ \A i \in 1 .. n : i \in {1, 2, 3, 4, 5, 6, 7} \/ (n = 8 /\ i = 8)
  OBVIOUS
<1>3. PICK W : W = [i \in 1 .. n |-> PlainWords(s[i], 3, type, NoDevice, zero_one, some)]
  BY Zenon
<1>4. p = FlattenSeq(W)
  BY <1>3, Zenon DEF GenPlain
<1>5. \A i \in 1 .. n : i = 4 => W[i] \in Seq(Int) /\ Len(W[i]) = 3
  <2>1. PlainWords("I", 3, type, NoDevice, zero_one, some) = IdWords(NoDevice)
    BY LetterWrites
  <2>2. IdWords(NoDevice) \in Seq(Int) /\ Len(IdWords(NoDevice)) = 3
    BY NoDeviceIs, IdentifierSurvives, Zenon
  <2>3. QED
    BY <1>1, <1>3, <2>1, <2>2, Zenon
<1>6. ASSUME NEW i \in 1 .. n, i # 4 PROVE W[i] \in Seq(Int) /\ Len(W[i]) = 1 /\ W[i][1] = w(s[i])
  <2>1. PICK ch : ch = s[i]
    BY Zenon
  <2>2. ch \in Wordy
    <3>1. "v" \in Wordy /\ "p" \in Wordy /\ "0" \in Wordy /\ "b" \in Wordy /\ "u" \in Wordy
      BY DEF Wordy
    <3>2. s[7] \in Wordy
      BY <3>1, Zenon
    <3>3. QED
      BY <1>1, <1>2, <1>6, <2>1, <3>1, <3>2, Zenon
  <2>3. PlainWords(ch, 3, type, NoDevice, zero_one, some) = <<w(ch)>>
    <3>1. ch \in Wordy => PlainWords(ch, 3, type, NoDevice, zero_one, some) = <<w(ch)>>
      BY LetterWrites
    <3>2. QED
      BY <2>2, <3>1, Zenon
  <2>4. NoDevice.id \in Int /\ 0 \in Int /\ 3 \in Int
    BY DEF NoDevice, Serial, DevId
  <2>5. w(ch) \in Int
    <3>1. CASE ch = "v"
      BY <3>1 DEF WordOf
    <3>2. CASE ch = "p"
      BY <3>2 DEF WordOf
    <3>3. CASE ch = "0"
      BY <3>3 DEF WordOf
    <3>4. CASE ch = "d"
      BY <2>4, <3>4 DEF WordOf
    <3>5. CASE ch = "b"
      BY <3>5 DEF WordOf
    <3>6. CASE ch = "u"
      BY <3>6 DEF WordOf
    <3>7. QED
      BY <2>2, <3>1, <3>2, <3>3, <3>4, <3>5, <3>6 DEF Wordy
  <2>6. \A x \in Int : <<x>> \in Seq(Int) /\ Len(<<x>>) = 1 /\ <<x>>[1] = x
    OBVIOUS
  <2>7. W[i] = <<w(ch)>>
    BY <1>3, <2>1, <2>3, Zenon
  <2>8. QED
    <3> HIDE DEF w
    <3>1. QED
      BY <2>1, <2>5, <2>6, <2>7, Zenon
<1>7. W \in [1 .. n -> Seq(Int)]
  BY <1>3, <1>5, <1>6, Zenon
<1>8. PICK at : at = [i \in 0 .. n |-> IF i <= 3 THEN i ELSE i + 2]
  BY Zenon
<1>9. /\ at \in [0 .. n -> Nat] /\ at[0] = 0 /\ at[n] = n + 2
      /\ at[1] = 1 /\ at[2] = 2 /\ at[5] = 7 /\ at[6] = 8
  BY <1>2, <1>8
<1>10. \A i \in 1 .. n : at[i] = at[i - 1] + Len(W[i])
  <2>1. \A i \in 1 .. n : Len(W[i]) = IF i = 4 THEN 3 ELSE 1
    BY <1>5, <1>6, Zenon
  <2>2. \A i \in 1 .. n : at[i] = at[i - 1] + (IF i = 4 THEN 3 ELSE 1)
    BY <1>2, <1>8
  <2>3. QED
    BY <2>1, <2>2, Zenon
<1>11. IsFlat(p, W, n, at, Int)
  <2>1. n \in Nat /\ n # 0 /\ at \in [0 .. n -> Nat] /\ at[0] = 0
    BY <1>2, <1>9, Zenon
  <2>2. IsFlat(FlattenSeq(W), W, n, at, Int)
    BY <1>7, <1>10, <2>1, FlattenPlaces, Zenon
  <2>3. QED
    BY <1>4, <2>2, Zenon
<1>12. Len(p) = n + 2 /\ \A i \in 1 .. n : \A j \in 1 .. Len(W[i]) : p[at[i - 1] + j] = W[i][j]
  BY <1>9, <1>11, Zenon DEF IsFlat
<1>13. ASSUME NEW i \in 1 .. n, i # 4 PROVE p[at[i - 1] + 1] = w(s[i])
  <2>1. 1 \in 1 .. 1
    OBVIOUS
  <2>2. QED
    BY <1>6, <1>12, <1>13, <2>1, Zenon
<1>14. /\ 1 \in 1 .. n /\ 2 \in 1 .. n /\ 3 \in 1 .. n /\ 5 \in 1 .. n /\ 6 \in 1 .. n /\ 7 \in 1 .. n
       /\ 1 # 4 /\ 2 # 4 /\ 3 # 4 /\ 5 # 4 /\ 6 # 4 /\ 7 # 4
       /\ at[1 - 1] + 1 = 1 /\ at[2 - 1] + 1 = 2 /\ at[3 - 1] + 1 = 3
       /\ at[5 - 1] + 1 = 7 /\ at[6 - 1] + 1 = 8 /\ at[7 - 1] + 1 = 9
  BY <1>2, <1>8
<1>15. /\ p[1] = w(s[1]) /\ p[2] = w(s[2]) /\ p[3] = w(s[3]) /\ p[7] = w(s[5]) /\ p[8] = w(s[6])
       /\ p[9] = w(s[7])
  <2> HIDE DEF w
  <2>1. p[at[1 - 1] + 1] = w(s[1]) /\ p[at[2 - 1] + 1] = w(s[2]) /\ p[at[3 - 1] + 1] = w(s[3])
    BY <1>13, <1>14, Zenon
  <2>2. p[at[5 - 1] + 1] = w(s[5]) /\ p[at[6 - 1] + 1] = w(s[6]) /\ p[at[7 - 1] + 1] = w(s[7])
    BY <1>13, <1>14, Zenon
  <2>3. QED
    BY <1>14, <2>1, <2>2, Zenon
<1>16. /\ w("v") = 3 /\ w("p") = type /\ w("0") = 0 /\ w("b") = zero_one /\ w("u") = some
  BY SMT DEF WordOf
<1> HIDE DEF w
<1>17. /\ p[1] = 3 /\ p[2] = type /\ p[3] = 0 /\ p[7] = 0 /\ p[8] = 0
       /\ p[9] = word
  BY <1>1, <1>15, <1>16, ZenonT(40)
<1>18. Len(p) \in Nat /\ 8 <= Len(p)
  BY <1>2, <1>12
<1>19. QED
  BY <1>12, <1>17, <1>18, Zenon DEF HasExtendedHead, IsGenerated

-----------------------------------------------------------------------------
(* Packets by their heads.                                                 *)

\* A packet, if there is one, matches the schema of its version and type.
Fitting(p, dev) == p # <<>> => IsMatch(GetSchema(p[1], p[2]), p, p[1], p[2], dev)

\* A packet of the protocols 1 and 2 does by its head.
LEMMA SerialFits ==
    ASSUME NEW v, NEW type, NEW dev, NEW p, HasSerialHead(p, v, type, dev.id),
           \/ Schema(v, type, SerialHead, <<>>)
           \/ Schema(v, type, SerialHead, <<"x">>)
           \/ Schema(v, type, SerialHead, <<"b">>) /\ 7 <= Len(p) /\ p[7] \in {0, 1}
    PROVE  Fitting(p, dev)
<1>1. IsMatch(GetSchema(v, type), p, v, type, dev)
  BY SerialMatches
<1>2. p[1] = v /\ p[2] = type
  BY Zenon DEF HasSerialHead
<1>3. QED
  BY <1>1, <1>2, Zenon DEF Fitting

\* The codes of both protocols, and the schemas of the simulator's answers.
LEMMA SerialCodes ==
    ASSUME NEW v \in {1, 2}
    PROVE  /\ Schema(v, Code(v).cmd_resp, SerialHead, <<"x">>)
           /\ \A kind \in {"open_resp", "close_resp"} : Schema(v, Code1[kind], SerialHead, <<"b">>)
<1>1. CASE v = 1
  <2>1. "cmd_req" \in DOMAIN Code1 /\ \A kind \in {"open_resp", "close_resp"} : kind \in DOMAIN Code1
    BY DEF Code1
  <2>2. Schema(1, Code1["cmd_req"], SerialHead, <<"x">>)
    BY <2>1, SchemasOf1, Zenon
  <2>3. Code1["cmd_req"] = Code(v).cmd_resp
    BY <1>1 DEF Code, Code1
  <2>4. \A kind \in {"open_resp", "close_resp"} : Schema(1, Code1[kind], SerialHead, <<"b">>)
    BY <2>1, SchemasOf1, Zenon
  <2>5. QED
    BY <1>1, <2>2, <2>3, <2>4, Zenon
<1>2. CASE v = 2
  <2>1. "cmd_resp" \in DOMAIN Code2 /\ \A kind \in {"open_resp", "close_resp"} : kind \in DOMAIN Code2
    BY DEF Code2
  <2>2. Schema(2, Code2["cmd_resp"], SerialHead, <<"x">>)
    BY <2>1, SchemasOf2, Zenon
  <2>3. Code2["cmd_resp"] = Code(v).cmd_resp
    BY <1>2 DEF Code, Code2
  <2>4. \A kind \in {"open_resp", "close_resp"} : Schema(2, Code2[kind], SerialHead, <<"b">>)
    BY <2>1, SchemasOf2, Zenon
  <2>5. \A kind \in {"open_resp", "close_resp"} : Code2[kind] = Code1[kind]
    BY DEF Code1, Code2
  <2>6. QED
    BY <1>2, <2>2, <2>3, <2>4, <2>5, Zenon
<1>3. QED
  BY <1>1, <1>2

\* An answer that the simulator generates of a schema with a value fits.
LEMMA SerialValueFits ==
    ASSUME NEW v \in {1, 2}, NEW kind \in {"open_resp", "close_resp"}, NEW dev, NEW d, d.id = dev.id,
           NEW zero_one \in {0, 1}
    PROVE  Fitting(GenPlain(GetSchema(1, Code1[kind]), v, Code1[kind], d, zero_one, 0), dev)
<1>1. PICK s, p, type : /\ type = Code1[kind] /\ s = GetSchema(1, type)
                        /\ p = GenPlain(s, v, type, d, zero_one, 0)
  BY Zenon
<1>2. Schema(1, type, SerialHead, <<"b">>) /\ Schema(v, type, SerialHead, <<"b">>)
  <2>1. 1 \in {1, 2}
    OBVIOUS
  <2>2. QED
    BY <1>1, <2>1, SerialCodes, Zenon
<1>3. s \in Seq(Letters) /\ BeginsWith(s, SerialHead) /\ HasTail(s, SerialHead, <<"b">>)
  BY <1>1, <1>2, SchemaBegins, Zenon
<1>4. Len(SerialHead) = 6
  BY DEF SerialHead
<1>5. DOMAIN s = 1 .. 7 /\ s[7] = "b"
  <2>1. Len(s) = 7 /\ s[7] = "b"
    BY <1>3, <1>4 DEF HasTail
  <2>2. QED
    BY <1>3, <2>1, LenProperties
<1>6. HasSerialHead(p, v, type, d.id) /\ Len(p) = 7 /\ p[7] = zero_one
  <2>1. s[7] \in {"0", "b"}
    BY <1>5, Zenon
  <2>2. DOMAIN s = 1 .. 7 /\ p = GenPlain(s, v, type, d, zero_one, 0)
    BY <1>1, <1>5, Zenon
  <2>3. HasSerialHead(p, v, type, d.id) /\ Len(p) = 7 /\ (s[7] = "b" => p[7] = zero_one)
    BY <1>3, <2>1, <2>2, SerialGen
  <2>4. QED
    BY <1>5, <2>3, Zenon
<1>7. 7 <= Len(p) /\ p[7] \in {0, 1}
  BY <1>6
<1>8. HasSerialHead(p, v, type, dev.id)
  BY <1>6, Zenon
<1>9. Fitting(p, dev)
  BY <1>2, <1>7, <1>8, SerialFits
<1>10. QED
  BY <1>1, <1>9, Zenon

\* What the simulator answers to a command, of a schema of its own.
LEMMA SerialCommandFits ==
    ASSUME NEW v \in {1, 2}, NEW dev, NEW d, d.id = dev.id
    PROVE  Fitting(GenPlain(<<"v", "p", "0", "d", "0", "0", "0">>, v, Code(v).cmd_resp, d, 0, 0), dev)
<1>1. PICK s, p, type : /\ type = Code(v).cmd_resp /\ s = <<"v", "p", "0", "d", "0", "0", "0">>
                        /\ p = GenPlain(s, v, type, d, 0, 0)
  BY Zenon
<1>2. DOMAIN s = 1 .. 7 /\ s[7] = "0"
  BY <1>1, SMT
<1>3. BeginsWith(s, SerialHead)
  <2>1. Len(SerialHead) = 6
    BY DEF SerialHead
  <2>2. /\ s[1] = "v" /\ s[2] = "p" /\ s[3] = "0" /\ s[4] = "d" /\ s[5] = "0" /\ s[6] = "0"
    BY <1>1, SMT
  <2>3. /\ SerialHead[1] = "v" /\ SerialHead[2] = "p" /\ SerialHead[3] = "0" /\ SerialHead[4] = "d"
        /\ SerialHead[5] = "0" /\ SerialHead[6] = "0"
    BY SMT DEF SerialHead
  <2>4. \A i \in 1 .. 6 : i \in {1, 2, 3, 4, 5, 6}
    OBVIOUS
  <2>5. \A i \in 1 .. 6 : s[i] = SerialHead[i]
    BY <2>2, <2>3, <2>4, Zenon
  <2>6. QED
    BY <2>1, <2>5, Zenon DEF BeginsWith
<1>4. HasSerialHead(p, v, type, d.id)
  <2>1. s[7] \in {"0", "b"}
    BY <1>2, Zenon
  <2>2. QED
    BY <1>1, <1>2, <1>3, <2>1, SerialGen, Zenon
<1>5. HasSerialHead(p, v, type, dev.id) /\ Schema(v, type, SerialHead, <<"x">>)
  BY <1>1, <1>4, SerialCodes, Zenon
<1>6. Fitting(p, dev)
  BY <1>5, SerialFits
<1>7. QED
  BY <1>1, <1>6, Zenon

\* A packet of protocol 3 by its head.
LEMMA ExtendedFits ==
    ASSUME NEW type, NEW dev, NEW p, HasExtendedHead(p, type), NEW n \in Nat,
           \/ Schema(3, type, ExtendedHead, <<>>)
           \/ Schema(3, type, ExtendedHead, <<"b">>) /\ 9 <= Len(p) /\ p[9] \in {0, 1}
           \/ Schema(3, type, ExtendedHead, <<"u">>) /\ 9 <= Len(p)
           \/ Schema(3, type, ExtendedHead, <<"l">>) /\ 9 + n <= Len(p) /\ p[9] \div 4 = n
           \/ Schema(3, type, ExtendedHead, <<"l", "u">>) /\ 9 + n + 1 <= Len(p) /\ p[9] \div 4 = n
    PROVE  Fitting(p, dev)
<1>1. IsMatch(GetSchema(3, type), p, 3, type, dev)
  BY ExtendedMatches
<1>2. p[1] = 3 /\ p[2] = type
  BY Zenon DEF HasExtendedHead
<1>3. QED
  BY <1>1, <1>2, Zenon DEF Fitting

\* The same for one that names no device.
LEMMA PlainFits ==
    ASSUME NEW type, NEW dev, NEW p, HasPlainHead(p, type),
           \/ Schema(3, type, PlainHead, <<>>)
           \/ Schema(3, type, PlainHead, <<"x">>)
           \/ Schema(3, type, PlainHead, <<"u">>) /\ 9 <= Len(p)
    PROVE  Fitting(p, dev)
<1>1. IsMatch(GetSchema(3, type), p, 3, type, dev)
  BY PlainMatches
<1>2. p[1] = 3 /\ p[2] = type
  BY Zenon DEF HasPlainHead
<1>3. QED
  BY <1>1, <1>2, Zenon DEF Fitting

\* Packets as they are put together, of words of any kind: the body behind the head.
HasBody(p, k, body) == Len(p) = k + Len(body) /\ \A i \in 1 .. Len(body) : p[k + i] = body[i]

\* A packet of the protocols 1 and 2.
LEMMA SerialShape ==
    ASSUME NEW S, NEW v \in S, NEW type \in S, NEW id \in S, 0 \in S, NEW body \in Seq(S),
           NEW p, p = << v, type, 0, id, 0, 0 >> \o body
    PROVE  HasSerialHead(p, v, type, id) /\ HasBody(p, 6, body)
<1> DEFINE a == <<v, type, 0, id, 0, 0>>
<1>1. /\ a \in Seq(S) /\ Len(a) = 6
      /\ a[1] = v /\ a[2] = type /\ a[3] = 0 /\ a[4] = id /\ a[5] = 0 /\ a[6] = 0
  OBVIOUS
<1>2. PICK n : n \in Nat /\ n = Len(body)
  BY LenProperties
<1>3. 6 \in Nat
  OBVIOUS
<1>4. p = a \o body
  BY Zenon
<1> HIDE DEF a
<1>5. HasParts(p, a, 6, body, n)
  BY <1>1, <1>2, <1>3, <1>4, JoinParts, Zenon
<1>6. /\ p[1] = a[1] /\ p[2] = a[2] /\ p[3] = a[3] /\ p[4] = a[4] /\ p[5] = a[5] /\ p[6] = a[6]
      /\ Len(p) = 6 + n /\ \A i \in 1 .. n : p[6 + i] = body[i]
  BY <1>2, <1>5 DEF HasParts
<1>7. Len(p) \in Nat /\ 6 <= Len(p)
  BY <1>2, <1>6
<1>8. QED
  BY <1>1, <1>2, <1>6, <1>7, Zenon DEF HasSerialHead, HasBody

\* A packet of protocol 3, with the words of a device or zeroes.
LEMMA ExtendedShape ==
    ASSUME NEW S, 0 \in S, 3 \in S, NEW type \in S, NEW words \in Seq(S), Len(words) = 3,
           NEW body \in Seq(S), NEW p, p = << 3, type, 0 >> \o words \o << 0, 0 >> \o body
    PROVE  /\ HasExtendedHead(p, type) /\ HasBody(p, 8, body)
           /\ p[4] = words[1] /\ p[5] = words[2] /\ p[6] = words[3]
<1> DEFINE a == <<3, type, 0>>  c == << 0, 0 >>
<1>1. /\ a \in Seq(S) /\ c \in Seq(S) /\ Len(a) = 3 /\ Len(c) = 2
      /\ a[1] = 3 /\ a[2] = type /\ a[3] = 0 /\ c[1] = 0 /\ c[2] = 0
  OBVIOUS
<1>2. PICK n : n \in Nat /\ n = Len(body)
  BY LenProperties
<1>3. 2 \in Nat /\ 3 \in Nat /\ 6 \in Nat /\ 8 \in Nat
  OBVIOUS
<1>4. PICK s, t : s = a \o words /\ t = s \o c /\ p = t \o body
  BY Zenon
<1> HIDE DEF a, c
<1>5. s \in Seq(S) /\ HasParts(s, a, 3, words, 3)
  BY <1>1, <1>3, <1>4, JoinParts, Zenon
<1>6. Len(s) = 6
  BY <1>5 DEF HasParts
<1>7. t \in Seq(S) /\ HasParts(t, s, 6, c, 2)
  BY <1>1, <1>3, <1>4, <1>5, <1>6, JoinParts, Zenon
<1>8. Len(t) = 8
  BY <1>7 DEF HasParts
<1>9. HasParts(p, t, 8, body, n)
  BY <1>2, <1>3, <1>4, <1>7, <1>8, JoinParts, ZenonT(40)
<1>10. s[1] = a[1] /\ s[2] = a[2] /\ s[3] = a[3] /\ s[4] = words[1] /\ s[5] = words[2] /\ s[6] = words[3]
  BY <1>5 DEF HasParts
<1>11. /\ t[1] = s[1] /\ t[2] = s[2] /\ t[3] = s[3] /\ t[4] = s[4] /\ t[5] = s[5] /\ t[6] = s[6]
       /\ t[7] = c[1] /\ t[8] = c[2]
  BY <1>7 DEF HasParts
<1>12. /\ p[1] = t[1] /\ p[2] = t[2] /\ p[3] = t[3] /\ p[4] = t[4] /\ p[5] = t[5] /\ p[6] = t[6]
       /\ p[7] = t[7] /\ p[8] = t[8]
       /\ Len(p) = 8 + n /\ \A i \in 1 .. n : p[8 + i] = body[i]
  BY <1>2, <1>9 DEF HasParts
<1>13. Len(p) \in Nat /\ 8 <= Len(p)
  BY <1>2, <1>12
<1>14. QED
  BY <1>1, <1>2, <1>10, <1>11, <1>12, <1>13, Zenon DEF HasExtendedHead, HasBody

-----------------------------------------------------------------------------
(* The requests of the client.                                             *)

\* The schemas of the requests that name a device, by protocol.
LEMMA SerialRequestSchema ==
    ASSUME NEW v \in {1, 2}, NEW kind \in {"open_req", "close_req", "cmd_req"}
    PROVE  /\ Code(v)[kind] \in Int
           /\ Schema(v, Code(v)[kind], SerialHead, IF kind = "cmd_req" THEN <<"x">> ELSE <<>>)
<1>1. Code(v)[kind] \in Int
  BY DEF Code, Code1, Code2
<1>2. CASE v = 1
  <2>1. kind \in DOMAIN Code1 /\ Code(1) = Code1
    BY DEF Code1, Code
  <2>2. Schema(1, Code1[kind], SerialHead, IF kind = "cmd_req" THEN <<"x">> ELSE <<>>)
    <3>1. CASE kind = "cmd_req"
      BY <2>1, <3>1, SchemasOf1, Zenon
    <3>2. CASE kind # "cmd_req"
      BY <2>1, <3>2, SchemasOf1, Zenon
    <3>3. QED
      BY <3>1, <3>2
  <2>3. QED
    BY <1>1, <1>2, <2>1, <2>2, Zenon
<1>3. CASE v = 2
  <2>1. kind \in DOMAIN Code2 /\ Code(2) = Code2
    BY DEF Code2, Code
  <2>2. Schema(2, Code2[kind], SerialHead, IF kind = "cmd_req" THEN <<"x">> ELSE <<>>)
    <3>1. CASE kind = "cmd_req"
      BY <2>1, <3>1, SchemasOf2, Zenon
    <3>2. CASE kind # "cmd_req"
      BY <2>1, <3>2, SchemasOf2, Zenon
    <3>3. QED
      BY <3>1, <3>2
  <2>3. QED
    BY <1>1, <1>3, <2>1, <2>2, Zenon
<1>4. QED
  BY <1>2, <1>3

\* Those of protocol 3, with the answers.
LEMMA ExtendedSchemas ==
    /\ \A k \in DOMAIN Code3 : Code3[k] \in Int
    /\ \A k \in {"open_req", "close_req"} : k \in DOMAIN Code3 /\ Schema(3, Code3[k], ExtendedHead, <<>>)
    /\ \A k \in {"open_resp", "close_resp"} : k \in DOMAIN Code3 /\ Schema(3, Code3[k], ExtendedHead, <<"b">>)
    /\ \A k \in {"ver_req", "enum_req"} : k \in DOMAIN Code3 /\ Schema(3, Code3[k], PlainHead, <<>>)
    /\ "cmd_req" \in DOMAIN Code3 /\ Schema(3, Code3["cmd_req"], ExtendedHead, <<"l", "u">>)
    /\ "cmd_resp" \in DOMAIN Code3 /\ Schema(3, Code3["cmd_resp"], ExtendedHead, <<"l">>)
    /\ "error_resp" \in DOMAIN Code3 /\ Schema(3, Code3["error_resp"], ExtendedHead, <<"u">>)
    /\ "ver_resp" \in DOMAIN Code3 /\ Schema(3, Code3["ver_resp"], PlainHead, <<"u">>)
    /\ "enum_resp" \in DOMAIN Code3 /\ Schema(3, Code3["enum_resp"], PlainHead, <<"x">>)
<1>1. \A k \in DOMAIN Code3 : Code3[k] \in Int
  BY DEF Code3
<1>2. \A k \in {"open_req", "close_req", "open_resp", "close_resp", "ver_req", "enum_req", "cmd_req",
               "cmd_resp", "error_resp", "ver_resp", "enum_resp"} : k \in DOMAIN Code3
  BY DEF Code3
<1>3. QED
  BY <1>1, <1>2, SchemasOf3, Zenon

\* What the head of a request says of the call.
Heads(p, v, id) == p # <<>> => p[1] = v /\ (v # 3 => p[4] = id)

\* A request of the protocols 1 and 2 for a device.
LEMMA SerialRequestFits ==
    ASSUME NEW v \in {1, 2}, NEW kind \in {"open_req", "close_req", "cmd_req"}, NEW dev,
           NEW body \in Seq(Int), NEW p, p = ClientRequest(v, kind, dev, body)
    PROVE  Fitting(p, dev) /\ Heads(p, v, dev.id)
<1>1. PICK type, id : type = Code(v)[kind] /\ id = dev.id
  BY Zenon
<1>2. PICK tail : tail = IF kind = "cmd_req" THEN body ELSE <<>>
  BY Zenon
<1>3. p = <<v, type, 0, id, 0, 0>> \o tail
  <2>1. v # 3 /\ kind # "enum_req"
    OBVIOUS
  <2>2. QED
    BY <1>1, <1>2, <2>1, Zenon DEF ClientRequest, SerialRequest
<1>4. PICK S : S = Int \cup {id}
  BY Zenon
<1>5. v \in S /\ type \in S /\ id \in S /\ 0 \in S
  <2>1. v \in Int /\ 0 \in Int
    OBVIOUS
  <2>2. type \in Int
    BY <1>1, SerialRequestSchema, Zenon
  <2>3. QED
    BY <1>4, <2>1, <2>2, Zenon
<1>6. tail \in Seq(S)
  <2>1. tail \in Seq(Int)
    BY <1>2, EmptySeq, Zenon
  <2>2. Int \subseteq S
    BY <1>4, Zenon
  <2>3. QED
    BY <2>1, <2>2, WiderSeq, Zenon
<1>7. HasSerialHead(p, v, type, id)
  BY <1>3, <1>5, <1>6, SerialShape, Zenon
<1>8. Schema(v, type, SerialHead, <<>>) \/ Schema(v, type, SerialHead, <<"x">>)
  BY <1>1, SerialRequestSchema, Zenon
<1>9. HasSerialHead(p, v, type, dev.id)
  BY <1>1, <1>7, Zenon
<1>10. Fitting(p, dev)
  BY <1>8, <1>9, SerialFits
<1>11. QED
  BY <1>9, <1>10, Zenon DEF Heads, HasSerialHead

\* A request of protocol 3 for a device, with the length of its data in front of them.
LEMMA ExtendedRequestFits ==
    ASSUME NEW kind \in {"open_req", "close_req"}, NEW dev, NEW data \in Seq(Int), NEW resp \in Int
    PROVE  /\ Fitting(ClientRequest(3, kind, dev, <<>>), dev)
           /\ Heads(ClientRequest(3, kind, dev, <<>>), 3, dev.id)
           /\ Fitting(ClientRequest(3, "cmd_req", dev, CmdBody3(data, resp)), dev)
           /\ Heads(ClientRequest(3, "cmd_req", dev, CmdBody3(data, resp)), 3, dev.id)
<1>1. PICK words : words = IdWords(dev)
  BY Zenon
<1>2. PICK S : S = Int \cup {words[1], words[2], words[3]}
  BY Zenon
<1>3. Int \subseteq S /\ words[1] \in S /\ words[2] \in S /\ words[3] \in S
  BY <1>2, Zenon
<1>4. 0 \in S /\ 3 \in S
  BY <1>3
<1>5. words \in Seq(S) /\ Len(words) = 3
  <2>1. words = <<words[1], words[2], words[3]>>
    BY <1>1, SMT DEF IdWords
  <2>2. \A a, b, c \in S : << a, b, c >> \in Seq(S) /\ Len(<< a, b, c >>) = 3
    OBVIOUS
  <2>3. PICK t : t = <<words[1], words[2], words[3]>>
    BY Zenon
  <2>4. t \in Seq(S) /\ Len(t) = 3
    BY <1>3, <2>2, <2>3, Zenon
  <2>5. QED
    BY <2>1, <2>3, <2>4, Zenon
<1>6. ASSUME NEW k \in {"open_req", "close_req", "cmd_req"}, NEW body \in Seq(Int), k = "cmd_req" \/ body = <<>>,
             NEW p, p = ClientRequest(3, k, dev, body)
      PROVE  HasExtendedHead(p, Code3[k]) /\ HasBody(p, 8, body)
  <2>1. PICK type : type = Code3[k]
    BY Zenon
  <2>2. p = <<3, type, 0>> \o words \o <<0, 0>> \o body
    BY <1>1, <1>6, <2>1, Zenon DEF ClientRequest, ExtendedRequest
  <2>3. type \in S
    <3>1. k \in DOMAIN Code3
      BY ExtendedSchemas, Zenon
    <3>2. QED
      BY <1>3, <2>1, <3>1, ExtendedSchemas, Zenon
  <2>4. body \in Seq(S)
    BY <1>3, WiderSeq, Zenon
  <2>5. QED
    BY <1>4, <1>5, <2>1, <2>2, <2>3, <2>4, ExtendedShape, Zenon
<1>7. Fitting(ClientRequest(3, kind, dev, <<>>), dev) /\ Heads(ClientRequest(3, kind, dev, <<>>), 3, dev.id)
  <2>1. PICK p, type, none : p = ClientRequest(3, kind, dev, none) /\ type = Code3[kind] /\ none = <<>>
    BY Zenon
  <2>2. HasExtendedHead(p, type)
    BY <1>6, <2>1, EmptySeq, Zenon
  <2>3. Schema(3, type, ExtendedHead, <<>>) /\ 0 \in Nat
    BY <2>1, ExtendedSchemas, Zenon
  <2>4. Fitting(p, dev)
    BY <2>2, <2>3, ExtendedFits
  <2>5. QED
    BY <2>1, <2>2, <2>4, Zenon DEF Heads, HasExtendedHead
<1>8. /\ Fitting(ClientRequest(3, "cmd_req", dev, CmdBody3(data, resp)), dev)
      /\ Heads(ClientRequest(3, "cmd_req", dev, CmdBody3(data, resp)), 3, dev.id)
  <2>1. PICK p, type, body : /\ p = ClientRequest(3, "cmd_req", dev, body) /\ type = Code3["cmd_req"]
                             /\ body = CmdBody3(data, resp)
    BY Zenon
  <2>2. PICK n : n \in Nat /\ n = Len(data)
    BY LenProperties
  <2>3. IsBody(body, data, n, resp)
    BY <2>1, <2>2, BodyOfCommand, Zenon
  <2>4. body \in Seq(Int) /\ Len(body) = n + 2 /\ body[1] = 4 * n
    BY <2>3, Zenon DEF IsBody
  <2>5. HasExtendedHead(p, type) /\ HasBody(p, 8, body)
    BY <1>6, <2>1, <2>4, Zenon
  <2>6. 9 + n + 1 <= Len(p) /\ p[9] \div 4 = n
    <3>1. Len(p) = 8 + Len(body) /\ \A i \in 1 .. Len(body) : p[8 + i] = body[i]
      BY <2>5, Zenon DEF HasBody
    <3>2. 1 \in 1 .. Len(body) /\ 8 + 1 = 9 /\ (4 * n) \div 4 = n
      BY <2>2, <2>4
    <3>3. p[9] = 4 * n
      BY <2>4, <3>1, <3>2, Zenon
    <3>4. QED
      BY <2>2, <2>4, <3>1, <3>2, <3>3
  <2>7. Schema(3, type, ExtendedHead, <<"l", "u">>)
    BY <2>1, ExtendedSchemas, Zenon
  <2>8. Fitting(p, dev)
    BY <2>2, <2>5, <2>6, <2>7, ExtendedFits
  <2>9. QED
    BY <2>1, <2>5, <2>8, Zenon DEF Heads, HasExtendedHead
<1>9. QED
  BY <1>7, <1>8, Zenon

\* A call that the client makes a request for: that of an enumeration or of the version is
\* for no device.
IsMade(c) ==
    /\ c.op \in Ops \ {"other"} /\ c.ver \in 1 .. 3 /\ c.data \in Seq(Int) /\ c.resp \in Int
    /\ c.op \in {"enumerate", "version"} => c.dev = Serial(0)

\* Requests for no device.
LEMMA PlainRequestFits ==
    ASSUME NEW v \in 1 .. 3, NEW dev, dev.id = 0
    PROVE  /\ Fitting(CreateEnumRequest(v), dev) /\ Heads(CreateEnumRequest(v), v, 0)
           /\ Fitting(CreateVersionRequest(v), dev) /\ Heads(CreateVersionRequest(v), v, 0)
<1>1. ASSUME NEW kind \in {"enum_req", "ver_req"}, NEW d, NEW p, p = ExtendedRequest(kind, d, <<>>)
      PROVE  Fitting(p, dev) /\ Heads(p, 3, 0)
  <2>1. PICK type, zeroes, none : type = Code3[kind] /\ zeroes = <<0, 0, 0>> /\ none = <<>>
    BY Zenon
  <2>2. zeroes[1] = 0 /\ zeroes[2] = 0 /\ zeroes[3] = 0
    BY <2>1, SMT
  <2>3. IsExtended(p, type, zeroes, none)
    BY <1>1, <2>1, PlainExtendedIs, Zenon
  <2>4. /\ p \in Seq(Int) /\ Len(p) = 8 + Len(none) /\ p[1] = 3 /\ p[2] = type /\ p[3] = 0
        /\ p[4] = 0 /\ p[5] = 0 /\ p[6] = 0 /\ p[7] = 0 /\ p[8] = 0
    BY <2>2, <2>3, Zenon DEF IsExtended
  <2>5. Len(p) \in Nat /\ 8 <= Len(p)
    BY <2>1, <2>4
  <2>6. \A i \in 3 .. 8 : i \in {3, 4, 5, 6, 7, 8}
    OBVIOUS
  <2>7. HasPlainHead(p, type)
    BY <2>4, <2>5, <2>6, Zenon DEF HasPlainHead
  <2>8. Schema(3, type, PlainHead, <<>>)
    BY <2>1, ExtendedSchemas, Zenon
  <2>9. Fitting(p, dev)
    BY <2>7, <2>8, PlainFits
  <2>10. QED
    BY <2>4, <2>9, Zenon DEF Heads
<1>2. ASSUME NEW p, p = <<>> PROVE Fitting(p, dev) /\ Heads(p, v, 0)
  BY <1>2, Zenon DEF Fitting, Heads
<1>3. CASE v = 1
  <2>1. CreateVersionRequest(v) = <<>>
    BY <1>3 DEF CreateVersionRequest
  <2>2. PICK p : p = CreateEnumRequest(v)
    BY Zenon
  <2>3. p = <<1, 3, 0, 0, 0, 0>> \o <<0>>
    BY <1>3, <2>2 DEF CreateEnumRequest, ClientRequest, SerialRequest, Code, Code1, Serial, DevId
  <2>4. <<0>> \in Seq(Int) /\ 0 \in Int /\ 1 \in Int /\ 3 \in Int /\ Len(<<0>>) = 1 /\ <<0>>[1] = 0
    OBVIOUS
  <2>5. IsPlain(p, 1, 3, 0, <<0>>)
    BY <2>3, <2>4, PlainHeader, Zenon
  <2>6. /\ p \in Seq(Int) /\ Len(p) = 6 + Len(<<0>>) /\ p[1] = 1 /\ p[2] = 3 /\ p[3] = 0 /\ p[4] = 0
        /\ p[5] = 0 /\ p[6] = 0 /\ \A i \in 1 .. Len(<<0>>) : p[6 + i] = <<0>>[i]
    BY <2>5, Zenon DEF IsPlain
  <2>7. 1 \in 1 .. Len(<<0>>) /\ 6 + 1 = 7
    BY <2>4
  <2>8. p[7] = 0
    BY <2>4, <2>6, <2>7, Zenon
  <2>9. Len(p) \in Nat /\ 7 <= Len(p)
    BY <2>4, <2>6
  <2>10. Code1.enum_req = 3
    BY DEF Code1
  <2>11. IsMatch(GetSchema(1, Code1.enum_req), p, 1, Code1.enum_req, dev)
    <3>1. 7 <= Len(p) /\ p[2] = Code1.enum_req /\ p[4] = 0 /\ p[5] = 0 /\ p[6] = 0 /\ p[7] = 0
            => IsMatch(GetSchema(1, Code1.enum_req), p, 1, Code1.enum_req, dev)
      BY <2>6, <2>9, Enum1Matches, Zenon
    <3>2. QED
      BY <2>6, <2>8, <2>9, <2>10, <3>1, Zenon
  <2>12. Fitting(p, dev) /\ Heads(p, v, 0)
    BY <1>3, <2>6, <2>10, <2>11, Zenon DEF Fitting, Heads
  <2>13. QED
    BY <1>2, <2>1, <2>2, <2>12, Zenon
<1>4. CASE v = 2
  <2>1. CreateEnumRequest(v) = <<>> /\ CreateVersionRequest(v) = <<>>
    BY <1>4 DEF CreateEnumRequest, CreateVersionRequest
  <2>2. QED
    BY <1>2, <2>1, Zenon
<1>5. CASE v = 3
  <2>1. ~(3 = 2)
    OBVIOUS
  <2>2. /\ CreateEnumRequest(v) = ExtendedRequest("enum_req", Serial(0), <<>>)
        /\ CreateVersionRequest(v) = ExtendedRequest("ver_req", Serial(0), <<>>)
    BY <1>5, <2>1, Zenon DEF CreateEnumRequest, CreateVersionRequest, ClientRequest
  <2>3. QED
    BY <1>1, <1>5, <2>2, Zenon
<1>6. QED
  BY <1>3, <1>4, <1>5

\* Every request of the client's making fits, and says the version, and in the protocols 1
\* and 2 the device, of its call.
LEMMA RequestFits ==
    ASSUME NEW c, IsMade(c)
    PROVE  Fitting(RequestOf(c), c.dev) /\ Heads(RequestOf(c), c.ver, c.dev.id)
<1>1. /\ c.op \in {"open", "close", "command", "enumerate", "version"}
      /\ c.ver \in 1 .. 3 /\ c.data \in Seq(Int) /\ c.resp \in Int
  BY Zenon DEF IsMade, Ops
<1>2. PICK v, dev, op : v = c.ver /\ dev = c.dev /\ op = c.op
  BY Zenon
<1>3. v \in {1, 2} \/ v = 3
  BY <1>1, <1>2
<1>4. ASSUME NEW kind \in {"open_req", "close_req"}, NEW p, p = ClientRequest(v, kind, dev, <<>>)
      PROVE  Fitting(p, dev) /\ Heads(p, v, dev.id)
  <2>1. CASE v = 3
    BY <1>1, <1>4, <2>1, ExtendedRequestFits, Zenon
  <2>2. CASE v \in {1, 2}
    <3>1. PICK none : none = <<>> /\ none \in Seq(Int)
      BY EmptySeq, Zenon
    <3>2. kind \in {"open_req", "close_req", "cmd_req"} /\ p = ClientRequest(v, kind, dev, none)
      BY <1>4, <3>1, Zenon
    <3>3. QED
      BY <2>2, <3>1, <3>2, SerialRequestFits, Zenon
  <2>3. QED
    BY <1>3, <2>1, <2>2
<1>5. CASE op = "open"
  <2>1. RequestOf(c) = ClientRequest(v, "open_req", dev, <<>>)
    BY <1>2, <1>5, Zenon DEF RequestOf, CreateOpenRequest
  <2>2. QED
    BY <1>2, <1>4, <2>1, Zenon
<1>6. CASE op = "close"
  <2>1. RequestOf(c) = ClientRequest(v, "close_req", dev, <<>>)
    BY <1>2, <1>6, Zenon DEF RequestOf, CreateCloseRequest
  <2>2. QED
    BY <1>2, <1>4, <2>1, Zenon
<1>7. CASE op = "command"
  <2>1. PICK body : body = IF v = 1 THEN c.data ELSE IF v = 2 THEN CmdBody2(c.data, c.resp)
                           ELSE CmdBody3(c.data, c.resp)
    BY Zenon
  <2>2. RequestOf(c) = ClientRequest(v, "cmd_req", dev, body)
    BY <1>2, <1>7, <2>1, Zenon DEF RequestOf, CreateCmdRequest
  <2>3. CASE v = 3
    <3>1. body = CmdBody3(c.data, c.resp)
      BY <2>1, <2>3
    <3>2. "open_req" \in {"open_req", "close_req"}
      OBVIOUS
    <3>3. QED
      BY <1>1, <1>2, <2>2, <2>3, <3>1, <3>2, ExtendedRequestFits, Zenon
  <2>4. CASE v \in {1, 2}
    <3>1. body \in Seq(Int)
      BY <1>1, <1>2, <2>1, CommandBodyIs, Zenon
    <3>2. "cmd_req" \in {"open_req", "close_req", "cmd_req"}
      OBVIOUS
    <3>3. QED
      BY <1>2, <2>2, <2>4, <3>1, <3>2, SerialRequestFits, Zenon
  <2>5. QED
    BY <1>3, <2>3, <2>4
<1>8. CASE op \in {"enumerate", "version"}
  <2>1. dev.id = 0
    <3>1. dev = Serial(0)
      BY <1>2, <1>8, Zenon DEF IsMade
    <3>2. QED
      BY <3>1 DEF Serial, DevId
  <2>2. /\ Fitting(CreateEnumRequest(v), dev) /\ Heads(CreateEnumRequest(v), v, dev.id)
        /\ Fitting(CreateVersionRequest(v), dev) /\ Heads(CreateVersionRequest(v), v, dev.id)
    BY <1>1, <1>2, <2>1, PlainRequestFits, Zenon
  <2>3. RequestOf(c) \in {CreateEnumRequest(v), CreateVersionRequest(v)}
    <3>1. CASE op = "enumerate"
      BY <1>2, <3>1, Zenon DEF RequestOf
    <3>2. CASE op = "version"
      BY <1>2, <3>2, Zenon DEF RequestOf
    <3>3. QED
      BY <1>8, <3>1, <3>2
  <2>4. QED
    BY <1>2, <2>2, <2>3, Zenon
<1>9. QED
  BY <1>1, <1>2, <1>5, <1>6, <1>7, <1>8, Zenon

-----------------------------------------------------------------------------
(* The answers of the simulator and of the server.                         *)

\* The list of an enumeration of protocol 1, of the simulator.
LEMMA SerialListIs ==
    ASSUME NEW W, W = [i \in 1 .. 3 |-> <<Swapped(SerialList[i])>> \o [k \in 1 .. 44 |-> 0]]
    PROVE  FlattenSeq(W) \in Seq(Int)
<1>1. \A i \in 1 .. 3 : Swapped(SerialList[i]) \in Int
  <2>1. \A i \in 1 .. 3 : SerialList[i] \in Nat
    BY DEF SerialList
  <2>2. \A n \in Nat : Swapped(n) \in Int
    BY DEF Swapped
  <2>3. QED
    BY <2>1, <2>2, Zenon
<1>2. PICK zeroes : zeroes = [k \in 1 .. 44 |-> 0]
  BY Zenon
<1>3. zeroes \in Seq(Int) /\ Len(zeroes) = 44
  <2>1. 44 \in Nat
    OBVIOUS
  <2>2. zeroes \in [1 .. 44 -> Int]
    BY <1>2
  <2>3. QED
    BY <2>1, <2>2, FunctionIsSeq
<1>4. ASSUME NEW i \in 1 .. 3 PROVE W[i] \in Seq(Int) /\ Len(W[i]) = 45
  <2>1. PICK n, s : n = Swapped(SerialList[i]) /\ s = << n >>
    BY Zenon
  <2>2. n \in Int
    BY <1>1, <2>1, Zenon
  <2>3. s \in Seq(Int) /\ Len(s) = 1
    BY <2>1, <2>2
  <2>4. W[i] = s \o zeroes
    BY <1>2, <2>1, Zenon
  <2>5. s \o zeroes \in Seq(Int) /\ Len(s \o zeroes) = Len(s) + Len(zeroes)
    BY <1>3, <2>3, ConcatProperties, Zenon
  <2>6. 1 + 44 = 45
    OBVIOUS
  <2>7. QED
    BY <1>3, <2>3, <2>4, <2>5, <2>6, Zenon
<1>5. W \in [1 .. 3 -> Seq(Int)]
  <2>1. W = [i \in 1 .. 3 |-> W[i]]
    BY Zenon
  <2>2. QED
    BY <1>4, <2>1, Zenon
<1>6. PICK at : at = [i \in 0 .. 3 |-> 45 * i]
  BY Zenon
<1>7. at \in [0 .. 3 -> Nat] /\ at[0] = 0 /\ \A i \in 1 .. 3 : at[i] = at[i - 1] + 45
  BY <1>6
<1>8. \A i \in 1 .. 3 : at[i] = at[i - 1] + Len(W[i])
  BY <1>4, <1>7, Zenon
<1>9. 3 \in Nat /\ 3 # 0
  OBVIOUS
<1>10. IsFlat(FlattenSeq(W), W, 3, at, Int)
  BY <1>5, <1>7, <1>8, <1>9, FlattenPlaces, Zenon
<1>11. QED
  BY <1>10, Zenon DEF IsFlat

\* What the simulator answers in the protocols 1 and 2 fits for the device of the request.
LEMMA SimSerialFits ==
    ASSUME NEW v \in {1, 2}, NEW dev, req[4] = dev.id
    PROVE  Fitting(SimAnswerSerial(v), dev)
<1>1. PICK type, d : type = req[2] /\ d = Serial(req[4])
  BY Zenon
<1>2. d.id = dev.id
  BY <1>1 DEF Serial, DevId
<1>3. CASE type = Code(v).cmd_req
  <2>1. SimAnswerSerial(v) = GenPlain(<<"v", "p", "0", "d", "0", "0", "0">>, v, Code(v).cmd_resp, d, 0, 0)
    BY <1>1, <1>3, Zenon DEF SimAnswerSerial
  <2>2. QED
    BY <1>2, <2>1, SerialCommandFits, Zenon
<1>4. ASSUME NEW kind \in {"open_resp", "close_resp"}, NEW zero_one \in {0, 1},
             SimAnswerSerial(v) = GenPlain(GetSchema(1, Code1[kind]), v, Code1[kind], d, zero_one, 0)
      PROVE  Fitting(SimAnswerSerial(v), dev)
  BY <1>2, <1>4, SerialValueFits, Zenon
<1>5. CASE type # Code(v).cmd_req /\ type = Code1.open_req
  <2>1. SimAnswerSerial(v) = GenPlain(GetSchema(1, Code1["open_resp"]), v, Code1["open_resp"], d,
                                      OneZero(req[4] \in Serials), 0)
    BY <1>1, <1>5, Zenon DEF SimAnswerSerial
  <2>2. OneZero(req[4] \in Serials) \in {0, 1}
    BY Zenon DEF OneZero
  <2>3. "open_resp" \in {"open_resp", "close_resp"}
    OBVIOUS
  <2>4. QED
    BY <1>4, <2>1, <2>2, <2>3, Zenon
<1>6. CASE type # Code(v).cmd_req /\ type # Code1.open_req /\ type = Code1.close_req
  <2>1. SimAnswerSerial(v) = GenPlain(GetSchema(1, Code1["close_resp"]), v, Code1["close_resp"], d, 1, 0)
    BY <1>1, <1>6, Zenon DEF SimAnswerSerial
  <2>2. 1 \in {0, 1} /\ "close_resp" \in {"open_resp", "close_resp"}
    OBVIOUS
  <2>3. QED
    BY <1>4, <2>1, <2>2, Zenon
<1>7. CASE type # Code(v).cmd_req /\ type # Code1.open_req /\ type # Code1.close_req
  <2>1. CASE v = 1 /\ type = Code1.enum_req
    <3>1. PICK W, code : /\ W = [i \in 1 .. 3 |-> <<Swapped(SerialList[i])>> \o [k \in 1 .. 44 |-> 0]]
                         /\ code = Code1.enum_resp
      BY Zenon
    <3>2. SimAnswerSerial(v) = <<1, code, 0, 3>> \o FlattenSeq(W)
      BY <1>1, <1>7, <2>1, <3>1, Zenon DEF SimAnswerSerial
    <3>3. FlattenSeq(W) \in Seq(Int)
      BY <3>1, SerialListIs, Zenon
    <3>4. code \in Int
      BY <3>1 DEF Code1
    <3>5. PICK a, b, n : a = << 1, code, 0, 3 >> /\ b = FlattenSeq(W) /\ n = Len(b)
      BY Zenon
    <3>6. /\ a \in Seq(Int) /\ Len(a) = 4 /\ a[1] = 1 /\ a[2] = code /\ a[3] = 0 /\ 4 \in Nat
      BY <3>4, <3>5
    <3>7. b \in Seq(Int) /\ n \in Nat
      BY <3>3, <3>5
    <3>8. a \o b \in Seq(Int) /\ HasParts(a \o b, a, 4, b, n)
      BY <3>5, <3>6, <3>7, JoinParts, Zenon
    <3>9. PICK p : p = a \o b
      BY Zenon
    <3>10. p[1] = 1 /\ p[2] = code /\ p[3] = 0 /\ Len(p) \in Nat /\ 4 <= Len(p)
      <4>1. HasParts(p, a, 4, b, n)
        BY <3>8, <3>9, Zenon
      <4>2. QED
        BY <3>6, <3>7, <4>1 DEF HasParts
    <3>11. 4 <= Len(p) /\ p[2] = Code1.enum_resp => IsMatch(GetSchema(1, Code1.enum_resp), p, 1, Code1.enum_resp, dev)
      BY <3>10, Enum1Matches, Zenon
    <3>12. IsMatch(GetSchema(1, p[2]), p, 1, p[2], dev)
      BY <3>1, <3>10, <3>11, Zenon
    <3>13. QED
      BY <3>2, <3>5, <3>9, <3>10, <3>12, Zenon DEF Fitting
  <2>2. CASE ~(v = 1 /\ type = Code1.enum_req)
    <3>1. SimAnswerSerial(v) = <<>>
      BY <1>1, <1>7, <2>2, Zenon DEF SimAnswerSerial
    <3>2. QED
      BY <3>1, Zenon DEF Fitting
  <2>3. QED
    BY <2>1, <2>2, Zenon
<1>8. QED
  BY <1>3, <1>5, <1>6, <1>7, Zenon

\* What the simulator answers in protocol 3 fits for any device: it names the device 0.
LEMMA SimGenerated ==
    ASSUME NEW kind \in {"open_resp", "close_resp"}, NEW zero_one \in {0, 1}, NEW some \in Int, NEW dev,
           NEW p, p = GenPlain(GetSchema(3, Code3[kind]), 3, Code3[kind], NoDevice, zero_one, some)
    PROVE  Fitting(p, dev)
<1>1. PICK s, type : type = Code3[kind] /\ s = GetSchema(3, type)
  BY Zenon
<1>2. Schema(3, type, ExtendedHead, <<"b">>) /\ type \in Int
  BY <1>1, ExtendedSchemas, Zenon
<1>3. s \in Seq(Letters) /\ BeginsWith(s, ExtendedHead) /\ HasTail(s, ExtendedHead, <<"b">>)
  BY <1>1, <1>2, SchemaBegins, Zenon
<1>4. Len(ExtendedHead) = 6
  BY DEF ExtendedHead
<1>5. Len(s) = 7 /\ s[7] = "b"
  BY <1>3, <1>4 DEF HasTail
<1>6. DOMAIN s = 1 .. 7
  BY <1>3, <1>5, LenProperties
<1>7. p = GenPlain(s, 3, type, NoDevice, zero_one, some)
  BY <1>1, Zenon
<1>8. zero_one \in Int /\ 7 \in {7, 8} /\ ~(7 = 8)
  OBVIOUS
<1>9. PICK n : n = 7
  BY Zenon
<1>10. DOMAIN s = 1 .. n /\ n \in {7, 8} /\ ~(n = 8) /\ s[7] \in {"b", "u"}
  BY <1>5, <1>6, <1>8, <1>9, Zenon
<1>11. HasExtendedHead(p, type) /\ Len(p) = n + 2 /\ p[9] = zero_one
  <2>1. n = 8 => s[8] = "0"
    BY <1>10, Zenon
  <2>2. zero_one \in Int /\ some \in Int /\ type \in Int
    BY <1>2, <1>8, Zenon
  <2>3. BeginsWith(s, ExtendedHead) /\ n \in {7, 8} /\ DOMAIN s = 1 .. n /\ s[7] \in {"b", "u"}
    BY <1>3, <1>10, Zenon
  <2>4. zero_one = IF s[7] = "b" THEN zero_one ELSE some
    BY <1>5, Zenon
  <2>5. IsGenerated(p, type, n, zero_one)
    BY <1>7, <2>1, <2>2, <2>3, <2>4, ExtendedGen, Zenon
  <2>6. QED
    BY <2>5, Zenon DEF IsGenerated
<1>12. 9 <= Len(p) /\ p[9] \in {0, 1} /\ 0 \in Nat
  BY <1>5, <1>9, <1>11
<1>13. QED
  BY <1>2, <1>11, <1>12, ExtendedFits

\* The answer to a command says that it has one byte of data, and has one word.
LEMMA SimCommandFits ==
    ASSUME NEW dev,
           NEW p, p = GenPlain(<<"v", "p", "0", "I", "0", "0", "u", "0">>, 3, Code3.cmd_resp, NoDevice, 0, 1)
    PROVE  Fitting(p, dev)
<1>1. PICK s, type : type = Code3["cmd_resp"] /\ s = <<"v", "p", "0", "I", "0", "0", "u", "0">>
  BY Zenon
<1>2. Schema(3, type, ExtendedHead, <<"l">>) /\ type \in Int
  BY <1>1, ExtendedSchemas, Zenon
<1>3. DOMAIN s = 1 .. 8 /\ s[7] = "u" /\ s[8] = "0"
  BY <1>1, SMT
<1>4. BeginsWith(s, ExtendedHead)
  <2>1. Len(ExtendedHead) = 6
    BY DEF ExtendedHead
  <2>2. /\ s[1] = "v" /\ s[2] = "p" /\ s[3] = "0" /\ s[4] = "I" /\ s[5] = "0" /\ s[6] = "0"
    BY <1>1, SMT
  <2>3. /\ ExtendedHead[1] = "v" /\ ExtendedHead[2] = "p" /\ ExtendedHead[3] = "0" /\ ExtendedHead[4] = "I"
        /\ ExtendedHead[5] = "0" /\ ExtendedHead[6] = "0"
    BY SMT DEF ExtendedHead
  <2>4. \A i \in 1 .. 6 : i \in {1, 2, 3, 4, 5, 6}
    OBVIOUS
  <2>5. \A i \in 1 .. 6 : s[i] = ExtendedHead[i]
    BY <2>2, <2>3, <2>4, Zenon
  <2>6. QED
    BY <2>1, <2>5, Zenon DEF BeginsWith
<1>5. p = GenPlain(s, 3, type, NoDevice, 0, 1)
  BY <1>1, Zenon
<1>6. 0 \in Int /\ 1 \in Int /\ 8 \in {7, 8}
  OBVIOUS
<1>7. PICK n : n = 8
  BY Zenon
<1>8. DOMAIN s = 1 .. n /\ n \in {7, 8} /\ s[7] \in {"b", "u"}
  BY <1>3, <1>6, <1>7, Zenon
<1>9. HasExtendedHead(p, type) /\ Len(p) = n + 2 /\ p[9] = 1
  <2>1. n = 8 => s[8] = "0"
    BY <1>3, Zenon
  <2>2. 0 \in Int /\ 1 \in Int /\ type \in Int
    BY <1>2, <1>6, Zenon
  <2>3. BeginsWith(s, ExtendedHead) /\ n \in {7, 8} /\ DOMAIN s = 1 .. n /\ s[7] \in {"b", "u"}
    BY <1>4, <1>8, Zenon
  <2>4. ~("u" = "b")
    OBVIOUS
  <2>5. 1 = IF s[7] = "b" THEN 0 ELSE 1
    BY <1>3, <2>4, Zenon
  <2>6. IsGenerated(p, type, n, 1)
    BY <1>5, <2>1, <2>2, <2>3, <2>5, ExtendedGen, Zenon
  <2>7. QED
    BY <2>6, Zenon DEF IsGenerated
<1>10. 9 + 0 <= Len(p) /\ p[9] \div 4 = 0 /\ 0 \in Nat
  BY <1>7, <1>9
<1>11. QED
  BY <1>2, <1>9, <1>10, ExtendedFits

\* The answer to a question for the version.
LEMMA SimVersionFits ==
    ASSUME NEW dev,
           NEW p, p = GenPlain(GetSchema(3, Code3["ver_resp"]), 3, Code3["ver_resp"], NoDevice, 0, 3)
    PROVE  Fitting(p, dev)
<1>1. PICK s, type : type = Code3["ver_resp"] /\ s = GetSchema(3, type)
  BY Zenon
<1>2. Schema(3, type, PlainHead, <<"u">>)
  BY <1>1, ExtendedSchemas, Zenon
<1>3. s \in Seq(Letters) /\ BeginsWith(s, PlainHead) /\ HasTail(s, PlainHead, <<"u">>)
  BY <1>1, <1>2, SchemaBegins, Zenon
<1>4. Len(PlainHead) = 8
  BY DEF PlainHead
<1>5. Len(s) = 9 /\ s[9] = "u"
  BY <1>3, <1>4 DEF HasTail
<1>6. DOMAIN s = 1 .. 9
  BY <1>3, <1>5, LenProperties
<1>7. p = GenPlain(s, 3, type, NoDevice, 0, 3)
  BY <1>1, Zenon
<1>8. HasPlainHead(p, type) /\ Len(p) = 9
  BY <1>3, <1>5, <1>6, <1>7, PlainGen
<1>9. 9 <= Len(p)
  <2>1. 9 <= 9
    OBVIOUS
  <2>2. QED
    BY <1>8, <2>1, Zenon
<1>10. QED
  BY <1>2, <1>8, <1>9, PlainFits

\* The list of an enumeration of protocol 3, of the simulator.
LEMMA SimEnumerationFits ==
    ASSUME NEW dev,
           NEW p, p = <<3, Code3.enum_resp, 0, 0, 0, 0, 0, 0, 3>>
                      \o FlattenSeq([i \in 1 .. 3 |-> IdWords(Serial(SerialList[i]))])
    PROVE  Fitting(p, dev)
<1>1. PICK type, W : /\ type = Code3["enum_resp"]
                     /\ W = [i \in 1 .. 3 |-> IdWords(Serial(SerialList[i]))]
  BY Zenon
<1>2. PICK a, b, n : a = << 3, type, 0, 0, 0, 0, 0, 0, 3 >> /\ b = FlattenSeq(W) /\ n = Len(b)
  BY Zenon
<1>3. p = a \o b
  BY <1>1, <1>2, Zenon
<1>4. Schema(3, type, PlainHead, <<"x">>) /\ type \in Int
  BY <1>1, ExtendedSchemas, Zenon
<1>5. /\ a \in Seq(Int) /\ Len(a) = 9 /\ 9 \in Nat
      /\ a[1] = 3 /\ a[2] = type /\ a[3] = 0 /\ a[4] = 0 /\ a[5] = 0 /\ a[6] = 0 /\ a[7] = 0 /\ a[8] = 0
  BY <1>2, <1>4
<1>6. \A i \in 1 .. 3 : W[i] \in Seq(Int) /\ Len(W[i]) = 3
  <2>1. \A i \in 1 .. 3 : SerialList[i] \in Words16
    BY DEF SerialList, Words16
  <2>2. \A i \in 1 .. 3 : Serial(SerialList[i]) \in Identifiers
    BY <2>1, SmallIds, NamedAreIdentifiers, Zenon DEF PortIdsOf
  <2>3. QED
    BY <1>1, <2>2, IdentifierSurvives, Zenon
<1>7. W \in [1 .. 3 -> Seq(Int)]
  BY <1>1, <1>6, Zenon
<1>8. PICK at : at = [i \in 0 .. 3 |-> 3 * i]
  BY Zenon
<1>9. at \in [0 .. 3 -> Nat] /\ at[0] = 0 /\ \A i \in 1 .. 3 : at[i] = at[i - 1] + 3
  BY <1>8
<1>10. \A i \in 1 .. 3 : at[i] = at[i - 1] + Len(W[i])
  BY <1>6, <1>9, Zenon
<1>11. 3 \in Nat /\ 3 # 0
  OBVIOUS
<1>12. b \in Seq(Int) /\ n \in Nat
  <2>1. IsFlat(FlattenSeq(W), W, 3, at, Int)
    BY <1>7, <1>9, <1>10, <1>11, FlattenPlaces, Zenon
  <2>2. b \in Seq(Int)
    BY <1>2, <2>1, Zenon DEF IsFlat
  <2>3. QED
    BY <1>2, <2>2
<1>13. HasParts(p, a, 9, b, n)
  BY <1>2, <1>3, <1>5, <1>12, JoinParts, Zenon
<1>14. Len(p) \in Nat /\ 8 <= Len(p) /\ \A i \in 1 .. 8 : p[i] = a[i]
  BY <1>12, <1>13 DEF HasParts
<1>15. 1 \in 1 .. 8 /\ 2 \in 1 .. 8 /\ \A i \in 3 .. 8 : i \in 1 .. 8 /\ i \in {3, 4, 5, 6, 7, 8}
  OBVIOUS
<1>16. HasPlainHead(p, type)
  BY <1>5, <1>14, <1>15, ZenonT(40) DEF HasPlainHead
<1>17. QED
  BY <1>4, <1>16, PlainFits

\* Whatever it answers in protocol 3.
LEMMA SimExtendedFits ==
    ASSUME NEW dev
    PROVE  Fitting(SimAnswerExtended, dev)
<1>1. PICK type, edev : type = req[2] /\ edev = IdOf([i \in 1 .. 3 |-> Ahead(Read(Buf(req), 3), i)])
  BY Zenon
<1>2. PICK p : p = SimAnswerExtended
  BY Zenon
<1>3. CASE type = Code3.enum_req
  BY <1>1, <1>2, <1>3, SimEnumerationFits, Zenon DEF SimAnswerExtended
<1>4. CASE type # Code3.enum_req /\ type = Code3.cmd_req
  BY <1>1, <1>2, <1>4, SimCommandFits, Zenon DEF SimAnswerExtended
<1>5. ASSUME NEW kind \in {"open_resp", "close_resp"}, NEW zero_one \in {0, 1},
             p = GenPlain(GetSchema(3, Code3[kind]), 3, Code3[kind], NoDevice, zero_one, 0)
      PROVE  Fitting(p, dev)
  <2>1. 0 \in Int
    OBVIOUS
  <2>2. QED
    BY <1>5, <2>1, SimGenerated, Zenon
<1>6. CASE type # Code3.enum_req /\ type # Code3.cmd_req /\ type = Code3.open_req
  <2>1. p = GenPlain(GetSchema(3, Code3["open_resp"]), 3, Code3["open_resp"], NoDevice,
                     OneZero(edev.id \in Serials), 0)
    BY <1>1, <1>2, <1>6, Zenon DEF SimAnswerExtended
  <2>2. OneZero(edev.id \in Serials) \in {0, 1} /\ "open_resp" \in {"open_resp", "close_resp"}
    BY Zenon DEF OneZero
  <2>3. QED
    BY <1>2, <1>5, <2>1, <2>2, Zenon
<1>7. CASE type # Code3.enum_req /\ type # Code3.cmd_req /\ type # Code3.open_req /\ type = Code3.close_req
  <2>1. p = GenPlain(GetSchema(3, Code3["close_resp"]), 3, Code3["close_resp"], NoDevice, 1, 0)
    BY <1>1, <1>2, <1>7, Zenon DEF SimAnswerExtended
  <2>2. 1 \in {0, 1} /\ "close_resp" \in {"open_resp", "close_resp"}
    OBVIOUS
  <2>3. QED
    BY <1>2, <1>5, <2>1, <2>2, Zenon
<1>8. CASE /\ type # Code3.enum_req /\ type # Code3.cmd_req /\ type # Code3.open_req /\ type # Code3.close_req
           /\ type = Code3.ver_req
  <2>1. p = GenPlain(GetSchema(3, Code3["ver_resp"]), 3, Code3["ver_resp"], NoDevice, 0, 3)
    BY <1>1, <1>2, <1>8, Zenon DEF SimAnswerExtended
  <2>2. QED
    BY <1>2, <2>1, SimVersionFits, Zenon
<1>9. CASE /\ type # Code3.enum_req /\ type # Code3.cmd_req /\ type # Code3.open_req /\ type # Code3.close_req
           /\ type # Code3.ver_req
  <2>1. p = <<>>
    BY <1>1, <1>2, <1>9, Zenon DEF SimAnswerExtended
  <2>2. QED
    BY <1>2, <2>1, Zenon DEF Fitting
<1>10. QED
  BY <1>3, <1>4, <1>6, <1>7, <1>8, <1>9, Zenon

\* The packets that were put together in integers, by their heads.
LEMMA PlainIsSerial ==
    ASSUME NEW p, NEW v, NEW type, NEW id, NEW body \in Seq(Int), IsPlain(p, v, type, id, body)
    PROVE  HasSerialHead(p, v, type, id) /\ HasBody(p, 6, body)
<1>1. /\ Len(p) = 6 + Len(body) /\ p[1] = v /\ p[2] = type /\ p[3] = 0 /\ p[4] = id /\ p[5] = 0 /\ p[6] = 0
      /\ \A i \in 1 .. Len(body) : p[6 + i] = body[i]
  BY Zenon DEF IsPlain
<1>2. Len(body) \in Nat
  BY LenProperties
<1>3. Len(p) \in Nat /\ 6 <= Len(p)
  BY <1>1, <1>2
<1>4. QED
  BY <1>1, <1>3, Zenon DEF HasSerialHead, HasBody

\* The same in protocol 3.
LEMMA ExtendedIsExtended ==
    ASSUME NEW p, NEW type, NEW words, NEW body \in Seq(Int), IsExtended(p, type, words, body)
    PROVE  /\ HasExtendedHead(p, type) /\ HasBody(p, 8, body)
           /\ p[4] = words[1] /\ p[5] = words[2] /\ p[6] = words[3]
<1>1. /\ Len(p) = 8 + Len(body) /\ p[1] = 3 /\ p[2] = type /\ p[3] = 0 /\ p[7] = 0 /\ p[8] = 0
      /\ p[4] = words[1] /\ p[5] = words[2] /\ p[6] = words[3]
      /\ \A i \in 1 .. Len(body) : p[8 + i] = body[i]
  BY Zenon DEF IsExtended
<1>2. Len(body) \in Nat
  BY LenProperties
<1>3. Len(p) \in Nat /\ 8 <= Len(p)
  BY <1>1, <1>2
<1>4. QED
  BY <1>1, <1>3, Zenon DEF HasExtendedHead, HasBody

\* One that names no device has zeroes for it.
LEMMA NoDeviceIsPlain ==
    ASSUME NEW p, NEW type, NEW body \in Seq(Int), IsExtended(p, type, IdWords(NoDevice), body)
    PROVE  HasPlainHead(p, type) /\ HasBody(p, 8, body)
<1>1. PICK words : words = IdWords(NoDevice)
  BY Zenon
<1>2. words[1] = 0 /\ words[2] = 0 /\ words[3] = 0
  BY <1>1, SMT DEF IdWords, NoDevice, Serial, DevId
<1>3. /\ HasExtendedHead(p, type) /\ HasBody(p, 8, body) /\ p[4] = 0 /\ p[5] = 0 /\ p[6] = 0
  BY <1>1, <1>2, ExtendedIsExtended, Zenon
<1>4. \A i \in 3 .. 8 : i \in {3, 4, 5, 6, 7, 8}
  OBVIOUS
<1>5. QED
  BY <1>3, <1>4, Zenon DEF HasExtendedHead, HasPlainHead

\* A body of one word.
LEMMA OneWord ==
    ASSUME NEW val \in Int, NEW p, NEW k \in Nat, HasBody(p, k, << val >>)
    PROVE  Len(p) = k + 1 /\ p[k + 1] = val
<1>1. PICK body : body = << val >>
  BY Zenon
<1>2. Len(body) = 1 /\ body[1] = val
  BY <1>1
<1>3. Len(p) = k + Len(body) /\ \A i \in 1 .. Len(body) : p[k + i] = body[i]
  BY <1>1, Zenon DEF HasBody
<1>4. 1 \in 1 .. 1
  OBVIOUS
<1>5. QED
  BY <1>2, <1>3, <1>4, Zenon

\* The answers of the server to an open and to a close.
LEMMA ValueAnswerFits ==
    ASSUME NEW d \in Identifiers, NEW dev, d.id = dev.id, NEW val \in {0, 1}, NEW kind \in ValueKinds,
           NEW v \in {2, 3}, NEW p, p = ResponseIn(v, kind, val, d, <<>>)
    PROVE  Fitting(p, dev)
<1>1. val \in Int /\ kind \in {"open_resp", "close_resp"} /\ <<val>> \in Seq(Int)
  BY DEF ValueKinds
<1>2. CASE v = 2
  <2>1. PICK none, type, body : none = <<>> /\ type = Code2[kind] /\ body = <<val>> \o none
    BY Zenon
  <2>2. p = ServerResponse2(kind, val, d, none)
    BY <1>2, <2>1, Zenon DEF ResponseIn
  <2>3. body \in Seq(Int) /\ IsPlain(p, 2, type, d.id, body)
    <3>1. none \in Seq(Int) /\ kind \in ValueKinds \cup {"cmd_resp"}
      BY <2>1, EmptySeq, Zenon
    <3>2. QED
      BY <1>1, <2>1, <2>2, <3>1, Answer2Is, Zenon
  <2>4. body = << val >>
    BY <1>1, <2>1
  <2>5. HasSerialHead(p, 2, type, dev.id) /\ HasBody(p, 6, << val >>) /\ 6 \in Nat
    <3>1. HasSerialHead(p, 2, type, d.id) /\ HasBody(p, 6, body)
      BY <2>3, PlainIsSerial, Zenon
    <3>2. 6 \in Nat
      OBVIOUS
    <3>3. QED
      BY <2>4, <3>1, <3>2, Zenon
  <2>6. Len(p) = 6 + 1 /\ p[6 + 1] = val
    <3>1. PICK k : k = 6
      BY Zenon
    <3>2. k \in Nat /\ val \in Int /\ HasBody(p, k, << val >>)
      BY <1>1, <2>5, <3>1, Zenon
    <3>3. Len(p) = k + 1 /\ p[k + 1] = val
      BY <3>2, OneWord, Zenon
    <3>4. QED
      BY <3>1, <3>3, Zenon
  <2>7. 7 <= Len(p) /\ p[7] \in {0, 1}
    BY <2>6
  <2>8. Schema(2, type, SerialHead, <<"b">>)
    <3>1. kind \in DOMAIN Code2
      BY <1>1 DEF Code2
    <3>2. QED
      BY <1>1, <2>1, <3>1, SchemasOf2, Zenon
  <2>9. QED
    BY <2>5, <2>7, <2>8, SerialFits
<1>3. CASE v = 3
  <2>1. PICK type : type = Code3[kind]
    BY Zenon
  <2>2. ~(3 = 2)
    OBVIOUS
  <2>3. p = ServerResponse3(kind, val, d, <<>>)
    BY <1>3, <2>2, Zenon DEF ResponseIn
  <2>4. IsExtended(p, type, IdWords(d), << val >>)
    BY <1>1, <2>1, <2>3, ValueAnswerIs, Zenon
  <2>5. HasExtendedHead(p, type) /\ HasBody(p, 8, << val >>)
    BY <1>1, <2>4, ExtendedIsExtended, Zenon
  <2>6. 8 \in Nat /\ 0 \in Nat
    OBVIOUS
  <2>7. Len(p) = 8 + 1 /\ p[8 + 1] = val
    <3>1. PICK k : k = 8
      BY Zenon
    <3>2. k \in Nat /\ val \in Int /\ HasBody(p, k, << val >>)
      BY <1>1, <2>5, <2>6, <3>1, Zenon
    <3>3. Len(p) = k + 1 /\ p[k + 1] = val
      BY <3>2, OneWord, Zenon
    <3>4. QED
      BY <3>1, <3>3, Zenon
  <2>8. 9 <= Len(p) /\ p[9] \in {0, 1}
    BY <2>7
  <2>9. Schema(3, type, ExtendedHead, <<"b">>)
    BY <1>1, <2>1, ExtendedSchemas, Zenon
  <2>10. QED
    BY <2>5, <2>6, <2>8, <2>9, ExtendedFits
<1>4. QED
  BY <1>2, <1>3

\* To a command, of either protocol.
LEMMA DataAnswerFits ==
    ASSUME NEW d \in Identifiers, NEW dev, d.id = dev.id, NEW val \in Int, NEW data \in Seq(Int)
    PROVE  /\ Fitting(ServerResponse2("cmd_resp", val, d, data), dev)
           /\ Fitting(ServerResponse3("cmd_resp", val, d, data), dev)
<1>1. Fitting(ServerResponse2("cmd_resp", val, d, data), dev)
  <2>1. PICK p, type, body : /\ p = ServerResponse2("cmd_resp", val, d, data)
                             /\ type = Code2["cmd_resp"] /\ body = <<val>> \o data
    BY Zenon
  <2>2. body \in Seq(Int) /\ IsPlain(p, 2, type, d.id, body)
    BY <2>1, Answer2Is, Zenon
  <2>3. HasSerialHead(p, 2, type, d.id)
    BY <2>2, PlainIsSerial, Zenon
  <2>4. HasSerialHead(p, 2, type, dev.id)
    BY <2>3, Zenon
  <2>5. Schema(2, type, SerialHead, <<"x">>)
    <3>1. "cmd_resp" \in DOMAIN Code2
      BY DEF Code2
    <3>2. QED
      BY <2>1, <3>1, SchemasOf2, Zenon
  <2>6. Fitting(p, dev)
    BY <2>4, <2>5, SerialFits
  <2>7. QED
    BY <2>1, <2>6, Zenon
<1>2. Fitting(ServerResponse3("cmd_resp", val, d, data), dev)
  <2>1. PICK p, type, n : /\ p = ServerResponse3("cmd_resp", val, d, data)
                          /\ type = Code3["cmd_resp"] /\ n = Len(data)
    BY Zenon
  <2>2. PICK body : IsExtended(p, type, IdWords(d), body) /\ IsSized(body, data)
    BY <2>1, DataAnswerIs, Zenon
  <2>3. body \in Seq(Int) /\ Len(body) = 1 + n /\ body[1] = 4 * n
    BY <2>1, <2>2, Zenon DEF IsSized
  <2>4. n \in Nat
    BY <2>1, LenProperties
  <2>5. HasExtendedHead(p, type) /\ HasBody(p, 8, body)
    BY <2>2, <2>3, ExtendedIsExtended, Zenon
  <2>6. 9 + n <= Len(p) /\ p[9] \div 4 = n
    <3>1. Len(p) = 8 + Len(body) /\ \A i \in 1 .. Len(body) : p[8 + i] = body[i]
      BY <2>5, Zenon DEF HasBody
    <3>2. 1 \in 1 .. Len(body) /\ 8 + 1 = 9 /\ (4 * n) \div 4 = n
      BY <2>3, <2>4
    <3>3. p[9] = 4 * n
      BY <2>3, <3>1, <3>2, Zenon
    <3>4. QED
      BY <2>3, <2>4, <3>1, <3>2, <3>3
  <2>7. Schema(3, type, ExtendedHead, <<"l">>)
    BY <2>1, ExtendedSchemas, Zenon
  <2>8. Fitting(p, dev)
    BY <2>4, <2>5, <2>6, <2>7, ExtendedFits
  <2>9. QED
    BY <2>1, <2>8, Zenon
<1>3. QED
  BY <1>1, <1>2, Zenon

\* An error, the version and the list of devices fit for any device.
LEMMA ErrorFits ==
    ASSUME NEW err \in Int, NEW dev
    PROVE  Fitting(CreateErrorResponse(err), dev)
<1>1. PICK p, type : p = CreateErrorResponse(err) /\ type = Code3["error_resp"]
  BY Zenon
<1>2. IsExtended(p, type, IdWords(NoDevice), << err >>)
  BY <1>1, ErrorIs, Zenon
<1>3. << err >> \in Seq(Int)
  OBVIOUS
<1>4. HasExtendedHead(p, type) /\ HasBody(p, 8, << err >>)
  BY <1>2, <1>3, ExtendedIsExtended, Zenon
<1>5. 8 \in Nat /\ 0 \in Nat
  OBVIOUS
<1>6. Len(p) = 8 + 1
  BY <1>4, <1>5, OneWord, Zenon
<1>7. 9 <= Len(p)
  BY <1>6
<1>8. Schema(3, type, ExtendedHead, <<"u">>)
  BY <1>1, ExtendedSchemas, Zenon
<1>9. Fitting(p, dev)
  BY <1>4, <1>5, <1>7, <1>8, ExtendedFits
<1>10. QED
  BY <1>1, <1>9, Zenon

\* The version.
LEMMA VersionFits ==
    ASSUME NEW dev, NEW p, p = ServerResponse3("ver_resp", 0, NoDevice, <<>>)
    PROVE  Fitting(p, dev)
<1>1. PICK type, words, body : type = Code3["ver_resp"] /\ words = IdWords(NoDevice) /\ body = << 3 >>
  BY Zenon
<1>2. words \in Seq(Int) /\ Len(words) = 3 /\ type \in Int
  BY <1>1, NoDeviceIs, IdentifierSurvives, ExtendedSchemas, Zenon
<1>3. body \in Seq(Int) /\ 3 \in Int
  BY <1>1
<1>4. p = <<3, type, 0>> \o words \o <<0, 0>> \o body
  <2>1. \A a, b, c : (CASE "ver_resp" = "cmd_resp" -> a [] "ver_resp" = "enum_resp" -> b
                      [] "ver_resp" = "ver_resp" -> <<3>> [] OTHER -> c) = <<3>>
    BY SMT
  <2>2. QED
    BY <1>1, <2>1 DEF ServerResponse3
<1>5. IsExtended(<<3, type, 0>> \o words \o <<0, 0>> \o body, type, words, body)
  BY <1>2, <1>3, ExtendedHeader, Zenon
<1>6. IsExtended(p, type, IdWords(NoDevice), body)
  BY <1>1, <1>4, <1>5, Zenon
<1>7. HasPlainHead(p, type) /\ HasBody(p, 8, << 3 >>)
  BY <1>1, <1>3, <1>6, NoDeviceIsPlain, Zenon
<1>8. 8 \in Nat
  OBVIOUS
<1>9. Len(p) = 8 + 1
  BY <1>3, <1>7, <1>8, OneWord, Zenon
<1>10. 9 <= Len(p)
  BY <1>9
<1>11. Schema(3, type, PlainHead, <<"u">>)
  BY <1>1, ExtendedSchemas, Zenon
<1>12. QED
  BY <1>7, <1>10, <1>11, PlainFits

\* The list, whatever the table of devices has on it.
LEMMA ListFitsAny ==
    ASSUME NEW list \in Seq(Identifiers), NEW dev
    PROVE  Fitting(CreateEnumResponse(list), dev)
<1>1. PICK p, type, words, n : /\ p = CreateEnumResponse(list) /\ type = Code3["enum_resp"]
                               /\ words = WordsOf(list) /\ n = Len(list)
  BY Zenon
<1>2. n \in Nat
  BY <1>1, LenProperties
<1>3. PICK body : IsExtended(p, type, IdWords(NoDevice), body) /\ IsListBody(body, words, n)
  BY <1>1, <1>2, ListAnswerIs, Zenon
<1>4. body \in Seq(Int)
  BY <1>3, Zenon DEF IsListBody
<1>5. HasPlainHead(p, type)
  BY <1>3, <1>4, NoDeviceIsPlain, Zenon
<1>6. Schema(3, type, PlainHead, <<"x">>)
  BY <1>1, ExtendedSchemas, Zenon
<1>7. Fitting(p, dev)
  BY <1>5, <1>6, PlainFits
<1>8. QED
  BY <1>1, <1>7, Zenon

\* What the server says of what the table said fits for the device of the call.
LEMMA SaidFits ==
    ASSUME NEW c, CallFits(c), c.ver \in {2, 3}, call' = c, NEW d, d = MeantDevice(c), AnswerSays(d)'
    PROVE  Fitting(ans', c.dev)
<1>1. PICK dev : dev = c.dev
  BY Zenon
<1>2. d \in Identifiers
  BY MeantIs, Zenon
<1>3. d.id = dev.id
  <2>1. \A n : Serial(n).id = n
    BY DEF Serial, DevId
  <2>2. QED
    BY <1>1, <2>1, Zenon DEF MeantDevice
<1>4. c.ver \in {2, 3} /\ c.resp \in Int /\ ~(3 = 2)
  <2>1. c.resp \in Nat
    BY Zenon DEF CallFits
  <2>2. QED
    BY <2>1
<1>5. CASE c.op = "open"
  <2>1. OpenSays(d)'
    BY <1>5, Zenon DEF AnswerSays
  <2>2. PICK val : val = IF done'.added THEN 1 ELSE 0
    BY Zenon
  <2>3. val \in {0, 1}
    BY <2>2, Zenon
  <2>4. ans' = ResponseIn(c.ver, "open_resp", val, d, <<>>)
    BY <2>1, <2>2, Zenon DEF OpenSays, ResponseTo
  <2>5. "open_resp" \in ValueKinds
    BY DEF ValueKinds
  <2>6. QED
    BY <1>1, <1>2, <1>3, <1>4, <2>3, <2>4, <2>5, ValueAnswerFits, Zenon
<1>6. CASE c.op = "close"
  <2>1. CloseSays(d)'
    BY <1>6, Zenon DEF AnswerSays
  <2>2. ans' = ResponseIn(c.ver, "close_resp", 0, d, <<>>)
    BY <2>1, Zenon DEF CloseSays, ResponseTo
  <2>3. "close_resp" \in ValueKinds /\ 0 \in {0, 1}
    BY DEF ValueKinds
  <2>4. QED
    BY <1>1, <1>2, <1>3, <1>4, <2>2, <2>3, ValueAnswerFits, Zenon
<1>7. CASE c.op = "command"
  <2>1. done'.res \in Results /\ (IF c.ver = 3 THEN CommandSays3(d)' ELSE CommandSays2(d)')
    BY <1>7, Zenon DEF AnswerSays
  <2>2. PICK res : res = done'.res
    BY Zenon
  <2>3. res \in Int /\ 0 \in Int
    BY <2>1, <2>2 DEF Results
  <2>4. CASE c.ver = 3 /\ res # 0
    <3>1. ans' = CreateErrorResponse(XibErrorsToXibridge(res))
      BY <2>1, <2>2, <2>4, Zenon DEF CommandSays3
    <3>2. XibErrorsToXibridge(res) \in Int
      BY <2>1, <2>2, <2>4, ErrorOfResult, Zenon
    <3>3. QED
      BY <1>1, <3>1, <3>2, ErrorFits, Zenon
  <2>5. CASE c.ver = 3 /\ res = 0
    <3>1. PICK data : data = RespData(0, c.resp)
      BY Zenon
    <3>2. data \in Seq(Int)
      BY <1>4, <3>1, RespDataIs, Zenon
    <3>3. ans' = ServerResponse3("cmd_resp", 0, d, data)
      BY <2>1, <2>2, <2>5, <3>1, Zenon DEF CommandSays3
    <3>4. QED
      BY <1>1, <1>2, <1>3, <2>3, <3>2, <3>3, DataAnswerFits, Zenon
  <2>6. CASE c.ver = 2
    <3>1. PICK resp \in Int : ans' = ServerResponse2("cmd_resp", res, d, RespData(res, resp))
      BY <1>4, <2>1, <2>2, <2>6, Zenon DEF CommandSays2
    <3>2. PICK data : data = RespData(res, resp)
      BY Zenon
    <3>3. data \in Seq(Int)
      BY <3>1, <3>2, RespDataIs, Zenon
    <3>4. QED
      BY <1>1, <1>2, <1>3, <2>3, <3>1, <3>2, <3>3, DataAnswerFits, Zenon
  <2>7. QED
    BY <1>4, <2>4, <2>5, <2>6
<1>8. CASE c.op = "enumerate"
  <2>1. ListSays'
    BY <1>8, Zenon DEF AnswerSays
  <2>2. PICK list : list = done'.devs
    BY Zenon
  <2>3. list \in Seq(Identifiers) /\ ans' = CreateEnumResponse(list)
    BY <2>1, <2>2, Zenon DEF ListSays
  <2>4. QED
    BY <2>3, ListFitsAny, Zenon
<1>9. CASE c.op \notin {"open", "close", "command", "enumerate"}
  BY <1>9, Zenon DEF AnswerSays
<1>10. QED
  BY <1>5, <1>6, <1>7, <1>8, <1>9, Zenon

\* The error of a request of protocol 3 that is not taken.
LEMMA RefusalIs ==
    ASSUME NEW p
    PROVE  GetRequest3(p).err \in Int
<1>1. 0 \in Int /\ ERR_PCKT_INV \in Int /\ ERR_PCKT_FMT \in Int
  BY DEF ERR_PCKT_INV, ERR_PCKT_FMT
<1>2. PICK b, type, dev : /\ b = Read(Buf(p), 6) /\ type = p[2]
                          /\ dev = IdOf([i \in 1 .. 3 |-> Ahead(Read(Buf(p), 3), i)])
  BY Zenon
<1>3. PICK body, size : body = Read(Seek(b, 2), 1) /\ size = Ahead(Seek(b, 2), 1)
  BY Zenon
<1>4. PICK at, data : /\ at = IF type = Code3.cmd_req THEN Seek(body, size \div 4) ELSE b
                      /\ data = IF type = Code3.cmd_req THEN SubSeq(Rest(body), 1, size \div 4) ELSE <<>>
  BY Zenon
<1>5. PICK inv, fmt, good : /\ inv = Request(FALSE, ERR_PCKT_INV, type, dev, <<>>, 0)
                            /\ fmt = Request(FALSE, ERR_PCKT_FMT, type, dev, <<>>, 0)
                            /\ good = Request(TRUE, 0, type, dev, data, Ahead(at, 1))
  BY Zenon
<1>6. GetRequest3(p).err \in {0, ERR_PCKT_INV, ERR_PCKT_FMT}
  <2>1. GetRequest3(p) \in {inv, fmt, good}
    BY <1>2, <1>3, <1>4, <1>5, Zenon DEF GetRequest3
  <2>2. inv.err = ERR_PCKT_INV
    BY <1>5 DEF Request
  <2>3. fmt.err = ERR_PCKT_FMT
    BY <1>5 DEF Request
  <2>4. good.err = 0
    BY <1>5 DEF Request
  <2>5. QED
    BY <2>1, <2>2, <2>3, <2>4, Zenon
<1>7. QED
  BY <1>1, <1>6, Zenon

\* Whatever the server answers fits for the device of the call.
LEMMA ServerFits ==
    ASSUME SentFits, ServerSteps, ~call.own
    PROVE  Fitting(ans', call.dev)
<1>1. PICK dev : dev = call.dev
  BY Zenon
<1>2. ASSUME NEW a, NEW packet, Answer(a, NoVal, packet), Fitting(packet, dev)
      PROVE  Fitting(ans', dev)
  <2>1. ans' = packet
    BY <1>2, AnsweredYet, Zenon
  <2>2. QED
    BY <1>2, <2>1, Zenon
<1>3. Fitting(<<>>, dev)
  BY Zenon DEF Fitting
<1>4. CASE ServerThrows \/ ServerIgnores \/ ServerCannotHold
  <2>1. PICK a : Answer(a, NoVal, <<>>)
    BY <1>4, Zenon DEF ServerThrows, ServerIgnores, ServerCannotHold
  <2>2. QED
    BY <1>1, <1>2, <1>3, <2>1, Zenon
<1>5. CASE ServerRefuses
  <2>1. PICK err : /\ err = ERR_NO_PROTOCOL \/ (req[1] = 3 /\ err = Parsed.err)
                   /\ Answer(None, NoVal, CreateErrorResponse(err))
    BY <1>5, Zenon DEF ServerRefuses
  <2>2. err \in Int
    <3>1. CASE err = ERR_NO_PROTOCOL
      BY <3>1 DEF ERR_NO_PROTOCOL
    <3>2. CASE req[1] = 3 /\ err = Parsed.err
      <4>1. ~(req[1] = 2)
        BY <3>2
      <4>2. err = GetRequest3(req).err
        BY <3>2, <4>1, Zenon DEF Parsed
      <4>3. QED
        BY <4>2, RefusalIs, Zenon
    <3>3. QED
      BY <2>1, <3>1, <3>2
  <2>3. QED
    BY <1>1, <1>2, <2>1, <2>2, ErrorFits, Zenon
<1>6. CASE ServerTellsVersion
  <2>1. ReceivedOf("ver_req") /\ Answer(None, NoVal, Respond("ver_resp", 0, NoDevice, <<>>))
    BY <1>6, Zenon DEF ServerTellsVersion
  <2>2. ~(req[1] = 2)
    <3>1. call.ver = 3 /\ Received
      BY <2>1, ReceivedKind, Zenon DEF ReceivedOf
    <3>2. req[1] = call.ver
      BY <3>1, ReceivedIs, Zenon
    <3>3. QED
      BY <3>1, <3>2
  <2>3. Respond("ver_resp", 0, NoDevice, <<>>) = ServerResponse3("ver_resp", 0, NoDevice, <<>>)
    BY <2>2, Zenon DEF Respond
  <2>4. Fitting(Respond("ver_resp", 0, NoDevice, <<>>), dev)
    BY <2>3, VersionFits, Zenon
  <2>5. QED
    BY <1>1, <1>2, <2>1, <2>4, Zenon
<1>7. CASE ServerOpens \/ ServerCloses \/ ServerCommands \/ ServerEnumerates
  <2>1. PICK a, d, packet : /\ Answer(a, d, packet) /\ pc = "sent"
                            /\ d.op \in {"open", "close", "command", "enumerate"}
    <3>1. CASE ServerOpens
      BY <3>1 DEF ServerOpens, ReceivedOf, Received
    <3>2. CASE ServerCloses
      BY <3>2 DEF ServerCloses, ReceivedOf, Received
    <3>3. CASE ServerCommands
      <4>1. PICK res, a, d, packet : d = [op |-> "command", res |-> res] /\ Answer(a, d, packet)
        BY <3>3, Zenon DEF ServerCommands
      <4>2. pc = "sent"
        BY <3>3, Zenon DEF ServerCommands, ReceivedOf, Received
      <4>3. d.op \in {"open", "close", "command", "enumerate"}
        BY <4>1
      <4>4. QED
        BY <4>1, <4>2, <4>3, Zenon
    <3>4. CASE ServerEnumerates
      BY <3>4 DEF ServerEnumerates, ReceivedOf, Received
    <3>5. QED
      BY <1>7, <3>1, <3>2, <3>3, <3>4
  <2>2. d \notin {None, NoVal}
    <3>1. None.op = "none" /\ NoVal.op = "nothing"
      BY DEF None, NoVal
    <3>2. d.op # "none" /\ d.op # "nothing"
      BY <2>1
    <3>3. QED
      BY <3>1, <3>2, Zenon
  <2>3. done' = d /\ call' = call /\ pc' = "answered"
    BY <2>1 DEF Answer
  <2>4. AnsFits'
    BY ServerSays, Zenon
  <2>5. PICK c, m : c = call /\ m = MeantDevice(c)
    BY Zenon
  <2>6. call' = c /\ MeantDevice(call)' = m
    BY <2>3, <2>5, Zenon DEF MeantDevice
  <2>7. c.ver \in {2, 3} /\ AnswerSays(m)'
    BY <2>2, <2>3, <2>4, <2>5, <2>6, Zenon DEF AnsFits
  <2>8. CallFits(c)
    <3>1. pc # "idle"
      BY <2>1
    <3>2. QED
      BY <2>5, <3>1, Zenon DEF SentFits, CallIsFit
  <2>9. QED
    BY <2>5, <2>6, <2>7, <2>8, SaidFits, Zenon
<1>8. QED
  BY <1>4, <1>5, <1>6, <1>7, Zenon DEF ServerSteps

-----------------------------------------------------------------------------
(* The third invariant: every packet matches its schema.                   *)

\* What makes PacketsMatch inductive: both packets fit for the device of the call, which is in
\* a protocol there is, and what is sent begins as the call does.
MatchInv ==
    /\ call # None /\ ~call.own => Fitting(req, call.dev) /\ Fitting(ans, call.dev)
    /\ conn # None => conn.ver \in 1 .. 3
    /\ pc # "idle" => call.ver \in 1 .. 3
    /\ pc = "sent" /\ ~call.own => Heads(req, call.ver, call.dev.id)

\* The invariant says what the property does.
LEMMA MatchInvSays == MatchInv => PacketsMatch
<1>1. ASSUME NEW packet, packet # <<>>, NEW dev, Fitting(packet, dev)
      PROVE  IsMatch(GetSchema(packet[1], packet[2]), packet, packet[1], packet[2], dev)
  BY <1>1, Zenon DEF Fitting
<1>2. QED
  BY <1>1, Zenon DEF MatchInv, PacketsMatch

\* Any call: its request fits when it is of the client's making.
LEMMA CallMatches ==
    ASSUME MatchInv, NEW c, NEW packet, Call(c, packet), c.ver \in 1 .. 3, conn' \in {conn, None},
           ~c.own => IsMade(c) /\ packet = RequestOf(c)
    PROVE  MatchInv'
<1>1. call' = c /\ req' = packet /\ ans' = <<>>
  BY Zenon DEF Call
<1>2. Fitting(<<>>, c.dev)
  BY Zenon DEF Fitting
<1>3. ~c.own => Fitting(packet, c.dev) /\ Heads(packet, c.ver, c.dev.id)
  BY RequestFits, Zenon
<1>4. conn' # None => conn'.ver \in 1 .. 3
  BY Zenon DEF MatchInv
<1>5. QED
  BY <1>1, <1>2, <1>3, <1>4, Zenon DEF MatchInv

\* A call of the client's making, by its parts.
LEMMA MadeCall ==
    ASSUME NEW op \in Ops \ {"enumerate", "version", "other"}, NEW v \in 1 .. 3, NEW d,
           NEW data \in Seq(Int), NEW resp \in Int, NEW from
    PROVE  /\ IsMade(TheCall(op, v, d))
           /\ IsMade([TheCall(op, v, d) EXCEPT !.from = from])
           /\ IsMade([TheCall(op, v, d) EXCEPT !.data = data, !.resp = resp])
<1>1. op \notin {"enumerate", "version"} /\ op \in Ops \ {"other"} /\ <<>> \in Seq(Int) /\ 0 \in Int
  OBVIOUS
<1>2. ASSUME NEW c, c.op = op, c.ver = v, c.data \in Seq(Int), c.resp \in Int
      PROVE  IsMade(c)
  BY <1>1, <1>2, Zenon DEF IsMade
<1>3. IsMade(TheCall(op, v, d))
  BY <1>1, <1>2 DEF TheCall
<1>4. IsMade([TheCall(op, v, d) EXCEPT !.from = from])
  BY <1>1, <1>2 DEF TheCall
<1>5. IsMade([TheCall(op, v, d) EXCEPT !.data = data, !.resp = resp])
  BY <1>1, <1>2 DEF TheCall
<1>6. QED
  BY <1>3, <1>4, <1>5, Zenon

\* An open is in the protocol it asks for.
LEMMA OpenMatches == ASSUME MatchInv, Open PROVE MatchInv'
<1>1. PICK u, from : OpenWith(u, from)
  BY Zenon DEF Open
<1>2. PICK v \in 1 .. 3 : Call([TheCall("open", v, DevIdOfUri(u)) EXCEPT !.from = from],
                               CreateOpenRequest(v, DevIdOfUri(u)))
  BY <1>1, Zenon DEF OpenWith
<1>3. PICK d, c : d = DevIdOfUri(u) /\ c = [TheCall("open", v, d) EXCEPT !.from = from]
  BY Zenon
<1>4. c.op = "open" /\ c.ver = v /\ c.dev = d
  BY <1>3 DEF TheCall
<1>5. IsMade(c)
  <2>1. <<>> \in Seq(Int) /\ 0 \in Int /\ "open" \in Ops \ {"enumerate", "version", "other"}
    BY DEF Ops
  <2>2. QED
    BY <1>3, <2>1, MadeCall, Zenon
<1>6. CreateOpenRequest(v, d) = RequestOf(c)
  BY <1>4, Zenon DEF RequestOf
<1>7. conn' = conn
  BY DEF Open
<1>8. QED
  BY <1>2, <1>3, <1>4, <1>5, <1>6, <1>7, CallMatches, Zenon

\* A command goes in the protocol of its connection.
LEMMA CommandMatches == ASSUME MatchInv, Command PROVE MatchInv'
<1>1. conn' = conn /\ conn # None
  BY DEF Command
<1>2. PICK data \in CallData, resp \in CallResp :
        Call(CommandCall(data, resp), CreateCmdRequest(conn.ver, conn.dev, data, resp))
  BY Zenon DEF Command
<1>3. data \in Seq(Int) /\ resp \in Int
  <2>1. data \in Seq(Nat) /\ resp \in Nat
    BY ConstantsAssumption, Zenon DEF ConstantsAssumption
  <2>2. QED
    BY <2>1, SeqOfInts, NatIsInt, Zenon
<1>4. conn.ver \in 1 .. 3
  BY <1>1, Zenon DEF MatchInv
<1>5. PICK c : c = CommandCall(data, resp)
  BY Zenon
<1>6. c.op = "command" /\ c.ver = conn.ver /\ c.dev = conn.dev /\ c.data = data /\ c.resp = resp
  BY <1>5 DEF CommandCall, TheCall
<1>7. IsMade(c)
  <2>1. "command" \in Ops \ {"enumerate", "version", "other"}
    BY DEF Ops
  <2>2. QED
    BY <1>3, <1>4, <1>5, <2>1, MadeCall, Zenon DEF CommandCall
<1>8. CreateCmdRequest(conn.ver, conn.dev, data, resp) = RequestOf(c)
  BY <1>6, Zenon DEF RequestOf
<1>9. QED
  BY <1>1, <1>2, <1>4, <1>5, <1>6, <1>7, <1>8, CallMatches, Zenon

\* A close too, and the connection is gone.
LEMMA CloseMatches == ASSUME MatchInv, Close PROVE MatchInv'
<1>1. conn' = None /\ conn # None /\ Call(TheCall("close", conn.ver, conn.dev), CreateCloseRequest(conn.ver, conn.dev))
  BY DEF Close
<1>2. conn.ver \in 1 .. 3
  BY <1>1, Zenon DEF MatchInv
<1>3. PICK c : c = TheCall("close", conn.ver, conn.dev)
  BY Zenon
<1>4. c.op = "close" /\ c.ver = conn.ver /\ c.dev = conn.dev
  BY <1>3 DEF TheCall
<1>5. IsMade(c)
  <2>1. "close" \in Ops \ {"enumerate", "version", "other"} /\ <<>> \in Seq(Int) /\ 0 \in Int
    BY DEF Ops
  <2>2. QED
    BY <1>2, <1>3, <2>1, MadeCall, Zenon
<1>6. CreateCloseRequest(conn.ver, conn.dev) = RequestOf(c)
  BY <1>4, Zenon DEF RequestOf
<1>7. QED
  BY <1>1, <1>2, <1>3, <1>4, <1>5, <1>6, CallMatches, Zenon

\* Calls for no device.
LEMMA PlainCallMatches ==
    ASSUME MatchInv, conn' = conn, NEW op \in {"enumerate", "version"}, NEW v \in 1 .. 3, NEW packet,
           packet = IF op = "enumerate" THEN CreateEnumRequest(v) ELSE CreateVersionRequest(v),
           Call(TheCall(op, v, Serial(0)), packet)
    PROVE  MatchInv'
<1>1. PICK c : c = TheCall(op, v, Serial(0))
  BY Zenon
<1>2. c.op = op /\ c.ver = v /\ c.dev = Serial(0) /\ c.data = <<>> /\ c.resp = 0
  BY <1>1 DEF TheCall
<1>3. IsMade(c)
  <2>1. <<>> \in Seq(Int) /\ 0 \in Int /\ op \in Ops \ {"other"}
    BY DEF Ops
  <2>2. QED
    BY <1>2, <2>1, Zenon DEF IsMade
<1>4. packet = RequestOf(c)
  BY <1>2, Zenon DEF RequestOf
<1>5. QED
  BY <1>1, <1>2, <1>3, <1>4, CallMatches, Zenon

\* A packet of the caller's own is the caller's matter.
LEMMA WriteMatches == ASSUME MatchInv, Write PROVE MatchInv'
<1>1. conn' = conn /\ conn # None
  BY DEF Write
<1>2. conn.ver \in 1 .. 3
  BY <1>1, Zenon DEF MatchInv
<1>3. \/ \E packet : Call([CommandCall(<< 5 >>, 4) EXCEPT !.own = TRUE], packet)
      \/ \E packet : Call([TheCall("open", conn.ver, conn.dev) EXCEPT !.own = TRUE], packet)
      \/ \E packet : Call([TheCall("other", conn.ver, conn.dev) EXCEPT !.own = TRUE], packet)
  BY Zenon DEF Write
<1>4. PICK c, packet : Call(c, packet) /\ c.own = TRUE /\ c.ver = conn.ver
  <2>1. ASSUME NEW d PROVE [d EXCEPT !.own = TRUE].ver = d.ver
    OBVIOUS
  <2>2. CASE \E packet : Call([CommandCall(<< 5 >>, 4) EXCEPT !.own = TRUE], packet)
    <3>1. PICK c, packet : c = [CommandCall(<< 5 >>, 4) EXCEPT !.own = TRUE] /\ Call(c, packet)
      BY <2>2, Zenon
    <3>2. c.own = TRUE /\ c.ver = conn.ver
      BY <3>1 DEF CommandCall, TheCall
    <3>3. QED
      BY <3>1, <3>2, Zenon
  <2>3. CASE \E packet : Call([TheCall("open", conn.ver, conn.dev) EXCEPT !.own = TRUE], packet)
    <3>1. PICK c, packet : c = [TheCall("open", conn.ver, conn.dev) EXCEPT !.own = TRUE] /\ Call(c, packet)
      BY <2>3, Zenon
    <3>2. c.own = TRUE /\ c.ver = conn.ver
      BY <3>1 DEF TheCall
    <3>3. QED
      BY <3>1, <3>2, Zenon
  <2>4. CASE \E packet : Call([TheCall("other", conn.ver, conn.dev) EXCEPT !.own = TRUE], packet)
    <3>1. PICK c, packet : c = [TheCall("other", conn.ver, conn.dev) EXCEPT !.own = TRUE] /\ Call(c, packet)
      BY <2>4, Zenon
    <3>2. c.own = TRUE /\ c.ver = conn.ver
      BY <3>1 DEF TheCall
    <3>3. QED
      BY <3>1, <3>2, Zenon
  <2>5. QED
    BY <1>3, <2>2, <2>3, <2>4
<1>5. c.own /\ c.ver \in 1 .. 3
  BY <1>2, <1>4, Zenon
<1>6. QED
  BY <1>1, <1>4, <1>5, CallMatches, Zenon

\* Whatever the client asks for.
LEMMA CallsMatch == ASSUME MatchInv, CallSteps PROVE MatchInv'
<1>1. CASE Enumerate
  <2>1. PICK v \in 1 .. 3 : Call(TheCall("enumerate", v, Serial(0)), CreateEnumRequest(v))
    BY <1>1, Zenon DEF Enumerate
  <2>2. conn' = conn
    BY <1>1 DEF Enumerate
  <2>3. PICK op : op = "enumerate"
    BY Zenon
  <2>4. QED
    BY <2>1, <2>2, <2>3, PlainCallMatches, Zenon
<1>2. CASE AskVersion
  <2>1. Call(TheCall("version", 3, Serial(0)), CreateVersionRequest(3)) /\ conn' = conn
    BY <1>2 DEF AskVersion
  <2>2. PICK op, v : op = "version" /\ v = 3
    BY Zenon
  <2>3. v \in 1 .. 3 /\ op # "enumerate"
    BY <2>2
  <2>4. QED
    BY <2>1, <2>2, <2>3, PlainCallMatches, Zenon
<1>3. QED
  BY <1>1, <1>2, OpenMatches, CommandMatches, CloseMatches, WriteMatches, Zenon DEF CallSteps

\* Whoever answers.
LEMMA AnswerMatches ==
    ASSUME MatchInv, NEW a, NEW d, NEW packet, Answer(a, d, packet), pc = "sent",
           ~call.own => Fitting(ans', call.dev)
    PROVE  MatchInv'
<1>1. call' = call /\ req' = req /\ conn' = conn /\ pc' = "answered"
  BY Zenon DEF Answer
<1>2. pc # "idle" /\ pc' # "sent"
  BY <1>1
<1>3. QED
  BY <1>1, <1>2, Zenon DEF MatchInv

\* The simulator reads the device of the answer from the request.
LEMMA SimulatorMatches == ASSUME MatchInv, SimulatorAnswers PROVE MatchInv'
<1>1. PICK v, dev : v = req[1] /\ dev = call.dev
  BY Zenon
<1>2. PICK packet : /\ Answer(None, NoVal, packet) /\ pc = "sent"
                    /\ packet = IF Len(req) < 4 \/ req[1] > peer THEN <<>>
                                ELSE IF req[1] = 3 THEN SimAnswerExtended ELSE SimAnswerSerial(req[1])
  BY Zenon DEF SimulatorAnswers
<1>3. ~call.own => Fitting(packet, dev)
  <2> SUFFICES ASSUME ~call.own PROVE Fitting(packet, dev)
    OBVIOUS
  <2>1. CASE Len(req) < 4 \/ req[1] > peer
    BY <1>2, <2>1, Zenon DEF Fitting
  <2>2. CASE ~(Len(req) < 4 \/ req[1] > peer) /\ v = 3
    <3>1. packet = SimAnswerExtended
      BY <1>1, <1>2, <2>2, Zenon
    <3>2. QED
      BY <3>1, SimExtendedFits, Zenon
  <2>3. CASE ~(Len(req) < 4 \/ req[1] > peer) /\ ~(v = 3)
    <3>1. packet = SimAnswerSerial(v)
      BY <1>1, <1>2, <2>3, Zenon
    <3>2. req # <<>>
      <4>1. Len(<<>>) < 4
        OBVIOUS
      <4>2. QED
        BY <2>3, <4>1, Zenon
    <3>3. pc # "idle"
      BY <1>2
    <3>4. call.ver \in 1 .. 3 /\ v = call.ver /\ (v # 3 => req[4] = dev.id)
      BY <1>1, <1>2, <3>2, <3>3, Zenon DEF MatchInv, Heads
    <3>5. v \in {1, 2} /\ req[4] = dev.id
      BY <2>3, <3>4
    <3>6. QED
      BY <3>1, <3>5, SimSerialFits, Zenon
  <2>4. QED
    BY <2>1, <2>2, <2>3
<1>4. ans' = packet
  BY <1>2, Zenon DEF Answer
<1>5. QED
  BY <1>1, <1>2, <1>3, <1>4, AnswerMatches, Zenon

\* The server answers for the device of the call.
LEMMA ServerMatches == ASSUME MatchInv, SentFits, ServerSteps PROVE MatchInv'
<1>1. PICK a, d, packet : Answer(a, d, packet)
  BY Zenon DEF ServerSteps, ServerThrows, ServerRefuses, ServerIgnores, ServerOpens, ServerCloses,
               ServerCommands, ServerCannotHold, ServerTellsVersion, ServerEnumerates
<1>2. pc = "sent"
  BY Zenon DEF ServerSteps, ServerThrows, ServerRefuses, ServerIgnores, ServerOpens, ServerCloses,
               ServerCommands, ServerCannotHold, ServerTellsVersion, ServerEnumerates, ReceivedOf, Received
<1>3. QED
  BY <1>1, <1>2, ServerFits, AnswerMatches, Zenon

\* Taking an answer leaves the packets; a connection has the protocol of its open.
LEMMA TakingMatches == ASSUME MatchInv, TakenSteps PROVE MatchInv'
<1>1. PICK r : Return(r)
  BY Zenon DEF TakenSteps, TimesOut, OpenTaken, CommandTaken, CloseTaken, EnumerateTaken, VersionTaken, ReadOwn
<1>2. pc' = "idle" /\ call' = call /\ req' = req /\ ans' = ans
  BY <1>1, Zenon DEF Return
<1>3. pc' # "sent"
  BY <1>2
<1>4. conn' # None => conn'.ver \in 1 .. 3
  <2>1. CASE OpenTaken
    <3>1. pc # "idle"
      BY <2>1 DEF OpenTaken, Taking
    <3>2. call.ver \in 1 .. 3
      BY <3>1, Zenon DEF MatchInv
    <3>3. PICK c : c = [op |-> "conn", ver |-> call.ver, dev |-> call.dev] /\ conn' \in {c, None}
      BY <2>1, Zenon DEF OpenTaken
    <3>4. c.ver = call.ver
      BY <3>3
    <3>5. QED
      BY <3>2, <3>3, <3>4, Zenon
  <2>2. CASE ~OpenTaken
    <3>1. conn' = conn
      BY <2>2, Zenon DEF TakenSteps, TimesOut, CommandTaken, CloseTaken, EnumerateTaken, VersionTaken, ReadOwn
    <3>2. QED
      BY <3>1, Zenon DEF MatchInv
  <2>3. QED
    BY <2>1, <2>2
<1>5. QED
  BY <1>2, <1>3, <1>4, Zenon DEF MatchInv

\* At first there is no call; every step keeps what the packets say.
LEMMA NextMatchInv == ASSUME WireInv, MatchInv, [Next]_vars PROVE MatchInv'
<1>1. CASE UNCHANGED vars \/ Replug
  <2>1. conn' = conn /\ pc' = pc /\ call' = call /\ req' = req /\ ans' = ans
    BY <1>1, Zenon DEF vars, Replug
  <2>2. QED
    BY <2>1, Zenon DEF MatchInv
<1>2. CASE ServerSteps
  <2>1. peer = 0
    BY <1>2, ServerChanges, Zenon
  <2>2. SentFits
    BY <2>1, Zenon DEF WireInv, Core
  <2>3. QED
    BY <1>2, <2>2, ServerMatches, Zenon
<1>3. QED
  BY <1>1, <1>2, CallsMatch, SimulatorMatches, TakingMatches, NextIs, Zenon

\* Every packet that the client, the server or the simulator makes matches the schema of its
\* type in the table of its protocol: the makers of packets and the tables agree, for every
\* device, any data of any length, any length of an answer and any table of devices.
THEOREM PacketsMatched == Spec => []PacketsMatch
<1>1. Init => WireInv /\ MatchInv
  <2>1. Init => call = None /\ conn = None /\ pc = "idle"
    BY Zenon DEF Init
  <2>2. pc = "idle" => pc # "sent"
    OBVIOUS
  <2>3. QED
    BY <2>1, <2>2, InitWireInv, Zenon DEF MatchInv
<1>2. WireInv /\ MatchInv /\ [Next]_vars => WireInv' /\ MatchInv'
  BY NextWireInv, NextMatchInv, Zenon
<1>3. MatchInv => PacketsMatch
  BY MatchInvSays
<1>4. QED
  BY <1>1, <1>2, <1>3, PTL DEF Spec
=============================================================================
