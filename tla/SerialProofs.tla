---------------------------- MODULE SerialProofs ----------------------------
(***************************************************************************)
(* Theorems about SerialExchange for any sizes of messages and bursts, any *)
(* number of retries and any commands.  A device is called lost only after *)
(* the port has failed or a whole series of bursts has brought no zero:    *)
(* the retries left and the silent bursts add up, on both sides of the     *)
(* sending of a burst.  And the result of an exchange on a line where      *)
(* nothing has gone wrong is that of its command: there, the place in the  *)
(* exchange says what is on the line, byte by byte.                        *)
(***************************************************************************)
EXTENDS SerialExchange, Integers, SequenceTheorems, TLAPS

BurstsCounted ==
    /\ pc \in {"burst", "look"} => bursts \in Nat /\ bursts > 0 /\ silent \in Nat
    /\ pc = "burst" => silent + bursts = RetryCount
    /\ pc = "look" => silent + bursts = RetryCount + 1
    /\ pc = "lost" => silent = RetryCount

RetriesReceive == pc = "again" => back \in Receiving

LInv == BurstsCounted /\ RetriesReceive /\ LostMeansSilent

\* The initial states have it.
LEMMA InitLInv == Init => LInv
  BY DEF Init, LInv, BurstsCounted, RetriesReceive, LostMeansSilent

\* A failed burst is counted, and the last one ends the series.
LEMMA FailedBurst ==
    ASSUME bursts \in Nat, bursts > 0, BurstFailed,
           NEW s \in Nat, s + bursts = RetryCount + 1
    PROVE  \/ pc' = "burst" /\ bursts' \in Nat /\ bursts' > 0 /\ s + bursts' = RetryCount
           \/ pc' = "lost" /\ s = RetryCount
  <1>1. RetryCount \in Nat
    BY ConstantsAssumption DEF ConstantsAssumption
  <1>2. CASE bursts > 1
    <2>1. pc' = "burst" /\ bursts' = bursts - 1
      BY <1>2 DEF BurstFailed
    <2>2. bursts' \in Nat /\ bursts' > 0 /\ s + bursts' = RetryCount
      BY <1>1, <1>2, <2>1
    <2> QED BY <2>1, <2>2
  <1>3. CASE ~(bursts > 1)
    <2>1. pc' = "lost"
      BY <1>3 DEF BurstFailed
    <2>2. s = RetryCount
      BY <1>1, <1>3
    <2> QED BY <2>1, <2>2
  <1> QED BY <1>2, <1>3

\* What follows a receive that returned ok is no synchronisation, and no loss.
LEMMA ContinueIsPlain ==
    ASSUME NEW p \in Receiving, Continue(p)
    PROVE  /\ pc' \notin {"burst", "look", "lost", "again"}
           /\ pc' = "idle" => res' = "ok"
  BY DEF Continue, Receiving

\* A synchronisation begins with all its retries.
LEMMA StartCounts ==
    ASSUME NEW b, StartSync(b)
    PROVE  LInv'
  <1>1. RetryCount \in Nat /\ RetryCount > 0
    BY ConstantsAssumption DEF ConstantsAssumption
  <1> QED BY <1>1 DEF StartSync, LInv, BurstsCounted, RetriesReceive, LostMeansSilent

\* Every step keeps it.
LEMMA NextLInv == LInv /\ [Next]_vars => LInv'
  <1> SUFFICES ASSUME LInv, [Next]_vars PROVE LInv'
    OBVIOUS
  <1> USE DEF LInv
  <1>r. RetryCount \in Nat /\ RetryCount > 0
    BY ConstantsAssumption DEF ConstantsAssumption
  <1>1. CASE Write \/ WriteShort
    <2>1. pc' \in {"write", "first", "all"}
      BY <1>1 DEF Write, WriteShort, Sent, Read1st
    <2> QED BY <2>1 DEF BurstsCounted, RetriesReceive, LostMeansSilent
  <1>2. CASE WriteFails \/ ReceiveFails
    BY <1>2 DEF WriteFails, ReceiveFails, Returns, BurstsCounted, RetriesReceive, LostMeansSilent
  <1>3. CASE Receive \/ ReceiveShort
    <2>1. pc \in Receiving /\ Continue(pc)
      BY <1>3 DEF Receive, ReceiveShort
    <2> QED BY <2>1, ContinueIsPlain DEF BurstsCounted, RetriesReceive, LostMeansSilent
  <1>4. CASE ReceiveTimesOut
    BY <1>4 DEF ReceiveTimesOut, BurstsCounted, RetriesReceive, LostMeansSilent
  <1>5. CASE Retry \/ Lose
    <2>1. CASE Lose
      BY <2>1 DEF Lose, host, sync, BurstsCounted, RetriesReceive, LostMeansSilent
    <2>2. CASE Retry
      BY <2>2 DEF Retry, Receiving, BurstsCounted, RetriesReceive, LostMeansSilent
    <2> QED BY <1>5, <2>1, <2>2
  <1>6. CASE TimeUp \/ CompareOther
    <2>1. \E b \in {back, "refused"} : StartSync(b)
      BY <1>6 DEF TimeUp, CompareOther
    <2> QED BY <2>1, StartCounts
  <1>7. CASE Burst
    BY <1>7, <1>r DEF Burst, BurstsCounted, RetriesReceive, LostMeansSilent
  <1>8. CASE BurstFails \/ LookFails
    <2>1. /\ bursts \in Nat /\ bursts > 0 /\ BurstFailed
          /\ silent' \in Nat /\ silent' + bursts = RetryCount + 1
      BY <1>8, <1>r DEF BurstFails, LookFails, BurstsCounted
    <2>2. \/ pc' = "burst" /\ bursts' \in Nat /\ bursts' > 0 /\ silent' + bursts' = RetryCount
          \/ pc' = "lost" /\ silent' = RetryCount
      BY <2>1, FailedBurst
    <2> QED BY <2>1, <2>2 DEF BurstsCounted, RetriesReceive, LostMeansSilent
  <1>9. CASE Look \/ LookShort
    <2> PICK b : pc = "look" /\ Looked(b)
      BY <1>9 DEF Look, LookShort
    <2>1. CASE b = Zero /\ pc' = "synced"
      BY <2>1 DEF BurstsCounted, RetriesReceive, LostMeansSilent
    <2>2. CASE b # Zero /\ pc' = "look" /\ UNCHANGED <<bursts, silent>>
      BY <2>2 DEF BurstsCounted, RetriesReceive, LostMeansSilent
    <2>3. CASE BurstFailed /\ UNCHANGED silent
      <3>1. bursts \in Nat /\ bursts > 0 /\ silent' \in Nat /\ silent' + bursts = RetryCount + 1
        BY <2>3 DEF BurstsCounted
      <3>2. \/ pc' = "burst" /\ bursts' \in Nat /\ bursts' > 0 /\ silent' + bursts' = RetryCount
            \/ pc' = "lost" /\ silent' = RetryCount
        BY <2>3, <3>1, FailedBurst
      <3> QED BY <3>1, <3>2 DEF BurstsCounted, RetriesReceive, LostMeansSilent
    <2> QED BY <2>1, <2>2, <2>3 DEF Looked
  <1>10. CASE Resume
    <2>1. back \in Receiving /\ Continue(back)
      BY <1>10 DEF Resume
    <2> QED BY <2>1, ContinueIsPlain DEF BurstsCounted, RetriesReceive, LostMeansSilent
  <1>11. CASE GiveUp
    BY <1>11 DEF GiveUp, Returns, sync, BurstsCounted, RetriesReceive, LostMeansSilent
  <1>12. CASE CompareErrv \/ CompareOwn \/ Refused
    BY <1>12 DEF CompareErrv, CompareOwn, Refused, Returns, BurstsCounted, RetriesReceive, LostMeansSilent
  <1>13. CASE \E x \in Cids : Begin("urpc", x) \/ Begin("base", x)
    BY <1>13 DEF Begin, BurstsCounted, RetriesReceive, LostMeansSilent
  <1>14. CASE UNCHANGED vars
    BY <1>14 DEF vars, sync, BurstsCounted, RetriesReceive, LostMeansSilent
  <1> QED
    BY <1>1, <1>2, <1>3, <1>4, <1>5, <1>6, <1>7, <1>8, <1>9, <1>10, <1>11, <1>12, <1>13, <1>14
    DEF Next, Step

\* A device is called lost only if its port has failed or a whole series of
\* bursts has brought no zero (zerosync and receive of devserial.c).
THEOREM LostIsSilent == Spec => []LostMeansSilent
  <1>1. LInv => LostMeansSilent
    BY DEF LInv
  <1> QED BY InitLInv, NextLInv, <1>1, PTL DEF Spec
-----------------------------------------------------------------------------
(* Sequences: what a read takes from the front of another.                 *)

\* A read of the first of two parts leaves the second.
LEMMA TakePart ==
    ASSUME NEW S, NEW c \in Seq(S), NEW r \in Seq(S), NEW k \in Nat, k = Len(c), k > 0
    PROVE  /\ c \o r \in Seq(S) /\ Len(c \o r) = k + Len(r)
           /\ SubSeq(c \o r, 1, k) = c
           /\ SubSeq(c \o r, k + 1, Len(c \o r)) = r
  <1>1. c \o r \in Seq(S) /\ Len(c \o r) = k + Len(r) /\ Len(r) \in Nat
    BY ConcatProperties, LenProperties
  <1>2. SubSeq(c \o r, 1, k) = c
    <2>1. 1 \in 1 .. Len(c) /\ Len(c) \in 1 .. Len(c)
      OBVIOUS
    <2>2. SubSeq(c \o r, 1, Len(c)) = SubSeq(c, 1, Len(c))
      BY <2>1, SubSeqOfConcat1
    <2> QED BY <2>2, SubSeqFull
  <1>3. SubSeq(c \o r, k + 1, Len(c \o r)) = r
    <2>1. CASE Len(r) = 0
      <3>1. r = <<>>
        BY <2>1, EmptySeq
      <3>2. k + 1 \in Int /\ Len(c \o r) \in Int /\ Len(c \o r) < k + 1
        BY <1>1, <2>1
      <3> QED BY <3>1, <3>2, SubSeqEmpty
    <2>2. CASE Len(r) # 0
      <3> DEFINE lo == k + 1  hi == k + Len(r)
      <3>1. /\ lo \in Len(c) + 1 .. Len(c) + Len(r) /\ hi \in Len(c) + 1 .. Len(c) + Len(r)
            /\ lo - Len(c) = 1 /\ hi - Len(c) = Len(r)
        BY <1>1, <2>2
      <3> HIDE DEF lo, hi
      <3>2. SubSeq(c \o r, lo, hi) = SubSeq(r, lo - Len(c), hi - Len(c))
        BY <3>1, SubSeqOfConcat2
      <3>3. SubSeq(c \o r, lo, hi) = r
        BY <3>1, <3>2, SubSeqFull
      <3> QED BY <1>1, <3>3 DEF lo, hi
    <2> QED BY <2>1, <2>2
  <1> QED BY <1>1, <1>2, <1>3

\* The end of a sequence.
LEMMA Ending ==
    ASSUME NEW S, NEW s \in Seq(S), NEW k \in 0 .. Len(s)
    PROVE  /\ SubSeq(s, k + 1, Len(s)) \in Seq(S)
           /\ Len(SubSeq(s, k + 1, Len(s))) = Len(s) - k
           /\ \A i \in 1 .. Len(s) - k : SubSeq(s, k + 1, Len(s))[i] = s[k + i]
  <1> DEFINE lo == k + 1  hi == Len(s)
  <1>1. lo \in Int /\ hi \in Int /\ hi - lo + 1 = Len(s) - k
    BY LenProperties
  <1>2. \A i \in lo .. hi : s[i] \in S
    BY LenProperties, ElementOfSeq
  <1>3. (IF lo <= hi THEN hi - lo + 1 ELSE 0) = Len(s) - k
    BY LenProperties
  <1>4. \A i \in 1 .. Len(s) - k : lo + i - 1 = k + i
    BY LenProperties
  <1> HIDE DEF lo, hi
  <1>5. /\ SubSeq(s, lo, hi) \in Seq(S)
        /\ Len(SubSeq(s, lo, hi)) = IF lo <= hi THEN hi - lo + 1 ELSE 0
        /\ \A i \in 1 .. hi - lo + 1 : SubSeq(s, lo, hi)[i] = s[lo + i - 1]
    BY <1>1, <1>2, SubSeqProperties
  <1> QED BY <1>1, <1>3, <1>4, <1>5 DEF lo, hi

\* The first byte.
LEMMA FirstByte ==
    ASSUME NEW S, NEW s \in Seq(S), Len(s) >= 1
    PROVE  s[1] \in S /\ SubSeq(s, 1, 1) # <<>> /\ SubSeq(s, 1, 1)[1] = s[1]
  <1>1. 1 \in 1 .. Len(s)
    BY LenProperties
  <1>2. s[1] \in S
    BY <1>1, ElementOfSeq
  <1> DEFINE hi == 1
  <1>3. hi \in Int /\ \A i \in 1 .. hi : s[i] \in S
    BY <1>2
  <1>4. 1 <= hi /\ hi - 1 + 1 = 1 /\ 1 \in 1 .. hi - 1 + 1 /\ 1 + 1 - 1 = 1 /\ 1 \in Int
    OBVIOUS
  <1> HIDE DEF hi
  <1>5. /\ SubSeq(s, 1, hi) \in Seq(S) /\ Len(SubSeq(s, 1, hi)) = 1
        /\ SubSeq(s, 1, hi)[1] = s[1]
    BY <1>3, <1>4, SubSeqProperties
  <1> QED BY <1>2, <1>5, EmptySeq DEF hi

\* The first byte is read from the first of two parts.
LEMMA DropFirst ==
    ASSUME NEW S, NEW c \in Seq(S), NEW r \in Seq(S), NEW k \in Nat, k = Len(c), k > 0
    PROVE  SubSeq(c \o r, 2, Len(c \o r)) = Tail(c) \o r
  <1> DEFINE s == SubSeq(c \o r, 2, Len(c \o r))  t == Tail(c) \o r
  <1>1. /\ c \o r \in Seq(S) /\ Len(c \o r) = k + Len(r) /\ Len(r) \in Nat
        /\ \A i \in 1 .. k + Len(r) : (c \o r)[i] = IF i <= k THEN c[i] ELSE r[i - k]
    BY ConcatProperties, LenProperties
  <1>2. /\ Tail(c) \in Seq(S) /\ Len(Tail(c)) = k - 1
        /\ \A i \in 1 .. k - 1 : Tail(c)[i] = c[i + 1]
    <2>1. c # <<>>
      BY EmptySeq
    <2> QED BY <2>1, HeadTailProperties
  <1>3. /\ t \in Seq(S) /\ Len(t) = k - 1 + Len(r)
        /\ \A i \in 1 .. k - 1 + Len(r) : t[i] = IF i <= k - 1 THEN Tail(c)[i] ELSE r[i - (k - 1)]
    BY <1>2, ConcatProperties
  <1>4. /\ s \in Seq(S) /\ Len(s) = k + Len(r) - 1
        /\ \A i \in 1 .. k + Len(r) - 1 : s[i] = (c \o r)[1 + i]
    <2>1. 1 \in 0 .. Len(c \o r) /\ 1 + 1 = 2
      BY <1>1
    <2> QED BY <1>1, <2>1, Ending
  <1> HIDE DEF s, t
  <1>5. ASSUME NEW i \in 1 .. k - 1 + Len(r) PROVE s[i] = t[i]
    <2>1. i \in 1 .. k + Len(r) - 1 /\ 1 + i \in 1 .. k + Len(r)
      BY <1>1
    <2>2. s[i] = IF 1 + i <= k THEN c[1 + i] ELSE r[1 + i - k]
      BY <1>1, <1>4, <2>1
    <2>3. CASE i <= k - 1
      <3>1. i \in 1 .. k - 1 /\ 1 + i <= k /\ 1 + i = i + 1
        BY <2>3
      <3> QED BY <1>2, <1>3, <2>2, <3>1
    <2>4. CASE ~(i <= k - 1)
      <3>1. ~(1 + i <= k) /\ 1 + i - k = i - (k - 1)
        BY <2>4
      <3> QED BY <1>3, <2>2, <2>4, <3>1
    <2> QED BY <2>3, <2>4
  <1>6. Len(s) = Len(t) /\ Len(s) = k - 1 + Len(r)
    BY <1>1, <1>3, <1>4
  <1>7. s = t
    BY <1>3, <1>4, <1>5, <1>6, SeqEqual
  <1> QED BY <1>7 DEF s, t
-----------------------------------------------------------------------------
(* What is on the line while nothing has gone wrong on it.                 *)

AnyByte == [of : Cids \cup {"zero", "errv", "errd", "data", "crc"}, at : Nat]
Verdicts == {"ok", "errv", "errd"}

\* The answer v to the k-th command, c: an identifier, and what follows it.
AnswerId(v, c) == IF v = "ok" THEN c ELSE v
AnswerRest(v, c, k) == IF v = "ok" /\ c \in WithAnswer THEN DataBytes(k) \o CrcBytes(k) ELSE <<>>

OnlyZeroes(s) == s \in Seq(AnyByte) /\ \A i \in 1 .. Len(s) : s[i] = Zero

\* s is zeroes and then a.
ZeroesThen(s, a) ==
    /\ s \in Seq(AnyByte) /\ Len(s) >= Len(a)
    /\ \A i \in 1 .. Len(s) - Len(a) : s[i] = Zero
    /\ \A i \in 1 .. Len(a) : s[Len(s) - Len(a) + i] = a[i]

Command == cid \in Cids /\ n \in Nat /\ mode \in {"urpc", "base"}
Writing == pc = "write" => piece \in Nat /\ piece < Pieces

\* Nobody waits for lost bytes: a synchronisation is that of a refused command.
NoRetries ==
    /\ part = FALSE /\ pc # "again"
    /\ pc \in {"burst", "look", "synced", "lost"} =>
         back = "refused" /\ verdict = "errd" /\ mode = "urpc"

LineBetween ==
    /\ pc \in {"idle", "write", "burst", "look", "synced", "lost"} => OnlyZeroes(line)
    /\ mode = "base" => pc \in {"idle", "write", "all"} /\ (pc = "write" => line = <<>>)

LineInAnswer ==
    /\ pc \in {"first", "rest", "compare", "data", "crc", "all"} => verdict \in Verdicts
    /\ pc = "all" => mode = "base" /\ line = CidBytes(AnswerId(verdict, cid)) \o AnswerRest(verdict, cid, n)
    /\ pc = "first" => ZeroesThen(line, CidBytes(AnswerId(verdict, cid)) \o AnswerRest(verdict, cid, n))
    /\ pc = "rest" => /\ line = Tail(CidBytes(AnswerId(verdict, cid))) \o AnswerRest(verdict, cid, n)
                      /\ rcid[1] = Byte(AnswerId(verdict, cid), 1)
    /\ pc = "compare" => line = AnswerRest(verdict, cid, n) /\ rcid = CidBytes(AnswerId(verdict, cid))
    /\ pc \in {"data", "crc"} => verdict = "ok" /\ cid \in WithAnswer
    /\ pc = "data" => line = DataBytes(n) \o CrcBytes(n)
    /\ pc = "crc" => line = CrcBytes(n) /\ data = DataBytes(n)

Buffer == rcid \in [1 .. CidSize -> AnyByte]

Clean == Buffer /\ NoRetries /\ LineBetween /\ LineInAnswer /\ ResultMeans
MInv == Command /\ Writing /\ (~troubled => Clean)

\* Reads of a line that is all zeroes, and bytes that arrive behind it.
LEMMA ZeroesTaken ==
    ASSUME NEW s, OnlyZeroes(s), NEW k \in 0 .. Len(s)
    PROVE  OnlyZeroes(SubSeq(s, k + 1, Len(s)))
  <1>1. s \in Seq(AnyByte) /\ Len(s) \in Nat /\ \A i \in 1 .. Len(s) : s[i] = Zero
    BY LenProperties DEF OnlyZeroes
  <1> DEFINE t == SubSeq(s, k + 1, Len(s))
  <1>2. t \in Seq(AnyByte) /\ Len(t) = Len(s) - k /\ \A i \in 1 .. Len(s) - k : t[i] = s[k + i]
    BY <1>1, Ending
  <1> HIDE DEF t
  <1>3. \A i \in 1 .. Len(t) : t[i] = Zero
    BY <1>1, <1>2
  <1> QED BY <1>2, <1>3 DEF OnlyZeroes, t

LEMMA BehindZeroes ==
    ASSUME NEW s, OnlyZeroes(s), NEW a \in Seq(AnyByte)
    PROVE  ZeroesThen(s \o a, a)
  <1>1. s \in Seq(AnyByte) /\ Len(s) \in Nat /\ Len(a) \in Nat /\ \A i \in 1 .. Len(s) : s[i] = Zero
    BY LenProperties DEF OnlyZeroes
  <1> DEFINE t == s \o a
  <1>2. /\ t \in Seq(AnyByte) /\ Len(t) = Len(s) + Len(a)
        /\ \A i \in 1 .. Len(s) + Len(a) : t[i] = IF i <= Len(s) THEN s[i] ELSE a[i - Len(s)]
    BY <1>1, ConcatProperties
  <1> HIDE DEF t
  <1>3. Len(t) - Len(a) = Len(s) /\ Len(t) >= Len(a)
    BY <1>1, <1>2
  <1>4. \A i \in 1 .. Len(s) : t[i] = Zero
    BY <1>1, <1>2
  <1>5. ASSUME NEW i \in 1 .. Len(a) PROVE t[Len(s) + i] = a[i]
    <2>1. /\ Len(s) + i \in 1 .. Len(s) + Len(a) /\ ~(Len(s) + i <= Len(s))
          /\ Len(s) + i - Len(s) = i
      BY <1>1
    <2> QED BY <1>2, <2>1
  <1>6. ZeroesThen(t, a)
    BY <1>2, <1>3, <1>4, <1>5, Zenon DEF ZeroesThen
  <1> QED BY <1>6 DEF t

\* A zero that is read leaves the zeroes and the answer; another byte is the answer's.
LEMMA ZeroSkipped ==
    ASSUME NEW s, NEW a \in Seq(AnyByte), ZeroesThen(s, a), Len(a) > 0, a[1] # Zero
    PROVE  /\ s \in Seq(AnyByte) /\ Len(s) >= 1
           /\ s[1] = Zero => ZeroesThen(SubSeq(s, 2, Len(s)), a)
           /\ s[1] # Zero => s = a
  <1>1. /\ s \in Seq(AnyByte) /\ Len(s) \in Nat /\ Len(a) \in Nat /\ Len(s) >= Len(a)
        /\ \A i \in 1 .. Len(s) - Len(a) : s[i] = Zero
        /\ \A i \in 1 .. Len(a) : s[Len(s) - Len(a) + i] = a[i]
    BY LenProperties DEF ZeroesThen
  <1>2. CASE Len(s) = Len(a)
    <2>1. \A i \in 1 .. Len(a) : Len(s) - Len(a) + i = i
      BY <1>1, <1>2
    <2>2. \A i \in 1 .. Len(s) : s[i] = a[i]
      BY <1>1, <1>2, <2>1
    <2>3. s = a
      BY <1>1, <1>2, <2>2, SeqEqual
    <2> QED BY <1>1, <2>3
  <1>3. CASE Len(s) # Len(a)
    <2>1. 1 \in 1 .. Len(s) - Len(a) /\ 1 \in 0 .. Len(s) /\ 1 + 1 = 2
      BY <1>1, <1>3
    <2> DEFINE t == SubSeq(s, 2, Len(s))
    <2>2. t \in Seq(AnyByte) /\ Len(t) = Len(s) - 1 /\ \A i \in 1 .. Len(s) - 1 : t[i] = s[1 + i]
      BY <1>1, <2>1, Ending
    <2> HIDE DEF t
    <2>3. Len(t) >= Len(a)
      BY <1>1, <1>3, <2>2
    <2>4. ASSUME NEW i \in 1 .. Len(t) - Len(a) PROVE t[i] = Zero
      <3>1. i \in 1 .. Len(s) - 1 /\ 1 + i \in 1 .. Len(s) - Len(a)
        BY <1>1, <2>2
      <3> QED BY <1>1, <2>2, <3>1
    <2>5. ASSUME NEW i \in 1 .. Len(a) PROVE t[Len(t) - Len(a) + i] = a[i]
      <3>1. /\ Len(t) - Len(a) + i \in 1 .. Len(s) - 1
            /\ 1 + (Len(t) - Len(a) + i) = Len(s) - Len(a) + i
        BY <1>1, <1>3, <2>2
      <3> QED BY <1>1, <2>2, <3>1
    <2>6. ZeroesThen(t, a)
      BY <2>2, <2>3, <2>4, <2>5, Zenon DEF ZeroesThen
    <2>7. s[1] = Zero /\ Len(s) >= 1
      BY <1>1, <2>1
    <2> QED BY <1>1, <2>6, <2>7 DEF t
  <1> QED BY <1>2, <1>3

\* Equal bytes in a row.
LEMMA BytesInRow ==
    ASSUME NEW k \in Nat, NEW b \in AnyByte, NEW f, f = [i \in 1 .. k |-> b]
    PROVE  f \in Seq(AnyByte) /\ Len(f) = k
  BY SeqDef

LEMMA ZeroesAreZeroes ==
    ASSUME NEW k \in Nat
    PROVE  OnlyZeroes(Zeroes(k))
  <1>1. Zero \in AnyByte
    BY DEF Zero, Byte, AnyByte
  <1>2. Zeroes(k) = [i \in 1 .. k |-> Zero]
    BY DEF Zeroes
  <1>3. Zeroes(k) \in Seq(AnyByte) /\ Len(Zeroes(k)) = k
    BY <1>1, <1>2, BytesInRow
  <1> QED BY <1>2, <1>3 DEF OnlyZeroes

LEMMA MoreZeroes ==
    ASSUME NEW s, OnlyZeroes(s), NEW k \in Nat
    PROVE  OnlyZeroes(s \o Zeroes(k))
  <1> DEFINE a == Zeroes(k)
  <1>1. OnlyZeroes(a)
    BY ZeroesAreZeroes
  <1> HIDE DEF a
  <1>2. /\ s \in Seq(AnyByte) /\ Len(s) \in Nat /\ a \in Seq(AnyByte) /\ Len(a) \in Nat
        /\ \A i \in 1 .. Len(s) : s[i] = Zero
        /\ \A i \in 1 .. Len(a) : a[i] = Zero
    BY <1>1, LenProperties DEF OnlyZeroes
  <1>3. /\ s \o a \in Seq(AnyByte) /\ Len(s \o a) = Len(s) + Len(a)
        /\ \A i \in 1 .. Len(s) + Len(a) : (s \o a)[i] = IF i <= Len(s) THEN s[i] ELSE a[i - Len(s)]
    BY <1>2, ConcatProperties
  <1>4. ASSUME NEW i \in 1 .. Len(s \o a) PROVE (s \o a)[i] = Zero
    <2>1. CASE i <= Len(s)
      BY <1>2, <1>3, <2>1
    <2>2. CASE ~(i <= Len(s))
      <3>1. i - Len(s) \in 1 .. Len(a)
        BY <1>2, <1>3, <2>2
      <3> QED BY <1>2, <1>3, <2>2, <3>1
    <2> QED BY <2>1, <2>2
  <1> QED BY <1>3, <1>4 DEF OnlyZeroes, a

\* An answer: an identifier, whose bytes are no zeroes, and what follows it.
LEMMA AnswerParts ==
    ASSUME NEW c \in Cids, NEW k \in Nat, NEW v \in Verdicts
    PROVE  /\ CidBytes(AnswerId(v, c)) \in Seq(AnyByte) /\ Len(CidBytes(AnswerId(v, c))) = CidSize
           /\ CidBytes(AnswerId(v, c)) \in [1 .. CidSize -> AnyByte]
           /\ \A i \in 1 .. CidSize : CidBytes(AnswerId(v, c))[i] = Byte(AnswerId(v, c), i)
           /\ Byte(AnswerId(v, c), 1) # Zero
           /\ DataBytes(k) \in Seq(AnyByte) /\ Len(DataBytes(k)) = DataSize
           /\ CrcBytes(k) \in Seq(AnyByte) /\ Len(CrcBytes(k)) = CrcSize
           /\ AnswerRest(v, c, k) \in Seq(AnyByte)
           /\ AnswerId(v, c) \in Cids \cup {"errv", "errd"}
  <1>1. CidSize \in Nat /\ DataSize \in Nat /\ CrcSize \in Nat
    BY ConstantsAssumption DEF ConstantsAssumption
  <1>2. AnswerId(v, c) \in Cids \cup {"errv", "errd"}
    BY DEF AnswerId, Verdicts
  <1>3. \A i \in 1 .. CidSize : Byte(AnswerId(v, c), i) \in AnyByte
    BY <1>1, <1>2 DEF Byte, AnyByte
  <1>4. CidBytes(AnswerId(v, c)) = [i \in 1 .. CidSize |-> Byte(AnswerId(v, c), i)]
    BY DEF CidBytes
  <1>5a. CidBytes(AnswerId(v, c)) \in [1 .. CidSize -> AnyByte]
    BY <1>3, <1>4
  <1>5. CidBytes(AnswerId(v, c)) \in Seq(AnyByte) /\ Len(CidBytes(AnswerId(v, c))) = CidSize
    BY <1>1, <1>5a, SeqDef
  <1>6. Byte("data", k) \in AnyByte /\ Byte("crc", k) \in AnyByte
    BY DEF Byte, AnyByte
  <1>7. DataBytes(k) \in Seq(AnyByte) /\ Len(DataBytes(k)) = DataSize
    BY <1>1, <1>6, BytesInRow DEF DataBytes
  <1>8. CrcBytes(k) \in Seq(AnyByte) /\ Len(CrcBytes(k)) = CrcSize
    BY <1>1, <1>6, BytesInRow DEF CrcBytes
  <1>9. AnswerRest(v, c, k) \in Seq(AnyByte)
    BY <1>7, <1>8, ConcatProperties, EmptySeq DEF AnswerRest
  <1>10. Byte(AnswerId(v, c), 1) # Zero
    BY DEF Byte, Zero
  <1> QED BY <1>2, <1>4, <1>5, <1>5a, <1>7, <1>8, <1>9, <1>10
-----------------------------------------------------------------------------
(* The result of an exchange on a clean line.                              *)

LEMMA InitMInv == Init => MInv
  <1> SUFFICES ASSUME Init PROVE MInv
    OBVIOUS
  <1>1. OnlyZeroes(line)
    BY EmptySeq DEF Init, OnlyZeroes
  <1>2. Command /\ Writing
    BY DEF Init, Command, Writing
  <1>3. Buffer
    <2>1. CidSize \in Nat
      BY ConstantsAssumption DEF ConstantsAssumption
    <2>2. rcid = Zeroes(CidSize) /\ Zero \in AnyByte
      BY DEF Init, Zero, Byte, AnyByte
    <2> QED BY <2>2 DEF Zeroes, Buffer
  <1>4. Clean
    BY <1>1, <1>3 DEF Init, Clean, NoRetries, LineBetween, LineInAnswer, ResultMeans
  <1> QED BY <1>2, <1>4 DEF MInv

\* A command and its pieces.
LEMMA CommandKept == MInv /\ LInv /\ [Next]_vars => Command' /\ Writing'
  <1> SUFFICES ASSUME MInv, LInv, [Next]_vars PROVE Command' /\ Writing'
    OBVIOUS
  <1>m. Command /\ Writing /\ RetriesReceive
    BY DEF MInv, LInv
  <1>1. CASE UNCHANGED <<host, piece>> /\ (pc' = "write" => pc = "write")
    BY <1>1, <1>m DEF host, Command, Writing, Pieces
  <1>2. CASE Write \/ WriteShort
    <2>1. UNCHANGED host /\ pc = "write" /\ Sent
      BY <1>2 DEF Write, WriteShort
    <2>2. Command' /\ Pieces' = Pieces
      BY <1>m, <2>1 DEF host, Command, Pieces
    <2>3. pc' = "write" => piece' \in Nat /\ piece' < Pieces
      BY <1>m, <2>1 DEF Sent, Writing, Read1st
    <2> QED BY <2>2, <2>3 DEF Writing
  <1>3. CASE \E x \in Cids : Begin("urpc", x) \/ Begin("base", x)
    BY <1>3, <1>m DEF Begin, Command, Writing, Pieces
  <1>4. CASE UNCHANGED vars
    BY <1>1, <1>4 DEF vars
  <1>5. CASE Receive \/ ReceiveShort \/ Resume
    <2>1. UNCHANGED <<host, piece>> /\ \E p \in Receiving : Continue(p)
      BY <1>5 DEF Receive, ReceiveShort, Resume
    <2> QED BY <1>1, <2>1 DEF Continue
  <1>6. CASE WriteFails \/ ReceiveFails \/ ReceiveTimesOut \/ Retry \/ TimeUp
    <2>1. Retry => pc' # "write"
      BY <1>m DEF Retry, RetriesReceive, Receiving
    <2> QED BY <1>1, <1>6, <2>1
          DEF WriteFails, ReceiveFails, ReceiveTimesOut, TimeUp, Retry, Returns, StartSync
  <1>7. CASE Burst \/ BurstFails \/ Look \/ LookShort \/ LookFails
    BY <1>1, <1>7 DEF Burst, BurstFails, Look, LookShort, LookFails, Looked, BurstFailed
  <1>8. CASE GiveUp \/ CompareErrv \/ CompareOwn \/ CompareOther \/ Refused \/ Lose
    BY <1>1, <1>8 DEF GiveUp, CompareErrv, CompareOwn, CompareOther, Refused, Lose, Returns, StartSync
  <1> QED BY <1>2, <1>3, <1>4, <1>5, <1>6, <1>7, <1>8 DEF Next, Step

\* The command is written, and the device answers it, behind zeroes.
LEMMA CleanWrite ==
    ASSUME Command, Writing, Clean, Write
    PROVE  Clean'
  <1>1. /\ pc = "write" /\ OnlyZeroes(line) /\ line \in Seq(AnyByte) /\ part = FALSE
        /\ (mode = "base" => line = <<>>)
        /\ cid' = cid /\ n' = n /\ mode' = mode /\ UNCHANGED rcid /\ Sent
    BY DEF Write, Clean, NoRetries, LineBetween, OnlyZeroes, host
  <1>2. CASE piece' # Pieces
    <2>1. pc' = "write" /\ UNCHANGED device
      BY <1>1, <1>2 DEF Write, Sent, Writing, Pieces
    <2> QED BY <1>1, <2>1 DEF device, Clean, Buffer, NoRetries, LineBetween, LineInAnswer, ResultMeans
  <1>3. CASE piece' = Pieces
    <2> DEFINE a == CidBytes(AnswerId(verdict', cid))  r == AnswerRest(verdict', cid, n)
    <2>1. pc' = Read1st /\ Answers
      BY <1>1, <1>3 DEF Write, Sent, Writing, Pieces
    <2>2. PICK v \in Verdicts : /\ verdict' = v /\ part' = FALSE
                                /\ line' = line \o CASE v = "ok" -> Answer(cid, n)
                                                    [] v = "none" -> <<>>
                                                    [] OTHER -> CidBytes(v)
      BY <1>1, <2>1 DEF Answers, Verdicts
    <2>3. a \in Seq(AnyByte) /\ r \in Seq(AnyByte) /\ a \o r \in Seq(AnyByte)
      BY <2>2, AnswerParts, ConcatProperties DEF Command
    <2>4. line' = line \o (a \o r)
      <3>1. CASE v = "ok"
        BY <2>2, <3>1 DEF Answer, AnswerId, AnswerRest
      <3>2. CASE v # "ok"
        <4>1. v # "none" /\ a = CidBytes(v) /\ r = <<>>
          BY <2>2, <3>2 DEF Verdicts, AnswerId, AnswerRest
        <4>2. a \o r = a
          BY <2>3, <4>1, ConcatEmptySeq
        <4> QED BY <2>2, <3>2, <4>1, <4>2
      <3> QED BY <3>1, <3>2
    <2> HIDE DEF a, r
    <2>5. ZeroesThen(line', a \o r)
      BY <1>1, <2>3, <2>4, BehindZeroes
    <2>6. mode = "base" => line' = a \o r
      BY <1>1, <2>3, <2>4, ConcatEmptySeq
    <2> QED
      BY <1>1, <2>1, <2>2, <2>5, <2>6
      DEF a, r, Read1st, Clean, Buffer, NoRetries, LineBetween, LineInAnswer, ResultMeans, Command
  <1> QED BY <1>2, <1>3

\* The bytes of an answer arrive piece by piece, and zeroes ahead of it are skipped.
LEMMA CleanReceive ==
    ASSUME Command, Clean, Receive
    PROVE  Clean'
  <1> DEFINE a == CidBytes(AnswerId(verdict, cid))  r == AnswerRest(verdict, cid, n)
  <1>1. /\ CidSize \in Nat /\ CidSize > 1 /\ DataSize \in Nat /\ DataSize > 0
        /\ CrcSize \in Nat /\ CrcSize > 0
    BY ConstantsAssumption DEF ConstantsAssumption
  <1>2. /\ pc \in Receiving /\ Len(line) >= Size[pc] /\ Continue(pc)
        /\ line' = SubSeq(line, Size[pc] + 1, Len(line))
        /\ Store(pc, SubSeq(line, 1, Size[pc]))
        /\ cid' = cid /\ n' = n /\ mode' = mode /\ verdict' = verdict /\ part' = part
        /\ part = FALSE /\ Buffer
    BY DEF Receive, Take, Clean, NoRetries, host
  <1>3. verdict \in Verdicts
    BY <1>2 DEF Clean, LineInAnswer, Receiving
  <1>4. /\ a \in Seq(AnyByte) /\ Len(a) = CidSize /\ r \in Seq(AnyByte)
        /\ \A i \in 1 .. CidSize : a[i] = Byte(AnswerId(verdict, cid), i)
        /\ a[1] = Byte(AnswerId(verdict, cid), 1) /\ a[1] # Zero
        /\ a \in [1 .. CidSize -> AnyByte]
    <2>1. 1 \in 1 .. CidSize
      BY <1>1
    <2> QED BY <1>3, <2>1, AnswerParts DEF Command
  <1>5. /\ DataBytes(n) \in Seq(AnyByte) /\ Len(DataBytes(n)) = DataSize
        /\ CrcBytes(n) \in Seq(AnyByte) /\ Len(CrcBytes(n)) = CrcSize
    BY <1>3, AnswerParts DEF Command
  <1>6. /\ a \o r \in Seq(AnyByte) /\ Len(a \o r) = CidSize + Len(r) /\ Len(r) \in Nat
        /\ (a \o r)[1] = a[1]
    <2>1. 1 \in 1 .. Len(a) + Len(r) /\ 1 <= Len(a)
      BY <1>1, <1>4, LenProperties
    <2> QED BY <1>4, <2>1, ConcatProperties, LenProperties
  <1> HIDE DEF a, r
  <1>7. CASE pc = "first"
    <2>1. Size[pc] = 1 /\ Size[pc] + 1 = 2
      BY <1>7 DEF Size
    <2>2. mode = "urpc" /\ ZeroesThen(line, a \o r)
      BY <1>7 DEF a, r, Clean, LineInAnswer, LineBetween, Command
    <2>3. /\ line \in Seq(AnyByte) /\ Len(line) >= 1
          /\ line[1] = Zero => ZeroesThen(SubSeq(line, 2, Len(line)), a \o r)
          /\ line[1] # Zero => line = a \o r
      <3>1. Len(a \o r) > 0 /\ (a \o r)[1] # Zero
        BY <1>1, <1>4, <1>6
      <3> QED BY <1>6, <2>2, <3>1, ZeroSkipped
    <2>4. /\ line[1] \in AnyByte
          /\ SubSeq(line, 1, 1) # <<>> /\ SubSeq(line, 1, 1)[1] = line[1]
      BY <2>3, FirstByte
    <2>5. /\ rcid' = [rcid EXCEPT ![1] = line[1]] /\ data' = data
      BY <1>2, <1>7, <2>1, <2>4 DEF Store
    <2>6. Buffer' /\ rcid'[1] = line[1]
      BY <1>1, <1>2, <2>4, <2>5 DEF Buffer
    <2>7. CASE line[1] = Zero
      <3>1. pc' = "first" /\ ZeroesThen(line', a \o r)
        BY <1>2, <1>7, <2>1, <2>3, <2>6, <2>7 DEF Continue
      <3> QED
        BY <1>2, <1>3, <2>2, <2>6, <3>1
        DEF a, r, Clean, NoRetries, LineBetween, LineInAnswer, ResultMeans
    <2>8. CASE line[1] # Zero
      <3>1. pc' = "rest" /\ line = a \o r
        BY <1>2, <1>7, <2>1, <2>3, <2>6, <2>8 DEF Continue
      <3>2. line' = Tail(a) \o r
        BY <1>1, <1>2, <1>4, <2>1, <3>1, DropFirst
      <3>3. rcid'[1] = Byte(AnswerId(verdict, cid), 1)
        BY <1>4, <1>6, <2>6, <3>1
      <3> QED
        BY <1>2, <1>3, <2>2, <2>6, <3>1, <3>2, <3>3
        DEF a, r, Clean, NoRetries, LineBetween, LineInAnswer, ResultMeans
    <2> QED BY <2>7, <2>8
  <1>8. CASE pc = "rest"
    <2> DEFINE k == CidSize - 1  t == Tail(a)
    <2>1. Size[pc] = k /\ k \in Nat /\ k > 0
      BY <1>1, <1>8 DEF Size
    <2>2. /\ mode = "urpc" /\ line = t \o r /\ rcid[1] = a[1]
      BY <1>4, <1>8 DEF a, r, Clean, LineInAnswer, LineBetween, Command
    <2>3. t \in Seq(AnyByte) /\ Len(t) = k /\ \A i \in 1 .. k : t[i] = a[i + 1]
      <3>1. a # <<>>
        BY <1>1, <1>4, EmptySeq
      <3> QED BY <1>4, <3>1, HeadTailProperties
    <2> HIDE DEF k, t
    <2>4. SubSeq(line, 1, k) = t /\ line' = r
      <3>1. SubSeq(t \o r, 1, k) = t /\ SubSeq(t \o r, k + 1, Len(t \o r)) = r
        <4>1. k = Len(t)
          BY <2>3
        <4>2. t \in Seq(AnyByte) /\ r \in Seq(AnyByte) /\ k \in Nat /\ k > 0
          BY <1>4, <2>1, <2>3
        <4> QED BY <4>1, <4>2, TakePart
      <3> QED BY <1>2, <2>1, <2>2, <3>1
    <2>5. /\ rcid' = [i \in 1 .. CidSize |-> IF i - 1 \in 1 .. Len(t) THEN t[i - 1] ELSE rcid[i]]
      BY <1>2, <1>8, <2>1, <2>4 DEF Store
    <2>6. rcid' = a
      <3>1. ASSUME NEW i \in 1 .. CidSize
            PROVE  (IF i - 1 \in 1 .. Len(t) THEN t[i - 1] ELSE rcid[i]) = a[i]
        <4>1. CASE i = 1
          <5>1. i - 1 \notin 1 .. Len(t)
            BY <4>1
          <5> QED BY <2>2, <4>1, <5>1
        <4>2. CASE i # 1
          <5>1. i - 1 \in 1 .. k /\ (i - 1) + 1 = i
            BY <1>1, <4>2 DEF k
          <5> QED BY <2>3, <5>1
        <4> QED BY <4>1, <4>2
      <3>2. a = [i \in 1 .. CidSize |-> a[i]]
        BY <1>4
      <3> QED BY <2>5, <3>1, <3>2
    <2>7. pc' = "compare"
      BY <1>2, <1>8 DEF Continue
    <2> QED
      BY <1>2, <1>3, <1>4, <2>2, <2>4, <2>6, <2>7
      DEF a, r, Clean, Buffer, NoRetries, LineBetween, LineInAnswer, ResultMeans
  <1>9. CASE pc = "data"
    <2> DEFINE d == DataBytes(n)  c == CrcBytes(n)
    <2>0. d \in Seq(AnyByte) /\ c \in Seq(AnyByte)
      BY <1>5
    <2>1. Size[pc] = DataSize
      BY <1>9 DEF Size
    <2>2. /\ mode = "urpc" /\ line = d \o c /\ verdict = "ok" /\ cid \in WithAnswer
      BY <1>9 DEF Clean, LineInAnswer, LineBetween, Command
    <2>3. SubSeq(line, 1, DataSize) = d /\ line' = c
      <3>1. SubSeq(d \o c, 1, DataSize) = d /\ SubSeq(d \o c, DataSize + 1, Len(d \o c)) = c
        <4>1. DataSize = Len(d)
          BY <1>5
        <4> HIDE DEF d, c
        <4>2. d \in Seq(AnyByte) /\ c \in Seq(AnyByte) /\ DataSize \in Nat /\ DataSize > 0
          BY <1>1, <2>0
        <4> QED BY <4>1, <4>2, TakePart
      <3> QED BY <1>2, <2>1, <2>2, <3>1
    <2>4. data' = d /\ rcid' = rcid /\ pc' = "crc"
      BY <1>2, <1>9, <2>1, <2>3 DEF Store, Continue
    <2> QED
      BY <1>2, <1>3, <2>2, <2>3, <2>4
      DEF Clean, Buffer, NoRetries, LineBetween, LineInAnswer, ResultMeans
  <1>10. CASE pc = "crc"
    <2>1. /\ mode = "urpc" /\ line = CrcBytes(n) /\ data = DataBytes(n)
          /\ verdict = "ok" /\ cid \in WithAnswer
      BY <1>10 DEF Clean, LineInAnswer, LineBetween, Command
    <2>2. line' = <<>>
      <3>1. Size[pc] = CrcSize
        BY <1>10 DEF Size
      <3>2. CrcSize + 1 \in Int /\ CrcSize \in Int /\ CrcSize < CrcSize + 1
        BY <1>1
      <3> QED BY <1>2, <1>5, <2>1, <3>1, <3>2, SubSeqEmpty
    <2>3. OnlyZeroes(line')
      BY <2>2, EmptySeq DEF OnlyZeroes
    <2>4. data' = data /\ rcid' = rcid /\ pc' = "idle" /\ res' = "ok"
      BY <1>2, <1>10 DEF Store, Continue
    <2> QED
      BY <1>2, <1>3, <2>1, <2>3, <2>4
      DEF Clean, Buffer, NoRetries, LineBetween, LineInAnswer, ResultMeans
  <1>11. CASE pc = "all"
    <2> DEFINE m == Answer(cid, n)
    <2>1. mode = "base" /\ line = a \o r
      BY <1>11 DEF a, r, Clean, LineInAnswer
    <2>2. Size[pc] = Len(m)
      BY <1>11 DEF Size
    <2>3. Len(m) \in Nat /\ Len(m) >= Len(line)
      <3> DEFINE own == AnswerRest("ok", cid, n)
      <3>1. m = CidBytes(cid) \o own
        BY DEF Answer, AnswerRest
      <3>2. /\ CidBytes(cid) \in Seq(AnyByte) /\ Len(CidBytes(cid)) = CidSize
            /\ own \in Seq(AnyByte)
        BY AnswerParts DEF Command, Verdicts, AnswerId
      <3>3. Len(own) \in Nat /\ Len(m) = CidSize + Len(own)
        BY <3>1, <3>2, ConcatProperties, LenProperties
      <3>4. r = own \/ Len(r) = 0
        BY EmptySeq DEF r, AnswerRest
      <3> HIDE DEF own, m
      <3> QED BY <1>1, <1>6, <2>1, <3>3, <3>4
    <2>4. line' = <<>>
      <3>1. Len(m) + 1 \in Int /\ Len(line) \in Int /\ Len(line) < Len(m) + 1
        BY <1>6, <2>1, <2>3
      <3> QED BY <1>2, <2>2, <3>1, SubSeqEmpty
    <2>5. OnlyZeroes(line')
      BY <2>4, EmptySeq DEF OnlyZeroes
    <2>6. rcid' = rcid /\ pc' = "idle"
      BY <1>2, <1>11 DEF Store, Continue
    <2> QED
      BY <1>2, <1>3, <2>1, <2>5, <2>6
      DEF Clean, Buffer, NoRetries, LineBetween, LineInAnswer, ResultMeans
  <1> QED BY <1>2, <1>7, <1>8, <1>9, <1>10, <1>11 DEF Receiving

\* An identifier is known by its bytes.
LEMMA IdKnown ==
    ASSUME NEW x, NEW y, CidBytes(x) = CidBytes(y)
    PROVE  x = y
  <1>1. 1 \in 1 .. CidSize
    BY ConstantsAssumption DEF ConstantsAssumption
  <1>2. CidBytes(x)[1] = Byte(x, 1) /\ CidBytes(y)[1] = Byte(y, 1)
    BY <1>1 DEF CidBytes
  <1> QED BY <1>2 DEF Byte

\* The input is flushed where there is nothing but zeroes on it.
LEMMA FlushedZeroes == OnlyZeroes(line) /\ Flushed => OnlyZeroes(line')
  BY ZeroesTaken DEF Flushed

\* The comparison tells the three verdicts apart.
LEMMA CleanCompare ==
    ASSUME Command, Clean, CompareErrv \/ CompareOwn \/ CompareOther
    PROVE  Clean'
  <1>1. /\ pc = "compare" /\ verdict \in Verdicts /\ mode = "urpc" /\ Buffer /\ part = FALSE
        /\ line = AnswerRest(verdict, cid, n) /\ rcid = CidBytes(AnswerId(verdict, cid))
    BY DEF CompareErrv, CompareOwn, CompareOther, Clean, NoRetries, LineBetween, LineInAnswer, Command
  <1>2. /\ cid' = cid /\ n' = n /\ mode' = mode /\ verdict' = verdict /\ part' = part
        /\ rcid' = rcid /\ data' = data
    BY DEF CompareErrv, CompareOwn, CompareOther, host, device
  <1>3. cid \notin {"errv", "errd"}
    BY ConstantsAssumption DEF ConstantsAssumption, Command
  <1>4. verdict # "ok" \/ cid \notin WithAnswer => OnlyZeroes(line)
    BY <1>1, EmptySeq DEF AnswerRest, OnlyZeroes
  <1>5. CASE CompareErrv
    <2>1. verdict = "errv"
      BY <1>1, <1>3, <1>5, IdKnown DEF CompareErrv, AnswerId, Verdicts
    <2>2. pc' = "idle" /\ res' = "value_error" /\ OnlyZeroes(line')
      BY <1>4, <1>5, <2>1, FlushedZeroes DEF CompareErrv, Returns
    <2> QED
      BY <1>1, <1>2, <2>1, <2>2
      DEF Clean, Buffer, NoRetries, LineBetween, LineInAnswer, ResultMeans
  <1>6. CASE CompareOwn
    <2>1. verdict = "ok" /\ line' = line
      BY <1>1, <1>3, <1>6, IdKnown DEF CompareOwn, AnswerId, Verdicts, device
    <2>2. CASE cid \in WithAnswer
      <3>1. pc' = "data" /\ line' = DataBytes(n) \o CrcBytes(n)
        BY <1>1, <1>6, <2>1, <2>2 DEF CompareOwn, AnswerRest
      <3> QED
        BY <1>1, <1>2, <2>1, <2>2, <3>1
        DEF Clean, Buffer, NoRetries, LineBetween, LineInAnswer, ResultMeans
    <2>3. CASE cid \notin WithAnswer
      <3>1. pc' = "idle" /\ res' = "ok" /\ OnlyZeroes(line')
        BY <1>4, <1>6, <2>1, <2>3 DEF CompareOwn, Returns
      <3> QED
        BY <1>1, <1>2, <2>1, <2>3, <3>1
        DEF Clean, Buffer, NoRetries, LineBetween, LineInAnswer, ResultMeans
    <2> QED BY <2>2, <2>3
  <1>7. CASE CompareOther
    <2>1. verdict = "errd"
      BY <1>1, <1>7 DEF CompareOther, AnswerId, Verdicts
    <2>2. pc' = "burst" /\ back' = "refused" /\ OnlyZeroes(line')
      BY <1>4, <1>7, <2>1 DEF CompareOther, StartSync, device
    <2> QED
      BY <1>1, <1>2, <2>1, <2>2
      DEF Clean, Buffer, NoRetries, LineBetween, LineInAnswer, ResultMeans
  <1> QED BY <1>5, <1>6, <1>7

\* The synchronisation after a refusal leaves nothing but zeroes.
LEMMA CleanSync ==
    ASSUME Command, Clean, Burst \/ Look \/ Refused
    PROVE  Clean'
  <1>1. /\ pc \in {"burst", "look", "synced", "lost"} /\ OnlyZeroes(line) /\ line \in Seq(AnyByte)
        /\ back = "refused" /\ verdict = "errd" /\ mode = "urpc" /\ Buffer /\ part = FALSE
    BY DEF Burst, Look, Refused, Clean, NoRetries, LineBetween, OnlyZeroes
  <1>2. /\ cid' = cid /\ n' = n /\ mode' = mode /\ verdict' = verdict /\ part' = part
        /\ rcid' = rcid /\ data' = data /\ back' = back
    BY <1>1 DEF Burst, Look, Refused, Zeroed, host
  <1>3. OnlyZeroes(line')
    <2>1. CASE Burst
      <3>1. BurstSize \in Nat
        BY ConstantsAssumption DEF ConstantsAssumption
      <3>2. PICK k \in 0 .. BurstSize : line' = line \o Zeroes(k)
        BY <2>1 DEF Burst, Zeroed
      <3> QED BY <1>1, <3>1, <3>2, MoreZeroes
    <2>2. CASE Look
      <3>1. line # <<>> /\ line' = SubSeq(line, 1 + 1, Len(line))
        BY <2>2 DEF Look, Take
      <3>2. 1 \in 0 .. Len(line)
        BY <1>1, <3>1, EmptySeq, LenProperties
      <3> QED BY <1>1, <3>1, <3>2, ZeroesTaken
    <2>3. CASE Refused
      BY <1>1, <2>3, FlushedZeroes DEF Refused
    <2> QED BY <2>1, <2>2, <2>3
  <1>4. \/ pc' \in {"burst", "look", "synced", "lost"}
        \/ pc' = "idle" /\ res' = "error"
    BY DEF Burst, Look, Refused, Looked, BurstFailed, Returns
  <1> QED
    BY <1>1, <1>2, <1>3, <1>4
    DEF Clean, Buffer, NoRetries, LineBetween, LineInAnswer, ResultMeans

\* An exchange begins over zeroes; one of the other kind, over nothing.
LEMMA CleanBegin ==
    ASSUME Command, Clean, ~troubled', NEW x \in Cids, NEW m \in {"urpc", "base"}, Begin(m, x)
    PROVE  Clean'
  <1>1. /\ pc = "idle" /\ OnlyZeroes(line) /\ part = FALSE
        /\ pc' = "write" /\ mode' = m /\ line' = line /\ part' = part
        /\ (m = "base" => line = <<>>)
    BY DEF Begin, Clean, NoRetries, LineBetween
  <1>2. Buffer'
    <2>1. Zero \in AnyByte /\ \A i \in 1 .. CidSize : Byte(x, i) \in AnyByte
      <3>1. CidSize \in Nat
        BY ConstantsAssumption DEF ConstantsAssumption
      <3> QED BY <3>1 DEF Zero, Byte, AnyByte
    <2> QED BY <2>1 DEF Begin, Buffer, Zeroes, CidBytes
  <1> QED BY <1>1, <1>2 DEF Clean, NoRetries, LineBetween, LineInAnswer, ResultMeans

\* Every step keeps it: what goes wrong is trouble.
LEMMA NextMInv == MInv /\ LInv /\ [Next]_vars => MInv'
  <1> SUFFICES ASSUME MInv, LInv, [Next]_vars, ~troubled' PROVE Clean'
    BY CommandKept DEF MInv
  <1>1. Command /\ Writing /\ (~troubled => Clean)
    BY DEF MInv
  <1>2. CASE WriteShort \/ WriteFails \/ ReceiveShort \/ ReceiveFails \/ ReceiveTimesOut
             \/ BurstFails \/ LookShort \/ LookFails \/ Lose
    BY <1>2 DEF WriteShort, WriteFails, ReceiveShort, ReceiveFails, ReceiveTimesOut,
                BurstFails, LookShort, LookFails, Lose
  <1>3. CASE Write
    BY <1>1, <1>3, CleanWrite DEF Write
  <1>4. CASE Receive
    BY <1>1, <1>4, CleanReceive DEF Receive
  <1>5. CASE CompareErrv \/ CompareOwn \/ CompareOther
    BY <1>1, <1>5, CleanCompare DEF CompareErrv, CompareOwn, CompareOther
  <1>6. CASE Burst \/ Look \/ Refused
    BY <1>1, <1>6, CleanSync DEF Burst, Look, Refused
  <1>7. CASE Retry \/ TimeUp \/ Resume \/ GiveUp
    <2>1. Clean
      BY <1>1, <1>7 DEF Retry, TimeUp, Resume, GiveUp
    <2> QED BY <1>7, <2>1 DEF Retry, TimeUp, Resume, GiveUp, Clean, NoRetries, Receiving
  <1>8. CASE \E x \in Cids : Begin("urpc", x) \/ Begin("base", x)
    <2>1. PICK x \in Cids, m \in {"urpc", "base"} : Begin(m, x)
      BY <1>8
    <2>2. Clean
      BY <1>1, <2>1 DEF Begin
    <2> QED BY <1>1, <2>1, <2>2, CleanBegin
  <1>9. CASE UNCHANGED vars
    <2>1. Clean
      BY <1>1, <1>9 DEF vars
    <2> QED
      BY <1>9, <2>1
      DEF vars, host, device, Clean, Buffer, NoRetries, LineBetween, LineInAnswer, ResultMeans
  <1> QED BY <1>2, <1>3, <1>4, <1>5, <1>6, <1>7, <1>8, <1>9 DEF Next, Step

\* While nothing has gone wrong on the line, the result of a urpc exchange is what
\* the device answered to this command, and its data are the data of this command,
\* also after exchanges that were refused and with zeroes still on the line
\* (urpc_device_serial_send_request of devserial.c).
THEOREM ResultIsMeant == Spec => []ResultMeans
  <1>1. MInv => ResultMeans
    BY DEF MInv, Clean, ResultMeans
  <1> QED BY InitLInv, NextLInv, InitMInv, NextMInv, <1>1, PTL DEF Spec
-----------------------------------------------------------------------------
(* Types.                                                                  *)

\* A part of a sequence, bytes in a row, and the answers of the device.
LEMMA PartTyped ==
    ASSUME NEW S, NEW s \in Seq(S), NEW k \in 0 .. Len(s)
    PROVE  SubSeq(s, 1, k) \in Seq(S) /\ SubSeq(s, k + 1, Len(s)) \in Seq(S)
  <1>1. SubSeq(s, 1, k) \in Seq(S)
    <2>1. \A i \in 1 .. k : s[i] \in S
      BY LenProperties, ElementOfSeq
    <2>2. 1 \in Int /\ k \in Int
      BY LenProperties
    <2> QED BY <2>1, <2>2, SubSeqProperties
  <1> QED BY <1>1, Ending

LEMMA RowTyped ==
    ASSUME NEW S, NEW k \in Nat, NEW b \in S
    PROVE  [i \in 1 .. k |-> b] \in Seq(S)
  BY SeqDef

LEMMA IdTyped ==
    ASSUME NEW x \in Cids \cup {"errv", "errd"}
    PROVE  CidBytes(x) \in [1 .. CidSize -> Bytes] /\ CidBytes(x) \in Seq(Bytes)
  <1>1. CidSize \in Nat
    BY ConstantsAssumption DEF ConstantsAssumption
  <1>2. \A i \in 1 .. CidSize : Byte(x, i) \in Bytes
    BY DEF Byte, Bytes
  <1>3. CidBytes(x) \in [1 .. CidSize -> Bytes]
    BY <1>2 DEF CidBytes
  <1> QED BY <1>1, <1>3, SeqDef

LEMMA AnswerTyped ==
    ASSUME NEW c \in Cids, NEW k \in 1 .. MaxExchanges
    PROVE  Answer(c, k) \in Seq(Bytes)
  <1>1. DataSize \in Nat /\ CrcSize \in Nat
    BY ConstantsAssumption DEF ConstantsAssumption
  <1>2. Byte("data", k) \in Bytes /\ Byte("crc", k) \in Bytes
    BY DEF Byte, Bytes
  <1>3. DataBytes(k) \in Seq(Bytes) /\ CrcBytes(k) \in Seq(Bytes)
    BY <1>1, <1>2, RowTyped DEF DataBytes, CrcBytes
  <1>4. DataBytes(k) \o CrcBytes(k) \in Seq(Bytes) /\ <<>> \in Seq(Bytes)
    BY <1>3, ConcatProperties, EmptySeq
  <1>5. CidBytes(c) \in Seq(Bytes)
    BY IdTyped
  <1> QED BY <1>4, <1>5, ConcatProperties DEF Answer

LEMMA ZeroesTyped ==
    ASSUME NEW k \in Nat
    PROVE  Zeroes(k) \in Seq(Bytes) /\ Zeroes(k) \in [1 .. k -> Bytes]
  BY RowTyped DEF Zeroes, Bytes

\* What the parts of the state may be, apart from the bytes.
ControlTyped ==
    /\ pc \in Receiving \cup {"idle", "write", "again", "burst", "look", "synced", "lost", "compare"}
    /\ mode \in {"urpc", "base"} /\ cid \in Cids /\ n \in 0 .. MaxExchanges
    /\ piece \in 0 .. 3 /\ back \in Receiving \cup {"none", "refused"}
    /\ bursts \in 0 .. RetryCount /\ reads \in 0 .. BurstSize
    /\ silent \in 0 .. RetryCount
    /\ res \in {"none", "ok", "error", "value_error", "nodevice", "timeout"}
    /\ verdict \in {"none", "ok", "errv", "errd"}
    /\ pc = "look" => reads > 0
    /\ pc # "idle" => n > 0

FlagsTyped == part \in BOOLEAN /\ failed \in BOOLEAN /\ troubled \in BOOLEAN

BytesTyped ==
    /\ last \in Bytes /\ rcid \in [1 .. CidSize -> Bytes]
    /\ data \in Seq(Bytes) /\ line \in Seq(Bytes)

LEMMA InitTyped == Init => ControlTyped /\ BytesTyped
  <1> SUFFICES ASSUME Init PROVE ControlTyped /\ BytesTyped
    OBVIOUS
  <1>1. /\ CidSize \in Nat /\ RetryCount \in Nat /\ BurstSize \in Nat /\ MaxExchanges \in Nat
    BY ConstantsAssumption DEF ConstantsAssumption
  <1>2. Zeroes(CidSize) \in [1 .. CidSize -> Bytes] /\ <<>> \in Seq(Bytes) /\ Zero \in Bytes
    BY <1>1, ZeroesTyped, EmptySeq DEF Bytes
  <1>3. BytesTyped
    BY <1>2 DEF Init, BytesTyped
  <1>4. ControlTyped
    BY <1>1 DEF Init, ControlTyped
  <1> QED BY <1>3, <1>4

\* The length of a piece.
LEMMA SizeTyped ==
    ASSUME ControlTyped, pc \in Receiving
    PROVE  Size[pc] \in Nat
  <1>1. CidSize \in Nat /\ CidSize > 1 /\ DataSize \in Nat /\ CrcSize \in Nat
    BY ConstantsAssumption DEF ConstantsAssumption
  <1>2. n \in 1 .. MaxExchanges /\ cid \in Cids
    BY DEF ControlTyped, Receiving
  <1>3. Len(Answer(cid, n)) \in Nat
    BY <1>2, AnswerTyped, LenProperties
  <1> QED BY <1>1, <1>3 DEF Size, Receiving

\* Every step keeps the types of the bytes.
LEMMA BytesKept == ControlTyped /\ BytesTyped /\ [Next]_vars => BytesTyped'
  <1> SUFFICES ASSUME ControlTyped, BytesTyped, [Next]_vars PROVE BytesTyped'
    OBVIOUS
  <1>1. /\ CidSize \in Nat /\ CidSize > 1 /\ BurstSize \in Nat
    BY ConstantsAssumption DEF ConstantsAssumption
  <1>2. \A k \in 0 .. Len(line) : /\ SubSeq(line, 1, k) \in Seq(Bytes)
                                  /\ SubSeq(line, k + 1, Len(line)) \in Seq(Bytes)
    BY PartTyped DEF BytesTyped
  <1>3. Len(line) \in Nat /\ Zero \in Bytes
    BY LenProperties DEF BytesTyped, Bytes
  <1>4. CASE UNCHANGED <<rcid, data, last>> /\ line' \in Seq(Bytes)
    BY <1>4 DEF BytesTyped
  <1>5. Flushed => line' \in Seq(Bytes)
    BY <1>2 DEF Flushed
  <1>6. CASE Write
    <2>1. UNCHANGED <<rcid, data, last>> /\ (UNCHANGED device \/ Answers) /\ pc = "write"
      BY <1>6 DEF Write, sync
    <2>2. CASE UNCHANGED device
      BY <1>4, <2>1, <2>2 DEF device, BytesTyped
    <2>3. CASE Answers
      <3>1. PICK v \in {"ok", "errv", "errd", "none"} :
                line' = line \o CASE v = "ok" -> Answer(cid, n)
                                  [] v = "none" -> <<>>
                                  [] OTHER -> CidBytes(v)
        BY <2>3 DEF Answers
      <3>2. n \in 1 .. MaxExchanges /\ cid \in Cids
        BY <2>1 DEF ControlTyped
      <3>3. PICK a \in Seq(Bytes) : line' = line \o a
        BY <3>1, <3>2, AnswerTyped, IdTyped, EmptySeq
      <3> QED BY <1>4, <2>1, <3>3, ConcatProperties DEF BytesTyped
    <2> QED BY <2>1, <2>2, <2>3
  <1>7. ASSUME NEW k \in 0 .. Len(line), Take(k), Store(pc, SubSeq(line, 1, k)), UNCHANGED last
        PROVE  BytesTyped'
    <2>1. SubSeq(line, 1, k) \in Seq(Bytes) /\ line' \in Seq(Bytes)
      BY <1>2, <1>7 DEF Take
    <2> DEFINE b == SubSeq(line, 1, k)
    <2>2. \A i \in 1 .. Len(b) : b[i] \in Bytes
      BY <2>1, ElementOfSeq
    <2>3. b # <<>> => 1 \in 1 .. Len(b)
      BY <2>1, EmptySeq
    <2> HIDE DEF b
    <2>4. rcid' \in [1 .. CidSize -> Bytes]
      BY <1>1, <1>7, <2>2, <2>3 DEF b, Store, BytesTyped
    <2>5. data' \in Seq(Bytes)
      BY <1>7, <2>1 DEF Store, BytesTyped
    <2> QED BY <1>7, <2>1, <2>4, <2>5 DEF BytesTyped
  <1>8. CASE Receive
    <2>1. Size[pc] \in 0 .. Len(line) /\ Take(Size[pc]) /\ Store(pc, SubSeq(line, 1, Size[pc]))
          /\ UNCHANGED last
      BY <1>3, <1>8, SizeTyped DEF Receive, sync
    <2> QED BY <1>7, <2>1
  <1>9. CASE ReceiveShort
    <2>1. PICK k \in 0 .. Size[pc] - 1 :
              k <= Len(line) /\ Take(k) /\ Store(pc, SubSeq(line, 1, k))
      BY <1>9 DEF ReceiveShort
    <2>2. k \in 0 .. Len(line) /\ UNCHANGED last
      BY <1>3, <1>9, <2>1, SizeTyped DEF ReceiveShort, sync
    <2> QED BY <1>7, <2>1, <2>2
  <1>10. CASE Burst
    <2>1. PICK k \in 0 .. BurstSize : line' = line \o Zeroes(k)
      BY <1>10 DEF Burst, Zeroed
    <2>2. Zeroes(k) \in Seq(Bytes)
      BY <1>1, <2>1, ZeroesTyped
    <2>3. line' \in Seq(Bytes)
      BY <2>1, <2>2, ConcatProperties DEF BytesTyped
    <2> QED BY <1>3, <1>10, <2>3 DEF Burst, BytesTyped
  <1>11. CASE Look
    <2>1. line # <<>> /\ last' = Head(line) /\ Take(1) /\ UNCHANGED <<rcid, data>>
      BY <1>11 DEF Look, Looked
    <2>2. 1 \in 0 .. Len(line) /\ Head(line) \in Bytes
      BY <1>3, <2>1, EmptySeq, HeadTailProperties DEF BytesTyped
    <2>3. line' \in Seq(Bytes)
      BY <1>2, <2>1, <2>2 DEF Take
    <2> QED BY <2>1, <2>2, <2>3 DEF BytesTyped
  <1>12. CASE \E x \in Cids : Begin("urpc", x) \/ Begin("base", x)
    <2>1. PICK x \in Cids : rcid' \in {Zeroes(CidSize), CidBytes(x)}
                            /\ data' = <<>> /\ UNCHANGED <<last, line>>
      BY <1>12 DEF Begin
    <2>2. rcid' \in [1 .. CidSize -> Bytes] /\ data' \in Seq(Bytes)
      BY <1>1, <2>1, ZeroesTyped, IdTyped, EmptySeq
    <2> QED BY <2>1, <2>2 DEF BytesTyped
  <1>13. CASE Lose
    <2>1. line # <<>> /\ line' = Tail(line) /\ UNCHANGED <<rcid, data, last>>
      BY <1>13 DEF Lose, sync
    <2> QED BY <1>4, <2>1, HeadTailProperties DEF BytesTyped
  <1>14. CASE ReceiveTimesOut \/ CompareErrv \/ Refused \/ LookFails
    <2>1. UNCHANGED <<rcid, data, last>> /\ (Flushed \/ UNCHANGED line)
      BY <1>14 DEF ReceiveTimesOut, CompareErrv, Refused, LookFails, sync
    <2> QED BY <1>4, <1>5, <2>1 DEF BytesTyped
  <1>15. CASE \/ WriteShort \/ WriteFails \/ ReceiveFails \/ Retry \/ TimeUp \/ BurstFails
              \/ LookShort \/ Resume \/ GiveUp \/ CompareOwn \/ CompareOther \/ UNCHANGED vars
    <2>1. UNCHANGED <<rcid, data, line, last>>
      BY <1>15 DEF WriteShort, WriteFails, ReceiveFails, Retry, TimeUp, BurstFails, LookShort, Looked,
                   Resume, GiveUp, CompareOwn, CompareOther, StartSync, sync, device, vars
    <2> QED BY <1>4, <2>1 DEF BytesTyped
  <1> QED
    BY <1>6, <1>8, <1>9, <1>10, <1>11, <1>12, <1>13, <1>14, <1>15 DEF Next, Step

\* Every step keeps the other types.
LEMMA ControlKept == LInv /\ MInv /\ ControlTyped /\ [Next]_vars => ControlTyped'
  <1> SUFFICES ASSUME LInv, MInv, ControlTyped, [Next]_vars PROVE ControlTyped'
    OBVIOUS
  <1>1. RetryCount \in Nat /\ RetryCount > 0 /\ BurstSize \in Nat /\ BurstSize > 0 /\ MaxExchanges \in Nat
    BY ConstantsAssumption DEF ConstantsAssumption
  <1>2. BurstsCounted /\ RetriesReceive /\ Writing
    BY DEF LInv, MInv
  <1>3. CASE Write \/ WriteShort
    <2>1. UNCHANGED <<host, back, bursts, reads, silent, res>> /\ pc = "write" /\ Sent
      BY <1>3 DEF Write, WriteShort, sync
    <2>2. piece' \in 0 .. 3
      BY <1>2, <2>1 DEF Sent, Writing, Pieces
    <2>3. pc' \in {"write", "first", "all"}
      BY <2>1 DEF Sent, Read1st
    <2>4. verdict' \in {"none", "ok", "errv", "errd"}
      BY <1>3 DEF Write, WriteShort, Answers, device, ControlTyped
    <2> QED BY <2>1, <2>2, <2>3, <2>4 DEF host, ControlTyped, Receiving
  <1>4. CASE Receive \/ ReceiveShort \/ Resume
    <2>1. /\ UNCHANGED <<host, piece, back, bursts, reads, silent, verdict>>
          /\ pc # "idle" /\ \E p \in Receiving : Continue(p)
      BY <1>4 DEF Receive, ReceiveShort, Resume, sync, device, ControlTyped, Receiving
    <2>2. pc' \in {"first", "rest", "compare", "data", "crc", "idle"} /\ res' \in {"ok", res}
      BY <2>1 DEF Continue, Receiving
    <2> QED BY <2>1, <2>2 DEF host, ControlTyped, Receiving
  <1>5. CASE WriteFails \/ ReceiveFails
    BY <1>5 DEF WriteFails, ReceiveFails, Returns, host, sync, device, ControlTyped, Receiving
  <1>6. CASE ReceiveTimesOut \/ Retry
    BY <1>2, <1>6 DEF ReceiveTimesOut, Retry, host, sync, device, ControlTyped, RetriesReceive, Receiving
  <1>7. CASE TimeUp \/ CompareOther
    BY <1>1, <1>2, <1>7
    DEF TimeUp, CompareOther, StartSync, host, device, ControlTyped, RetriesReceive, Receiving
  <1>8. CASE Burst
    BY <1>1, <1>2, <1>8 DEF Burst, Zeroed, host, ControlTyped, BurstsCounted
  <1>9. CASE BurstFails \/ LookFails
    BY <1>1, <1>2, <1>9 DEF BurstFails, LookFails, BurstFailed, host, device, ControlTyped, BurstsCounted
  <1>10. CASE Look \/ LookShort
    BY <1>1, <1>2, <1>10 DEF Look, LookShort, Looked, BurstFailed, host, device, ControlTyped, BurstsCounted
  <1>11. CASE GiveUp \/ CompareErrv \/ CompareOwn \/ Refused
    BY <1>11 DEF GiveUp, CompareErrv, CompareOwn, Refused, Returns, host, sync, device, ControlTyped, Receiving
  <1>12. CASE \E x \in Cids : Begin("urpc", x) \/ Begin("base", x)
    BY <1>1, <1>12 DEF Begin, ControlTyped
  <1>13. CASE Lose \/ UNCHANGED vars
    BY <1>13 DEF Lose, vars, host, sync, device, ControlTyped
  <1> QED
    BY <1>3, <1>4, <1>5, <1>6, <1>7, <1>8, <1>9, <1>10, <1>11, <1>12, <1>13 DEF Next, Step

\* And so do the flags.
LEMMA FlagsKept == FlagsTyped /\ [Next]_vars => FlagsTyped'
  BY DEF FlagsTyped, Next, Step, Write, WriteShort, WriteFails, Receive, ReceiveShort, ReceiveFails,
         ReceiveTimesOut, Retry, TimeUp, Burst, BurstFails, Look, LookShort, LookFails, Resume, GiveUp,
         CompareErrv, CompareOwn, CompareOther, Refused, Lose, Begin, Answers, Zeroed, device, vars

\* Every variable keeps its type, for any sizes, retries and commands.
THEOREM SerialTypeCorrect == Spec => []TypeOK
  <1>0. Init => FlagsTyped
    BY DEF Init, FlagsTyped
  <1>1. ControlTyped /\ FlagsTyped /\ BytesTyped => TypeOK
    BY DEF ControlTyped, FlagsTyped, BytesTyped, TypeOK
  <1> QED
    BY InitLInv, NextLInv, InitMInv, NextMInv, InitTyped, BytesKept, ControlKept, FlagsKept, <1>0, <1>1, PTL DEF Spec
=============================================================================
