--------------------------- MODULE SerialExchange ---------------------------
(***************************************************************************)
(* One serial port under the exchanges of src/server/xib-serial/           *)
(* devserial.c.  The caller holds the mutex of the device (DeviceMap), so  *)
(* the port has one exchange at a time:                                    *)
(*   urpc   urpc_device_serial_send_request: command identifier, data and  *)
(*          checksum, each written by itself; the answer is read piece by  *)
(*          piece, after the zero bytes ahead of it are skipped            *)
(*   base   device_serial_send_request_base: one write, one read           *)
(* libserialport and the device are external.  A read or a write can fail  *)
(* for good (SP_ERR_FAIL), fail otherwise, or come back short with a count *)
(* that the code does not look at.  The device answers a complete command, *)
(* in time or late, or says that it does not know it (errd) or its data    *)
(* (errv); zero bytes bring it back into step, and it may send some back.  *)
(* Bytes arrive in order, or are lost.  Times are left out: receive may    *)
(* give up after any failure.                                              *)
(***************************************************************************)
EXTENDS Naturals, Sequences

CONSTANTS Cids,                    \* command identifiers
          WithData, WithAnswer,    \* those with request_len, response_len # 0
          CidSize, DataSize, CrcSize,
          BurstSize, RetryCount,   \* URPC_ZEROSYNC_...
          MaxExchanges, MaxLine    \* bounds: exchanges made; bytes the line holds
                                   \* when the device sends zeroes back

ASSUME ConstantsAssumption ==
    /\ {"errv", "errd"} \cap Cids = {}
    /\ WithData \subseteq Cids /\ WithAnswer \subseteq Cids
    /\ CidSize \in Nat \ {0, 1}
    /\ {DataSize, CrcSize, BurstSize, RetryCount, MaxExchanges, MaxLine} \subseteq Nat \ {0}

(* Bytes: zero, and those that stand for a place in a message.             *)
Byte(of, i) == [of |-> of, at |-> i]
Zero == Byte("zero", 0)
CidBytes(x) == [i \in 1 .. CidSize |-> Byte(x, i)]
DataBytes(k) == [i \in 1 .. DataSize |-> Byte("data", k)]
CrcBytes(k) == [i \in 1 .. CrcSize |-> Byte("crc", k)]
Zeroes(k) == [i \in 1 .. k |-> Zero]
Answer(x, k) == CidBytes(x) \o IF x \in WithAnswer THEN DataBytes(k) \o CrcBytes(k) ELSE <<>>

VARIABLES
    pc,        \* where the exchange is
    mode, cid, \* the kind of exchange, the identifier of its command
    n,         \* exchanges begun
    piece,     \* pieces of the command written
    back,      \* where zerosync returns to
    bursts, reads, last,   \* retry_counter, received and zeroes[0] of zerosync
    rcid, data,            \* response_cid and response
    res,       \* the result of the last exchange
    line,      \* bytes on their way from the device, in the port's buffer first
    part,      \* the device has lost step: it holds an incomplete command
    verdict,   \* history: what the device answered to the command
    failed,    \* history: the port has failed in this exchange
    silent,    \* history: bursts of the last zerosync that brought no zero
    troubled   \* history: something has gone wrong on the line

host == <<mode, cid, n>>
sync == <<bursts, reads, last, silent>>
device == <<line, part, verdict>>
vars == <<pc, host, piece, back, sync, rcid, data, res, device, failed, troubled>>

Init ==
    /\ pc = "idle" /\ mode = "base" /\ cid \in Cids /\ n = 0 /\ piece = 0
    /\ back = "none" /\ bursts = 0 /\ reads = 0 /\ last = Zero /\ silent = 0
    /\ rcid = Zeroes(CidSize) /\ data = <<>> /\ res = "none"
    /\ line = <<>> /\ part = FALSE /\ verdict = "none"
    /\ failed = FALSE /\ troubled = FALSE
-----------------------------------------------------------------------------
(* The device.                                                             *)

\* The device has got a complete command: it carries it out, refuses it, or,
\* when it has lost step, may say anything or nothing.
Answers ==
    \E v \in {"ok", "errv", "errd"} \cup (IF part THEN {"none"} ELSE {}) :
        /\ verdict' = v
        /\ line' = line \o CASE v = "ok" -> Answer(cid, n)
                             [] v = "none" -> <<>>
                             [] OTHER -> CidBytes(v)
        /\ part' = FALSE

\* It gets zeroes and sends some back.
Zeroed(k) == line' = line \o Zeroes(k) /\ part' = FALSE /\ UNCHANGED verdict

\* A byte is lost on the line.
Lose ==
    /\ line # <<>>
    /\ line' = Tail(line) /\ troubled' = TRUE
    /\ UNCHANGED <<pc, host, piece, back, sync, rcid, data, res, part, verdict, failed>>

\* sp_flush of the input: it takes what has arrived.
Flushed == \E i \in 0 .. Len(line) : line' = SubSeq(line, i + 1, Len(line))
-----------------------------------------------------------------------------
(* Beginning and end of an exchange.                                       *)

\* response_cid and response are not initialised.  (A base exchange takes what
\* is left on the line for its answer, which counts as trouble.)
Begin(m, x) ==
    /\ pc = "idle" /\ n < MaxExchanges
    /\ pc' = "write" /\ mode' = m /\ cid' = x /\ n' = n + 1 /\ piece' = 0
    /\ rcid' \in {Zeroes(CidSize), CidBytes(x)} /\ data' = <<>> /\ res' = "none"
    /\ verdict' = "none" /\ failed' = FALSE /\ silent' = 0
    /\ troubled' = (troubled \/ (m = "base" /\ line # <<>>))
    /\ UNCHANGED <<back, bursts, reads, last, line, part>>

Returns(r) == pc' = "idle" /\ res' = r
-----------------------------------------------------------------------------
(* command_port_send, for the pieces of a command.                         *)

Pieces == IF mode = "urpc" /\ cid \in WithData THEN 3 ELSE 1
Read1st == IF mode = "urpc" THEN "first" ELSE "all"
Sent == piece' = piece + 1 /\ pc' = IF piece' < Pieces THEN "write" ELSE Read1st

Write ==
    /\ pc = "write" /\ Sent
    /\ IF piece' = Pieces THEN Answers ELSE UNCHANGED device
    /\ UNCHANGED <<host, back, sync, rcid, data, res, failed, troubled>>

\* The count that sp_blocking_write returns is not compared with the length.
WriteShort ==
    /\ pc = "write" /\ Sent
    /\ part' = TRUE /\ troubled' = TRUE
    /\ UNCHANGED <<host, back, sync, rcid, data, res, line, verdict, failed>>

WriteFails ==
    /\ pc = "write"
    /\ \/ Returns("nodevice") /\ failed' = TRUE
       \/ Returns("timeout") /\ UNCHANGED failed
    /\ part' = TRUE /\ troubled' = TRUE
    /\ UNCHANGED <<host, piece, back, sync, rcid, data, line, verdict>>
-----------------------------------------------------------------------------
(* receive, for the pieces of an answer; pc is the piece.                  *)

Receiving == {"first", "rest", "data", "crc", "all"}
Size == [first |-> 1, rest |-> CidSize - 1, data |-> DataSize, crc |-> CrcSize,
         all |-> Len(Answer(cid, n))]

\* bytes have been read into the buffer of piece p: into its beginning.
Store(p, bytes) ==
    /\ rcid' = CASE p = "first" /\ bytes # <<>> -> [rcid EXCEPT ![1] = bytes[1]]
                 [] p = "rest" -> [i \in 1 .. CidSize |->
                                     IF i - 1 \in 1 .. Len(bytes) THEN bytes[i - 1] ELSE rcid[i]]
                 [] OTHER -> rcid
    /\ data' = IF p \in {"data", "all"} THEN bytes ELSE data

\* mutant: a zero is taken for the first byte of the answer.
ContinueZero(p) ==
    /\ pc' = CASE p = "first" -> "rest"
               [] p = "rest" -> "compare"
               [] p = "data" -> "crc"
               [] OTHER -> "idle"
    /\ res' = IF p \in {"crc", "all"} THEN "ok" ELSE res

\* What follows a receive of piece p that returned ok: the first byte is read
\* until it is not zero.  The comparison of the checksums decides nothing.
Continue(p) ==
    /\ pc' = CASE p = "first" -> IF rcid'[1] = Zero THEN "first" ELSE "rest"
               [] p = "rest" -> "compare"
               [] p = "data" -> "crc"
               [] OTHER -> "idle"
    /\ res' = IF p \in {"crc", "all"} THEN "ok" ELSE res

Take(i) == line' = SubSeq(line, i + 1, Len(line))

Receive ==
    /\ pc \in Receiving /\ Len(line) >= Size[pc]
    /\ Take(Size[pc]) /\ Store(pc, SubSeq(line, 1, Size[pc])) /\ Continue(pc)
    /\ UNCHANGED <<host, piece, back, sync, part, verdict, failed, troubled>>

\* The count that sp_blocking_read returns is not compared with the length.
ReceiveShort ==
    /\ pc \in Receiving
    /\ \E i \in 0 .. Size[pc] - 1 :
         i <= Len(line) /\ Take(i) /\ Store(pc, SubSeq(line, 1, i))
    /\ Continue(pc)
    /\ troubled' = TRUE
    /\ UNCHANGED <<host, piece, back, sync, part, verdict, failed>>

ReceiveFails ==
    /\ pc \in Receiving
    /\ Returns("nodevice") /\ failed' = TRUE /\ troubled' = TRUE
    /\ UNCHANGED <<host, piece, back, sync, rcid, data, device>>

\* Another failure: the input is flushed, and receive tries again, or, after
\* URPC_ZEROSYNC_TRIGGER_TIMEOUT, starts the zero synchronisation.
ReceiveTimesOut ==
    /\ pc \in Receiving
    /\ pc' = "again" /\ back' = pc /\ Flushed
    /\ troubled' = TRUE
    /\ UNCHANGED <<host, piece, sync, rcid, data, res, part, verdict, failed>>

Retry ==
    /\ pc = "again" /\ pc' = back
    /\ UNCHANGED <<host, piece, back, sync, rcid, data, res, device, failed, troubled>>

StartSync(b) ==
    pc' = "burst" /\ back' = b /\ bursts' = RetryCount /\ silent' = 0 /\ UNCHANGED <<reads, last>>

\* mutant: the time is taken anew with every attempt.
TimeUpNever ==
    /\ pc = "again" /\ pc' = back
    /\ UNCHANGED <<host, piece, back, sync, rcid, data, res, device, failed, troubled>>

TimeUp ==
    /\ pc = "again" /\ StartSync(back)
    /\ UNCHANGED <<host, piece, rcid, data, res, device, failed, troubled>>
-----------------------------------------------------------------------------
(* zerosync and send_synchronization_zeroes.                               *)

\* mutant: one burst is enough to call the device lost.
BurstFailedOnce ==
    bursts' = bursts - 1 /\ pc' = "lost"

\* mutant: the retries are not counted.
BurstFailedUncounted ==
    pc' = "burst" /\ UNCHANGED bursts

BurstFailed ==
    /\ bursts' = bursts - 1
    /\ pc' = IF bursts > 1 THEN "burst" ELSE "lost"

Burst ==
    /\ pc = "burst" /\ pc' = "look"
    /\ reads' = BurstSize /\ last' = Zero /\ silent' = silent + 1
    /\ \E k \in 0 .. BurstSize : (k = 0 \/ Len(line) + k <= MaxLine) /\ Zeroed(k)
    /\ UNCHANGED <<host, piece, back, bursts, rcid, data, res, failed, troubled>>

BurstFails ==
    /\ pc = "burst" /\ BurstFailed
    /\ silent' = silent + 1 /\ troubled' = TRUE
    /\ UNCHANGED <<host, piece, back, reads, last, rcid, data, res, device, failed>>

\* One byte, which is in zeroes[0] now; after a short read it is what was
\* there before.
Looked(b) ==
    /\ last' = b /\ reads' = reads - 1
    /\ \/ b = Zero /\ pc' = "synced" /\ silent' = 0 /\ UNCHANGED bursts
       \/ b # Zero /\ reads > 1 /\ pc' = "look" /\ UNCHANGED <<bursts, silent>>
       \/ b # Zero /\ reads = 1 /\ BurstFailed /\ UNCHANGED silent

Look ==
    /\ pc = "look" /\ line # <<>>
    /\ Looked(Head(line)) /\ Take(1)
    /\ UNCHANGED <<host, piece, back, rcid, data, res, part, verdict, failed, troubled>>

LookShort ==
    /\ pc = "look" /\ Looked(last)
    /\ troubled' = TRUE
    /\ UNCHANGED <<host, piece, back, rcid, data, res, device, failed>>

LookFails ==
    /\ pc = "look" /\ BurstFailed /\ (Flushed \/ UNCHANGED line)
    /\ troubled' = TRUE
    /\ UNCHANGED <<host, piece, back, reads, last, silent, rcid, data, res, part, verdict, failed>>

\* receive goes on after a synchronisation as if it had read its bytes.
Resume ==
    /\ pc = "synced" /\ back \in Receiving
    /\ UNCHANGED <<rcid, data>> /\ Continue(back)
    /\ UNCHANGED <<host, piece, back, sync, device, failed, troubled>>

GiveUp ==
    /\ pc = "lost" /\ back \in Receiving
    /\ Returns("nodevice")
    /\ UNCHANGED <<host, piece, back, sync, rcid, data, device, failed, troubled>>
-----------------------------------------------------------------------------
(* What a urpc exchange makes of the identifier it has read.               *)

CompareErrv ==
    /\ pc = "compare" /\ rcid = CidBytes("errv")
    /\ Returns("value_error") /\ Flushed
    /\ UNCHANGED <<host, piece, back, sync, rcid, data, part, verdict, failed, troubled>>

CompareOwn ==
    /\ pc = "compare" /\ rcid = CidBytes(cid)
    /\ IF cid \in WithAnswer THEN pc' = "data" /\ UNCHANGED res ELSE Returns("ok")
    /\ UNCHANGED <<host, piece, back, sync, rcid, data, device, failed, troubled>>

\* errd, or anything else.
CompareOther ==
    /\ pc = "compare" /\ rcid \notin {CidBytes("errv"), CidBytes(cid)}
    /\ StartSync("refused")
    /\ UNCHANGED <<host, piece, rcid, data, res, device, failed, troubled>>

\* The result of this synchronisation is not looked at.
Refused ==
    /\ pc \in {"synced", "lost"} /\ back = "refused"
    /\ Returns("error") /\ Flushed
    /\ UNCHANGED <<host, piece, back, sync, rcid, data, part, verdict, failed, troubled>>
-----------------------------------------------------------------------------
Step ==
    \/ Write \/ WriteShort \/ WriteFails
    \/ Receive \/ ReceiveShort \/ ReceiveFails \/ ReceiveTimesOut \/ Retry \/ TimeUp
    \/ Burst \/ BurstFails \/ Look \/ LookShort \/ LookFails \/ Resume \/ GiveUp
    \/ CompareErrv \/ CompareOwn \/ CompareOther \/ Refused

Next == Step \/ Lose \/ \E x \in Cids : Begin("urpc", x) \/ Begin("base", x)

Spec == Init /\ [][Next]_vars

\* The thread runs on, the functions of the port return, and time passes.
FairSpec == Spec /\ WF_vars(Step) /\ SF_vars(TimeUp)
-----------------------------------------------------------------------------
Bytes == {Zero} \cup [of : Cids \cup {"errv", "errd"}, at : 1 .. CidSize]
             \cup [of : {"data", "crc"}, at : 1 .. MaxExchanges]

\* The values of the variables.
TypeOK ==
    /\ pc \in Receiving \cup {"idle", "write", "again", "burst", "look", "synced", "lost", "compare"}
    /\ mode \in {"urpc", "base"} /\ cid \in Cids /\ n \in 0 .. MaxExchanges
    /\ piece \in 0 .. 3 /\ back \in Receiving \cup {"none", "refused"}
    /\ bursts \in 0 .. RetryCount /\ reads \in 0 .. BurstSize /\ last \in Bytes
    /\ silent \in 0 .. RetryCount
    /\ rcid \in [1 .. CidSize -> Bytes] /\ data \in Seq(Bytes)
    /\ res \in {"none", "ok", "error", "value_error", "nodevice", "timeout"}
    /\ line \in Seq(Bytes) /\ part \in BOOLEAN
    /\ verdict \in {"none", "ok", "errv", "errd"}
    /\ {failed, troubled} \subseteq BOOLEAN

\* While nothing has gone wrong on the line, in this exchange or an earlier one,
\* the result of a urpc exchange is what the device answered to this command,
\* and its data are the data of this command, also after exchanges that ended
\* with an error, a synchronisation, and zeroes still on the line.
ResultMeans ==
    pc = "idle" /\ ~troubled /\ mode = "urpc" /\ n > 0 =>
        CASE verdict = "ok" -> res = "ok" /\ (cid \in WithAnswer => data = DataBytes(n))
          [] verdict = "errv" -> res = "value_error"
          [] OTHER -> res = "error"

\* A device is called lost, which closes it for every connection, only if its
\* port has failed or a whole series of bursts has brought no zero.
LostMeansSilent ==
    pc = "idle" /\ res = "nodevice" => failed \/ silent = RetryCount

\* An exchange ends: no nesting of retries, bursts and looks at the line goes on for ever,
\* short reads and resumed ones included.  The one exception is the loop that skips zeroes
\* before an answer (devserial.c:320), which has no limit of its own: a first byte that
\* was not read, because the count was short or a synchronisation came instead, leaves the
\* zero of before in place and the loop starts anew.  A short read that brings nothing and
\* changes nothing is a stutter here, so that it does not recur for ever by assumption.
ExchangeEnds ==
    \/ []<><<(ReceiveShort \/ Resume) /\ pc' = "first">>_vars
    \/ pc # "idle" ~> pc = "idle"
=============================================================================
