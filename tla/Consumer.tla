------------------------------ MODULE Consumer ------------------------------
(***************************************************************************)
(* A partition, the producers that write to it and a consumer that reads   *)
(* it: Produce, Consume and ConsumeBatch of src/v2/broker.go, and what     *)
(* src/v2/proto does with the messages of a fetch response.  Which         *)
(* connection a request takes is in module Broker; here a request succeeds,*)
(* gets an error of the partition, or loses its connection.                *)
(*                                                                         *)
(* Each message of the log belongs to an entry, the unit in which a node   *)
(* stores and returns messages.  What that is depends on the format:       *)
(*   set     messages of a message set, one by one                         *)
(*   setz    compressed message sets (as a message with offset and CRC)    *)
(*   batch   record batches                                                *)
(*   batchz  compressed record batches                                     *)
(* A response may end with a part of an entry: at least the 17 bytes that  *)
(* the reader peeks at ("long") or less ("short").                         *)
(*                                                                         *)
(* An operator that nothing uses and that stands right before another one  *)
(* (TrimForgotten before trimLeadingMessages) is the other one with a slip *)
(* in it.  It takes the place of the other one to see that a property      *)
(* notices.                                                                *)
(***************************************************************************)
EXTENDS Integers, Sequences, SequencesExt

CONSTANTS
    Producers,       \* the goroutines that call Produce, each one once
    Payloads,        \* what messages carry
    Batches,         \* the messages of a Produce call: sequences of payloads
    Formats,         \* the formats a log may have
    CorruptFormats,  \* the formats in which an entry may be damaged on disk
    Confs,           \* configurations: RetryLimit and RetryErrLimit of ConsumerConf (the
                     \* latter is also RetryLimit of ProducerConf), whether the
                     \* consumer is a BatchConsumer, and whether the producers want
                     \* acknowledgements (RequiredAcks is not RequiredAcksNone)
    MaxFaults        \* bound: requests that fail and entries that are damaged

ASSUME ConsumerAssumption ==
    /\ Formats \subseteq {"set", "setz", "batch", "batchz"}
    /\ CorruptFormats \subseteq Formats
    /\ Confs \subseteq [RetryLimit : Nat \cup {-1}, RetryErrLimit : Nat \ {0}, batch : BOOLEAN, acks : BOOLEAN]
    /\ MaxFaults \in Nat
    /\ Batches \subseteq Seq(Payloads) \ {<<>>}

VARIABLES
    format,   \* of the log
    log,      \* the messages ever written, with the offset of the first message of
              \* their entry, and whether the CRC of that is right
    start,    \* the offset of the first message that was not deleted
    writes,   \* of each producer: what it does, its messages, retries and offsets
    faults,
    conf,
    pc,       \* of the consumer: closed, idle, or wait (for a fetch response)
    offset,   \* of the consumer: offset of next NOT consumed message
    msgbuf,   \* messages fetched and not handed out
    retry,    \* of fetch
    empty,    \* retry of consume: fetches without messages
    resp,     \* the response on its way
    lastErr,  \* the error of the last call, if any
    out       \* the messages handed out

consumerVars == <<conf, pc, offset, msgbuf, retry, empty, lastErr, out>>
vars == <<format, log, start, writes, faults, resp, consumerVars>>

\* The offset of the next message that will be written.
End == Len(log)

NoResp == [err |-> "none", msgs |-> <<>>, cut |-> "none"]

Init ==
    /\ format \in Formats
    /\ log = <<>> /\ start = 0
    /\ writes = [p \in Producers |-> [pc |-> "idle", msgs |-> <<>>, retry |-> 0, offsets |-> <<>>]]
    /\ faults = 0
    /\ conf \in Confs
    /\ pc = "closed" /\ offset = -1 /\ msgbuf = <<>> /\ retry = 0 /\ empty = 0
    /\ resp = NoResp /\ lastErr = "none" /\ out = <<>>

-----------------------------------------------------------------------------
(* The node.                                                               *)

Fault == faults < MaxFaults /\ faults' = faults + 1

\* A message set is stored message by message unless it is compressed.
Stored(msgs) ==
    [i \in 1..Len(msgs) |-> [offset |-> End + i - 1, payload |-> msgs[i], ok |-> TRUE,
                            entry |-> IF format = "set" THEN End + i - 1 ELSE End]]

EntryStarts == {log[i].entry : i \in 1..Len(log)}

\* An entry is damaged on disk, so that its CRC is no longer right.
Damage ==
    /\ format \in CorruptFormats
    /\ Fault
    /\ \E e \in EntryStarts :
          log' = [i \in 1..End |-> IF log[i].entry = e THEN [log[i] EXCEPT !.ok = FALSE] ELSE log[i]]
    /\ UNCHANGED <<format, start, writes, resp, consumerVars>>

\* Retention deletes the oldest entries.
Retention ==
    /\ start' \in {e \in EntryStarts : e > start}
    /\ UNCHANGED <<format, log, writes, faults, resp, consumerVars>>

\* A response has at least one whole entry, if there is one, and begins with the
\* entry that holds the offset.
NodeAnswers ==
    /\ pc = "wait" /\ resp = NoResp
    /\ \/ /\ offset \in start..(End - 1)
          /\ \E to \in EntryStarts \cup {End}, cut \in {"none", "short", "long"} :
                /\ to > offset
                /\ to = End => cut = "none"
                /\ resp' = [err |-> "nil", msgs |-> SubSeq(log, log[offset + 1].entry + 1, to), cut |-> cut]
          /\ UNCHANGED faults
       \/ /\ offset = End
          /\ resp' = [NoResp EXCEPT !.err = "nil"]
          /\ UNCHANGED faults
       \/ /\ offset \notin start..End
          /\ resp' = [NoResp EXCEPT !.err = "OffsetOutOfRange"]
          /\ UNCHANGED faults
       \/ /\ Fault
          /\ resp' = [NoResp EXCEPT !.err = "NotLeaderForPartition"]
    /\ UNCHANGED <<format, log, start, writes, consumerVars>>

-----------------------------------------------------------------------------
(* Producers.                                                              *)

MoreTries(n) == n < conf.RetryErrLimit

Produce(p) ==
    /\ writes[p].pc = "idle"
    /\ \E s \in Batches : writes' = [writes EXCEPT ![p].pc = "send", ![p].msgs = s]
    /\ UNCHANGED <<format, log, start, faults, resp, consumerVars>>

OffsetsFromOne(off, n) == [i \in 1..n |-> off + i]

\* msg.Offset = int64(i) + offset
Offsets(off, n) == [i \in 1..n |-> off + i - 1]

\* produce succeeds: the node has written the messages and says where.
Produced(p) ==
    /\ writes[p].pc = "send" /\ conf.acks
    /\ log' = log \o Stored(writes[p].msgs)
    /\ writes' = [writes EXCEPT ![p].pc = "ok", ![p].offsets = Offsets(End, Len(writes[p].msgs))]
    /\ UNCHANGED <<format, start, faults, resp, consumerVars>>

\* Without acknowledgements produce returns 0 as soon as the request is sent, and
\* the messages get the offsets 0, 1, ...
Sent(p) ==
    /\ writes[p].pc = "send" /\ ~conf.acks
    /\ writes' = [writes EXCEPT ![p].pc = "sent", ![p].offsets = Offsets(0, Len(writes[p].msgs))]
    /\ UNCHANGED <<format, log, start, faults, resp, consumerVars>>

\* The node writes them later, or never.
NodeWrites(p) ==
    /\ writes[p].pc = "sent"
    /\ log' = log \o Stored(writes[p].msgs)
    /\ writes' = [writes EXCEPT ![p].pc = "stored"]
    /\ UNCHANGED <<format, start, faults, resp, consumerVars>>

\* produce fails, before or after the node wrote the messages, and is retried; a
\* request without acknowledgement fails only when it was not sent.
ProduceFails(p) ==
    /\ writes[p].pc = "send"
    /\ Fault
    /\ (conf.acks /\ log' = log \o Stored(writes[p].msgs)) \/ UNCHANGED log
    /\ writes' = [writes EXCEPT ![p].retry = @ + 1,
                                ![p].pc = IF MoreTries(writes[p].retry + 1) THEN "send" ELSE "error"]
    /\ UNCHANGED <<format, start, resp, consumerVars>>

-----------------------------------------------------------------------------
(* Reading a fetch response.                                               *)

\* ReadVersionedFetchResp calls readMessageSet until nothing is left that could be
\* a message, and keeps what the last call returned.  readMessageSet ends at the
\* first damaged message, after having read it, or where the response is cut: the
\* last call begins after the last damaged message, unless there is nothing there.
MessageSets(msgs, cut) ==
    LET damaged == {msgs[i].entry : i \in {j \in 1..Len(msgs) : ~msgs[j].ok}}
        later == SelectSeq(msgs, LAMBDA m : \A e \in damaged : m.entry > e)
        before == SelectSeq(msgs, LAMBDA m : m.ok /\ \A e \in damaged \ {Last(msgs).entry} : m.entry > e)
    IN IF damaged = {} THEN msgs
       ELSE IF later # <<>> \/ cut = "long" THEN later ELSE before

\* readRecordBatch refuses a damaged batch and takes all that follows a compressed
\* one for a part of it.
BatchesReadable(msgs, cut) ==
    /\ \A i \in 1..Len(msgs) : msgs[i].ok
    /\ format = "batchz" /\ msgs # <<>> => msgs[1].entry = Last(msgs).entry /\ cut = "none"

TrimForgotten(msgs) == msgs

\* Leading messages with a smaller offset than requested are removed.
trimLeadingMessages(msgs) ==
    LET first == SelectInSeq(msgs, LAMBDA m : m.offset >= offset)
    IN IF first = 0 THEN <<>> ELSE SubSeq(msgs, first, Len(msgs))

PartialBatchRefused ==
    IF format \in {"set", "setz"} THEN [ok |-> TRUE, msgs |-> trimLeadingMessages(MessageSets(resp.msgs, resp.cut))]
    ELSE [ok |-> BatchesReadable(resp.msgs, resp.cut) /\ resp.cut # "long",
          msgs |-> trimLeadingMessages(resp.msgs)]

\* What Fetch returns of a response: a partial last batch is ignored.
Fetched ==
    IF format \in {"set", "setz"} THEN [ok |-> TRUE, msgs |-> trimLeadingMessages(MessageSets(resp.msgs, resp.cut))]
    ELSE [ok |-> BatchesReadable(resp.msgs, resp.cut), msgs |-> trimLeadingMessages(resp.msgs)]

RetriableAll == {"NotLeaderForPartition", "OffsetOutOfRange"}

\* The errors after which extractMessages wants a retry; the others it returns.
Retriable == {"NotLeaderForPartition"}

-----------------------------------------------------------------------------
(* The consumer.                                                           *)

\* Broker.Consumer with StartOffset: oldest, newest or a number
Open ==
    /\ pc = "closed"
    /\ offset' \in {start, End, 1}
    /\ pc' = "idle"
    /\ UNCHANGED <<format, log, start, writes, faults, resp, conf, msgbuf, retry, empty, lastErr, out>>

Return(err) ==
    /\ pc' = "idle" /\ lastErr' = err /\ retry' = 0 /\ empty' = 0

\* The caller gets the first message, or all of them.
HandOut(msgs) ==
    LET given == IF conf.batch THEN msgs ELSE <<Head(msgs)>>
    IN /\ Return("none")
       /\ out' = out \o [i \in 1..Len(given) |-> [offset |-> given[i].offset, payload |-> given[i].payload]]
       /\ msgbuf' = SubSeq(msgs, Len(given) + 1, Len(msgs))
       /\ offset' = Last(given).offset + 1

\* Consume hands out what is in the buffer.
ConsumeBuffered ==
    /\ pc = "idle" /\ msgbuf # <<>>
    /\ HandOut(msgbuf)
    /\ UNCHANGED <<format, log, start, writes, faults, resp, conf>>

\* consume sends the first fetch request
Consume ==
    /\ pc = "idle" /\ msgbuf = <<>>
    /\ pc' = "wait"
    /\ UNCHANGED <<format, log, start, writes, faults, resp, conf, offset, msgbuf, retry, empty, lastErr, out>>

\* fetch returned no message: consume tries again, unless RetryLimit forbids it.
Nothing ==
    /\ IF conf.RetryLimit # -1 /\ empty + 1 > conf.RetryLimit
       THEN Return("ErrNoData")
       ELSE /\ empty' = IF conf.RetryLimit = -1 THEN 0 ELSE empty + 1
            /\ retry' = 0
            /\ UNCHANGED <<pc, lastErr>>
    /\ UNCHANGED <<offset, msgbuf, out>>

\* An attempt of fetch failed.  After the last one fetch returns the error of the
\* request, which is nil when the partition had the error.
Attempt(resErr) ==
    IF MoreTries(retry + 1) THEN retry' = retry + 1 /\ UNCHANGED <<pc, offset, msgbuf, empty, lastErr, out>>
    ELSE IF resErr = "nil" THEN Nothing
    ELSE Return(resErr) /\ UNCHANGED <<offset, msgbuf, out>>

\* The connection ends, or a new one cannot be had.
FetchDies ==
    /\ pc = "wait"
    /\ Fault
    /\ resp' = NoResp
    /\ Attempt("dead")
    /\ UNCHANGED <<format, log, start, writes, conf>>

Receive ==
    /\ pc = "wait" /\ resp # NoResp
    /\ resp' = NoResp
    /\ \E fetched \in {Fetched} :
          IF ~fetched.ok THEN Attempt("unknown")
          ELSE IF resp.err \in Retriable THEN Attempt("nil")
          ELSE IF resp.err # "nil" THEN Return(resp.err) /\ UNCHANGED <<offset, msgbuf, out>>
          ELSE IF fetched.msgs = <<>> THEN Nothing
          ELSE HandOut(fetched.msgs)
    /\ UNCHANGED <<format, log, start, writes, faults, conf>>

Next ==
    \/ \E p \in Producers : Produce(p) \/ Produced(p) \/ Sent(p) \/ NodeWrites(p) \/ ProduceFails(p)
    \/ Retention \/ Damage \/ NodeAnswers
    \/ Open \/ ConsumeBuffered \/ Consume \/ FetchDies \/ Receive

\* The user goes on consuming, and the node answers.
Fairness == WF_vars(NodeAnswers) /\ WF_vars(ConsumeBuffered \/ Consume) /\ WF_vars(Receive)

Spec == Init /\ [][Next]_vars /\ Fairness

-----------------------------------------------------------------------------
(* Properties.                                                             *)

Message == [offset : Nat, payload : Payloads, entry : Nat, ok : {TRUE}]

\* Types; fetch and Produce stay within their limits, and only Consume keeps a buffer.
TypeOK ==
    /\ format \in Formats /\ start \in 0..End /\ faults \in 0..MaxFaults
    /\ pc \in {"closed", "idle", "wait"} /\ offset \in Nat \cup {-1}
    /\ msgbuf \in Seq(Message) 
    /\ retry \in 0..(conf.RetryErrLimit - 1) /\ (conf.batch => msgbuf = <<>>)
    /\ \A p \in Producers : writes[p].retry \in 0..conf.RetryErrLimit

Reader == INSTANCE LogReader WITH
    log <- [i \in 1..End |-> log[i].payload], cursor <- offset

\* The consumer implements LogReader: Consume and ConsumeBatch return each message
\* from the start offset on once, in order, with its offset, whatever the format
\* and wherever responses are cut, although requests fail and are retried and
\* old messages are deleted meanwhile.
ReadsLog == Reader!Spec

WrittenAt(w) ==
    \A i \in 1..Len(w.msgs) :
        w.offsets[i] < End /\ log[w.offsets[i] + 1].payload = w.msgs[i]

\* A Produce with acknowledgements that succeeds, be it after retries that wrote the
\* messages before, has written its messages at the offsets it puts into them.
\* (Without acknowledgements they are wherever they get to, see OffsetUpdated.)
ProducedAtOffset == \A p \in Producers : writes[p].pc = "ok" => WrittenAt(writes[p])

\* "It returns the offset of the first message and any error encountered.  The
\* offset of each message is also updated accordingly" (Producer), which says
\* nothing of RequiredAcksNone.
OffsetUpdated == \A p \in Producers : writes[p].pc \in {"ok", "stored"} => WrittenAt(writes[p])

Damaged == \E i \in 1..End : ~log[i].ok

\* A consumer that goes on consuming catches up with the producers time and again,
\* unless a message was deleted before it got it; compressed record batches are read only one at a time.
KeepsUp ==
    format # "batchz" =>
        []<>(pc # "closed" => offset >= End \/ offset < start \/ Damaged)

\* A consumer whose next message was deleted gets ErrOffsetOutOfRange from a
\* Consume; it neither waits for ever nor goes on somewhere else.
DeletionReported ==
    (pc # "closed" /\ offset < start /\ ~Damaged) ~> (lastErr = "OffsetOutOfRange" \/ offset >= start \/ Damaged)

\* "ignore this message and because we want to have constant history, do not
\* process anything more" (readMessageSet): Consume returns no message after a
\* damaged one, so none is skipped.
ConstantHistory == \A i \in 1..(Len(out) - 1) : out[i + 1].offset = out[i].offset + 1
=============================================================================
