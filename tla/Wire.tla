-------------------------------- MODULE Wire --------------------------------
(***************************************************************************)
(* The wire format of src/v2/proto: the fields that the Bytes method of    *)
(* each message writes and that its Read function reads, in each version,  *)
(* and an exchange of such messages over a connection.  The client sends   *)
(* requests on one stream, the node reads them and answers in any order on *)
(* another one, and the client reads the responses, each one in the        *)
(* version of its request.  The connection may break between any two bytes.*)
(*                                                                         *)
(* A stream is a sequence of runs of bytes [v |-> value, w |-> bytes], one *)
(* for each encoded value.  Reading some bytes that are not those of one   *)
(* value gives Garbled.  An error is its number, a duration or a time is   *)
(* in microseconds, a string is an integer that tells its length.          *)
(*                                                                         *)
(* A message set is here a number of messages of equal size that are not   *)
(* compressed.  What else can be in one is in module Consumer.             *)
(*                                                                         *)
(* An operator that nothing uses and that stands right before another one  *)
(* (ReadOffsetCommitReqSince before ReadOffsetCommitReq) is the other one  *)
(* with a slip in it.  It takes the place of the other one to see that a   *)
(* property notices.                                                       *)
(***************************************************************************)
EXTENDS Integers, Sequences, FiniteSets

CONSTANTS
    Asked,      \* the requests of the first call: [kind, version, shape, sample]
    AskedNext,  \* the requests of the second call
    ErrNos,     \* the numbers of the errors that a node reports
    Cut         \* bound: the requests during which the connection may break

Kinds == {"Produce", "Fetch", "Offset", "Metadata", "OffsetCommit", "OffsetFetch",
          "ConsumerMetadata", "APIVersions", "CreateTopics"}

\* A request of a call (whose ID is filled in later): how many elements the arrays at each depth have, and a choice of values.
Request == [kind : Kinds, version : 0..5, shape : [1..3 -> Nat], sample : 1..3, id : {0}]

ASSUME WireAssumption ==
    /\ Asked \subseteq Request /\ AskedNext \subseteq Request
    /\ ErrNos \subseteq -1..71

Calls == {1, 2}  \* the correlation IDs of two goroutines that use the connection

VARIABLES
    ask,      \* the requests
    up,       \* the bytes on their way to the node
    down,     \* the bytes on their way to the client
    broken,   \* nothing more arrives than what is on its way
    pc,       \* where each call is
    heard,    \* what the node read of each request
    result    \* what each call returned

vars == <<ask, up, down, broken, pc, heard, result>>

-----------------------------------------------------------------------------
(* Fields.                                                                 *)

Field(t, n, of) == [t |-> t, n |-> n, of |-> of, d |-> 0]

I8(n) == Field("i8", n, <<>>)
I16(n) == Field("i16", n, <<>>)
I32(n) == Field("i32", n, <<>>)
I64(n) == Field("i64", n, <<>>)
Bool(n) == Field("bool", n, <<>>)
Str(n) == Field("str", n, <<>>)
Err(n) == Field("err", n, <<>>)
Dur(n) == Field("dur", n, <<>>)
Time(n) == Field("time", n, <<>>)
MinusOne(n) == Field("minusone", n, <<>>)  \* an int32 that is always -1
Zero16 == Field("zero", "", <<>>)          \* an int16 that is always 0
First(n) == Field("first", n, <<>>)        \* the first of some int64, or 0
Set(n) == Field("set", n, <<>>)            \* a message set and its size
RestSet(n) == Field("rest", n, <<>>)       \* one read without regard to its size

\* An array at nesting depth d.  NullArr writes -1 for the length of an empty one.
Arr(n, d, of) == [Field("arr", n, of) EXCEPT !.d = d]
NullArr(n, d, of) == [Field("null", n, of) EXCEPT !.d = d]

\* Fields without a name are skipped by the reader.
Skip16 == I16("")
Skip32 == I32("")

\* if version >= ... { fields }
When(c, fields) == IF c THEN fields ELSE <<>>

-----------------------------------------------------------------------------
(* Requests, as written by Bytes and as read by Read.                      *)

\* message size, kind, version, correlation ID, client ID
encodeHeader == <<Skip32, I16("kind"), I16("version"), I32("CorrelationID"), Str("ClientID")>>
decodeHeader == <<Skip32, Skip16, I16("version"), I32("CorrelationID"), Str("ClientID")>>

MetadataReqBytes(v) ==
    encodeHeader
    \o <<IF v >= 1 THEN NullArr("Topics", 1, <<Str("Name")>>) ELSE Arr("Topics", 1, <<Str("Name")>>)>>
    \o When(v >= 4, <<Bool("AllowAutoTopicCreation")>>)

ReadMetadataReq(v) ==
    decodeHeader \o <<Arr("Topics", 1, <<Str("Name")>>)>>
    \o When(v >= 4, <<Bool("AllowAutoTopicCreation")>>)

FetchReqBytes(v) ==
    encodeHeader \o <<MinusOne("ReplicaID"), Dur("MaxWaitTime"), I32("MinBytes")>>
    \o When(v >= 3, <<I32("MaxBytes")>>)
    \o When(v >= 4, <<I8("IsolationLevel")>>)
    \o <<Arr("Topics", 1, <<Str("Name"),
           Arr("Partitions", 2, <<I32("ID"), I64("FetchOffset")>>
                                \o When(v >= 5, <<I64("LogStartOffset")>>)
                                \o <<I32("MaxBytes")>>)>>)>>

ReadFetchReq(v) ==
    decodeHeader \o <<I32("ReplicaID"), Dur("MaxWaitTime"), I32("MinBytes")>>
    \o When(v >= 3, <<I32("MaxBytes")>>)
    \o When(v >= 4, <<I8("IsolationLevel")>>)
    \o <<Arr("Topics", 1, <<Str("Name"),
           Arr("Partitions", 2, <<I32("ID"), I64("FetchOffset")>>
                                \o When(v >= 5, <<I64("LogStartOffset")>>)
                                \o <<I32("MaxBytes")>>)>>)>>

\* CoordinatorType is not written.
ConsumerMetadataReqBytes(v) == encodeHeader \o <<Str("ConsumerGroup")>>

ReadConsumerMetadataReq(v) ==
    decodeHeader \o <<Str("ConsumerGroup")>> \o When(v >= 1, <<I8("CoordinatorType")>>)

OffsetCommitReqBytes(v) ==
    encodeHeader \o <<Str("ConsumerGroup")>>
    \o When(v >= 1, <<I32("GroupGenerationID"), Str("MemberID")>>)
    \o When(v >= 2, <<I64("RetentionTime")>>)
    \o <<Arr("Topics", 1, <<Str("Name"),
           Arr("Partitions", 2, <<I32("ID"), I64("Offset")>>
                                \o When(v = 1, <<Time("TimeStamp")>>)
                                \o <<Str("Metadata")>>)>>)>>

ReadOffsetCommitReqSince(v) ==
    decodeHeader \o <<Str("ConsumerGroup")>>
    \o When(v >= 1, <<I32("GroupGenerationID"), Str("MemberID")>>)
    \o When(v >= 2, <<I64("RetentionTime")>>)
    \o <<Arr("Topics", 1, <<Str("Name"),
           Arr("Partitions", 2, <<I32("ID"), I64("Offset")>>
                                \o When(v >= 1, <<Time("TimeStamp")>>)
                                \o <<Str("Metadata")>>)>>)>>

ReadOffsetCommitReq(v) ==
    decodeHeader \o <<Str("ConsumerGroup")>>
    \o When(v >= 1, <<I32("GroupGenerationID"), Str("MemberID")>>)
    \o When(v >= 2, <<I64("RetentionTime")>>)
    \o <<Arr("Topics", 1, <<Str("Name"),
           Arr("Partitions", 2, <<I32("ID"), I64("Offset")>>
                                \o When(v = 1, <<Time("TimeStamp")>>)
                                \o <<Str("Metadata")>>)>>)>>

OffsetFetchReqBytes(v) ==
    encodeHeader \o <<Str("ConsumerGroup")>>
    \o <<Arr("Topics", 1, <<Str("Name"), Arr("Partitions", 2, <<I32("ID")>>)>>)>>

ReadOffsetFetchReq(v) ==
    decodeHeader \o <<Str("ConsumerGroup")>>
    \o <<Arr("Topics", 1, <<Str("Name"), Arr("Partitions", 2, <<I32("ID")>>)>>)>>

ProduceReqBytes(v) ==
    encodeHeader \o When(v >= 3, <<Str("TransactionalID")>>)
    \o <<I16("RequiredAcks"), Dur("Timeout"),
         Arr("Topics", 1, <<Str("Name"), Arr("Partitions", 2, <<I32("ID"), Set("Messages")>>)>>)>>

ReadProduceReq(v) ==
    decodeHeader \o When(v >= 3, <<Str("TransactionalID")>>)
    \o <<I16("RequiredAcks"), Dur("Timeout"),
         Arr("Topics", 1, <<Str("Name"), Arr("Partitions", 2, <<I32("ID"), RestSet("Messages")>>)>>)>>

OffsetReqBytes(v) ==
    encodeHeader \o <<MinusOne("ReplicaID")>> \o When(v >= 2, <<I8("IsolationLevel")>>)
    \o <<Arr("Topics", 1, <<Str("Name"),
           Arr("Partitions", 2, <<I32("ID"), I64("TimeMs")>>
                                \o When(v = 0, <<I32("MaxOffsets")>>))>>)>>

ReadOffsetReq(v) ==
    decodeHeader \o <<I32("ReplicaID")>> \o When(v >= 2, <<I8("IsolationLevel")>>)
    \o <<Arr("Topics", 1, <<Str("Name"),
           Arr("Partitions", 2, <<I32("ID"), I64("TimeMs")>>
                                \o When(v = 0, <<I32("MaxOffsets")>>))>>)>>

CreateTopicsReqBytes(v) ==
    encodeHeader
    \o <<Arr("CreateTopicsRequests", 1,
           <<Str("Topic"), I32("NumPartitions"), I16("ReplicationFactor"),
             Arr("ReplicaAssignments", 2, <<I32("Partition"), Arr("Replicas", 3, <<I32("Replica")>>)>>),
             Arr("ConfigEntries", 2, <<Str("ConfigName"), Str("ConfigValue")>>)>>),
         Dur("Timeout")>>
    \o When(v >= 1, <<Bool("ValidateOnly")>>)

ReadCreateTopicsReq(v) ==
    decodeHeader
    \o <<Arr("CreateTopicsRequests", 1,
           <<Str("Topic"), I32("NumPartitions"), I16("ReplicationFactor"),
             Arr("ReplicaAssignments", 2, <<I32("Partition"), Arr("Replicas", 3, <<I32("Replica")>>)>>),
             Arr("ConfigEntries", 2, <<Str("ConfigName"), Str("ConfigValue")>>)>>),
         Dur("Timeout")>>
    \o When(v >= 1, <<Bool("ValidateOnly")>>)

APIVersionsReqBytes(v) == encodeHeader

\* The kind and the version are skipped as one int32.
ReadAPIVersionsReq(v) == <<Skip32, Skip32, I32("CorrelationID"), Str("ClientID")>>

-----------------------------------------------------------------------------
(* Responses.                                                              *)

RespHeader == <<Skip32, I32("CorrelationID")>>

MetadataRespBytes(v) ==
    RespHeader \o When(v >= 3, <<Dur("ThrottleTime")>>)
    \o <<Arr("Brokers", 1, <<I32("NodeID"), Str("Host"), I32("Port")>> \o When(v >= 1, <<Str("Rack")>>))>>
    \o When(v >= 2, <<Str("ClusterID")>>)
    \o When(v >= 1, <<I32("ControllerID")>>)
    \o <<Arr("Topics", 1, <<Err("Err"), Str("Name")>> \o When(v >= 1, <<Bool("IsInternal")>>)
         \o <<Arr("Partitions", 2, <<Err("Err"), I32("ID"), I32("Leader"),
                 Arr("Replicas", 3, <<I32("Replica")>>), Arr("Isrs", 3, <<I32("Isr")>>)>>
               \o When(v >= 5, <<Arr("OfflineReplicas", 3, <<I32("Replica")>>)>>))>>)>>

ReadMetadataResp(v) ==
    RespHeader \o When(v >= 3, <<Dur("ThrottleTime")>>)
    \o <<Arr("Brokers", 1, <<I32("NodeID"), Str("Host"), I32("Port")>> \o When(v >= 1, <<Str("Rack")>>))>>
    \o When(v >= 2, <<Str("ClusterID")>>)
    \o When(v >= 1, <<I32("ControllerID")>>)
    \o <<Arr("Topics", 1, <<Err("Err"), Str("Name")>> \o When(v >= 1, <<Bool("IsInternal")>>)
         \o <<Arr("Partitions", 2, <<Err("Err"), I32("ID"), I32("Leader"),
                 Arr("Replicas", 3, <<I32("Replica")>>), Arr("Isrs", 3, <<I32("Isr")>>)>>
               \o When(v >= 5, <<Arr("OfflineReplicas", 3, <<I32("Replica")>>)>>))>>)>>

FetchRespBytes(v) ==
    RespHeader \o When(v >= 1, <<Dur("ThrottleTime")>>)
    \o <<Arr("Topics", 1, <<Str("Name"),
           Arr("Partitions", 2, <<I32("ID"), Err("Err"), I64("TipOffset")>>
               \o When(v >= 4, <<I64("LastStableOffset")>> \o When(v >= 5, <<I64("LogStartOffset")>>)
                   \o <<Arr("AbortedTransactions", 3, <<I64("ProducerID"), I64("FirstOffset")>>)>>)
               \o <<Set("Messages")>>)>>)>>

ReadFetchResp(v) ==
    RespHeader \o When(v >= 1, <<Dur("ThrottleTime")>>)
    \o <<Arr("Topics", 1, <<Str("Name"),
           Arr("Partitions", 2, <<I32("ID"), Err("Err"), I64("TipOffset")>>
               \o When(v >= 4, <<I64("LastStableOffset")>> \o When(v >= 5, <<I64("LogStartOffset")>>)
                   \o <<Arr("AbortedTransactions", 3, <<I64("ProducerID"), I64("FirstOffset")>>)>>)
               \o <<Set("Messages")>>)>>)>>

ConsumerMetadataRespBytes(v) ==
    RespHeader \o When(v >= 1, <<Dur("ThrottleTime")>>) \o <<Err("Err")>>
    \o When(v >= 1, <<Str("ErrMsg")>>)
    \o <<I32("CoordinatorID"), Str("CoordinatorHost"), I32("CoordinatorPort")>>

ReadConsumerMetadataResp(v) ==
    RespHeader \o When(v >= 1, <<Dur("ThrottleTime")>>) \o <<Err("Err")>>
    \o When(v >= 1, <<Str("ErrMsg")>>)
    \o <<I32("CoordinatorID"), Str("CoordinatorHost"), I32("CoordinatorPort")>>

OffsetCommitRespBytes(v) ==
    RespHeader \o When(v >= 3, <<Dur("ThrottleTime")>>)
    \o <<Arr("Topics", 1, <<Str("Name"), Arr("Partitions", 2, <<I32("ID"), Err("Err")>>)>>)>>

ReadOffsetCommitResp(v) ==
    RespHeader \o When(v >= 3, <<Dur("ThrottleTime")>>)
    \o <<Arr("Topics", 1, <<Str("Name"), Arr("Partitions", 2, <<I32("ID"), Err("Err")>>)>>)>>

OffsetFetchRespBytes(v) ==
    RespHeader \o When(v >= 3, <<Dur("ThrottleTime")>>)
    \o <<Arr("Topics", 1, <<Str("Name"),
           Arr("Partitions", 2, <<I32("ID"), I64("Offset"), Str("Metadata"), Err("Err")>>)>>)>>
    \o When(v >= 2, <<Err("Err")>>)

ReadOffsetFetchResp(v) ==
    RespHeader \o When(v >= 3, <<Dur("ThrottleTime")>>)
    \o <<Arr("Topics", 1, <<Str("Name"),
           Arr("Partitions", 2, <<I32("ID"), I64("Offset"), Str("Metadata"), Err("Err")>>)>>)>>
    \o When(v >= 2, <<Err("Err")>>)

ProduceRespBytes(v) ==
    RespHeader
    \o <<Arr("Topics", 1, <<Str("Name"),
           Arr("Partitions", 2, <<I32("ID"), Err("Err"), I64("Offset")>>
                                \o When(v >= 2, <<I64("LogAppendTime")>>))>>)>>
    \o When(v >= 1, <<Dur("ThrottleTime")>>)

ReadProduceRespThrottled(v) ==
    RespHeader \o When(v >= 1, <<Dur("ThrottleTime")>>)
    \o <<Arr("Topics", 1, <<Str("Name"),
           Arr("Partitions", 2, <<I32("ID"), Err("Err"), I64("Offset")>>
                                \o When(v >= 2, <<I64("LogAppendTime")>>))>>)>>

ReadProduceResp(v) ==
    RespHeader
    \o <<Arr("Topics", 1, <<Str("Name"),
           Arr("Partitions", 2, <<I32("ID"), Err("Err"), I64("Offset")>>
                                \o When(v >= 2, <<I64("LogAppendTime")>>))>>)>>
    \o When(v >= 1, <<Dur("ThrottleTime")>>)

OffsetRespBytes(v) ==
    RespHeader \o When(v >= 2, <<Dur("ThrottleTime")>>)
    \o <<Arr("Topics", 1, <<Str("Name"),
           Arr("Partitions", 2, <<I32("ID"), Err("Err")>>
               \o (IF v >= 1 THEN <<Time("TimeStamp"), First("Offset")>>
                             ELSE <<Arr("Offsets", 3, <<I64("Offset")>>)>>))>>)>>

ReadOffsetResp(v) ==
    RespHeader \o When(v >= 2, <<Dur("ThrottleTime")>>)
    \o <<Arr("Topics", 1, <<Str("Name"),
           Arr("Partitions", 2, <<I32("ID"), Err("Err")>>
               \o (IF v >= 1 THEN <<Time("TimeStamp"), I64("Offset")>>
                             ELSE <<Arr("Offsets", 3, <<I64("Offset")>>)>>))>>)>>

CreateTopicsRespBytes(v) ==
    RespHeader \o When(v >= 2, <<Dur("ThrottleTime")>>)
    \o <<Arr("TopicErrors", 1, <<Str("Topic"), I16("ErrorCode")>> \o When(v >= 1, <<Str("ErrorMessage")>>))>>

ReadCreateTopicsResp(v) ==
    RespHeader \o When(v >= 2, <<Dur("ThrottleTime")>>)
    \o <<Arr("TopicErrors", 1, <<Str("Topic"), I16("ErrorCode")>> \o When(v >= 1, <<Str("ErrorMessage")>>))>>

APIVersionsRespBytes(v) ==
    RespHeader
    \o <<Zero16, Arr("APIVersions", 1, <<I16("APIKey"), I16("MinVersion"), I16("MaxVersion")>>)>>
    \o When(v >= 1, <<Dur("ThrottleTime")>>)

\* A code other than 0 is an error.
ReadAPIVersionsResp(v) ==
    RespHeader
    \o <<Zero16, Arr("APIVersions", 1, <<I16("APIKey"), I16("MinVersion"), I16("MaxVersion")>>)>>
    \o When(v >= 1, <<Dur("ThrottleTime")>>)

-----------------------------------------------------------------------------
(* Which layout goes with which kind.                                      *)

KindNo ==
    [Produce |-> 0, Fetch |-> 1, Offset |-> 2, Metadata |-> 3, OffsetCommit |-> 8, OffsetFetch |-> 9,
     ConsumerMetadata |-> 10, APIVersions |-> 18, CreateTopics |-> 19]

ReqBytes(kind, v) ==
    CASE kind = "Produce" -> ProduceReqBytes(v)
      [] kind = "Fetch" -> FetchReqBytes(v)
      [] kind = "Offset" -> OffsetReqBytes(v)
      [] kind = "Metadata" -> MetadataReqBytes(v)
      [] kind = "OffsetCommit" -> OffsetCommitReqBytes(v)
      [] kind = "OffsetFetch" -> OffsetFetchReqBytes(v)
      [] kind = "ConsumerMetadata" -> ConsumerMetadataReqBytes(v)
      [] kind = "APIVersions" -> APIVersionsReqBytes(v)
      [] kind = "CreateTopics" -> CreateTopicsReqBytes(v)

ReqReader(kind, v) ==
    CASE kind = "Produce" -> ReadProduceReq(v)
      [] kind = "Fetch" -> ReadFetchReq(v)
      [] kind = "Offset" -> ReadOffsetReq(v)
      [] kind = "Metadata" -> ReadMetadataReq(v)
      [] kind = "OffsetCommit" -> ReadOffsetCommitReq(v)
      [] kind = "OffsetFetch" -> ReadOffsetFetchReq(v)
      [] kind = "ConsumerMetadata" -> ReadConsumerMetadataReq(v)
      [] kind = "APIVersions" -> ReadAPIVersionsReq(v)
      [] kind = "CreateTopics" -> ReadCreateTopicsReq(v)

RespBytes(kind, v) ==
    CASE kind = "Produce" -> ProduceRespBytes(v)
      [] kind = "Fetch" -> FetchRespBytes(v)
      [] kind = "Offset" -> OffsetRespBytes(v)
      [] kind = "Metadata" -> MetadataRespBytes(v)
      [] kind = "OffsetCommit" -> OffsetCommitRespBytes(v)
      [] kind = "OffsetFetch" -> OffsetFetchRespBytes(v)
      [] kind = "ConsumerMetadata" -> ConsumerMetadataRespBytes(v)
      [] kind = "APIVersions" -> APIVersionsRespBytes(v)
      [] kind = "CreateTopics" -> CreateTopicsRespBytes(v)

\* The reader that the method of connection uses: always version 0 for CreateTopic.
RespReader(kind, v) ==
    CASE kind = "Produce" -> ReadProduceResp(v)
      [] kind = "Fetch" -> ReadFetchResp(v)
      [] kind = "Offset" -> ReadOffsetResp(v)
      [] kind = "Metadata" -> ReadMetadataResp(v)
      [] kind = "OffsetCommit" -> ReadOffsetCommitResp(v)
      [] kind = "OffsetFetch" -> ReadOffsetFetchResp(v)
      [] kind = "ConsumerMetadata" -> ReadConsumerMetadataResp(v)
      [] kind = "APIVersions" -> ReadAPIVersionsResp(v)
      [] kind = "CreateTopics" -> ReadCreateTopicsResp(0)

-----------------------------------------------------------------------------
(* Encoding.                                                               *)

Run(v, w) == [v |-> v, w |-> w]

Garbled == -2147483647

Width ==
    [i8 |-> 1, bool |-> 1, i16 |-> 2, err |-> 2, zero |-> 2, i32 |-> 4, dur |-> 4, minusone |-> 4,
     i64 |-> 8, time |-> 8, first |-> 8, msg |-> 26]

Largest == [i8 |-> 127, i16 |-> 32767, i32 |-> 2147483647, i64 |-> 2147483647, msg |-> 2147483647]

\* Strings: the k-th one with length l.
String(k, l) == IF l = 0 THEN 0 ELSE k * 32768 + l
Length(s) == s % 32768

\* The value that the k-th field of a message has.
Value(f, m, k) ==
    CASE f.n = "kind" -> KindNo[m.kind]
      [] f.n = "version" -> m.version
      [] f.n = "CorrelationID" -> m.id
      [] f.n = "" -> 0
      [] f.t = "str" -> String(k, IF m.sample = 2 /\ k % 5 = 0 THEN 32767 ELSE (k + m.sample) % 3)
      [] f.t \in {"dur", "time"} -> 1000 * k + 250 * m.sample
      [] f.t = "bool" -> (k + m.sample) % 2
      [] f.t = "err" -> LET e == ((11 * k + 17 * m.sample) % 73) - 1 IN IF e \in ErrNos THEN e ELSE 0
      [] f.t = "minusone" -> -1
      [] f.t = "first" /\ m.shape[3] = 0 -> 0
      [] f.t = "first" -> k
      [] m.sample = 1 -> k
      [] m.sample = 2 -> Largest[f.t] - k
      [] m.sample = 3 -> -k

EncodeArrayLen(f, n) == IF f.t = "null" /\ n = 0 THEN -1 ELSE n

Msg == Field("msg", "Message", <<>>)
MsgSize == 26  \* of a message without key and value

Put(f, v) ==
    CASE f.t = "str" -> <<Run(Length(v) % 65536, 2)>> \o When(Length(v) > 0, <<Run(v, Length(v))>>)
      [] f.t \in {"arr", "null"} -> <<Run(EncodeArrayLen(f, v), 4)>>
      [] f.t = "set" -> <<Run(MsgSize * v, 4)>>
      [] f.t \in {"dur", "time"} -> <<Run(v \div 1000, Width[f.t])>>
      [] OTHER -> <<Run(v, Width[f.t])>>

\* Recursion over sequences goes by halves, to keep it shallow.
FirstHalf(s) == SubSeq(s, 1, Len(s) \div 2)
SecondHalf(s) == SubSeq(s, Len(s) \div 2 + 1, Len(s))

\* The sequences in s, one after the other.
RECURSIVE Concat(_)
Concat(s) ==
    IF s = <<>> THEN <<>>
    ELSE IF Len(s) = 1 THEN s[1]
    ELSE Concat(FirstHalf(s)) \o Concat(SecondHalf(s))

Times(n, fields) == [i \in 1..(n * Len(fields)) |-> fields[((i - 1) % Len(fields)) + 1]]

\* The number of elements of an array or a message set.
Count(f, m) == m.shape[IF f.t = "set" THEN 3 ELSE f.d]

\* All fields that are written, with those of the elements after each length.
RECURSIVE Encode(_, _)
Encode(fields, m) ==
    Concat([i \in 1..Len(fields) |->
        LET f == fields[i]
        IN <<f>> \o (CASE f.t \in {"arr", "null"} -> Encode(Times(Count(f, m), f.of), m)
                       [] f.t = "set" -> Times(Count(f, m), <<Msg>>)
                       [] OTHER -> <<>>)])

\* Durations and times are written in milliseconds.
Precision(f) == IF f.t \in {"dur", "time"} THEN "ms" ELSE "exact"

\* The bytes that are written, and the values they are for.
Encoded(fields, m) ==
    LET all == Encode(fields, m)
        v(i) == IF all[i].t \in {"arr", "null", "set"} THEN Count(all[i], m) ELSE Value(all[i], m, i - 1)
    IN [bytes |-> Concat([i \in 1..Len(all) |-> Put(all[i], v(i))]),
        vals |-> [i \in 1..Len(all) |-> <<all[i].n, Precision(all[i]), v(i)>>]]

RECURSIVE Size(_)
Size(bytes) ==
    IF bytes = <<>> THEN 0
    ELSE IF Len(bytes) = 1 THEN bytes[1].w
    ELSE Size(FirstHalf(bytes)) + Size(SecondHalf(bytes))

SizedWhole(bytes) == <<Run(Size(bytes), 4)>> \o Tail(bytes)

SizedShort(bytes) == <<Run(Size(bytes) - 5, 4)>> \o Tail(bytes)

\* binary.BigEndian.PutUint32(b, uint32(len(b)-4))
Sized(bytes) == <<Run(Size(bytes) - 4, 4)>> \o Tail(bytes)

-----------------------------------------------------------------------------
(* Decoding.                                                               *)

\* io.ReadFull of n bytes
RECURSIVE Split(_, _)
Split(n, bytes) ==
    IF n = 0 THEN [ok |-> TRUE, taken |-> <<>>, rest |-> bytes]
    ELSE IF n < 0 \/ bytes = <<>> THEN [ok |-> FALSE, taken |-> <<>>, rest |-> <<>>]
    ELSE IF Head(bytes).w = n THEN [ok |-> TRUE, taken |-> <<Head(bytes)>>, rest |-> Tail(bytes)]
    ELSE IF Head(bytes).w > n
         THEN [ok |-> TRUE, taken |-> <<Run(Garbled, n)>>,
               rest |-> <<Run(Garbled, Head(bytes).w - n)>> \o Tail(bytes)]
    ELSE IF Len(bytes) = 1 THEN [ok |-> FALSE, taken |-> bytes, rest |-> <<>>]
    ELSE LET size == Size(FirstHalf(bytes))
         IN IF n <= size
            THEN [Split(n, FirstHalf(bytes)) EXCEPT !.rest = @ \o SecondHalf(bytes)]
            ELSE [Split(n - size, SecondHalf(bytes)) EXCEPT !.taken = FirstHalf(bytes) \o @]

\* The value of the next n bytes.
Take(n, bytes) ==
    LET s == Split(n, bytes)
    IN [ok |-> s.ok, rest |-> s.rest, v |-> IF Len(s.taken) = 1 THEN s.taken[1].v ELSE Garbled]

Int16(x) == IF x >= 32768 THEN x - 65536 ELSE x

\* The length of a string or of an array, the size of a message: not from the wrong bytes.
IsCount(r) == r.ok /\ r.v # Garbled

DecodeString(bytes) ==
    LET l == Take(2, bytes)
    IN IF ~IsCount(l) THEN [l EXCEPT !.ok = FALSE]
       ELSE IF Int16(l.v) < 1 THEN [l EXCEPT !.v = 0]
       ELSE Take(Int16(l.v), l.rest)

\* errFromNo with the table errnoToErr, in which 32 stands for the error 28
errFromNo(n) == IF n = 32 THEN 28 ELSE n

Read(f, v) ==
    CASE v = Garbled -> Garbled
      [] f.t \in {"dur", "time"} -> v * 1000
      [] f.t = "err" -> errFromNo(v)
      [] OTHER -> v

Kept(vals, f, v) == IF f.n = "" THEN vals ELSE Append(vals, <<f.n, Precision(f), v>>)

\* The decoder keeps its first error; the Read functions return it at the end, if not before.
RECURSIVE Decode(_, _)
DecodeField(f, in) ==
    LET failed == [ok |-> FALSE, vals |-> <<>>, bytes |-> <<>>]
        n == Take(4, in.bytes)
        len == IF n.v = -1 THEN 0 ELSE n.v
        left == Size(n.rest)
        msgs == (IF f.t = "rest" \/ n.v > left THEN left ELSE n.v) \div MsgSize
        r == IF f.t = "str" THEN DecodeString(in.bytes) ELSE Take(Width[f.t], in.bytes)
        Next(bytes, v) == [ok |-> TRUE, bytes |-> bytes, vals |-> Kept(in.vals, f, v)]
    \* More elements than there are bytes left end in an error, a length below -1 in a panic.
    IN CASE f.t \in {"arr", "null"} ->
              IF IsCount(n) /\ len \in 0..left THEN Decode(Times(len, f.of), Next(n.rest, len)) ELSE failed
         [] f.t \in {"set", "rest"} ->
              IF IsCount(n) /\ n.v >= 0 THEN Decode(Times(msgs, <<Msg>>), Next(n.rest, msgs)) ELSE failed
         [] OTHER -> IF r.ok /\ (f.t = "zero" => r.v = 0) THEN Next(r.rest, Read(f, r.v)) ELSE failed

Decode(fields, in) ==
    IF fields = <<>> \/ ~in.ok THEN in
    ELSE IF Len(fields) = 1 THEN DecodeField(fields[1], in)
    ELSE Decode(SecondHalf(fields), Decode(FirstHalf(fields), in))

Decoded(fields, bytes) ==
    LET d == Decode(fields, [ok |-> TRUE, bytes |-> bytes, vals |-> <<>>])
    IN [ok |-> d.ok, vals |-> d.vals]

\* ReadReq and ReadResp: the size, the w bytes of the request's kind or of the
\* correlation ID, and the rest of the message.
Frame(bytes, w) ==
    LET s == Take(4, bytes)
        id == Take(w, s.rest)
        body == Split(s.v - w, id.rest)
    IN IF IsCount(s) /\ id.ok /\ body.ok
       THEN [ok |-> TRUE, id |-> id.v, bytes |-> <<Run(s.v, 4), Run(id.v, w)>> \o body.taken, rest |-> body.rest]
       ELSE [ok |-> FALSE, id |-> Garbled, bytes |-> <<>>, rest |-> <<>>]

-----------------------------------------------------------------------------
(* The exchange.                                                           *)

None == [ok |-> FALSE, vals |-> <<"none">>]
Error == [ok |-> FALSE, vals |-> <<>>]

\* The requests of the calls and the answers, which have other values than the requests.
Exchanged == (Asked \cup AskedNext) \X Calls

Requests == [x \in Exchanged |-> Encoded(ReqBytes(x[1].kind, x[1].version), [x[1] EXCEPT !.id = x[2]])]

Answers ==
    [x \in Exchanged |-> Encoded(RespBytes(x[1].kind, x[1].version),
                                 [x[1] EXCEPT !.id = x[2], !.sample = (x[1].sample % 3) + 1])]

ReqOf(c) == Requests[<<ask[c], c>>]

\* In the version of the request as it was read.
RespTo(c, v) == Answers[<<[ask[c] EXCEPT !.version = v], c>>]

Unheard == [kind |-> "none", version |-> 0, vals |-> <<>>, open |-> FALSE]

Init ==
    /\ ask \in {<<a, b>> : a \in Asked, b \in AskedNext}
    /\ up = <<>> /\ down = <<>>
    /\ broken = "no"
    /\ pc = [c \in Calls |-> "idle"]
    /\ heard = [c \in Calls |-> Unheard]
    /\ result = [c \in Calls |-> None]

WriteTo(c) ==
    /\ pc[c] = "idle" /\ broken = "no"
    /\ up' = up \o Sized(ReqOf(c).bytes)
    /\ pc' = [pc EXCEPT ![c] = "sent"]
    /\ UNCHANGED <<ask, down, broken, heard, result>>

WriteToFails(c) ==
    /\ pc[c] = "idle" /\ broken # "no"
    /\ pc' = [pc EXCEPT ![c] = "returned"]
    /\ result' = [result EXCEPT ![c] = Error]
    /\ UNCHANGED <<ask, up, down, broken, heard>>

\* A request as its Read function takes it from a message.  The version is in the
\* header of the message, except that ReadAPIVersionsReq skips it.
ReadAs(kind, bytes) ==
    LET v == IF kind = "APIVersions" THEN 0 ELSE Take(2, Split(6, bytes).rest).v
        d == IF kind \in Kinds THEN Decoded(ReqReader(kind, v), bytes) ELSE [ok |-> FALSE, vals |-> <<>>]
    IN [kind |-> kind, version |-> v, vals |-> d.vals, open |-> d.ok]

KindOf(n) == IF \E k \in Kinds : KindNo[k] = n THEN CHOOSE k \in Kinds : KindNo[k] = n ELSE "unknown"

IDOf(vals) == SelectSeq(vals, LAMBDA x : x[1] = "CorrelationID")[1][3]

NodeReads ==
    \E f \in {Frame(up, 2)} :
       /\ f.ok
       /\ up' = f.rest
       /\ \E req \in {ReadAs(KindOf(f.id), f.bytes)} :
             IF req.open /\ IDOf(req.vals) \in Calls
             THEN /\ heard' = [heard EXCEPT ![IDOf(req.vals)] = req]
                  /\ UNCHANGED broken
             ELSE /\ broken' = "refused"
                  /\ UNCHANGED heard
       /\ UNCHANGED <<ask, down, pc, result>>

NodeAnswers(c) ==
    /\ heard[c].open /\ broken = "no"
    /\ down' = down \o Sized(RespTo(c, heard[c].version).bytes)
    /\ heard' = [heard EXCEPT ![c].open = FALSE]
    /\ UNCHANGED <<ask, up, broken, pc, result>>

\* The method of connection decodes the response in the version of its request.
ReadResp ==
    \E f \in {Frame(down, 4)} :
       /\ f.ok
       /\ down' = f.rest
       /\ IF f.id \in Calls /\ pc[f.id] = "sent"
          THEN /\ result' = [result EXCEPT ![f.id] = Decoded(RespReader(ask[f.id].kind, ask[f.id].version), f.bytes)]
               /\ pc' = [pc EXCEPT ![f.id] = "returned"]
          ELSE UNCHANGED <<result, pc>>
       /\ UNCHANGED <<ask, up, broken, heard>>

\* Nothing more comes: every call that waits fails.
ReadRespFails ==
    /\ broken # "no" /\ ~Frame(down, 4).ok
    /\ \E c \in Calls : pc[c] = "sent"
    /\ pc' = [c \in Calls |-> IF pc[c] = "idle" THEN "idle" ELSE "returned"]
    /\ result' = [c \in Calls |-> IF pc[c] = "sent" THEN Error ELSE result[c]]
    /\ UNCHANGED <<ask, up, down, broken, heard>>

Break ==
    /\ broken = "no" /\ ask[1] \in Cut
    /\ \E i \in 0..Size(up), j \in 0..Size(down) :
          up' = Split(i, up).taken /\ down' = Split(j, down).taken
    /\ broken' = "cut"
    /\ UNCHANGED <<ask, pc, heard, result>>

Next ==
    \/ \E c \in Calls : WriteTo(c) \/ WriteToFails(c) \/ NodeAnswers(c)
    \/ NodeReads \/ ReadResp \/ ReadRespFails \/ Break

Spec == Init /\ [][Next]_vars

-----------------------------------------------------------------------------
(* Properties.                                                             *)

\* Types; a call has a result exactly when it has returned (sendRequest).
TypeOK ==
    /\ ask \in {<<a, b>> : a \in Asked, b \in AskedNext}
    /\ broken \in {"no", "cut", "refused"}
    /\ pc \in [Calls -> {"idle", "sent", "returned"}]
    /\ \A c \in Calls : (pc[c] = "returned") = (result[c] # None)

\* What arrives of some fields: all but the names that are not read, times in milliseconds.
Arrives(vals, unread) ==
    LET Told(x) == IF x[2] = "ms" THEN <<x[1], x[2], x[3] - (x[3] % 1000)>> ELSE x
        told == SelectSeq(vals, LAMBDA x : x[1] \notin unread)
    IN [i \in 1..Len(told) |-> Told(told[i])]

\* The Read function of a request (ReadFetchReq...) gives what its Bytes method
\* was given, in each version, whatever was sent before and however many
\* elements the arrays have; a request that arrives is never refused.
RequestsUnderstood ==
    /\ broken # "refused"
    /\ \A c \in Calls : heard[c] # Unheard =>
          /\ heard[c].kind = ask[c].kind /\ heard[c].version = ask[c].version
          /\ heard[c].vals = Arrives(ReqOf(c).vals,
                 {"", "kind"} \cup (IF ask[c].kind = "APIVersions" THEN {"version"} ELSE {}))

\* A call of connection returns the values that the node gave in the response
\* to this call, in whatever order the node answers; it returns an error only if
\* the connection broke, and never a part of a response.
ResponsesUnderstood ==
    \A c \in Calls : pc[c] = "returned" =>
        \/ result[c].ok /\ result[c].vals = Arrives(RespTo(c, ask[c].version).vals, {""})
        \/ ~result[c].ok /\ broken # "no"

\* The sizes that the Bytes methods write are those that ReadReq and ReadResp
\* need: when no call waits for a response, no byte is left on the streams.
StreamsAligned ==
    broken = "no" /\ (\A c \in Calls : pc[c] # "sent") => up = <<>> /\ down = <<>>

\* Nobody waits for bytes that the size of a message promises and that were not
\* written: while a call waits, there is a whole message for ReadReq or for
\* ReadResp, or a request to answer, or the connection is broken.
NobodyForgotten ==
    (\E c \in Calls : pc[c] = "sent") /\ broken = "no" =>
        Frame(up, 2).ok \/ Frame(down, 4).ok \/ \E c \in Calls : heard[c].open
=============================================================================
