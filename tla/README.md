# Verification of the kafka client library

TLA+ models of `github.com/optiopay/kafka/v2` (under `src/v2`), the TLC runs that
check them on small instances, and TLAPS proofs of their main properties for every
size. `PROJECT.json` lists the components, the runs, the source lines each
definition stands for, the hazards of the code and the theorems.

## The system

The library is a client of Apache Kafka.

| part | source | state | operations |
|---|---|---|---|
| connection | `connection.go` | the transport, the map `respc` of waiting goroutines, `stopErr`, the channels `stop` and `nextID` | `sendRequest`, `sendRequestWithoutAcks`, `Close`, the goroutines `nextIDLoop` and `readRespLoop` |
| constructors | `connection.go` | `apiVersions` | `newTCPConnection`, `newTLSConnection`, `cacheApiVersions`, `getBestVersion` |
| broker | `broker.go` | `metadata` (nodes, leaders, partitions, controller), the pool `conns`, one lock | `Dial`, `Close`, `Metadata`, `CreateTopic`, `PartitionCount`, `fetchMetadata`, `muLeaderConnection`, `muCoordinatorConnection`, `muCloseDeadConnection`, `OffsetEarliest`, `OffsetLatest` |
| producer | `broker.go` | none of its own | `Produce` with retries |
| consumer | `broker.go` | `offset`, `msgbuf`, `conn`, a lock | `Consume`, `ConsumeBatch`, `fetch`, `extractMessages` |
| offset coordinator | `broker.go` | `conn`, a lock that is released between retries | `Commit`, `CommitFull`, `Offset` |
| multiplexer | `multiplexer.go` | `stop`, `closed`, `workers`, a goroutine for each consumer | `Merge`, `Consume`, `Close`, `Workers` |
| distributing producers | `distributing_producer.go` | the next partition | `Distribute`: random, round robin, by hash |
| wire format | `proto/` | none | the encoders and decoders of requests and responses |
| mock server, mock broker | `kafkatest/` | topics, offsets, middlewares, a lock | a Kafka node for tests |

A user's call goes to the broker, which finds the leader of the partition in its
metadata and a connection to it in its pool. The connection gives the request a
correlation ID, registers the goroutine under it, writes the request and waits
until `readRespLoop` passes it the response. When the connection fails, the broker
removes it from the pool, refreshes its metadata and the call is retried. The
multiplexer merges several consumers.

What makes this hard to get right: many goroutines share a connection and two
loops serve them, a `Close` or a failing read may come between any two steps, Go's
`select` takes any case that is ready, correlation IDs wrap around, cached leaders
and pooled connections are stale when they are used, requests are retried that may
have been executed, and locks are released between retries.

## The modules

| module | models | against |
|---|---|---|
| `Connection` | a connection and the goroutines that use it | `RequestReply`, what a connection promises |
| `Handshake` | the two constructors and the choice of request versions | |
| `Broker` | metadata, connection pool, and the calls that use them with their retries | |
| `Mx` | a multiplexer, its workers and its users | `MergedStream`, what a multiplexer promises |
| `Consumer` | the log of a partition, `Produce` with retries, `Consume`, `ConsumeBatch`, and how fetch responses are read | `LogReader`, what a consumer promises |
| `Wire` | the fields of all requests and responses in each version, and an exchange of them over a connection | |
| `Distribute` | the three distributing producers | |
| `Server` | the mock server of `kafkatest`, its lock and its goroutines | |

The modules `MC...` give the constants values for TLC. `ConnectionProofs` and
`ConnectionPromise`, which extends it, `HandshakeProofs`, `BrokerProofs`,
`MxProofs`, `ConsumerProofs`, `ServerProofs` and `DistributeProofs` hold the
proofs.

What the code does under a lock, or in one `select`, is one step, except where
`Distribute` and `Server` say otherwise below. Operators that nothing uses and
that stand right before another operator (`LeftoversForgotten` before `Leftovers`)
are that operator with a slip that could be made in the code; `PROJECT.json` lists
under `mutants` which property notices it.

### Connection

A goroutine `p` goes through `pc[p]`: `idle`, `id` (at `<-c.nextID`), `register`
(`respWaiter`), `write`, then `wait`, or `release` after a failed write. `respc`
maps an ID to the goroutine registered for it, and `chan[p]` is the state of that
goroutine's channel, where closing twice gives `"panic"`. `readRespLoop` is at
`rd`; between taking a channel out of `respc` and closing it, it holds that
channel (`rc`) and the response (`msg`). `Close` has two steps, because it closes
the transport after it released the lock. `inbox` and `net` are the requests and
responses under way.

The peer is external. It answers in any order, or leaves. A write into a full
socket blocks. A write to a transport the peer has left may succeed, and what is
written is lost. `Answered` says which requests the server answers: a Kafka node
answers those that want a response, the mock of `kafkatest` answers all of them.
`Kinds[p]` says whether the calls of `p` want one. The read deadline may expire at
any read, also when data is there.

Errors keep the identity that callers of the connection can see: `ErrClosed`, the
read error, the write error, and the two errors that `sendRequest` wraps.

### Handshake

One constructor runs against a node that reports some set of version ranges, or
drops the request. `sockets` counts what is open. `newTLSConnection` and
`newTCPConnection` differ in one place, `Retry`: the former has no `continue`.

### Broker

Each user `u` is a goroutine that makes calls of one kind: `produce`, `offset`,
`fetch`, `commit` or `Offset`. A call looks for a connection (`pc[u]` is `leader`
in `muLeaderConnection`, `coordinator` in `muCoordinatorConnection`), makes its
request (`call`), and then returns, takes a dead connection out of the pool
(`evict`, `muCloseDeadConnection`) or refreshes the metadata (`refresh`), and
tries again. `tries` counts the rounds of the call and `ltries` those of the
search for a connection. `fetch`, `commit` and `Offset` belong to an object that
keeps its connection (`held`) between calls; each such object has one goroutine
here.

What happens under `Broker.mu` is one step, with the requests made there. The lock
is free while a retry sleeps, so other goroutines, and `Close`, come in between. A
connection is a running one, or has the error it stopped with (`err`); `open` are
those on which `Close` was not called. Errors are told apart as the code does:
`EOF` (also `EPIPE`), `OpError`, any other, `ErrClosed`, and the wrapped error of
a connection that is just stopping (see `Connection`). A response that the decoder
refuses is an error of the request while the connection goes on working
(`Unreadable`: `short` for the `io.EOF` of a decoder that runs out of bytes, which
looks like that of a dead connection, and `garbled` for the others, such as a
wrong CRC). `fetch` closes the connection after each of them, and the others after
`short`, although other goroutines may be using it. In a calm cluster connections
have finished stopping, so errors are not wrapped. `NoLeader` is the -1 that a
node reports for a partition without a leader, and `None` in `endpoints` is a
partition that is not in the map.

The cluster is external: connections and nodes fail, nodes come back, leaders
move, responses are damaged; `MaxFaults` bounds all of these together. Each node
tells what is true at that moment. `Calm` says that all is well from now on;
`quiet[u]` remembers that the call of `u` began after it. Dialing is over TCP.

### Mx

A worker is in `Consume` of its consumer, about to select, parked in its select,
on its way out or done. A `select` is one step: it takes a case that is ready, or
parks; closing `stop` wakes all that are parked. Messages and errors are both
items, as the multiplexer treats them alike; `ErrNoData` ends the worker.

### Consumer

`log` is all that was ever written to one partition, each message with the offset
of the first message of its entry; an entry is what a node stores and returns as a
whole, which depends on `format`. The node is external: it answers from the entry
that holds the requested offset on, and cuts the response after any entry, with or
without a part of the next one; it deletes old entries, and damages one. A request
may fail before or after the node wrote the messages. With `RequiredAcksNone`
(`conf.acks` is false) `Produce` returns when the request is sent and numbers the
messages from zero (`Sent`); the node writes them later or never (`NodeWrites`).

`Fetched` is what `Fetch` makes of a response. `MessageSets` is what is left of
the loop of `ReadVersionedFetchResp` around `readMessageSet`: the messages after
the last damaged one or, when nothing follows it, those between the damaged one
before it and itself. `BatchesReadable` is `readRecordBatch`. `Receive` is the
rest of `fetch`, with `extractMessages`, and of `consume`. Which connection is
used is left to `Broker`.

### Wire

A layout such as `FetchReqBytes(v)` is the sequence of fields that `Bytes` writes
in version `v`, and `ReadFetchReq(v)` the one that is read; each is translated
from its own function, though most look alike. `Encode` and `Decode` turn layouts
into runs of bytes and back. Reading bytes that are not those of one value gives
`Garbled`, so a field too many or too few shows at the next ones. Two calls share
a connection, the external node answers in any order, and the connection may break
between two bytes.

### Distribute

The round robin producer locks (`Lock`), reads the next partition (`Read`) and
advances it (`Advance`) in separate steps, so that it matters that `MayLock` keeps
others out; the other two share nothing and are one step up to the call of
`Produce`. `Intn` panics for an empty range, as `rand.Intn` does. `sum` gives each
key any hash; `MinInt` is the smallest integer, so that `-MinInt` overflows.

### Server

Each connection and each goroutine of the test goes through `lock`, `drain` (a
writer that waits for readers), `held` and `reply`; a fetch request without
messages also through `wait`, a produce request through `event`, where it holds
the lock and waits for room in `events`, and `ServeHTTP` through `encode`, where
it holds the lock and waits for its client, who is external and may never read.
`Run` reads `s.ln` once more after it released the lock (`AlreadyRunning`).
`topics` maps a topic and a partition to its messages, which the code keeps in two
levels of maps. As in Go, a reader waits for a writer that waits. Handlers that
write maps while they only hold the lock for reading may end the program
(`fatal`), and so may an index out of range or the listener that is nil after
`Close`. `Run` writes `s.ln` and `s.brokers` under the read lock; this is one step
here. Clients address only partitions they were told of, as those of package
`kafka` do. Middlewares may answer requests, but advertise no partitions of their
own, and no `*Message` is added twice.

## The runs

| run | shows |
|---|---|
| `connection` | responses go to the goroutine that asked, no channel is closed twice, nobody is left waiting, the first stop error is final; `Connection` implements `RequestReply` |
| `connection_live` | every call returns when the server answers, and after `Close` whatever the server does, with one exception (below); after a read timeout nobody waits for a silent server |
| `handshake` | the constructors return, leak no socket and agree on the version |
| `mx` | closing once, closing when empty, losing at most one item for each worker; `Mx` implements `MergedStream`; a close and the end of the consumers release everybody |
| `broker` | after a fault, calls that begin in a calm cluster succeed within their retries; no open connection gets lost; none that works is closed but by the call that could not read its response; `Close` leaves nothing open at that moment |
| `broker_coordinator` | pooled connections lead to the nodes they are stored under |
| `consumer` | `Consumer` implements `LogReader`, keeps up with the producers and hears of deleted messages; messages are where a successful `Produce` with acknowledgements says |
| `wire` | what is written is what is read, in each version and order; sizes are right, so streams stay aligned and nobody waits for bytes that never come |
| `server` | offsets count from zero, responses are true, panics take a `Reset` or a `Close`, and there are three ways to wait for ever and no other |
| `distribute` | destinations exist, round robin is even, a new topic is no problem for the random and the round robin producer |
| `broker_leak`, `consumer_history` | where the code does not do what its comments say (below) |

The type invariants of `Handshake`, `Mx`, `Broker`, `Consumer`, `Wire` and
`Server`, and `WorkersCounted` and `ClosedReturnsErrMxClosed`, hold in the same
instances but are in no configuration. Those of `Handshake` and `Mx`, `Broker` and
`Server`, and the last two, are proved; the other type invariants can be added to
the configurations to check them.

Some properties name what the code does not manage, and say that there is nothing
else. `EveryCallReturns` excepts a goroutine that is `Stuck`: a read timeout ends
`readRespLoop` without closing the transport, so nobody reads any more; a call of
`sendRequestWithoutAcks`, or one that had already registered, that writes when
both directions of the socket are full then blocks until somebody calls `Close` or
the peer leaves. `EveryoneServed` knows three goroutines that may keep the mutex
of the mock server for ever (`Stalled`): one that waits for room in `events`, one
that waits for its HTTP client, and one that locks for reading a second time while
a writer waits. These three are not excluded; what is excluded is a lock that is
not released, and any other circle. `FreshSurvives` excepts
`muCloseDeadConnection` called for an unreadable response.
`PanicsAfterResetOrClose` excepts what a `Reset` or a `Close` takes away from
clients that still know it. `InRange` excepts the hash `math.MinInt32`, and
`NewTopicAllowed` the hash producer.

Bounds. Two callers and two IDs (`MaxID = 3`) make IDs wrap around while the other
request is under way, and make them conflict. A socket of one request is full
after the first write, which is the case in which a writer blocks. One closer
calls `Close` again and again, and its two steps interleave with everything else;
the proofs cover any number of closers. In `connection_live` one of the two
goroutines sends both kinds of requests, which is enough for a write to get stuck;
the instance in which both do (`Kinds <- AllKinds`, 959,526 states) takes half an
hour and also passes. With sockets of one message TLC cannot reorder responses;
`ResponsesAreOwn` holds for any size. Two workers with two items each let one
finish while the other is at any point; the proofs cover any number. Version
numbers up to 3 give ranges that miss each other, touch, overlap and contain each
other. In `Broker`, two nodes, one of them a seed, one partition and one fault
(`MaxFaults`) let a leader move, a connection die or a response be unreadable
while another goroutine still holds the connection. Four tries of a call and two
of the search for a connection are the limits from which on `LeadersSucceed`
proves `CalmSucceeds`; with the larger defaults a call has more chances. `Conns`
bounds connections that exist at a time; a new one takes an identity nobody
remembers. In `Consumer` two `Produce` calls of two messages, one of which may be
written twice, give up to six messages in up to three batches, so that a response
can begin inside a batch and end in another; producers want acknowledgements or
not; there is one fault, and only record batches are damaged in the passing run.
In `Wire` arrays have zero to two elements at each depth; numbers are small,
negative or near the largest, for 64-bit ones too near the largest 32-bit one; the
connection is cut for three kinds of requests; version 1 of ConsumerMetadata and
error 32 are left out, as they fail (below). In `Server` there are two
connections, two test goroutines (for a `Close` during a `Run`), three calls in
all and room for one event instead of 1000. In `Distribute` integers have four
bits instead of 32.

Deadlock is allowed where the system may stop: after a constructor failed, and
when the bounded numbers of calls of `Wire`, `Server` and `Distribute` are over.
Symmetry is used only in `connection` and `server`, which have no liveness
properties: callers, clients and users are interchangeable there.

Fairness. The goroutines of the client run: a call under way and `readRespLoop`.
No one has to call, to close or to leave. A write that is possible again and again
eventually happens, which is what the operating system does for writers blocked on
a socket. Where a property needs a server that answers (`ServerFairness`), it says
so as an assumption; that a read without data ends is what `SetReadDeadline` does.
In `Mx` the merged consumers eventually return from `Consume`. In `Handshake` a
dial and a request end, at the latest with `DialTimeout` and `ReadTimeout`. In
`Consumer` the user goes on consuming, the node answers, and the consumer takes
the response; producers, faults and retention are free.

## Where code and comments differ

* `connection_err_closed`: "Calling this method on closed connection will always
  return ErrClosed." After `Close` both cases of the `select` in `nextIDLoop`
  are ready, so a request may still get an ID; `respWaiter` then refuses, and
  `sendRequest` returns `wait for response: closed`, which is another error.
* `handshake_tls`: "newConnection returns new, initialized connection or error".
  When the node does not answer the request for the API versions,
  `newTLSConnection` returns the connection it has just closed.
* `broker_leak`: "Close closes the broker and all active kafka nodes
  connections." `muCoordinatorConnection` overwrites the pooled connection of the
  coordinator, which then stays open.
* `broker_unexpected`: "support for transparent failover". A connection that
  stopped with an error other than `io.EOF`, `EPIPE` or `*net.OpError` stays in
  the pool, and all calls of `Produce` get it. `fetch` does close it.
* `broker_offset`: "Offset can retry sending request on common errors." After a
  `*net.OpError`, as a read timeout is, all retries use the dead connection.
* `broker_dead_pool`: "if none of the connections worked out, try with fresh
  data". If all nodes have pooled connections and all of these are dead, no node
  is tried.
* `consumer_history`: "ignore this message and because we want to have constant
  history, do not process anything more". When messages follow a damaged one in
  a response, `ReadVersionedFetchResp` calls `readMessageSet` again and keeps
  only the last result, so the messages up to the damaged one are skipped.
* `MCWireCoordinator.cfg`: `ReadConsumerMetadataReq` reads a `CoordinatorType`
  from version 1 on, which `ConsumerMetadataReq.Bytes` never writes.
* `MCDistributeOne.cfg`: "All messages passed within single Produce call must hash
  to the same destination". The loop begins with the third message, so the
  second one may go anywhere, and need not have a key.
* `MCServerFirst.cfg`: `Produce` "returns the offset of the first message", and
  takes it from the response; the mock server puts that of the last one there, so
  that the two disagree on each request of two messages. `ResponsesTrue` states
  what the mock server does: the offset is that of the last of the messages.
* `MCConsumerNoAck.cfg`: "The offset of each message is also updated accordingly."
  With `RequiredAcksNone` there is no response, and the messages get the offsets
  0, 1, ... wherever they are written; `TestProducerWithNoAck` expects the success.

Of these, `PROJECT.json` lists the runs `broker_leak` and `consumer_history`. The
others are configurations that can be run in the same way: `connection_err_closed`
is `MCConnectionErrClosed.cfg`, and so on.

Also seen while modelling, without a configuration of their own: a broker that was
closed opens connections again; a multiplexer merged from no consumers is never
closed; error 32 is read as `ErrInvalidCommitOffsetSize`, which is 28; a
compressed record batch can be read only when it is alone in a response (hence the
exception in `KeepsUp`); `fetch` returns neither messages nor an error when each
attempt ended with a retriable error of the partition; `ReadProduceReq` takes all
that follows for messages of the first partition; the hash producer divides by
zero for a topic without partitions, and gives a negative partition for the hash
`math.MinInt32`; the mock server waits for ever when a writer comes between the
two read locks of `handleConsumerMetadataRequest`, when `events` is full, or when
the client of `ServeHTTP` does not read, and its accept loop goes on after
`Close`; `Run` of a server that is running panics when `Close` comes between its
two looks at the listener; a response that `fetch` cannot read closes a connection
that others use; and a write may block for ever after a read timeout.

## The proofs

All theorems hold for every value of the constants that satisfies the assumptions
`ConnectionAssumption`, `NilAssumption`, `HandshakeAssumption`,
`BrokerAssumption`, `MxAssumption`, `ConsumerAssumption`, `ServerAssumption` and
`DistributeAssumption`: the constants have their types, nil is none of the values
it is distinguished from, and the nodes of a broker are finitely many. Where a
theorem assumes more, its statement says so.

**Connection.** `TypeCorrect` is inductive alone. `NeverClosedTwice` and
`NobodyOrphaned` need `Inv`: a channel in `respc` is open and belongs to the call
with that ID (`RespcOpen`); the channel `readRespLoop` holds is open and no longer
in `respc` (`HeldOpen`); each registered goroutine's channel is in `respc`, held
by the reader, or closed (`HasHolder`); and after the drain `respc` stays empty
(`Drained`), which needs that a stopped connection has `stopErr` set (`StopInv`),
because that is what makes `respWaiter` refuse. `StoppedForGood` follows from the
same invariant. These hold for every server.

`ResponsesAreOwn` is about correlation IDs that wrap around, and needs that the
server answers only requests that want a response (`Answered \subseteq {TRUE}`):
an answer to a produce request without acknowledgement could otherwise meet a
later request with the same ID. `InFlight` says that, while the connection runs,
the ID of each request under way is registered for the goroutine that sent it and
waits (`InboxOK`, `NetOK`), that no two messages under way share an ID that is
registered (`NoTwins`), that the reader holds the response of the goroutine whose
channel it holds (`HeldOK`), and that an ID is given up early only by a connection
that stops (`WaitOK`). `ConnectionKeepsPromise` shows from it that each step is a
step of `RequestReply` or invisible to it.

**Mx.** `Inv` joins the type invariant and the properties with `CloseSync`
(`closed` says whether `stop` is closed) and `NobodyParked` (after the close
nobody is parked). `MxRefinesStream` shows that handing over an item is a `Take`
of `MergedStream`; without `NobodyParked` an item could be handed over after the
close. `MxClosesWhenEmpty` assumes that there is a consumer.

**Handshake.** `Phase` ties the place in the constructor to the open socket and to
where `apiVersions` comes from. `BestIsMax` shows that the lesser of the two upper
ends is the greatest common version of two ranges exactly when it reaches the
greater of the lower ends, which is what `getBestVersion` tests.

**Broker.** `Inv` joins `PoolMatches` with `CallersHold`: who makes a request or
calls `muCloseDeadConnection` has a connection. It is stable because no new
connection takes the identity of one that is pooled or held. `PoolLeadsToNodes`
follows. Each action is shown to be a `PoolStep` and to move one goroutine
(`Moves`). `WorkingConnectionsSurvive` needs more, `ForCause`: whoever is about to
call `muCloseDeadConnection` holds a connection that was stopped, or could not
read a response. So what it closes is at most the connection it was called for,
and if that one works, it is for this reason. `TypeCorrect` adds the counters of
the retries.

`LeadersNoLeak` and `LeadersCloseAll` assume that nobody has an offset coordinator
(`LeadersOnly`), and must: `broker_leak` shows that `muCoordinatorConnection`
loses connections. `muLeaderConnection` connects only where the pool has no entry,
and what `muCloseDeadConnection` takes out it closes, so `NoLeak` is inductive
once no goroutine is in `muCoordinatorConnection`.

`LeadersSucceed` is about all the stale knowledge a broker can have when the
cluster gets calm. It assumes `EnoughTries`: no offset coordinators, connections
that end with `io.EOF`, `EPIPE` or `*net.OpError` (other errors are those of
`broker_unexpected`), two tries of `muLeaderConnection`, three of `produce` and
`offset` and four of `fetch`; the defaults are larger. `CalmInv` says what a call
has learnt from each failure (`Learnt`). `muLeaderConnection` fails at most once,
because then it has forgotten the leader it could not reach (`Known`). A failed
attempt leaves the right metadata behind, because the leader that moved, or the
dead connection that was taken from the pool, made the broker refresh them; a
second failure can only come from a connection to the right leader that is dead,
or that somebody closes who could not read a response before the cluster got calm
(`Doomed`); either is then no longer in the pool (`Usable`). Only the connection
that a consumer has kept may be dead without being in the pool (`Noticed`), so
that its first failure teaches nothing: that is why `fetch` has one try more. The
proof has two halves: no step of another goroutine undoes what a call has learnt
(`Settled`, `LearntKept`), and each step of the call itself keeps `Learnt` or
returns with success (the lemmas that end in `Fine`). TLC checked `CalmInv` with
one fault and, without `Close`, with two (2,400,654 states).

**Consumer.** `LogInv` says that offsets count from zero in the log and that a
`Produce` with acknowledgements that returned without an error knows where its
messages are; `WrittenWhereSaid` follows. `ConsumerReadsLog` is the refinement of
`LogReader`. `ReaderInv` says that what is buffered, and what a response under way
holds, are consecutive messages of the log (`At`), that the buffer begins at the
offset of the consumer, and that the message at the requested offset is one of the
response. It assumes that message sets are not damaged, which is the case that
`consumer_history` shows to fail; damaged record batches are allowed.

**Server.** `TopicsInv` says that the messages of each partition are numbered from
zero, from which `LogsNumbered` follows. `ResponsesStayTrue` needs that logs only
grow until a `Reset`, so that what a handler read under the lock still holds when
its response is written after the lock was released. `PanicsExplained` needs that
the partitions a client was told of exist until a `Reset`, and that the listener
is there until a `Close`. `TypeCorrect` includes that a goroutine has the lock
exactly from `RLock` or `Lock` to the end of its handler or method.

**Distribute.** Evenness alone is not inductive. At most one goroutine is between
`Lock` and the end of `Advance` (`OneHolder`), and `Rounds` says that in some
round `r` the partitions before `Front` were chosen `r + 1` times and the others
`r` times, where `Front` is `next`, or one more when that goroutine has chosen
`next` already; `RoundRobinBalanced` follows for any number of goroutines and
partitions. `RemRange` and `HashPartitionRange` bound Go's remainder for every
integer but the smallest, from which `DestinationInRange` follows. `NewTopics`
says that only the hash producer panics: the random one looks at the number of
partitions before it calls `Intn`.

Only model-checked: all liveness properties and `EveryoneServed`, since TLAPS
proves nothing about fairness and `ENABLED`; `CalmSucceeds` and `NoLeak` where
there are offset coordinators, for which they do not hold; and all properties of
`Wire`, whose encoders and decoders are recursive operators, out of the prover's
reach: that decoding undoes encoding for every value is an induction over the
data.

## Not modelled

* The mock broker (`kafkatest/broker.go`): channels through which a test hands
  over messages; no part of the driver uses it.
* Goroutines that share an offset coordinator, whose lock is released between
  retries, and the offsets that are committed: an older commit that is retried
  may overwrite a newer one.
* The bytes of a message inside a set or batch (CRC, varints), gzip and snappy,
  and `SimplifiedMessageSetParsing`. Formats are not mixed in one log, logs are
  not compacted, and entries have the offsets of their messages in them.
* Of the broker: `Dial` before it succeeds; `Metadata`, `PartitionCount` and
  `CreateTopic`, which change neither the pool nor the metadata; TLS in the pool;
  retry limits of zero; the choice among several offsets in an offset response.
* Log messages and the `Logger`, and docker in `integration/`: input and output.
