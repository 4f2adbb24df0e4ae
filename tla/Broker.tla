------------------------------- MODULE Broker -------------------------------
(***************************************************************************)
(* The broker of src/v2/broker.go: its cached metadata, its pool of        *)
(* connections, and the calls that use them:                               *)
(*   produce  Producer.Produce          fetch   consumer.fetch             *)
(*   offset   Broker.offset             commit  offsetCoordinator.commit   *)
(*                                      Offset  offsetCoordinator.Offset   *)
(* Each user is a goroutine.  It calls the producer and the broker, or it   *)
(* has a consumer, or an offset coordinator.  These two keep a connection   *)
(* from one call to the next.                                              *)
(*                                                                         *)
(* What happens under Broker.mu is one step, with the requests made there: *)
(* connections opened and closed again within it do not show.  The lock is *)
(* released while a retry waits.                                           *)
(*                                                                         *)
(* An operator that nothing uses and that stands right before another one  *)
(* (XForgotten before X) is the other one with a slip in it.  It takes the *)
(* place of the other one to see that a property notices.                  *)
(***************************************************************************)
EXTENDS Integers, FiniteSets

CONSTANTS
    Users, Kinds,      \* the goroutines, and the kinds of calls each one makes
    Nodes, Seeds,      \* the nodes, and those in Broker.nodeAddresses
    Parts,             \* the partitions
    Coordinator,       \* the node that coordinates the consumer group
    Conns,             \* bound: connections that exist at the same time
    LeaderRetryLimit,  \* BrokerConf.LeaderRetryLimit
    RetryLimit,        \* the retry limit of the calls
    Deaths,            \* the errors that end a connection
    MaxFaults,         \* bound: connections that fail, nodes that stop, leaders that move,
                       \* responses that cannot be read
    Closes,            \* whether Broker.Close is called
    NoLeader,          \* -1, what a node reports as the leader of a partition without one
    None               \* Go's nil, or no entry in a map

\* Errors of a request that are a connection's end, as callers tell them apart:
\* io.EOF or EPIPE, a *net.OpError, any other, as io.ErrUnexpectedEOF.
DeathKinds == {"EOF", "OpError", "other"}

\* Errors of a request over a connection that works, whose response cannot be
\* read: it ends too early for the decoder, which returns io.EOF, or it is wrong
\* in any other way, as with "Wrong CRC32".
Unreadable == {"short", "garbled"}

ASSUME BrokerAssumption ==
    /\ Kinds \in [Users -> (SUBSET {"produce", "offset"}) \cup {{"fetch"}}
                             \cup (SUBSET {"commit", "Offset"})]
    /\ IsFiniteSet(Nodes)
    /\ Seeds \subseteq Nodes /\ Seeds # {}
    /\ Coordinator \in Nodes
    /\ LeaderRetryLimit \in Nat \ {0} /\ RetryLimit \in Nat \ {0}
    /\ Deaths \subseteq DeathKinds
    /\ MaxFaults \in Nat /\ Closes \in BOOLEAN
    /\ NoLeader \notin Nodes \cup {None}
    /\ None \notin Nodes /\ None \notin Conns /\ None \notin DeathKinds \cup {"ErrClosed"}

VARIABLES
    meta,      \* Broker.metadata: nodes, and endpoints with the leaders
    conns,     \* Broker.conns: a node's connection
    addr,      \* the node a connection leads to
    err,       \* why a connection was stopped, None while it runs
    open,      \* the connections that Close was not called on
    closed,    \* Broker.Close was called
    pc,        \* where each goroutine is
    kind,      \* the kind of its call
    part,      \* the partition its call is about
    held,      \* the connection it uses, or its object keeps
    cause,     \* the error its last request returned
    tries,     \* retries of its call
    ltries,    \* retries of muLeaderConnection or muCoordinatorConnection
    quiet,     \* its call began when the cluster was calm
    res,       \* how its last call ended
    up,        \* the nodes that run
    leader,    \* the leaders, as the cluster sees them
    calm,      \* nothing fails any more
    faults     \* how much has failed

poolVars == <<meta, conns, addr, err, open>>
userVars == <<pc, kind, part, held, cause, tries, ltries, quiet, res>>
worldVars == <<up, leader, calm, faults>>
vars == <<meta, conns, addr, err, open, closed, pc, kind, part, held, cause, tries, ltries,
          quiet, res, up, leader, calm, faults>>

\* What a node tells about the cluster, as cacheMetadata stores it.
Truth == [nodes |-> up, endpoints |-> leader]

\* Dial succeeded.  The connection that Consumer and OffsetCoordinator get for a
\* new object is got by the object's first call.
Init ==
    /\ up = Nodes /\ leader \in [Parts -> Nodes] /\ calm = FALSE /\ faults = 0
    /\ meta = Truth
    /\ conns = [n \in Nodes |-> None]
    /\ addr = [c \in Conns |-> None] /\ err = [c \in Conns |-> None]
    /\ open = {} /\ closed = FALSE
    /\ pc = [u \in Users |-> "idle"]
    /\ kind = [u \in Users |-> None] /\ part \in [Users -> Parts]
    /\ held = [u \in Users |-> None] /\ cause = [u \in Users |-> None]
    /\ tries = [u \in Users |-> 0] /\ ltries = [u \in Users |-> 0]
    /\ quiet = [u \in Users |-> FALSE] /\ res = [u \in Users |-> "unset"]

-----------------------------------------------------------------------------
(* Metadata and connections.                                               *)

\* fetchMetadata finds somebody to ask: over a pooled connection that works, a
\* known node without a pooled connection, or a seed.
Reached(pool) ==
    \E n \in Nodes :
        \/ pool[n] # None /\ err[pool[n]] = None
        \/ n \in up /\ (n \in Seeds \/ (n \in meta.nodes /\ pool[n] = None))

RefreshedForgotten(pool) == IF Reached(pool) THEN {meta} ELSE {}

\* What the metadata are after refreshMetadata succeeds, or fails.
Refreshed(pool) == IF Reached(pool) THEN {Truth} ELSE {}
NotRefreshed(pool) == IF Reached(pool) /\ calm THEN {} ELSE {meta}

\* getConnection fails, or may succeed.
DialFails(n) == n \notin up \/ ~calm
Dials(n) == n \in up

Pooled(pool) == {pool[n] : n \in Nodes} \ {None}

\* A connection nobody remembers stands for a new one.
Unused(pool) == Conns \ (open \cup Pooled(pool) \cup {held[u] : u \in Users})

\* The connections in DOMAIN to are opened, each to node to[c].
Opened(to) ==
    /\ open' = open \cup DOMAIN to
    /\ addr' = [c \in Conns |-> IF c \in DOMAIN to THEN to[c] ELSE addr[c]]
    /\ err' = [c \in Conns |-> IF c \in DOMAIN to THEN None ELSE err[c]]

CloseForgotten(S) == UNCHANGED <<open, err>>

\* connection.Close for the connections in S.
CloseConns(S) ==
    /\ open' = open \ S
    /\ err' = [c \in Conns |-> IF c \in S /\ err[c] = None THEN "ErrClosed" ELSE err[c]]

-----------------------------------------------------------------------------
(* The steps of a call.                                                    *)

\* u goes to where, with connection c.
Goto(u, where, c) ==
    /\ pc' = [pc EXCEPT ![u] = where]
    /\ held' = [held EXCEPT ![u] = c]

\* u goes on without a change of its other variables.
Continue(u, where, c) ==
    Goto(u, where, c) /\ UNCHANGED <<kind, part, cause, tries, ltries, quiet, res>>

KeepsConn(u) == kind[u] \in {"fetch", "commit", "Offset"}

\* The call returns: successfully, with an error, or with nothing.
Return(u, r, c) ==
    /\ Goto(u, "idle", IF KeepsConn(u) THEN c ELSE None)
    /\ res' = [res EXCEPT ![u] = r]
    /\ tries' = [tries EXCEPT ![u] = 0] /\ ltries' = [ltries EXCEPT ![u] = 0]
    /\ cause' = [cause EXCEPT ![u] = None] /\ kind' = [kind EXCEPT ![u] = None]
    /\ UNCHANGED <<part, quiet>>

\* Where an attempt begins: with a connection, unless the object has one.
Attempt(k, c) ==
    IF c # None THEN "call"
    ELSE IF k \in {"commit", "Offset"} THEN "coordinator" ELSE "leader"

MoreTries(u) == tries[u] + 1 < RetryLimit

\* fetch, when its last attempt got an error of the partition, returns neither
\* messages nor an error.
Exhausted(u) == IF kind[u] = "fetch" /\ pc[u] = "refresh" THEN "nothing" ELSE "error"

\* The next round of the loop of a call, with connection c if its object has
\* one, or the end of the loop.  offset refreshes the metadata first.
Retry(u, c) ==
    IF MoreTries(u)
    THEN LET keeps == IF KeepsConn(u) THEN c ELSE None IN
         /\ tries' = [tries EXCEPT ![u] = @ + 1] /\ ltries' = [ltries EXCEPT ![u] = 0]
         /\ Goto(u, IF kind[u] = "offset" THEN "refresh" ELSE Attempt(kind[u], keeps), keeps)
         /\ cause' = [cause EXCEPT ![u] = None]
         /\ UNCHANGED <<kind, part, quiet, res>>
    ELSE Return(u, Exhausted(u), c)

\* A call of kind k about partition p.  That of a consumer never changes.
Call(u, k, p) ==
    /\ pc[u] = "idle"
    /\ k = "fetch" => p = part[u]
    /\ Goto(u, Attempt(k, held[u]), held[u])
    /\ kind' = [kind EXCEPT ![u] = k]
    /\ part' = [part EXCEPT ![u] = p]
    /\ quiet' = [quiet EXCEPT ![u] = calm]
    /\ res' = [res EXCEPT ![u] = "unset"]
    /\ UNCHANGED <<poolVars, closed, cause, tries, ltries, worldVars>>

\* No connection this time: muLeaderConnection or muCoordinatorConnection
\* tries again, or returns an error, which ends offset at once.
NoConn(u) ==
    IF ltries[u] + 1 < LeaderRetryLimit
    THEN /\ ltries' = [ltries EXCEPT ![u] = @ + 1]
         /\ UNCHANGED <<pc, kind, part, held, cause, tries, quiet, res>>
    ELSE IF kind[u] = "produce" THEN Continue(u, "refresh", None)
    ELSE IF kind[u] = "offset" THEN Return(u, "error", None)
    ELSE Retry(u, None)

\* delete(b.metadata.endpoints, tp)
Without(m, p) == [m EXCEPT !.endpoints[p] = None]

\* The metadata in which muLeaderConnection looks for the leader of p.
Looked(p) == IF meta.endpoints[p] # None THEN {meta} ELSE Refreshed(conns)

\* b.conns[nodeID]
ConnOf(n) == IF n \in Nodes THEN conns[n] ELSE None

\* muLeaderConnection does not get a connection: the metadata cannot be
\* refreshed, the partition is unknown, has no leader, or its leader is not
\* known or cannot be reached.
LeaderFails(u) ==
    /\ pc[u] = "leader"
    /\ LET p == part[u] IN
       \/ meta.endpoints[p] = None /\ meta' \in NotRefreshed(conns)
       \/ \E m \in Looked(p) :
            LET n == m.endpoints[p] IN
            \/ n = None /\ meta' = m
            \/ /\ n # None /\ ConnOf(n) = None
               /\ n \notin m.nodes \/ DialFails(n)
               /\ meta' = Without(m, p)
    /\ NoConn(u)
    /\ UNCHANGED <<conns, addr, err, open, closed, worldVars>>

\* muLeaderConnection returns the pooled connection, or a new one that it adds
\* to the pool.
LeaderConnection(u) ==
    /\ pc[u] = "leader"
    /\ \E m \in Looked(part[u]) :
         LET n == m.endpoints[part[u]] IN
         /\ n # None /\ meta' = m
         /\ IF ConnOf(n) # None
            THEN Continue(u, "call", ConnOf(n)) /\ UNCHANGED <<conns, addr, err, open>>
            ELSE /\ n \in m.nodes /\ Dials(n)
                 /\ Unused(conns) # {}
                 /\ LET c == CHOOSE c \in Unused(conns) : TRUE IN
                    /\ Opened([x \in {c} |-> n])
                    /\ conns' = [conns EXCEPT ![n] = c]
                    /\ Continue(u, "call", c)
    /\ UNCHANGED <<closed, worldVars>>

\* Some pooled connection answers the question for the coordinator.
Answers == \E n \in Nodes : conns[n] # None /\ err[conns[n]] = None

\* The nodes that muCoordinatorConnection connects to after a refresh.
NotPooled == {n \in up : conns[n] = None}

CoordinatorEntryAsked(S) == IF S = {} THEN Coordinator ELSE CHOOSE n \in S : TRUE

\* Where the connection to the coordinator goes: b.conns[resp.CoordinatorID]
CoordinatorEntry(S) == Coordinator

\* New connections to the nodes in S are pooled, and, when more is {c}, then
\* also c to the coordinator, in the place of the one that was there.
PoolConns(S, f, more) ==
    /\ Opened([c \in {f[n] : n \in S} \cup more |->
                 IF c \in more THEN Coordinator ELSE CHOOSE n \in S : f[n] = c])
    /\ conns' = [n \in Nodes |-> IF more # {} /\ n = CoordinatorEntry(S) THEN CHOOSE c \in more : TRUE
                                 ELSE IF n \in S THEN f[n] ELSE conns[n]]

\* The ways to make a new connection for each node in S.
NewConns(S) ==
    {f \in [S -> Unused(conns)] : \A n, k \in S : f[n] = f[k] => n = k}

\* muCoordinatorConnection gets no answer from the pooled connections, and
\* then it cannot refresh the metadata, or gets none from the nodes that have
\* no pooled connection either.  The connections it made to these stay pooled.
CoordinatorFails(u) ==
    /\ pc[u] = "coordinator"
    /\ ~Answers \/ ~calm
    /\ \/ meta' \in NotRefreshed(conns) /\ UNCHANGED <<conns, addr, err, open>>
       \/ /\ meta' \in Refreshed(conns)
          /\ \E S \in SUBSET NotPooled :
               /\ calm => NotPooled = {}
               /\ NewConns(S) # {}
               /\ PoolConns(S, CHOOSE f \in NewConns(S) : TRUE, {})
    /\ NoConn(u)
    /\ UNCHANGED <<closed, worldVars>>

\* muCoordinatorConnection learns from a pooled connection, or from the last of
\* the nodes S it connected to, who the coordinator is.  It connects to it and
\* pools that connection.
CoordinatorConnection(u) ==
    /\ pc[u] = "coordinator"
    /\ Dials(Coordinator)
    /\ \E S \in SUBSET NotPooled :
         /\ IF S = {} THEN Answers /\ UNCHANGED meta
            ELSE /\ ~Answers \/ ~calm
                 /\ meta' \in Refreshed(conns)
                 /\ calm => Cardinality(S) = 1
         /\ NewConns(S) # {}
         /\ LET f == CHOOSE f \in NewConns(S) : TRUE
                left == Unused(conns) \ {f[n] : n \in S}
                c == CHOOSE c \in left : TRUE
            IN  left # {} /\ PoolConns(S, f, {c}) /\ Continue(u, "call", c)
    /\ UNCHANGED <<closed, worldVars>>

\* The error or the answer of a request over c: why the connection was stopped,
\* possibly wrapped while it stops, or what the node says, if that can be read.
Outcomes(u, c) ==
    IF err[c] # None THEN {err[c]} \cup (IF calm THEN {} ELSE {"wrapped"})
    ELSE LET right == IF kind[u] \in {"commit", "Offset"} THEN Coordinator ELSE leader[part[u]]
         IN  (IF addr[c] = right THEN {"ok"} ELSE {"NotLeader"})
             \cup (IF calm THEN {} ELSE {"NotLeader", "refused"})
             \cup (IF calm \/ faults = MaxFaults THEN {} ELSE Unreadable)

\* u calls muCloseDeadConnection because of error e.
CloseDead(u, e) ==
    /\ Goto(u, "evict", held[u])
    /\ cause' = [cause EXCEPT ![u] = e]
    /\ UNCHANGED <<kind, part, tries, ltries, quiet, res>>

\* What each kind of call makes of the outcome e of its request.  produce and
\* Produce: any error but io.EOF and EPIPE makes Produce refresh the metadata.
ProduceOutcome(u, e) ==
    IF e = "ok" THEN Return(u, "ok", None)
    ELSE IF e \in {"EOF", "short", "OpError"} THEN CloseDead(u, e)
    ELSE Continue(u, "refresh", None)

\* offset
OffsetOutcome(u, e) ==
    IF e = "ok" THEN Return(u, "ok", None)
    ELSE IF e \in {"EOF", "short", "OpError"} THEN CloseDead(u, e)
    ELSE Retry(u, None)

\* consumer.fetch closes the connection after any error of Fetch, one of the
\* decoder included, when the connection works and others use it.  A partition with
\* another leader makes it look for that one, and another error of the partition
\* is returned.
FetchOutcome(u, e) ==
    IF e = "ok" THEN Return(u, "ok", held[u])
    ELSE IF e = "refused" THEN Return(u, "error", held[u])
    ELSE IF e = "NotLeader" THEN Continue(u, "refresh", None)
    ELSE CloseDead(u, e)

\* offsetCoordinator.commit
CommitOutcome(u, e) ==
    IF e = "ok" THEN Return(u, "ok", held[u])
    ELSE IF e \in {"refused", "NotLeader"} THEN Return(u, "error", held[u])
    ELSE IF e \in {"EOF", "short", "OpError"} THEN CloseDead(u, e)
    ELSE Retry(u, held[u])

\* offsetCoordinator.Offset
CommittedOutcome(u, e) ==
    IF e = "ok" THEN Return(u, "ok", held[u])
    ELSE IF e \in {"refused", "NotLeader"} THEN Return(u, "error", held[u])
    ELSE IF e \in {"EOF", "short"} THEN CloseDead(u, e)
    ELSE Retry(u, held[u])

\* A call makes its request.
Request(u) ==
    /\ pc[u] = "call"
    /\ \E e \in Outcomes(u, held[u]) :
         /\ \/ kind[u] = "produce" /\ ProduceOutcome(u, e)
            \/ kind[u] = "offset" /\ OffsetOutcome(u, e)
            \/ kind[u] = "fetch" /\ FetchOutcome(u, e)
            \/ kind[u] = "commit" /\ CommitOutcome(u, e)
            \/ kind[u] = "Offset" /\ CommittedOutcome(u, e)
         /\ faults' = IF e \in Unreadable THEN faults + 1 ELSE faults
    /\ UNCHANGED <<poolVars, closed, up, leader, calm>>

EvictedByNode(c) == {n \in Nodes : n = addr[c] /\ conns[n] # None}

\* The entry of the pool that is c.
Evicted(c) == {n \in Nodes : conns[n] = c}

\* muCloseDeadConnection, and what the call does next: Produce refreshes the
\* metadata again unless the error was io.EOF or EPIPE.
CloseDeadConnection(u) ==
    /\ pc[u] = "evict"
    /\ LET gone == Evicted(held[u])
           pool == [n \in Nodes |-> IF n \in gone THEN None ELSE conns[n]]
       IN  /\ conns' = pool
           /\ CloseConns({conns[n] : n \in gone})
           /\ IF gone = {} THEN UNCHANGED meta
              ELSE meta' \in Refreshed(pool) \cup NotRefreshed(pool)
    /\ IF kind[u] = "produce" /\ cause[u] \notin {"EOF", "short"}
       THEN Continue(u, "refresh", None)
       ELSE Retry(u, None)
    /\ UNCHANGED <<addr, closed, worldVars>>

\* muRefreshMetadata: before a retry of offset, which it may use up, and after a
\* failure of the others.
RefreshMetadata(u) ==
    /\ pc[u] = "refresh"
    /\ \/ /\ meta' \in Refreshed(conns)
          /\ IF kind[u] = "offset"
             THEN Continue(u, "leader", None) ELSE Retry(u, None)
       \/ meta' \in NotRefreshed(conns) /\ Retry(u, None)
    /\ UNCHANGED <<conns, addr, err, open, closed, worldVars>>

RunningOnly == {c \in Pooled(conns) : err[c] = None}

\* The connections that Broker.Close closes.
AllPooled == Pooled(conns)

\* Broker.Close, called once, closes the pooled connections and leaves them in
\* the pool.
Close ==
    /\ Closes /\ ~closed
    /\ closed' = TRUE
    /\ CloseConns(AllPooled)
    /\ UNCHANGED <<meta, conns, addr, userVars, worldVars>>

-----------------------------------------------------------------------------
(* The cluster and the network.                                            *)

Fault == ~calm /\ faults < MaxFaults /\ faults' = faults + 1

\* The running connections in S end, each with one of the errors of Deaths.
Die(S) ==
    \E e \in Deaths :
        err' = [c \in Conns |-> IF c \in S /\ err[c] = None THEN e ELSE err[c]]

\* A connection fails, or was idle for ReadTimeout.
ConnDies(c) ==
    /\ Fault /\ c \in open /\ err[c] = None
    /\ Die({c})
    /\ UNCHANGED <<meta, conns, addr, open, closed, userVars, up, leader, calm>>

NodeStops(n) ==
    /\ Fault /\ n \in up
    /\ up' = up \ {n}
    /\ Die({c \in open : addr[c] = n})
    /\ UNCHANGED <<meta, conns, addr, open, closed, userVars, leader, calm>>

NodeStarts(n) ==
    /\ n \notin up
    /\ up' = up \cup {n}
    /\ UNCHANGED <<poolVars, closed, userVars, leader, calm, faults>>

\* A partition gets another leader, or has none for a while, or the nodes do not
\* know it.
LeaderMoves(p, n) ==
    /\ Fault /\ leader[p] # n
    /\ leader' = [leader EXCEPT ![p] = n]
    /\ UNCHANGED <<poolVars, closed, userVars, up, calm>>

\* From now on all nodes run, all partitions have a leader and nothing fails.
Calm ==
    /\ ~calm /\ up = Nodes /\ \A p \in Parts : leader[p] \in Nodes
    /\ calm' = TRUE
    /\ UNCHANGED <<poolVars, closed, userVars, up, leader, faults>>

-----------------------------------------------------------------------------
User(u) ==
    \/ LeaderFails(u) \/ LeaderConnection(u)
    \/ CoordinatorFails(u) \/ CoordinatorConnection(u)
    \/ Request(u) \/ CloseDeadConnection(u) \/ RefreshMetadata(u)

World ==
    \/ \E c \in Conns : ConnDies(c)
    \/ \E n \in Nodes : NodeStops(n) \/ NodeStarts(n)
    \/ \E p \in Parts : \E n \in Nodes \cup {NoLeader, None} : LeaderMoves(p, n)
    \/ Calm

Next ==
    \/ \E u \in Users : User(u) \/ \E k \in Kinds[u], p \in Parts : Call(u, k, p)
    \/ Close
    \/ World

Spec == Init /\ [][Next]_vars

-----------------------------------------------------------------------------
(* Properties.                                                             *)

\* The variables range over the values the code can give them.
TypeOK ==
    /\ meta \in [nodes : SUBSET Nodes, endpoints : [Parts -> Nodes \cup {NoLeader, None}]]
    /\ conns \in [Nodes -> Conns \cup {None}]
    /\ addr \in [Conns -> Nodes \cup {None}]
    /\ err \in [Conns -> DeathKinds \cup {"ErrClosed", None}]
    /\ open \subseteq Conns /\ closed \in BOOLEAN
    /\ pc \in [Users -> {"idle", "leader", "coordinator", "call", "evict", "refresh"}]
    /\ \A u \in Users : IF pc[u] = "idle" THEN kind[u] = None ELSE kind[u] \in Kinds[u]
    /\ part \in [Users -> Parts]
    /\ held \in [Users -> Conns \cup {None}]
    /\ \A u \in Users : pc[u] \in {"call", "evict"} => held[u] # None
    /\ cause \in [Users -> DeathKinds \cup Unreadable \cup {"ErrClosed", "wrapped", None}]
    /\ tries \in [Users -> 0 .. (RetryLimit - 1)]
    /\ ltries \in [Users -> 0 .. (LeaderRetryLimit - 1)]
    /\ quiet \in [Users -> BOOLEAN]
    /\ res \in [Users -> {"unset", "ok", "error", "nothing"}]
    /\ up \subseteq Nodes /\ leader \in [Parts -> Nodes \cup {NoLeader, None}] /\ calm \in BOOLEAN
    /\ faults \in 0 .. MaxFaults

\* A connection in the pool is stored under the node it leads to.
PoolMatches == \A n \in Nodes : conns[n] # None => addr[conns[n]] = n

\* Every connection that was not closed is in the pool, where Close finds it:
\* a dead one is closed when it is taken out of the pool.
NoLeak == open \subseteq Pooled(conns)

\* A connection that works is closed only by Close, or by a goroutine that could
\* not read a response over this very connection: muCloseDeadConnection does not
\* touch the connection that has replaced the one it is called for, however late
\* it comes.
FreshSurvives ==
    [][\A c \in open : err[c] = None /\ c \notin open' =>
          \/ closed' # closed
          \/ \E u \in Users : pc[u] = "evict" /\ held[u] = c /\ cause[u] \in Unreadable]_vars

\* A goroutine that makes a request, or calls muCloseDeadConnection, has a
\* connection.
CallersHold == \A u \in Users : pc[u] \in {"call", "evict"} => held[u] # None

\* What TypeOK says of the pool and of the connections that are held.
PoolTypes ==
    /\ meta \in [nodes : SUBSET Nodes, endpoints : [Parts -> Nodes \cup {NoLeader, None}]]
    /\ up \subseteq Nodes /\ leader \in [Parts -> Nodes \cup {NoLeader, None}]
    /\ conns \in [Nodes -> Conns \cup {None}]
    /\ addr \in [Conns -> Nodes \cup {None}]
    /\ err \in [Conns -> DeathKinds \cup {"ErrClosed", None}]
    /\ open \subseteq Conns
    /\ pc \in [Users -> {"idle", "leader", "coordinator", "call", "evict", "refresh"}]
    /\ part \in [Users -> Parts]
    /\ held \in [Users -> Conns \cup {None}]

\* The inductive invariant.
Inv == PoolTypes /\ PoolMatches /\ CallersHold

\* A call that begins when the cluster is calm succeeds within its retries,
\* unless the broker is closed, whatever the broker remembers of the time before:
\* leaders that moved, nodes that were down, connections that died.
CalmSucceeds ==
    \A u \in Users : pc[u] = "idle" /\ quiet[u] /\ ~closed => res[u] = "ok"

\* Close closes all connections.
CloseClosesAll == [][closed' # closed => open' = {}]_vars
=============================================================================
