---------------------------- MODULE BrokerProofs ----------------------------
(***************************************************************************)
(* Theorems about the pool of connections of Broker and the calls that use *)
(* it, for any numbers of nodes, partitions, goroutines and faults.        *)
(***************************************************************************)
EXTENDS Broker, TLAPS

\* What is used of the constants.
LEMMA Constants ==
    /\ Coordinator \in Nodes
    /\ Deaths \subseteq DeathKinds
    /\ None \notin Nodes /\ None \notin Conns /\ None \notin DeathKinds \cup {"ErrClosed"}
  BY BrokerAssumption

USE Constants

\* The connections nobody remembers are connections.
LEMMA UnusedConns == Unused(conns) \subseteq Conns
  BY DEF Unused

-----------------------------------------------------------------------------
(* What a step may do to the pool.                                         *)

\* The pool stays in order, and a stopped connection that somebody remembers
\* does not run again.
PoolStep ==
    /\ conns' \in [Nodes -> Conns \cup {None}]
    /\ addr' \in [Conns -> Nodes \cup {None}]
    /\ err' \in [Conns -> DeathKinds \cup {"ErrClosed", None}]
    /\ open' \subseteq Conns
    /\ PoolMatches'
    /\ \A c \in Conns \ Unused(conns) : err[c] # None => err'[c] # None

\* A step that leaves the pool alone.
LEMMA SamePool ==
    ASSUME Inv, UNCHANGED <<conns, addr, err, open>>
    PROVE  PoolStep
  BY DEF Inv, PoolTypes, PoolMatches, PoolStep

\* connection.Close, for connections that may leave the pool with it.
LEMMA CloseStep ==
    ASSUME Inv, NEW S, CloseConns(S), UNCHANGED addr,
           conns' \in [Nodes -> Conns \cup {None}],
           \A n \in Nodes : conns'[n] \in {conns[n], None}
    PROVE  PoolStep
<1>1. err' \in [Conns -> DeathKinds \cup {"ErrClosed", None}]
  BY DEF Inv, PoolTypes, CloseConns
<1>2. \A c \in Conns : err[c] # None => err'[c] # None  BY DEF CloseConns
<1>3. PoolMatches'  BY DEF Inv, PoolMatches
<1>4. addr' \in [Conns -> Nodes \cup {None}] /\ open' \subseteq Conns
  BY DEF Inv, PoolTypes, CloseConns
<1> QED BY <1>1, <1>2, <1>3, <1>4 DEF PoolStep

\* Connections fail.
LEMMA DieStep ==
    ASSUME Inv, NEW S, Die(S), UNCHANGED <<conns, addr, open>>
    PROVE  PoolStep
<1>1. PICK e \in Deaths : err' = [c \in Conns |-> IF c \in S /\ err[c] = None THEN e ELSE err[c]]
  BY DEF Die
<1>2. e # None /\ e \in DeathKinds  OBVIOUS
<1>3. err' \in [Conns -> DeathKinds \cup {"ErrClosed", None}]
  BY <1>1, <1>2 DEF Inv, PoolTypes
<1>4. \A c \in Conns : err[c] # None => err'[c] # None  BY <1>1
<1>5. PoolMatches'  BY DEF Inv, PoolMatches
<1> QED BY <1>3, <1>4, <1>5 DEF Inv, PoolTypes, PoolStep

\* New connections to nodes, in the places of those nodes in the pool.
LEMMA OpenStep ==
    ASSUME Inv, NEW to, DOMAIN to \subseteq Unused(conns), \A c \in DOMAIN to : to[c] \in Nodes,
           Opened(to), conns' \in [Nodes -> Conns \cup {None}],
           \A n \in Nodes : \/ conns'[n] = conns[n]
                            \/ conns'[n] \in DOMAIN to /\ to[conns'[n]] = n
    PROVE  PoolStep
<1>1. Unused(conns) \subseteq Conns  BY UnusedConns
<1>2. /\ addr' \in [Conns -> Nodes \cup {None}]
      /\ err' \in [Conns -> DeathKinds \cup {"ErrClosed", None}]
      /\ open' \subseteq Conns
  BY <1>1 DEF Inv, PoolTypes, Opened
<1>3. \A c \in Conns \ Unused(conns) : err'[c] = err[c] /\ addr'[c] = addr[c]
  BY DEF Opened
<1>4. \A c \in DOMAIN to : addr'[c] = to[c]  BY <1>1 DEF Opened
<1>5. \A n \in Nodes : conns[n] # None => conns[n] \in Conns \ Unused(conns)
  BY DEF Inv, PoolTypes, Unused, Pooled
<1>6. PoolMatches'
  <2> SUFFICES ASSUME NEW n \in Nodes, conns'[n] # None PROVE addr'[conns'[n]] = n
    BY DEF PoolMatches
  <2>1. CASE conns'[n] = conns[n]  BY <1>3, <1>5, <2>1 DEF Inv, PoolMatches
  <2>2. CASE conns'[n] \in DOMAIN to /\ to[conns'[n]] = n  BY <1>4, <2>2
  <2> QED BY <2>1, <2>2
<1> QED BY <1>2, <1>3, <1>6 DEF PoolStep

\* muCoordinatorConnection pools new connections to the nodes in S, and to the
\* coordinator when it knows it.
LEMMA PoolConnsStep ==
    ASSUME Inv, NEW S \in SUBSET Nodes, NEW f \in [S -> Unused(conns)],
           \A n, k \in S : f[n] = f[k] => n = k,
           NEW more, more = {} \/ \E c \in Unused(conns) \ {f[n] : n \in S} : more = {c},
           PoolConns(S, f, more)
    PROVE  PoolStep
<1> DEFINE to == [c \in {f[n] : n \in S} \cup more |->
                   IF c \in more THEN Coordinator ELSE CHOOSE n \in S : f[n] = c]
<1>1. Opened(to)  BY DEF PoolConns
<1>2. DOMAIN to = {f[n] : n \in S} \cup more /\ DOMAIN to \subseteq Unused(conns)  OBVIOUS
<1>3. \A n \in S : f[n] \in DOMAIN to /\ to[f[n]] = n
  <2> SUFFICES ASSUME NEW n \in S PROVE to[f[n]] = n  BY <1>2
  <2>1. f[n] \notin more  OBVIOUS
  <2>2. (CHOOSE k \in S : f[k] = f[n]) = n  OBVIOUS
  <2> QED BY <2>1, <2>2
<1>4. \A c \in more : c \in DOMAIN to /\ to[c] = Coordinator  OBVIOUS
<1>5. \A c \in DOMAIN to : to[c] \in Nodes
  <2> SUFFICES ASSUME NEW c \in DOMAIN to PROVE to[c] \in Nodes  OBVIOUS
  <2>1. CASE c \in more  BY <1>4, <2>1
  <2>2. CASE c \notin more
    <3>1. PICK n \in S : c = f[n]  BY <1>2, <2>2
    <3> QED BY <1>3, <3>1
  <2> QED BY <2>1, <2>2
<1>6. conns' = [n \in Nodes |-> IF more # {} /\ n = Coordinator THEN CHOOSE c \in more : TRUE
                                ELSE IF n \in S THEN f[n] ELSE conns[n]]
  BY DEF PoolConns, CoordinatorEntry
<1> HIDE DEF to
<1>7. \A n \in Nodes : \/ conns'[n] = conns[n]
                       \/ conns'[n] \in DOMAIN to /\ to[conns'[n]] = n
  <2> TAKE n \in Nodes
  <2>1. CASE more # {} /\ n = Coordinator
    <3>1. conns'[n] \in more  BY <1>6, <2>1
    <3> QED BY <1>4, <2>1, <3>1
  <2>2. CASE ~(more # {} /\ n = Coordinator) /\ n \in S
    <3>1. conns'[n] = f[n]  BY <1>6, <2>2
    <3> QED BY <1>3, <2>2, <3>1
  <2>3. CASE ~(more # {} /\ n = Coordinator) /\ n \notin S  BY <1>6, <2>3
  <2> QED BY <2>1, <2>2, <2>3
<1>8. conns' \in [Nodes -> Conns \cup {None}]
  <2>1. \A n \in Nodes : conns'[n] \in Conns \cup {None}
    BY <1>2, <1>7, UnusedConns DEF Inv, PoolTypes
  <2> QED BY <1>6, <2>1
<1> QED BY <1>1, <1>2, <1>5, <1>7, <1>8, OpenStep

-----------------------------------------------------------------------------
(* What a step may do to a goroutine.                                      *)

Places == {"idle", "leader", "coordinator", "call", "evict", "refresh"}

\* u goes somewhere with a connection, or without one.
Moves(u) ==
    \E w \in Places, c \in Conns \cup {None} :
        /\ Goto(u, w, c) /\ UNCHANGED part
        /\ w \in {"call", "evict"} => c # None

\* A goroutine that goes on is where it has what it needs.
LEMMA GotoMoves ==
    ASSUME NEW u \in Users, NEW w \in {"idle", "leader", "coordinator", "refresh"},
           NEW c \in Conns \cup {None}, Goto(u, w, c), UNCHANGED part
    PROVE  Moves(u)
  BY DEF Moves, Places

\* The same for a goroutine that goes on to its request.
LEMMA CallMoves ==
    ASSUME NEW u \in Users, NEW c \in Conns, Goto(u, "call", c), UNCHANGED part
    PROVE  Moves(u)
<1>1. c # None  OBVIOUS
<1> QED BY <1>1 DEF Moves, Places

\* The end of a call.
LEMMA ReturnMoves ==
    ASSUME NEW u \in Users, NEW r, NEW c \in Conns \cup {None}, Return(u, r, c)
    PROVE  Moves(u)
<1> DEFINE k == IF KeepsConn(u) THEN c ELSE None
<1>1. Goto(u, "idle", k) /\ UNCHANGED part  BY DEF Return
<1>2. k \in Conns \cup {None}  OBVIOUS
<1> QED BY <1>1, <1>2, GotoMoves

\* The next round of the loop of a call, or its end.
LEMMA RetryMoves ==
    ASSUME NEW u \in Users, NEW c \in Conns \cup {None}, Retry(u, c)
    PROVE  Moves(u)
<1>1. CASE MoreTries(u)
  <2> DEFINE k == IF KeepsConn(u) THEN c ELSE None
             w == IF kind[u] = "offset" THEN "refresh" ELSE Attempt(kind[u], k)
  <2>1. Goto(u, w, k) /\ UNCHANGED part  BY <1>1 DEF Retry
  <2>2. k \in Conns \cup {None}  OBVIOUS
  <2>3. \/ w = "call" /\ k # None
        \/ w \in {"leader", "coordinator", "refresh"}
    BY DEF Attempt
  <2> HIDE DEF k, w
  <2>4. CASE w = "call" /\ k # None  BY <2>1, <2>2, <2>4, CallMoves
  <2>5. CASE w \in {"leader", "coordinator", "refresh"}  BY <2>1, <2>2, <2>5, GotoMoves
  <2> QED BY <2>3, <2>4, <2>5
<1>2. CASE ~MoreTries(u)
  <2>1. Return(u, Exhausted(u), c)  BY <1>2 DEF Retry
  <2> QED BY <2>1, ReturnMoves
<1> QED BY <1>1, <1>2

\* muLeaderConnection and muCoordinatorConnection without a connection.
LEMMA NoConnMoves ==
    ASSUME Inv, NEW u \in Users, pc[u] \in {"leader", "coordinator"}, NoConn(u)
    PROVE  Moves(u)
<1>1. CASE ltries[u] + 1 < LeaderRetryLimit
  <2>1. UNCHANGED <<pc, held, part>>  BY <1>1 DEF NoConn
  <2>2. Goto(u, pc[u], held[u])  BY <2>1 DEF Goto, Inv, PoolTypes
  <2>3. held[u] \in Conns \cup {None}  BY DEF Inv, PoolTypes
  <2> QED BY <2>1, <2>2, <2>3, GotoMoves
<1>2. CASE ~(ltries[u] + 1 < LeaderRetryLimit) /\ kind[u] = "produce"
  <2>1. Goto(u, "refresh", None) /\ UNCHANGED part  BY <1>2 DEF NoConn, Continue
  <2> QED BY <2>1, GotoMoves
<1>3. CASE ~(ltries[u] + 1 < LeaderRetryLimit) /\ kind[u] = "offset"
  <2>1. Return(u, "error", None)  BY <1>3 DEF NoConn
  <2> QED BY <2>1, ReturnMoves
<1>4. CASE ~(ltries[u] + 1 < LeaderRetryLimit) /\ kind[u] \notin {"produce", "offset"}
  <2>1. Retry(u, None)  BY <1>4 DEF NoConn
  <2> QED BY <2>1, RetryMoves
<1> QED BY <1>1, <1>2, <1>3, <1>4

\* muCloseDeadConnection is called for the connection of the request.
LEMMA CloseDeadMoves ==
    ASSUME Inv, NEW u \in Users, NEW e, pc[u] = "call", CloseDead(u, e)
    PROVE  Moves(u)
<1>1. held[u] \in Conns \cup {None} /\ held[u] # None  BY DEF Inv, PoolTypes, CallersHold
<1>2. Goto(u, "evict", held[u]) /\ UNCHANGED part  BY DEF CloseDead
<1> QED BY <1>1, <1>2 DEF Moves, Places

\* A request and what its caller makes of the outcome.
LEMMA RequestMoves ==
    ASSUME Inv, NEW u \in Users, Request(u)
    PROVE  Moves(u)
<1>1. PICK e \in Outcomes(u, held[u]) :
         \/ ProduceOutcome(u, e) \/ OffsetOutcome(u, e) \/ FetchOutcome(u, e)
         \/ CommitOutcome(u, e) \/ CommittedOutcome(u, e)
  BY DEF Request
<1>2. pc[u] = "call"  BY DEF Request
<1>3. held[u] \in Conns \cup {None}  BY DEF Inv, PoolTypes
<1>4. \/ \E r : Return(u, r, None) \/ Return(u, r, held[u])
      \/ Continue(u, "refresh", None)
      \/ Retry(u, None) \/ Retry(u, held[u])
      \/ CloseDead(u, e)
  BY <1>1 DEF ProduceOutcome, OffsetOutcome, FetchOutcome, CommitOutcome, CommittedOutcome
<1>5. CASE \E r : Return(u, r, None) \/ Return(u, r, held[u])  BY <1>3, <1>5, ReturnMoves
<1>6. CASE Continue(u, "refresh", None)
  <2>1. Goto(u, "refresh", None) /\ UNCHANGED part  BY <1>6 DEF Continue
  <2> QED BY <2>1, GotoMoves
<1>7. CASE Retry(u, None) \/ Retry(u, held[u])  BY <1>3, <1>7, RetryMoves
<1>8. CASE CloseDead(u, e)  BY <1>2, <1>8, CloseDeadMoves
<1> QED BY <1>4, <1>5, <1>6, <1>7, <1>8

-----------------------------------------------------------------------------
(* The invariant.                                                          *)

\* Dial gives a broker an empty pool.
LEMMA InvInit == Init => Inv
<1> SUFFICES ASSUME Init PROVE Inv  OBVIOUS
<1>1. meta \in [nodes : SUBSET Nodes, endpoints : [Parts -> Nodes \cup {NoLeader, None}]]
  BY DEF Init, Truth
<1>2. PoolTypes  BY <1>1 DEF Init, PoolTypes
<1>3. PoolMatches /\ CallersHold  BY DEF Init, PoolMatches, CallersHold
<1> QED BY <1>2, <1>3 DEF Inv

\* The metadata after they were refreshed, or not.
LEMMA RefreshTypes ==
    ASSUME Inv, NEW pool, NEW m \in Refreshed(pool) \cup NotRefreshed(pool)
    PROVE  m \in [nodes : SUBSET Nodes, endpoints : [Parts -> Nodes \cup {NoLeader, None}]]
<1>1. m = Truth \/ m = meta  BY DEF Refreshed, NotRefreshed
<1>2. CASE m = Truth  BY <1>2 DEF Truth, Inv, PoolTypes
<1>3. CASE m = meta  BY <1>3 DEF Inv, PoolTypes
<1> QED BY <1>1, <1>2, <1>3

\* What is known of the cluster, and what is true of it, have their types.
WorldTypes ==
    /\ meta \in [nodes : SUBSET Nodes, endpoints : [Parts -> Nodes \cup {NoLeader, None}]]
    /\ up \subseteq Nodes /\ leader \in [Parts -> Nodes \cup {NoLeader, None}]

\* A step that keeps the pool in order and moves one goroutine keeps the
\* invariant.
LEMMA MoveKeepsInv ==
    ASSUME Inv, PoolStep, WorldTypes', NEW u \in Users, Moves(u)
    PROVE  Inv' /\ PoolStep
<1>1. PICK w \in Places, c \in Conns \cup {None} :
         /\ pc' = [pc EXCEPT ![u] = w] /\ held' = [held EXCEPT ![u] = c] /\ UNCHANGED part
         /\ w \in {"call", "evict"} => c # None
  BY DEF Moves, Goto
<1>2. PoolTypes'  BY <1>1 DEF Inv, PoolTypes, PoolStep, WorldTypes, Places
<1>3. CallersHold'
  <2> SUFFICES ASSUME NEW v \in Users, pc'[v] \in {"call", "evict"} PROVE held'[v] # None
    BY DEF CallersHold
  <2>1. CASE v = u
    <3>1. pc'[v] = w /\ held'[v] = c  BY <1>1, <2>1 DEF Inv, PoolTypes
    <3> QED BY <1>1, <3>1
  <2>2. CASE v # u
    <3>1. pc'[v] = pc[v] /\ held'[v] = held[v]  BY <1>1, <2>2 DEF Inv, PoolTypes
    <3> QED BY <3>1 DEF Inv, CallersHold
  <2> QED BY <2>1, <2>2
<1> QED BY <1>2, <1>3 DEF Inv, PoolStep

\* The same for a step that moves nobody.
LEMMA StillKeepsInv ==
    ASSUME Inv, PoolStep, WorldTypes', UNCHANGED <<pc, held, part>>
    PROVE  Inv' /\ PoolStep
<1>1. PoolTypes'  BY DEF Inv, PoolTypes, PoolStep, WorldTypes
<1>2. CallersHold'  BY DEF Inv, CallersHold
<1> QED BY <1>1, <1>2 DEF Inv, PoolStep

\* muLeaderConnection without a connection.
LEMMA LeaderFailsStep == ASSUME Inv, NEW u \in Users, LeaderFails(u) PROVE Inv' /\ PoolStep
<1>1. Moves(u)  BY NoConnMoves DEF LeaderFails
<1>2. PoolStep  BY SamePool DEF LeaderFails
<1>3. meta' \in [nodes : SUBSET Nodes, endpoints : [Parts -> Nodes \cup {NoLeader, None}]]
  <2>1. \A m \in Looked(part[u]) :
           m \in [nodes : SUBSET Nodes, endpoints : [Parts -> Nodes \cup {NoLeader, None}]]
    BY RefreshTypes DEF Looked, Inv, PoolTypes
  <2>2. part[u] \in Parts  BY DEF Inv, PoolTypes
  <2>3. \/ meta' \in NotRefreshed(conns)
        \/ \E m \in Looked(part[u]) : meta' = m \/ meta' = Without(m, part[u])
    BY DEF LeaderFails
  <2>4. CASE meta' \in NotRefreshed(conns)  BY <2>4, RefreshTypes
  <2>5. CASE \E m \in Looked(part[u]) : meta' = m \/ meta' = Without(m, part[u])
    BY <2>1, <2>2, <2>5 DEF Without
  <2> QED BY <2>3, <2>4, <2>5
<1>4. WorldTypes'  BY <1>3 DEF WorldTypes, LeaderFails, worldVars, Inv, PoolTypes
<1> QED BY <1>1, <1>2, <1>4, MoveKeepsInv

\* muLeaderConnection with a pooled connection, or a new one.
LEMMA LeaderConnectionStep == ASSUME Inv, NEW u \in Users, LeaderConnection(u) PROVE Inv' /\ PoolStep
<1>1. PICK m \in Looked(part[u]) :
         LET n == m.endpoints[part[u]] IN
         /\ n # None /\ meta' = m
         /\ IF ConnOf(n) # None
            THEN Continue(u, "call", ConnOf(n)) /\ UNCHANGED <<conns, addr, err, open>>
            ELSE /\ n \in m.nodes /\ Dials(n)
                 /\ Unused(conns) # {}
                 /\ LET c == CHOOSE c \in Unused(conns) : TRUE IN
                    /\ Opened([x \in {c} |-> n])
                    /\ conns' = [conns EXCEPT ![n] = c]
                    /\ Continue(u, "call", c)
  BY DEF LeaderConnection
<1> DEFINE n == m.endpoints[part[u]]
<1>2. m \in [nodes : SUBSET Nodes, endpoints : [Parts -> Nodes \cup {NoLeader, None}]]
  BY RefreshTypes DEF Looked, Inv, PoolTypes
<1>3. WorldTypes'  BY <1>1, <1>2 DEF WorldTypes, LeaderConnection, worldVars, Inv, PoolTypes
<1>4. CASE ConnOf(n) # None
  <2>1. Continue(u, "call", ConnOf(n)) /\ UNCHANGED <<conns, addr, err, open>>  BY <1>1, <1>4
  <2>2. ConnOf(n) \in Conns  BY <1>4 DEF ConnOf, Inv, PoolTypes
  <2>3. Moves(u)  BY <2>1, <2>2, CallMoves DEF Continue
  <2>4. PoolStep  BY <2>1, SamePool
  <2> QED BY <1>3, <2>3, <2>4, MoveKeepsInv
<1>5. CASE ConnOf(n) = None
  <2> DEFINE c == CHOOSE c \in Unused(conns) : TRUE
             to == [x \in {c} |-> n]
  <2>1. /\ n \in Nodes /\ c \in Unused(conns) /\ Opened(to)
        /\ conns' = [conns EXCEPT ![n] = c] /\ Continue(u, "call", c)
    BY <1>1, <1>2, <1>5
  <2>2. c \in Conns  BY <2>1, UnusedConns
  <2>3. DOMAIN to = {c} /\ to[c] = n  OBVIOUS
  <2>4. Moves(u)  BY <2>1, <2>2, CallMoves DEF Continue
  <2> HIDE DEF n, c, to
  <2>5. conns' \in [Nodes -> Conns \cup {None}]  BY <2>1, <2>2 DEF Inv, PoolTypes
  <2>6. \A k \in Nodes : conns'[k] = conns[k] \/ (conns'[k] \in DOMAIN to /\ to[conns'[k]] = k)
    BY <2>1, <2>3 DEF Inv, PoolTypes
  <2>7. PoolStep
    <3>1. DOMAIN to \subseteq Unused(conns) /\ \A x \in DOMAIN to : to[x] \in Nodes  BY <2>1, <2>3
    <3>2. Opened(to)  BY <2>1
    <3> QED BY <2>5, <2>6, <3>1, <3>2, OpenStep
  <2> QED BY <1>3, <2>4, <2>7, MoveKeepsInv
<1> QED BY <1>4, <1>5

\* muCoordinatorConnection without an answer.
LEMMA CoordinatorFailsStep == ASSUME Inv, NEW u \in Users, CoordinatorFails(u) PROVE Inv' /\ PoolStep
<1>1. Moves(u)  BY NoConnMoves DEF CoordinatorFails
<1>2. meta' \in Refreshed(conns) \cup NotRefreshed(conns)  BY DEF CoordinatorFails
<1>3. WorldTypes'
  BY <1>2, RefreshTypes DEF WorldTypes, CoordinatorFails, worldVars, Inv, PoolTypes
<1>4. PoolStep
  <2>1. CASE UNCHANGED <<conns, addr, err, open>>  BY <2>1, SamePool
  <2>2. CASE ~UNCHANGED <<conns, addr, err, open>>
    <3> DEFINE new(S) == CHOOSE f \in NewConns(S) : TRUE
    <3>1. PICK S \in SUBSET NotPooled : NewConns(S) # {} /\ PoolConns(S, new(S), {})
      BY <2>2 DEF CoordinatorFails
    <3>2. S \in SUBSET Nodes  BY DEF NotPooled, Inv, PoolTypes
    <3>3. new(S) \in [S -> Unused(conns)] /\ \A n, k \in S : new(S)[n] = new(S)[k] => n = k
      <4>1. new(S) \in NewConns(S)  BY <3>1
      <4> QED BY <4>1 DEF NewConns
    <3> QED BY <3>1, <3>2, <3>3, PoolConnsStep
  <2> QED BY <2>1, <2>2
<1> QED BY <1>1, <1>3, <1>4, MoveKeepsInv

\* muCoordinatorConnection with a new connection to the coordinator.
LEMMA CoordinatorConnectionStep ==
    ASSUME Inv, NEW u \in Users, CoordinatorConnection(u) PROVE Inv' /\ PoolStep
<1>1. PICK S \in SUBSET NotPooled :
         /\ IF S = {} THEN Answers /\ UNCHANGED meta
            ELSE /\ ~Answers \/ ~calm
                 /\ meta' \in Refreshed(conns)
                 /\ calm => Cardinality(S) = 1
         /\ NewConns(S) # {}
         /\ LET f == CHOOSE f \in NewConns(S) : TRUE
                left == Unused(conns) \ {f[n] : n \in S}
                c == CHOOSE c \in left : TRUE
            IN  left # {} /\ PoolConns(S, f, {c}) /\ Continue(u, "call", c)
  BY DEF CoordinatorConnection
<1> DEFINE f == CHOOSE f \in NewConns(S) : TRUE
           left == Unused(conns) \ {f[n] : n \in S}
           c == CHOOSE c \in left : TRUE
<1>2. S \in SUBSET Nodes  BY DEF NotPooled, Inv, PoolTypes
<1>3. left # {} /\ PoolConns(S, f, {c}) /\ Continue(u, "call", c)  BY <1>1
<1>4. f \in NewConns(S)  BY <1>1
<1>5. f \in [S -> Unused(conns)] /\ \A n, k \in S : f[n] = f[k] => n = k  BY <1>4 DEF NewConns
<1> HIDE DEF f
<1>6. c \in Unused(conns) \ {f[n] : n \in S}  BY <1>3
<1> HIDE DEF c
<1>7. PoolStep  BY <1>2, <1>3, <1>5, <1>6, PoolConnsStep
<1>8. Moves(u)
  <2>1. c \in Conns  BY <1>6, UnusedConns
  <2> QED BY <1>3, <2>1, CallMoves DEF Continue
<1>9. meta' = meta \/ meta' \in Refreshed(conns)  BY <1>1
<1>10. WorldTypes'
  BY <1>9, RefreshTypes DEF WorldTypes, CoordinatorConnection, worldVars, Inv, PoolTypes
<1> QED BY <1>7, <1>8, <1>10, MoveKeepsInv

\* muCloseDeadConnection takes out of the pool, and closes, at most the
\* connection it is called for.
LEMMA EvictOnlyHeld ==
    ASSUME NEW u \in Users, CloseDeadConnection(u)
    PROVE  \E S \in SUBSET {held[u]} : CloseConns(S)
<1> DEFINE S == {conns[n] : n \in Evicted(held[u])}
<1>1. CloseConns(S)  BY DEF CloseDeadConnection
<1>2. S \in SUBSET {held[u]}  BY DEF Evicted
<1> QED BY <1>1, <1>2

\* muCloseDeadConnection, and what the call does next.
LEMMA CloseDeadConnectionStep == ASSUME Inv, NEW u \in Users, CloseDeadConnection(u) PROVE Inv' /\ PoolStep
<1> DEFINE pool == [n \in Nodes |-> IF n \in Evicted(held[u]) THEN None ELSE conns[n]]
<1>1. conns' = pool /\ UNCHANGED <<addr, up, leader>>  BY DEF CloseDeadConnection, worldVars
<1>2. conns' \in [Nodes -> Conns \cup {None}] /\ \A n \in Nodes : conns'[n] \in {conns[n], None}
  BY <1>1 DEF Inv, PoolTypes
<1>3. PoolStep  BY <1>1, <1>2, EvictOnlyHeld, CloseStep
<1>4. meta' = meta \/ meta' \in Refreshed(pool) \cup NotRefreshed(pool)
  BY DEF CloseDeadConnection
<1> HIDE DEF pool
<1>5. WorldTypes'  BY <1>1, <1>4, RefreshTypes DEF WorldTypes, Inv, PoolTypes
<1>6. Moves(u)
  <2>1. CASE Continue(u, "refresh", None)  BY <2>1, GotoMoves DEF Continue
  <2>2. CASE Retry(u, None)  BY <2>2, RetryMoves
  <2> QED BY <2>1, <2>2 DEF CloseDeadConnection
<1> QED BY <1>3, <1>5, <1>6, MoveKeepsInv

\* muRefreshMetadata, and what the call does next.
LEMMA RefreshMetadataStep == ASSUME Inv, NEW u \in Users, RefreshMetadata(u) PROVE Inv' /\ PoolStep
<1>1. meta' \in Refreshed(conns) \cup NotRefreshed(conns)  BY DEF RefreshMetadata
<1>2. WorldTypes'
  BY <1>1, RefreshTypes DEF WorldTypes, RefreshMetadata, worldVars, Inv, PoolTypes
<1>3. PoolStep  BY SamePool DEF RefreshMetadata
<1>4. Moves(u)
  <2>1. CASE Continue(u, "leader", None)  BY <2>1, GotoMoves DEF Continue
  <2>2. CASE Retry(u, None)  BY <2>2, RetryMoves
  <2> QED BY <2>1, <2>2 DEF RefreshMetadata
<1> QED BY <1>2, <1>3, <1>4, MoveKeepsInv

\* A call begins, with the connection that its object has kept.
LEMMA CallStep ==
    ASSUME Inv, NEW u \in Users, NEW k, NEW p \in Parts, Call(u, k, p) PROVE Inv' /\ PoolStep
<1>1. UNCHANGED poolVars /\ UNCHANGED worldVars  BY DEF Call
<1>2. pc' = [pc EXCEPT ![u] = Attempt(k, held[u])] /\ held' = [held EXCEPT ![u] = held[u]]
  BY DEF Call, Goto
<1>3. held' = held  BY <1>2 DEF Inv, PoolTypes
<1>4. \/ Attempt(k, held[u]) = "call" /\ held[u] # None
      \/ Attempt(k, held[u]) \in {"leader", "coordinator"}
  BY DEF Attempt
<1>5. part' \in [Users -> Parts]  BY DEF Call, Inv, PoolTypes
<1>6. PoolTypes'
  <2>1. pc' \in [Users -> {"idle", "leader", "coordinator", "call", "evict", "refresh"}]
    BY <1>2, <1>4 DEF Inv, PoolTypes
  <2> QED BY <1>1, <1>3, <1>5, <2>1 DEF Inv, PoolTypes, poolVars, worldVars
<1>7. CallersHold'  BY <1>2, <1>3, <1>4 DEF Inv, PoolTypes, CallersHold
<1>8. PoolStep  BY <1>1, SamePool DEF poolVars
<1> QED BY <1>1, <1>6, <1>7, <1>8 DEF Inv, PoolMatches, poolVars

\* Broker.Close, and what happens in the cluster and the network.
LEMMA OtherStep == ASSUME Inv, Close \/ World PROVE Inv' /\ PoolStep
<1>1. CASE Close
  <2>1. PoolStep
    <3>1. CloseConns(AllPooled) /\ UNCHANGED <<conns, addr>>  BY <1>1 DEF Close
    <3> QED BY <3>1, CloseStep DEF Inv, PoolTypes
  <2>2. UNCHANGED <<meta, up, leader, pc, held, part>>  BY <1>1 DEF Close, userVars, worldVars
  <2> QED BY <2>1, <2>2, StillKeepsInv DEF WorldTypes, Inv, PoolTypes
<1>2. ASSUME NEW c \in Conns, ConnDies(c) PROVE Inv' /\ PoolStep
  <2>1. PoolStep  BY <1>2, DieStep DEF ConnDies
  <2>2. UNCHANGED <<meta, up, leader, pc, held, part>>  BY <1>2 DEF ConnDies, userVars
  <2> QED BY <2>1, <2>2, StillKeepsInv DEF WorldTypes, Inv, PoolTypes
<1>3. ASSUME NEW n \in Nodes, NodeStops(n) PROVE Inv' /\ PoolStep
  <2>1. PoolStep  BY <1>3, DieStep DEF NodeStops
  <2>2. UNCHANGED <<meta, leader, pc, held, part>> /\ up' \subseteq up
    BY <1>3 DEF NodeStops, userVars
  <2> QED BY <2>1, <2>2, StillKeepsInv DEF WorldTypes, Inv, PoolTypes
<1>4. ASSUME NEW n \in Nodes, NodeStarts(n) PROVE Inv' /\ PoolStep
  <2>1. PoolStep  BY <1>4, SamePool DEF NodeStarts, poolVars
  <2>2. UNCHANGED <<meta, leader, pc, held, part>> /\ up' = up \cup {n}
    BY <1>4 DEF NodeStarts, poolVars, userVars
  <2> QED BY <2>1, <2>2, StillKeepsInv DEF WorldTypes, Inv, PoolTypes
<1>5. ASSUME NEW p \in Parts, NEW n \in Nodes \cup {NoLeader, None}, LeaderMoves(p, n) PROVE Inv' /\ PoolStep
  <2>1. PoolStep  BY <1>5, SamePool DEF LeaderMoves, poolVars
  <2>2. UNCHANGED <<meta, up, pc, held, part>> /\ leader' = [leader EXCEPT ![p] = n]
    BY <1>5 DEF LeaderMoves, poolVars, userVars
  <2> QED BY <2>1, <2>2, StillKeepsInv DEF WorldTypes, Inv, PoolTypes
<1>6. CASE Calm
  <2>1. PoolStep  BY <1>6, SamePool DEF Calm, poolVars
  <2>2. UNCHANGED <<meta, up, leader, pc, held, part>>  BY <1>6 DEF Calm, poolVars, userVars
  <2> QED BY <2>1, <2>2, StillKeepsInv DEF WorldTypes, Inv, PoolTypes
<1> QED BY <1>1, <1>2, <1>3, <1>4, <1>5, <1>6 DEF World

\* Each step keeps the invariant and the order of the pool.
LEMMA InvStep == Inv /\ [Next]_vars => Inv' /\ PoolStep
<1> SUFFICES ASSUME Inv, [Next]_vars PROVE Inv' /\ PoolStep  OBVIOUS
<1>1. ASSUME NEW u \in Users, User(u) PROVE Inv' /\ PoolStep
  <2>1. CASE Request(u)
    <3>1. PoolStep  BY <2>1, SamePool DEF Request, poolVars
    <3>2. WorldTypes'  BY <2>1 DEF Request, poolVars, WorldTypes, Inv, PoolTypes
    <3> QED BY <2>1, <3>1, <3>2, RequestMoves, MoveKeepsInv
  <2> QED BY <1>1, <2>1, LeaderFailsStep, LeaderConnectionStep, CoordinatorFailsStep,
             CoordinatorConnectionStep, CloseDeadConnectionStep, RefreshMetadataStep DEF User
<1>2. ASSUME NEW u \in Users, NEW k \in Kinds[u], NEW p \in Parts, Call(u, k, p) PROVE Inv' /\ PoolStep
  BY <1>2, CallStep
<1>3. CASE Close \/ World  BY <1>3, OtherStep
<1>4. CASE UNCHANGED vars
  <2>1. PoolStep  BY <1>4, SamePool DEF vars
  <2> QED BY <1>4, <2>1 DEF vars, Inv, PoolTypes, PoolMatches, CallersHold
<1> QED BY <1>1, <1>2, <1>3, <1>4 DEF Next

\* The invariant holds in every state of every behaviour.
LEMMA InvHolds == Spec => []Inv
  BY InvInit, InvStep, PTL DEF Spec

-----------------------------------------------------------------------------
(* The theorems.                                                           *)

\* A pooled connection leads to the node it is stored under, whatever
\* muLeaderConnection, muCoordinatorConnection and muCloseDeadConnection do at
\* the same time.
THEOREM PoolLeadsToNodes == Spec => []PoolMatches
<1>1. Inv => PoolMatches  BY DEF Inv
<1> QED BY <1>1, InvHolds, PTL

-----------------------------------------------------------------------------
(* What a step does to the variables of a goroutine.                       *)

\* What TypeOK says of the goroutines, and not yet PoolTypes.
UserTypes ==
    /\ \A u \in Users : IF pc[u] = "idle" THEN kind[u] = None ELSE kind[u] \in Kinds[u]
    /\ DOMAIN kind = Users /\ kind = [u \in Users |-> kind[u]]
    /\ cause \in [Users -> DeathKinds \cup Unreadable \cup {"ErrClosed", "wrapped", None}]
    /\ tries \in [Users -> 0 .. (RetryLimit - 1)]
    /\ ltries \in [Users -> 0 .. (LeaderRetryLimit - 1)]
    /\ quiet \in [Users -> BOOLEAN]
    /\ res \in [Users -> {"unset", "ok", "error", "nothing"}]
    /\ closed \in BOOLEAN /\ calm \in BOOLEAN /\ faults \in 0 .. MaxFaults

\* u goes to w, in a call of kind k, with connection c, and so on.
Becomes(u, w, k, c, e, t, l, r) ==
    /\ pc' = [pc EXCEPT ![u] = w] /\ kind' = [kind EXCEPT ![u] = k] /\ held' = [held EXCEPT ![u] = c]
    /\ cause' = [cause EXCEPT ![u] = e] /\ tries' = [tries EXCEPT ![u] = t] /\ ltries' = [ltries EXCEPT ![u] = l]
    /\ res' = [res EXCEPT ![u] = r]
    /\ UNCHANGED <<part, quiet>>

\* Nothing changes for v.
Same(v) ==
    /\ pc'[v] = pc[v] /\ kind'[v] = kind[v] /\ held'[v] = held[v] /\ cause'[v] = cause[v]
    /\ tries'[v] = tries[v] /\ ltries'[v] = ltries[v] /\ res'[v] = res[v]
    /\ part'[v] = part[v] /\ quiet'[v] = quiet[v]

\* Becomes, in terms of values.
Is(u, w, k, c, e, t, l, r) ==
    /\ pc'[u] = w /\ kind'[u] = k /\ held'[u] = c /\ cause'[u] = e /\ tries'[u] = t /\ ltries'[u] = l
    /\ res'[u] = r /\ part'[u] = part[u] /\ quiet'[u] = quiet[u]

LEMMA BecomesIs ==
    ASSUME Inv, UserTypes, NEW u \in Users, NEW w, NEW k, NEW c, NEW e, NEW t, NEW l, NEW r,
           Becomes(u, w, k, c, e, t, l, r)
    PROVE  Is(u, w, k, c, e, t, l, r) /\ \A v \in Users \ {u} : Same(v)
<1>1. /\ DOMAIN pc = Users /\ DOMAIN held = Users /\ DOMAIN kind = Users /\ DOMAIN cause = Users
      /\ DOMAIN tries = Users /\ DOMAIN ltries = Users /\ DOMAIN res = Users
  BY Zenon DEF Inv, PoolTypes, UserTypes
<1>2. Is(u, w, k, c, e, t, l, r)  BY <1>1, Zenon DEF Becomes, Is
<1>3. ASSUME NEW v \in Users \ {u} PROVE Same(v)
  <2>1. v # u /\ v \in Users  OBVIOUS
  <2> QED BY <1>1, <2>1, Zenon DEF Becomes, Same
<1> QED BY <1>2, <1>3, Zenon

\* The parts of actions that move a goroutine, as instances of Becomes.
LEMMA ContinueBecomes ==
    ASSUME Inv, UserTypes, NEW u \in Users, NEW w, NEW c, Continue(u, w, c)
    PROVE  Becomes(u, w, kind[u], c, cause[u], tries[u], ltries[u], res[u])
<1>1. /\ kind = [kind EXCEPT ![u] = kind[u]] /\ cause = [cause EXCEPT ![u] = cause[u]]
      /\ tries = [tries EXCEPT ![u] = tries[u]] /\ ltries = [ltries EXCEPT ![u] = ltries[u]]
      /\ res = [res EXCEPT ![u] = res[u]]
  BY Zenon DEF UserTypes
<1> QED BY <1>1, Zenon DEF Continue, Goto, Becomes

LEMMA ReturnBecomes ==
    ASSUME NEW u \in Users, NEW r, NEW c, Return(u, r, c)
    PROVE  Becomes(u, "idle", None, IF KeepsConn(u) THEN c ELSE None, None, 0, 0, r)
  BY Zenon DEF Return, Goto, Becomes

LEMMA RetryBecomes ==
    ASSUME Inv, UserTypes, NEW u \in Users, NEW c, Retry(u, c), MoreTries(u)
    PROVE  LET keeps == IF KeepsConn(u) THEN c ELSE None
           IN  Becomes(u, IF kind[u] = "offset" THEN "refresh" ELSE Attempt(kind[u], keeps),
                       kind[u], keeps, None, tries[u] + 1, 0, res[u])
<1>1. kind = [kind EXCEPT ![u] = kind[u]] /\ res = [res EXCEPT ![u] = res[u]]  BY Zenon DEF UserTypes
<1> QED BY <1>1, Zenon DEF Retry, Goto, Becomes

LEMMA CloseDeadBecomes ==
    ASSUME Inv, UserTypes, NEW u \in Users, NEW e, CloseDead(u, e)
    PROVE  Becomes(u, "evict", kind[u], held[u], e, tries[u], ltries[u], res[u])
<1>1. /\ kind = [kind EXCEPT ![u] = kind[u]]
      /\ tries = [tries EXCEPT ![u] = tries[u]] /\ ltries = [ltries EXCEPT ![u] = ltries[u]]
      /\ res = [res EXCEPT ![u] = res[u]]
  BY Zenon DEF UserTypes
<1> QED BY <1>1, Zenon DEF CloseDead, Goto, Becomes

LEMMA NoConnBecomes ==
    ASSUME Inv, UserTypes, NEW u \in Users, NoConn(u), ltries[u] + 1 < LeaderRetryLimit
    PROVE  Becomes(u, pc[u], kind[u], held[u], cause[u], tries[u], ltries[u] + 1, res[u])
<1>1. /\ kind = [kind EXCEPT ![u] = kind[u]] /\ cause = [cause EXCEPT ![u] = cause[u]]
      /\ tries = [tries EXCEPT ![u] = tries[u]] /\ res = [res EXCEPT ![u] = res[u]]
      /\ pc = [pc EXCEPT ![u] = pc[u]] /\ held = [held EXCEPT ![u] = held[u]]
  BY Zenon DEF UserTypes, Inv, PoolTypes
<1> QED BY <1>1, Zenon DEF NoConn, Becomes

-----------------------------------------------------------------------------
(* Type correctness.                                                       *)

Causes == DeathKinds \cup Unreadable \cup {"ErrClosed", "wrapped", None}
Results == {"unset", "ok", "error", "nothing"}

\* What the goroutines leave as it is, but for responses that cannot be read.
Still == UNCHANGED <<closed, calm>> /\ faults' \in 0 .. MaxFaults

LEMMA BecomesTypes ==
    ASSUME Inv, UserTypes, Still, NEW u \in Users, NEW w, NEW k, NEW c,
           NEW e \in Causes, NEW t \in 0 .. (RetryLimit - 1), NEW l \in 0 .. (LeaderRetryLimit - 1), NEW r \in Results,
           Becomes(u, w, k, c, e, t, l, r),
           IF w = "idle" THEN k = None ELSE k \in Kinds[u]
    PROVE  UserTypes'
<1>1. Is(u, w, k, c, e, t, l, r) /\ \A v \in Users \ {u} : Same(v)  BY BecomesIs, Zenon
<1>2. ASSUME NEW v \in Users PROVE IF pc'[v] = "idle" THEN kind'[v] = None ELSE kind'[v] \in Kinds[v]
  <2>1. CASE v = u  BY <1>1, <2>1, Zenon DEF Is
  <2>2. CASE v # u
    <3>1. pc'[v] = pc[v] /\ kind'[v] = kind[v]  BY <1>1, <2>2, Zenon DEF Same
    <3> QED BY <3>1, Zenon DEF UserTypes
  <2> QED BY <2>1, <2>2
<1>3. DOMAIN kind' = Users /\ kind' = [v \in Users |-> kind'[v]]  BY Zenon DEF UserTypes, Becomes
<1>4. cause' \in [Users -> Causes]  BY Zenon DEF UserTypes, Becomes, Causes
<1>5. tries' \in [Users -> 0 .. (RetryLimit - 1)] /\ ltries' \in [Users -> 0 .. (LeaderRetryLimit - 1)]
  BY Zenon DEF UserTypes, Becomes
<1>6. quiet' \in [Users -> BOOLEAN] /\ res' \in [Users -> Results]  BY Zenon DEF UserTypes, Becomes, Results
<1> QED BY <1>2, <1>3, <1>4, <1>5, <1>6, Zenon DEF UserTypes, Still, Causes, Results

\* Facts about one goroutine.
LEMMA TypesOf ==
    ASSUME UserTypes, NEW u \in Users
    PROVE  /\ cause[u] \in Causes /\ tries[u] \in 0 .. (RetryLimit - 1) /\ ltries[u] \in 0 .. (LeaderRetryLimit - 1)
           /\ res[u] \in Results /\ (pc[u] # "idle" => kind[u] \in Kinds[u])
           /\ 0 \in 0 .. (RetryLimit - 1) /\ 0 \in 0 .. (LeaderRetryLimit - 1)
           /\ RetryLimit \in Nat /\ LeaderRetryLimit \in Nat
<1>1. /\ cause[u] \in Causes /\ tries[u] \in 0 .. (RetryLimit - 1) /\ ltries[u] \in 0 .. (LeaderRetryLimit - 1)
      /\ res[u] \in Results /\ (pc[u] # "idle" => kind[u] \in Kinds[u])
  BY Zenon DEF UserTypes, Causes, Results
<1>2. RetryLimit \in Nat \ {0} /\ LeaderRetryLimit \in Nat \ {0}  BY BrokerAssumption, Zenon
<1>3. 0 \in 0 .. (RetryLimit - 1) /\ 0 \in 0 .. (LeaderRetryLimit - 1)  BY <1>2
<1> QED BY <1>1, <1>2, <1>3, Zenon

LEMMA ContinueTypes ==
    ASSUME Inv, UserTypes, Still, NEW u \in Users, NEW w \in Places \ {"idle"}, NEW c, Continue(u, w, c), pc[u] # "idle"
    PROVE  UserTypes'
<1>1. Becomes(u, w, kind[u], c, cause[u], tries[u], ltries[u], res[u])  BY ContinueBecomes, Zenon
<1>2. w # "idle"  OBVIOUS
<1> QED BY <1>1, <1>2, TypesOf, BecomesTypes, Zenon

LEMMA ReturnTypes ==
    ASSUME Inv, UserTypes, Still, NEW u \in Users, NEW r \in Results, NEW c, Return(u, r, c)
    PROVE  UserTypes'
<1>1. PICK w, k : w = "idle" /\ k = (IF KeepsConn(u) THEN c ELSE None)  OBVIOUS
<1>2. Becomes(u, w, None, k, None, 0, 0, r)  BY <1>1, ReturnBecomes, Zenon
<1>3. None \in Causes  BY DEF Causes
<1> QED BY <1>1, <1>2, <1>3, TypesOf, BecomesTypes, Zenon

LEMMA RetryTypes ==
    ASSUME Inv, UserTypes, Still, NEW u \in Users, NEW c, Retry(u, c), pc[u] # "idle"
    PROVE  UserTypes'
<1>1. CASE MoreTries(u)
  <2>1. PICK keeps : keeps = IF KeepsConn(u) THEN c ELSE None  OBVIOUS
  <2>2. PICK w, t : /\ w = IF kind[u] = "offset" THEN "refresh" ELSE Attempt(kind[u], keeps)
                    /\ t = tries[u] + 1
    OBVIOUS
  <2>3. Becomes(u, w, kind[u], keeps, None, t, 0, res[u])  BY <1>1, <2>1, <2>2, RetryBecomes, Zenon
  <2>4. w # "idle"  BY <2>2 DEF Attempt
  <2>5. t \in 0 .. (RetryLimit - 1)  BY <1>1, <2>2, TypesOf DEF MoreTries
  <2>6. None \in Causes  BY DEF Causes
  <2> QED BY <2>3, <2>4, <2>5, <2>6, TypesOf, BecomesTypes, Zenon
<1>2. CASE ~MoreTries(u)
  <2>1. PICK r : r = Exhausted(u) /\ r \in Results  BY DEF Exhausted, Results
  <2>2. Return(u, r, c)  BY <1>2, <2>1, Zenon DEF Retry
  <2> QED BY <2>1, <2>2, ReturnTypes, Zenon
<1> QED BY <1>1, <1>2

LEMMA CloseDeadTypes ==
    ASSUME Inv, UserTypes, Still, NEW u \in Users, NEW e \in Causes, CloseDead(u, e), pc[u] # "idle"
    PROVE  UserTypes'
<1>1. PICK w : w = "evict" /\ w # "idle"  OBVIOUS
<1>2. Becomes(u, w, kind[u], held[u], e, tries[u], ltries[u], res[u])  BY <1>1, CloseDeadBecomes, Zenon
<1> QED BY <1>1, <1>2, TypesOf, BecomesTypes, Zenon

LEMMA NoConnTypes ==
    ASSUME Inv, UserTypes, Still, NEW u \in Users, NoConn(u), pc[u] # "idle"
    PROVE  UserTypes'
<1>1. CASE ltries[u] + 1 < LeaderRetryLimit
  <2>1. PICK l : l = ltries[u] + 1  OBVIOUS
  <2>2. Becomes(u, pc[u], kind[u], held[u], cause[u], tries[u], l, res[u])  BY <1>1, <2>1, NoConnBecomes, Zenon
  <2>3. l \in 0 .. (LeaderRetryLimit - 1)  BY <1>1, <2>1, TypesOf
  <2> QED BY <2>2, <2>3, TypesOf, BecomesTypes, Zenon
<1>2. CASE ~(ltries[u] + 1 < LeaderRetryLimit)
  <2>1. Continue(u, "refresh", None) \/ Return(u, "error", None) \/ Retry(u, None)  BY <1>2, Zenon DEF NoConn
  <2>2. "refresh" \in Places \ {"idle"} /\ "error" \in Results  BY DEF Places, Results
  <2> QED BY <2>1, <2>2, ContinueTypes, ReturnTypes, RetryTypes, Zenon
<1> QED BY <1>1, <1>2

LEMMA RequestTypes ==
    ASSUME Inv, UserTypes, Still, NEW u \in Users, Request(u)
    PROVE  UserTypes'
<1>1. PICK e \in Outcomes(u, held[u]) :
         \/ ProduceOutcome(u, e) \/ OffsetOutcome(u, e) \/ FetchOutcome(u, e)
         \/ CommitOutcome(u, e) \/ CommittedOutcome(u, e)
  BY Zenon DEF Request
<1>2. pc[u] = "call" /\ pc[u] # "idle"  BY DEF Request
<1>3. held[u] \in Conns  BY <1>2 DEF Inv, PoolTypes, CallersHold
<1>4. err[held[u]] \in DeathKinds \cup {"ErrClosed", None}  BY <1>3, Zenon DEF Inv, PoolTypes
<1>5. e \in Causes \cup {"ok", "NotLeader", "refused"}  BY <1>4 DEF Outcomes, Causes
<1>6. \/ \E r \in Results : \E c : Return(u, r, c)
      \/ Continue(u, "refresh", None)
      \/ \E c : Retry(u, c)
      \/ e \notin {"ok", "NotLeader", "refused"} /\ CloseDead(u, e)
  BY <1>1, Zenon DEF ProduceOutcome, OffsetOutcome, FetchOutcome, CommitOutcome, CommittedOutcome, Results
<1>7. "refresh" \in Places \ {"idle"}  BY DEF Places
<1> QED BY <1>2, <1>5, <1>6, <1>7, ReturnTypes, ContinueTypes, RetryTypes, CloseDeadTypes, Zenon

\* The errors of a request over a connection that was stopped, and over one that
\* works.
LEMMA OutcomesOf ==
    ASSUME Inv, NEW u \in Users, pc[u] = "call", NEW e \in Outcomes(u, held[u])
    PROVE  /\ err[held[u]] # None => e \notin Unreadable
           /\ err[held[u]] = None => e \in {"ok", "NotLeader", "refused"} \cup Unreadable
           /\ e \in Unreadable => ~calm /\ faults # MaxFaults
<1>1. held[u] \in Conns  BY DEF Inv, PoolTypes, CallersHold
<1>2. err[held[u]] \in DeathKinds \cup {"ErrClosed", None}  BY <1>1, Zenon DEF Inv, PoolTypes
<1>3. CASE err[held[u]] # None
  <2>1. e \in DeathKinds \cup {"ErrClosed", "wrapped"}  BY <1>2, <1>3 DEF Outcomes
  <2>2. e \notin Unreadable  BY <2>1 DEF DeathKinds, Unreadable
  <2> QED BY <1>3, <2>2, Zenon
<1>4. CASE err[held[u]] = None
  <2>1. /\ e \in {"ok", "NotLeader", "refused"} \cup Unreadable
        /\ e \in {"ok", "NotLeader", "refused"} \/ ~(calm \/ faults = MaxFaults)
    BY <1>4 DEF Outcomes
  <2>2. e \in Unreadable => e \notin {"ok", "NotLeader", "refused"}  BY DEF Unreadable
  <2> QED BY <1>4, <2>1, <2>2, Zenon
<1> QED BY <1>3, <1>4

LEMMA RequestFaults ==
    ASSUME Inv, UserTypes, NEW u \in Users, Request(u)
    PROVE  faults' \in 0 .. MaxFaults
<1>1. PICK e \in Outcomes(u, held[u]) : faults' = IF e \in Unreadable THEN faults + 1 ELSE faults
  BY Zenon DEF Request
<1>2. pc[u] = "call"  BY Zenon DEF Request
<1>3. faults \in 0 .. MaxFaults /\ MaxFaults \in Nat  BY BrokerAssumption, Zenon DEF UserTypes
<1>4. CASE e \in Unreadable
  <2>1. faults # MaxFaults  BY <1>2, <1>4, OutcomesOf, Zenon
  <2> QED BY <1>1, <1>3, <1>4, <2>1, SMT
<1>5. CASE e \notin Unreadable  BY <1>1, <1>3, <1>5, Zenon
<1> QED BY <1>4, <1>5

LEMMA CallTypes ==
    ASSUME Inv, UserTypes, NEW u \in Users, NEW k \in Kinds[u], NEW p \in Parts, Call(u, k, p)
    PROVE  UserTypes'
<1>1. /\ pc' = [pc EXCEPT ![u] = Attempt(k, held[u])] /\ kind' = [kind EXCEPT ![u] = k]
      /\ quiet' = [quiet EXCEPT ![u] = calm] /\ res' = [res EXCEPT ![u] = "unset"]
      /\ UNCHANGED <<closed, cause, tries, ltries, calm, faults>>
  BY Zenon DEF Call, Goto, worldVars
<1>2. Attempt(k, held[u]) # "idle"  BY DEF Attempt
<1>3. DOMAIN pc = Users  BY Zenon DEF Inv, PoolTypes
<1>4. \A v \in Users : IF pc'[v] = "idle" THEN kind'[v] = None ELSE kind'[v] \in Kinds[v]
  BY <1>1, <1>2, <1>3, Zenon DEF UserTypes
<1>5. DOMAIN kind' = Users /\ kind' = [v \in Users |-> kind'[v]]  BY <1>1, Zenon DEF UserTypes
<1>6. quiet' \in [Users -> BOOLEAN] /\ res' \in [Users -> {"unset", "ok", "error", "nothing"}]
  BY <1>1, Zenon DEF UserTypes
<1> QED BY <1>1, <1>4, <1>5, <1>6, Zenon DEF UserTypes

LEMMA FaultTypes == ASSUME UserTypes, Fault PROVE faults' \in 0 .. MaxFaults
  BY BrokerAssumption, SMT DEF UserTypes, Fault

\* A step of the world changes nothing of the goroutines.
LEMMA WorldStepTypes == ASSUME UserTypes, World PROVE UserTypes'
<1>1. UNCHANGED <<pc, kind, cause, tries, ltries, quiet, res, closed>>
  BY Zenon DEF World, ConnDies, NodeStops, NodeStarts, LeaderMoves, Calm, userVars
<1>2. (Fault /\ UNCHANGED calm) \/ (UNCHANGED faults /\ calm' \in {calm, TRUE})
  BY Zenon DEF World, ConnDies, NodeStops, NodeStarts, LeaderMoves, Calm
<1>3. faults' \in 0 .. MaxFaults /\ calm' \in BOOLEAN
  <2>1. CASE Fault /\ UNCHANGED calm  BY <2>1, FaultTypes, Zenon DEF UserTypes
  <2>2. CASE UNCHANGED faults /\ calm' \in {calm, TRUE}  BY <2>2, Zenon DEF UserTypes
  <2> QED BY <1>2, <2>1, <2>2
<1> QED BY <1>1, <1>3, Zenon DEF UserTypes

LEMMA UserStepTypes == ASSUME Inv, UserTypes, NEW u \in Users, User(u) PROVE UserTypes'
<1>1. Still /\ pc[u] # "idle"
  <2>1. UNCHANGED <<closed, calm>> /\ (Request(u) \/ UNCHANGED faults)
    BY Zenon DEF User, LeaderFails, LeaderConnection, CoordinatorFails, CoordinatorConnection, Request,
                 CloseDeadConnection, RefreshMetadata, worldVars
  <2>2. pc[u] \in {"leader", "coordinator", "call", "evict", "refresh"}
    BY Zenon DEF User, LeaderFails, LeaderConnection, CoordinatorFails, CoordinatorConnection, Request,
                 CloseDeadConnection, RefreshMetadata
  <2>3. faults' \in 0 .. MaxFaults  BY <2>1, RequestFaults, Zenon DEF UserTypes
  <2>4. pc[u] # "idle"  BY <2>2
  <2> QED BY <2>1, <2>3, <2>4, Zenon DEF Still
<1>2. \/ Request(u) \/ NoConn(u)
      \/ \E c : Continue(u, "call", c)
      \/ Continue(u, "refresh", None) \/ Continue(u, "leader", None)
      \/ Retry(u, None)
  BY Zenon DEF User, LeaderFails, LeaderConnection, CoordinatorFails, CoordinatorConnection,
               CloseDeadConnection, RefreshMetadata
<1>3. {"call", "refresh", "leader"} \subseteq Places \ {"idle"}  BY DEF Places
<1> QED BY <1>1, <1>2, <1>3, RequestTypes, NoConnTypes, ContinueTypes, RetryTypes, Zenon

\* The variables keep their types in each step.
LEMMA TypesHold == Spec => [](Inv /\ UserTypes)
<1>1. Init => UserTypes
  <2> SUFFICES ASSUME Init PROVE UserTypes  OBVIOUS
  <2>1. 0 \in 0 .. (RetryLimit - 1) /\ 0 \in 0 .. (LeaderRetryLimit - 1) /\ 0 \in 0 .. MaxFaults
    BY BrokerAssumption, SMT
  <2>2. \A u \in Users : pc[u] = "idle" /\ kind[u] = None  BY Zenon DEF Init
  <2> QED BY <2>1, <2>2, Zenon DEF Init, UserTypes
<1>2. Inv /\ UserTypes /\ [Next]_vars => UserTypes'
  <2> SUFFICES ASSUME Inv, UserTypes, [Next]_vars PROVE UserTypes'  OBVIOUS
  <2>1. CASE Close  BY <2>1, Zenon DEF Close, userVars, worldVars, UserTypes
  <2>2. CASE UNCHANGED vars  BY <2>2, Zenon DEF vars, UserTypes
  <2> QED BY <2>1, <2>2, UserStepTypes, CallTypes, WorldStepTypes, Zenon DEF Next
<1> QED BY <1>1, <1>2, InvInit, InvStep, PTL DEF Spec

\* Every variable keeps its type: a call stays within its retries, and a goroutine
\* that makes a request or gives up a connection has one.
THEOREM TypeCorrect == Spec => []TypeOK
<1>1. Inv /\ UserTypes => TypeOK  BY Zenon DEF Inv, PoolTypes, CallersHold, UserTypes, TypeOK
<1> QED BY <1>1, TypesHold, PTL

-----------------------------------------------------------------------------
(* What each goroutine does.                                               *)

\* When a call returns, nothing of its retries is left, and only the objects
\* that keep connections have one.
Leaves(u, w, c, t, l) == w = "idle" => t = 0 /\ l = 0 /\ (c # None => KeepsConn(u))

LEMMA RetryLeaves ==
    ASSUME Inv, UserTypes, NEW u \in Users, NEW c, Retry(u, c)
    PROVE  \E w, k, d, e, t, l, r : Becomes(u, w, k, d, e, t, l, r) /\ Leaves(u, w, d, t, l)
<1>1. CASE MoreTries(u)
  <2>1. PICK keeps : keeps = IF KeepsConn(u) THEN c ELSE None  OBVIOUS
  <2>2. PICK w : w = IF kind[u] = "offset" THEN "refresh" ELSE Attempt(kind[u], keeps)  OBVIOUS
  <2>3. Becomes(u, w, kind[u], keeps, None, tries[u] + 1, 0, res[u])  BY <1>1, <2>1, <2>2, RetryBecomes, Zenon
  <2>4. w # "idle"  BY <2>2 DEF Attempt
  <2> QED BY <2>3, <2>4, Zenon DEF Leaves
<1>2. CASE ~MoreTries(u)
  <2>1. Return(u, Exhausted(u), c)  BY <1>2, Zenon DEF Retry
  <2> QED BY <2>1, ReturnBecomes, Zenon DEF Leaves
<1> QED BY <1>1, <1>2

\* A step of u is one of u alone.
LEMMA UserBecomes ==
    ASSUME Inv, UserTypes, NEW u \in Users, User(u)
    PROVE  \E w, k, c, e, t, l, r : Becomes(u, w, k, c, e, t, l, r) /\ Leaves(u, w, c, t, l)
<1>1. ASSUME NEW r, NEW c, Return(u, r, c)
      PROVE  \E w, k, d, e, t, l, x : Becomes(u, w, k, d, e, t, l, x) /\ Leaves(u, w, d, t, l)
  BY <1>1, ReturnBecomes, Zenon DEF Leaves
<1>2. ASSUME NEW w \in {"call", "refresh", "leader"}, NEW c, Continue(u, w, c)
      PROVE  \E x, k, d, e, t, l, r : Becomes(u, x, k, d, e, t, l, r) /\ Leaves(u, x, d, t, l)
  <2>1. w # "idle"  OBVIOUS
  <2> QED BY <1>2, <2>1, ContinueBecomes, Zenon DEF Leaves
<1>3. ASSUME NEW e, CloseDead(u, e)
      PROVE  \E w, k, d, x, t, l, r : Becomes(u, w, k, d, x, t, l, r) /\ Leaves(u, w, d, t, l)
  <2>1. PICK w : w = "evict" /\ w # "idle"  OBVIOUS
  <2>2. Becomes(u, w, kind[u], held[u], e, tries[u], ltries[u], res[u])  BY <1>3, <2>1, CloseDeadBecomes, Zenon
  <2> QED BY <2>1, <2>2, Zenon DEF Leaves
<1>4. CASE Request(u)
  <2>1. \/ \E r, c : Return(u, r, c)
        \/ Continue(u, "refresh", None)
        \/ \E c : Retry(u, c)
        \/ \E e : CloseDead(u, e)
    BY <1>4, Zenon DEF Request, ProduceOutcome, OffsetOutcome, FetchOutcome, CommitOutcome, CommittedOutcome
  <2> QED BY <1>1, <1>2, <1>3, <2>1, RetryLeaves, Zenon
<1>5. CASE NoConn(u) /\ pc[u] # "idle"
  <2>1. CASE ltries[u] + 1 < LeaderRetryLimit
    <3>1. Becomes(u, pc[u], kind[u], held[u], cause[u], tries[u], ltries[u] + 1, res[u])
      BY <1>5, <2>1, NoConnBecomes, Zenon
    <3> QED BY <1>5, <3>1, Zenon DEF Leaves
  <2>2. CASE ~(ltries[u] + 1 < LeaderRetryLimit)
    <3>1. Continue(u, "refresh", None) \/ Return(u, "error", None) \/ Retry(u, None)  BY <1>5, <2>2, Zenon DEF NoConn
    <3> QED BY <1>1, <1>2, <3>1, RetryLeaves, Zenon
  <2> QED BY <2>1, <2>2
<1>6. \/ Request(u) \/ (NoConn(u) /\ pc[u] # "idle")
      \/ \E c : Continue(u, "call", c)
      \/ Continue(u, "refresh", None) \/ Continue(u, "leader", None)
      \/ Retry(u, None)
  BY Zenon DEF User, LeaderFails, LeaderConnection, CoordinatorFails, CoordinatorConnection,
               CloseDeadConnection, RefreshMetadata
<1> QED BY <1>2, <1>4, <1>5, <1>6, RetryLeaves, Zenon

LEMMA CallBecomes ==
    ASSUME Inv, UserTypes, NEW u \in Users, NEW k \in Kinds[u], NEW p \in Parts, Call(u, k, p)
    PROVE  /\ pc'[u] = Attempt(k, held[u]) /\ kind'[u] = k /\ held'[u] = held[u] /\ part'[u] = p
           /\ tries'[u] = tries[u] /\ ltries'[u] = ltries[u] /\ quiet'[u] = calm
           /\ \A v \in Users \ {u} : Same(v)
<1>1. /\ DOMAIN pc = Users /\ DOMAIN held = Users /\ DOMAIN kind = Users /\ DOMAIN part = Users
      /\ DOMAIN quiet = Users /\ DOMAIN res = Users
  BY Zenon DEF Inv, PoolTypes, UserTypes
<1>2. ASSUME NEW v \in Users \ {u} PROVE Same(v)
  <2>1. v # u /\ v \in Users  OBVIOUS
  <2> QED BY <1>1, <2>1, Zenon DEF Call, Goto, Same
<1> QED BY <1>1, <1>2, Zenon DEF Call, Goto

-----------------------------------------------------------------------------
(* Connections that work are closed only by Close and for good reason.     *)

\* The ways a call goes on.
LEMMA UserGoesOn ==
    ASSUME NEW u \in Users, User(u)
    PROVE  \/ UNCHANGED pc /\ pc[u] \in {"leader", "coordinator"}
           \/ \E w \in {"call", "refresh", "leader"} : \E c : Continue(u, w, c)
           \/ \E c : Retry(u, c)
           \/ \E r, c : Return(u, r, c)
           \/ Request(u) /\ \E e \in Outcomes(u, held[u]) : CloseDead(u, e) /\ e \notin {"ok", "NotLeader", "refused"}
<1>1. CASE NoConn(u) /\ pc[u] \in {"leader", "coordinator"}
  BY <1>1, Zenon DEF NoConn
<1>2. CASE Request(u)
  BY <1>2, Zenon DEF Request, ProduceOutcome, OffsetOutcome, FetchOutcome, CommitOutcome, CommittedOutcome
<1> QED BY <1>1, <1>2, Zenon DEF User, LeaderFails, LeaderConnection, CoordinatorFails, CoordinatorConnection,
                                CloseDeadConnection, RefreshMetadata

\* muCloseDeadConnection is called because of the error of a request, for the
\* connection of this request.
LEMMA EvictBegins ==
    ASSUME Inv, UserTypes, NEW u \in Users, User(u), pc'[u] = "evict"
    PROVE  Request(u) /\ \E e \in Outcomes(u, held[u]) : CloseDead(u, e) /\ e \notin {"ok", "NotLeader", "refused"}
<1>0. DOMAIN pc = Users  BY Zenon DEF Inv, PoolTypes
<1>1. ASSUME NEW w, w # "evict" PROVE pc' # [pc EXCEPT ![u] = w]  BY <1>0, <1>1, Zenon
<1>2. ASSUME NEW w \in {"call", "refresh", "leader"}, NEW c PROVE ~Continue(u, w, c)
  <2>1. w # "evict"  OBVIOUS
  <2> QED BY <1>1, <2>1, Zenon DEF Continue, Goto
<1>3. ASSUME NEW r, NEW c PROVE ~Return(u, r, c)
  <2>1. PICK w : w = "idle" /\ w # "evict"  OBVIOUS
  <2> QED BY <1>1, <2>1, Zenon DEF Return, Goto
<1>4. ASSUME NEW c PROVE ~Retry(u, c)
  <2>1. PICK w : w = IF kind[u] = "offset" THEN "refresh" ELSE Attempt(kind[u], IF KeepsConn(u) THEN c ELSE None)
    OBVIOUS
  <2>2. w # "evict"  BY <2>1 DEF Attempt
  <2> QED BY <1>1, <1>3, <2>1, <2>2, Zenon DEF Retry, Goto
<1>5. ~(UNCHANGED pc /\ pc[u] \in {"leader", "coordinator"})  OBVIOUS
<1> QED BY <1>2, <1>3, <1>4, <1>5, UserGoesOn, Zenon

\* muCloseDeadConnection is called for a connection that was stopped, or that
\* gave a response that could not be read.
ForCause == \A u \in Users : pc[u] = "evict" => err[held[u]] # None \/ cause[u] \in Unreadable

\* What others do to the connection of a goroutine.
LEMMA ForCauseKept ==
    ASSUME Inv, PoolStep, ForCause, NEW v \in Users, pc'[v] = "evict", pc[v] = "evict",
           held'[v] = held[v], cause'[v] = cause[v]
    PROVE  err'[held'[v]] # None \/ cause'[v] \in Unreadable
<1>1. held[v] \in Conns \ Unused(conns)
  <2>1. held[v] # None /\ held[v] \in Conns \cup {None}  BY Zenon DEF Inv, PoolTypes, CallersHold
  <2> QED BY <2>1, Zenon DEF Unused
<1> QED BY <1>1, Zenon DEF ForCause, PoolStep

LEMMA ForCauseStep == ASSUME Inv, UserTypes, ForCause, [Next]_vars PROVE ForCause'
<1>1. PoolStep  BY InvStep
<1> SUFFICES ASSUME NEW v \in Users, pc'[v] = "evict"
             PROVE  err'[held'[v]] # None \/ cause'[v] \in Unreadable
  BY Zenon DEF ForCause
<1>2. CASE Same(v)  BY <1>1, <1>2, ForCauseKept, Zenon DEF Same
<1>3. ASSUME NEW u \in Users, User(u) PROVE Same(v) \/ err'[held'[v]] # None \/ cause'[v] \in Unreadable
  <2>1. CASE v # u
    <3>1. PICK w, k, c, e, t, l, r : Becomes(u, w, k, c, e, t, l, r)  BY <1>3, UserBecomes, Zenon
    <3> QED BY <2>1, <3>1, BecomesIs, Zenon
  <2>2. CASE v = u
    <3>1. Request(u)  BY <1>3, <2>2, EvictBegins, Zenon
    <3>2. PICK e \in Outcomes(u, held[u]) : CloseDead(u, e) /\ e \notin {"ok", "NotLeader", "refused"}
      BY <1>3, <2>2, EvictBegins, Zenon
    <3>3. pc[u] = "call" /\ err' = err  BY <3>1, Zenon DEF Request, poolVars
    <3>4. held'[u] = held[u] /\ cause'[u] = e
      BY <3>2, Zenon DEF CloseDead, Goto, Inv, PoolTypes, UserTypes
    <3>5. err[held[u]] # None \/ e \in Unreadable  BY <3>2, <3>3, OutcomesOf
    <3> QED BY <2>2, <3>3, <3>4, <3>5, Zenon
  <2> QED BY <2>1, <2>2
<1>4. ASSUME NEW u \in Users, NEW k \in Kinds[u], NEW p \in Parts, Call(u, k, p) PROVE Same(v)
  <2>1. pc'[u] = Attempt(k, held[u]) /\ \A x \in Users \ {u} : Same(x)  BY <1>4, CallBecomes, Zenon
  <2>2. v # u  BY <2>1 DEF Attempt
  <2> QED BY <2>1, <2>2, Zenon
<1>5. CASE Close \/ World \/ UNCHANGED vars
  <2>1. UNCHANGED userVars
    BY <1>5, Zenon DEF Close, World, ConnDies, NodeStops, NodeStarts, LeaderMoves, Calm, vars, userVars
  <2>2. Same(v)  BY <2>1, Zenon DEF Same, userVars
  <2> QED BY <1>2, <2>2
<1> QED BY <1>2, <1>3, <1>4, <1>5, Zenon DEF Next

\* A connection that works is closed only by Broker.Close, or for a response over
\* it that could not be read, never by a muCloseDeadConnection for another one.
THEOREM WorkingConnectionsSurvive == Spec => FreshSurvives
<1> DEFINE Survive ==
        \A c \in open : err[c] = None /\ c \notin open' =>
            \/ closed' # closed
            \/ \E u \in Users : pc[u] = "evict" /\ held[u] = c /\ cause[u] \in Unreadable
<1>1. ASSUME ForCause, [Next]_vars PROVE Survive
  <2>1. ASSUME NEW u \in Users, CloseDeadConnection(u) PROVE Survive
    <3>1. pc[u] = "evict" /\ (err[held[u]] # None \/ cause[u] \in Unreadable)
      BY <1>1, <2>1 DEF CloseDeadConnection, ForCause
    <3>2. PICK S \in SUBSET {held[u]} : CloseConns(S)  BY <2>1, EvictOnlyHeld
    <3>3. open' = open \ S  BY <3>2 DEF CloseConns
    <3> QED BY <3>1, <3>3
  <2>2. CASE Close  BY <2>2 DEF Close
  <2>3. ASSUME NEW u \in Users, User(u), ~CloseDeadConnection(u) PROVE open \subseteq open'
    <3>1. CASE LeaderFails(u) \/ Request(u) \/ RefreshMetadata(u)
      BY <3>1 DEF LeaderFails, Request, RefreshMetadata, poolVars
    <3>2. CASE LeaderConnection(u)  BY <3>2 DEF LeaderConnection, Opened
    <3>3. CASE CoordinatorFails(u)  BY <3>3 DEF CoordinatorFails, PoolConns, Opened
    <3>4. CASE CoordinatorConnection(u)  BY <3>4 DEF CoordinatorConnection, PoolConns, Opened
    <3> QED BY <2>3, <3>1, <3>2, <3>3, <3>4 DEF User
  <2>4. ASSUME NEW u \in Users, NEW k, NEW p, Call(u, k, p) PROVE open' = open
    BY <2>4 DEF Call, poolVars
  <2>5. CASE World  BY <2>5 DEF World, ConnDies, NodeStops, NodeStarts, LeaderMoves, Calm, poolVars
  <2>6. CASE UNCHANGED vars  BY <2>6 DEF vars
  <2> QED BY <1>1, <2>1, <2>2, <2>3, <2>4, <2>5, <2>6 DEF Next
<1>2. ForCause /\ [Next]_vars => [Survive]_vars  BY <1>1
<1>3. Init => ForCause
  <2>1. ASSUME Init, NEW u \in Users PROVE pc[u] # "evict"
    <3>1. pc[u] = "idle"  BY <2>1, Zenon DEF Init
    <3> QED BY <3>1
  <2> QED BY <2>1, Zenon DEF ForCause
<1>4. Inv /\ UserTypes /\ ForCause /\ [Next]_vars => ForCause'  BY ForCauseStep, Zenon
<1> QED BY <1>2, <1>3, <1>4, TypesHold, PTL DEF Spec, FreshSurvives

-----------------------------------------------------------------------------
(* Connections are not lost, when nobody has an offset coordinator.        *)

\* No calls to the coordinator.
LeadersOnly == \A u \in Users : Kinds[u] \cap {"commit", "Offset"} = {}

LEMMA KindsOfCalls ==
    ASSUME LeadersOnly, UserTypes, NEW u \in Users
    PROVE  /\ \A k \in Kinds[u] : k \in {"produce", "offset", "fetch"}
           /\ pc[u] # "idle" => kind[u] \in {"produce", "offset", "fetch"}
<1>1. Kinds[u] \in (SUBSET {"produce", "offset"}) \cup {{"fetch"}} \cup (SUBSET {"commit", "Offset"})
  BY BrokerAssumption, Zenon
<1>2. ASSUME NEW k \in Kinds[u] PROVE k \in {"produce", "offset", "fetch"}
  <2>1. k \notin {"commit", "Offset"}  BY Zenon DEF LeadersOnly
  <2>2. \/ Kinds[u] \subseteq {"produce", "offset"} \/ Kinds[u] = {"fetch"}
        \/ Kinds[u] \subseteq {"commit", "Offset"}
    BY <1>1, Zenon
  <2> QED BY <2>1, <2>2, Zenon
<1> QED BY <1>2, Zenon DEF UserTypes

NoCoordinator == \A u \in Users : pc[u] # "coordinator"

LEMMA NoCoordinatorStep ==
    ASSUME LeadersOnly, Inv, UserTypes, NoCoordinator, [Next]_vars
    PROVE  NoCoordinator'
<1>0. DOMAIN pc = Users  BY Zenon DEF Inv, PoolTypes
<1>1. ASSUME NEW u \in Users, User(u) PROVE NoCoordinator'
  <2>1. kind[u] \notin {"commit", "Offset"} /\ pc[u] # "coordinator"
    <3>1. CASE pc[u] = "idle"
      BY <1>1, <3>1 DEF User, LeaderFails, LeaderConnection, CoordinatorFails, CoordinatorConnection, Request,
                        CloseDeadConnection, RefreshMetadata
    <3>2. CASE pc[u] # "idle"  BY <3>2, KindsOfCalls DEF NoCoordinator
    <3> QED BY <3>1, <3>2
  <2>2. ASSUME NEW c PROVE Attempt(kind[u], c) \in {"call", "leader"}  BY <2>1 DEF Attempt
  <2>3. \/ UNCHANGED pc
        \/ \E w \in {"idle", "leader", "call", "evict", "refresh"} : pc' = [pc EXCEPT ![u] = w]
    <3>1. ASSUME NEW r, NEW c, Return(u, r, c) PROVE pc' = [pc EXCEPT ![u] = "idle"]  BY <3>1, Zenon DEF Return, Goto
    <3>2. ASSUME NEW c, Retry(u, c)
          PROVE  \E w \in {"idle", "leader", "call", "evict", "refresh"} : pc' = [pc EXCEPT ![u] = w]
      <4>1. CASE MoreTries(u)
        <5> DEFINE a == Attempt(kind[u], IF KeepsConn(u) THEN c ELSE None)
        <5>1. pc' = [pc EXCEPT ![u] = IF kind[u] = "offset" THEN "refresh" ELSE a]
          BY <3>2, <4>1, Zenon DEF Retry, Goto
        <5>2. a \in {"call", "leader"}  BY <2>2, Zenon
        <5> HIDE DEF a
        <5> QED BY <5>1, <5>2, Zenon
      <4>2. CASE ~MoreTries(u)  BY <3>1, <3>2, <4>2, Zenon DEF Retry
      <4> QED BY <4>1, <4>2
    <3>3. ASSUME NEW w, NEW c, Continue(u, w, c) PROVE pc' = [pc EXCEPT ![u] = w]  BY <3>3, Zenon DEF Continue, Goto
    <3>4. ASSUME NEW e, CloseDead(u, e) PROVE pc' = [pc EXCEPT ![u] = "evict"]  BY <3>4, Zenon DEF CloseDead, Goto
    <3>5. \/ UNCHANGED pc
          \/ \E c : Continue(u, "call", c)
          \/ Continue(u, "refresh", None) \/ Continue(u, "leader", None)
          \/ \E c : Retry(u, c)
          \/ \E r, c : Return(u, r, c)
          \/ \E e : CloseDead(u, e)
      <4>1. CASE NoConn(u)  BY <4>1, Zenon DEF NoConn
      <4>2. CASE Request(u)
        BY <4>2, Zenon DEF Request, ProduceOutcome, OffsetOutcome, FetchOutcome, CommitOutcome, CommittedOutcome
      <4> QED BY <1>1, <4>1, <4>2, Zenon DEF User, LeaderFails, LeaderConnection, CoordinatorFails,
                 CoordinatorConnection, CloseDeadConnection, RefreshMetadata
    <3> QED BY <3>1, <3>2, <3>3, <3>4, <3>5, Zenon
  <2> QED BY <1>0, <2>3 DEF NoCoordinator
<1>2. ASSUME NEW u \in Users, NEW k \in Kinds[u], NEW p \in Parts, Call(u, k, p) PROVE NoCoordinator'
  <2>1. k \in {"produce", "offset", "fetch"}  BY KindsOfCalls, Zenon
  <2>2. Attempt(k, held[u]) # "coordinator"  BY <2>1 DEF Attempt
  <2>3. pc' = [pc EXCEPT ![u] = Attempt(k, held[u])]  BY <1>2, Zenon DEF Call, Goto
  <2> QED BY <1>0, <2>2, <2>3, Zenon DEF NoCoordinator
<1>3. CASE Close \/ World \/ UNCHANGED vars
  <2>1. UNCHANGED pc
    BY <1>3, Zenon DEF Close, World, ConnDies, NodeStops, NodeStarts, LeaderMoves, Calm, userVars, vars
  <2> QED BY <2>1, Zenon DEF NoCoordinator
<1> QED BY <1>1, <1>2, <1>3, Zenon DEF Next

\* Who takes the pool or the connections into its hands.
LEMMA OpenChanges ==
    ASSUME Inv, NoCoordinator, [Next]_vars, ~ UNCHANGED <<conns, open>>
    PROVE  Close \/ \E u \in Users : LeaderConnection(u) \/ CloseDeadConnection(u)
<1>1. ~World
  BY Zenon DEF World, ConnDies, NodeStops, NodeStarts, LeaderMoves, Calm, poolVars
<1>2. ASSUME NEW u \in Users, User(u) PROVE LeaderConnection(u) \/ CloseDeadConnection(u)
  <2>1. ~CoordinatorFails(u) /\ ~CoordinatorConnection(u)
    BY Zenon DEF CoordinatorFails, CoordinatorConnection, NoCoordinator
  <2>2. ~LeaderFails(u) /\ ~Request(u) /\ ~RefreshMetadata(u)
    BY Zenon DEF LeaderFails, Request, RefreshMetadata, poolVars
  <2> QED BY <1>2, <2>1, <2>2, Zenon DEF User
<1>3. ASSUME NEW u \in Users, NEW k \in Kinds[u], NEW p \in Parts, Call(u, k, p) PROVE FALSE
  BY <1>3, Zenon DEF Call, poolVars
<1>4. ~ UNCHANGED vars  BY Zenon DEF vars
<1> QED BY <1>1, <1>2, <1>3, <1>4, Zenon DEF Next

\* A connection is opened only for an empty entry of the pool, and the connection
\* that muCloseDeadConnection removes from the pool is closed.
LEMMA NoLeakStep ==
    ASSUME Inv, NoCoordinator, NoLeak, [Next]_vars
    PROVE  NoLeak'
<1>0. conns \in [Nodes -> Conns \cup {None}]  BY Zenon DEF Inv, PoolTypes
<1>1. ASSUME NEW u \in Users, LeaderConnection(u) PROVE NoLeak'
  <2>1. PICK m \in Looked(part[u]) :
           LET n == m.endpoints[part[u]] IN
           /\ n # None /\ meta' = m
           /\ IF ConnOf(n) # None
              THEN Continue(u, "call", ConnOf(n)) /\ UNCHANGED <<conns, addr, err, open>>
              ELSE /\ n \in m.nodes /\ Dials(n)
                   /\ Unused(conns) # {}
                   /\ LET c == CHOOSE c \in Unused(conns) : TRUE IN
                      /\ Opened([x \in {c} |-> n])
                      /\ conns' = [conns EXCEPT ![n] = c]
                      /\ Continue(u, "call", c)
    BY <1>1, Zenon DEF LeaderConnection
  <2> DEFINE n == m.endpoints[part[u]]
             c == CHOOSE c \in Unused(conns) : TRUE
  <2>2. CASE ConnOf(n) # None  BY <2>1, <2>2, Zenon DEF NoLeak, Pooled
  <2>3. CASE ConnOf(n) = None
    <3>1. Unused(conns) # {} /\ Opened([x \in {c} |-> n]) /\ conns' = [conns EXCEPT ![n] = c] /\ Dials(n)
      BY <2>1, <2>3, Zenon
    <3>2. n \in Nodes /\ conns[n] = None
      <4>1. n \in Nodes  BY <3>1, Zenon DEF Dials, Inv, PoolTypes
      <4> QED BY <2>3, <4>1, Zenon DEF ConnOf
    <3>3. c \in Conns /\ c # None
      <4>1. c \in Unused(conns)  BY <3>1, Zenon
      <4> QED BY <4>1, BrokerAssumption, Zenon DEF Unused
    <3>4. open' = open \cup {c}  BY <3>1, Zenon DEF Opened
    <3> HIDE DEF c, n
    <3>5. conns'[n] = c /\ \A k \in Nodes : k # n => conns'[k] = conns[k]  BY <1>0, <3>1, <3>2, Zenon
    <3>6. ASSUME NEW x \in open' PROVE x \in Pooled(conns')
      <4>1. CASE x = c  BY <3>2, <3>3, <3>5, <4>1, Zenon DEF Pooled
      <4>2. CASE x \in open
        <5>1. PICK k \in Nodes : x = conns[k] /\ x # None  BY <4>2, Zenon DEF NoLeak, Pooled
        <5>2. conns'[k] = x  BY <3>2, <3>5, <5>1, Zenon
        <5> QED BY <5>1, <5>2, Zenon DEF Pooled
      <4> QED BY <3>4, <3>6, <4>1, <4>2, Zenon
    <3> QED BY <3>6, Zenon DEF NoLeak
  <2> QED BY <2>2, <2>3
<1>2. ASSUME NEW u \in Users, CloseDeadConnection(u) PROVE NoLeak'
  <2> DEFINE gone == Evicted(held[u])
  <2>1. /\ conns' = [n \in Nodes |-> IF n \in gone THEN None ELSE conns[n]]
        /\ open' = open \ {conns[n] : n \in gone}
    BY <1>2, Zenon DEF CloseDeadConnection, CloseConns
  <2> HIDE DEF gone
  <2>2. ASSUME NEW x \in open' PROVE x \in Pooled(conns')
    <3>1. PICK k \in Nodes : x = conns[k] /\ x # None  BY <2>1, <2>2, Zenon DEF NoLeak, Pooled
    <3>2. k \notin gone  BY <2>1, <2>2, <3>1, Zenon
    <3>3. conns'[k] = x  BY <2>1, <3>1, <3>2, Zenon
    <3> QED BY <3>1, <3>3, Zenon DEF Pooled
  <2> QED BY <2>2, Zenon DEF NoLeak
<1>3. CASE Close
  <2>1. conns' = conns /\ open' = open \ AllPooled  BY <1>3, Zenon DEF Close, CloseConns
  <2> QED BY <2>1, Zenon DEF NoLeak, Pooled
<1>4. CASE UNCHANGED <<conns, open>>  BY <1>4, Zenon DEF NoLeak, Pooled
<1> QED BY <1>1, <1>2, <1>3, <1>4, OpenChanges, Zenon

\* The invariant of a broker that has no offset coordinator.
LeadersInv == Inv /\ UserTypes /\ NoCoordinator /\ NoLeak

LEMMA LeadersInvHolds == ASSUME LeadersOnly PROVE Spec => []LeadersInv
<1>1. Init => NoCoordinator /\ NoLeak  BY Zenon DEF Init, NoCoordinator, NoLeak
<1>2. Inv /\ UserTypes /\ NoCoordinator /\ NoLeak /\ [Next]_vars => NoCoordinator' /\ NoLeak'
  BY NoCoordinatorStep, NoLeakStep, Zenon
<1> QED BY <1>1, <1>2, TypesHold, PTL DEF Spec, LeadersInv

\* Without an offset coordinator, every connection that was not closed is in the
\* pool: muLeaderConnection connects only where the pool has nothing, and
\* muCloseDeadConnection closes what it takes out.
THEOREM LeadersNoLeak == ASSUME LeadersOnly PROVE Spec => []NoLeak
<1>1. LeadersInv => NoLeak  BY Zenon DEF LeadersInv
<1> QED BY <1>1, LeadersInvHolds, PTL

\* Without an offset coordinator, Broker.Close leaves no connection open.
THEOREM LeadersCloseAll == ASSUME LeadersOnly PROVE Spec => CloseClosesAll
<1>1. LeadersInv /\ [Next]_vars => [closed' # closed => open' = {}]_vars
  <2> SUFFICES ASSUME LeadersInv, [Next]_vars, closed' # closed PROVE open' = {}  BY Zenon
  <2>1. Close
    <3>1. ~World
      BY Zenon DEF World, ConnDies, NodeStops, NodeStarts, LeaderMoves, Calm
    <3>2. ASSUME NEW u \in Users, User(u) PROVE FALSE
      BY <3>2, Zenon DEF User, LeaderFails, LeaderConnection, CoordinatorFails, CoordinatorConnection, Request,
                         CloseDeadConnection, RefreshMetadata
    <3>3. ASSUME NEW u \in Users, NEW k \in Kinds[u], NEW p \in Parts, Call(u, k, p) PROVE FALSE
      BY <3>3, Zenon DEF Call
    <3>4. ~ UNCHANGED vars  BY Zenon DEF vars
    <3> QED BY <3>1, <3>2, <3>3, <3>4, Zenon DEF Next
  <2>2. open' = open \ Pooled(conns)  BY <2>1, Zenon DEF Close, CloseConns, AllPooled
  <2> QED BY <2>2, Zenon DEF LeadersInv, NoLeak
<1> QED BY <1>1, LeadersInvHolds, PTL DEF Spec, CloseClosesAll

-----------------------------------------------------------------------------
(* A call that begins in a calm cluster succeeds.                          *)

\* The errors of connections before Close: those that muCloseDeadConnection closed
\* are no longer in the pool.
Errs == \A c \in Conns : err[c] \in Deaths \cup {None} \/ (err[c] = "ErrClosed" /\ c \notin Pooled(conns))

\* What a calm cluster is, the errors, and what is left of a call when it has
\* returned.
CalmWorld ==
    /\ calm => up = Nodes /\ \A p \in Parts : leader[p] \in Nodes
    /\ ~calm => \A u \in Users : ~quiet[u]
    /\ ~closed => Errs
    /\ \A u \in Users :
         pc[u] = "idle" => tries[u] = 0 /\ ltries[u] = 0 /\ (held[u] # None => Kinds[u] = {"fetch"})

\* muLeaderConnection will not be led astray by what is known of p: nothing, or
\* the leader and its address.
Known(p) ==
    \/ meta.endpoints[p] = None
    \/ meta.endpoints[p] = leader[p] /\ leader[p] \in meta.nodes

\* c was stopped, or somebody is about to close it: for a response from the time
\* before the cluster was calm that could not be read, c may still work.
Doomed(c) == err[c] # None \/ \E v \in Users : pc[v] = "evict" /\ held[v] = c

\* The pool has no such connection to the leader of p.
Usable(p) == conns[leader[p]] # None => ~Doomed(conns[leader[p]])

\* A request over c that fails makes the metadata right.
Noticed(c) == c \in Pooled(conns) \/ meta = Truth

\* The attempts of the call that failed.  The first one of fetch does not count,
\* which may use the connection that the consumer has kept.
Failed(u) == tries[u] - (IF kind[u] = "fetch" THEN 1 ELSE 0)

\* What a call has learnt from its failures.  After the first one, from a leader
\* that moved or a connection that died, the metadata are right; after the second
\* one, from a doomed connection to the right leader, that is no longer in the pool.
LearntLeader(u, n) ==
    /\ ltries[u] > 0 => Known(part[u])
    /\ n >= 1 => meta = Truth
    /\ n >= 2 => Usable(part[u])

LearntCall(u, n) ==
    /\ n >= 0 /\ err[held[u]] # None => Noticed(held[u])
    /\ n >= 1 => /\ meta = Truth /\ addr[held[u]] = leader[part[u]]
                 /\ Doomed(held[u]) => conns[leader[part[u]]] = held[u] \/ Usable(part[u])
    /\ n >= 2 => ~Doomed(held[u])

LearntRefresh(u, n) ==
    IF kind[u] = "offset" THEN n >= 2 => Usable(part[u]) ELSE n <= 1 /\ (n >= 1 => Usable(part[u]))

Learnt(u) ==
    /\ Failed(u) <= 2
    /\ pc[u] = "leader" => LearntLeader(u, Failed(u))
    /\ pc[u] \in {"call", "evict"} => LearntCall(u, Failed(u))
    /\ pc[u] = "evict" => err[held[u]] # None
    /\ pc[u] = "refresh" => LearntRefresh(u, Failed(u))

\* The promise for u.
Succeeds(u) == quiet[u] => IF pc[u] = "idle" THEN res[u] = "ok" ELSE Learnt(u)

\* The inductive invariant, with LeadersInv.
CalmInv == CalmWorld /\ (~closed => \A u \in Users : Succeeds(u))

\* What the theorem assumes: there is no offset coordinator, connections end with
\* errors that all calls take for the end of a connection, and a call has one try
\* for each of the things that can be wrong: a leader that moved, a connection
\* that died, and for fetch the connection the consumer keeps.
EnoughTries ==
    /\ LeadersOnly
    /\ Deaths \subseteq {"EOF", "OpError"}
    /\ LeaderRetryLimit >= 2
    /\ \A u \in Users : RetryLimit >= IF "fetch" \in Kinds[u] THEN 4 ELSE 3

\* In a calm cluster a seed answers, so that a refresh succeeds.
LEMMA CalmRefresh ==
    ASSUME CalmWorld, calm, NEW pool
    PROVE  Refreshed(pool) = {Truth} /\ NotRefreshed(pool) = {}
<1>1. PICK n : n \in Seeds /\ n \in Nodes  BY BrokerAssumption, Zenon
<1>2. Reached(pool)  BY <1>1, Zenon DEF Reached, CalmWorld
<1> QED BY <1>2, Zenon DEF Refreshed, NotRefreshed

LEMMA CalmLooked ==
    ASSUME CalmWorld, calm, NEW p, NEW m \in Looked(p)
    PROVE  m = Truth \/ (m = meta /\ meta.endpoints[p] # None)
  BY CalmRefresh, Zenon DEF Looked

LEMMA TruthOf == Truth.nodes = up /\ Truth.endpoints = leader  BY DEF Truth

\* A leader that is known for what it is can be connected to.
LEMMA CalmLeaderFails ==
    ASSUME LeadersInv, CalmWorld, calm, NEW u \in Users, LeaderFails(u)
    PROVE  meta' = Without(meta, part[u]) /\ ~Known(part[u]) /\ meta # Truth
<1> DEFINE p == part[u]
<1>1. p \in Parts  BY Zenon DEF LeadersInv, Inv, PoolTypes
<1>2. leader[p] \in Nodes /\ up = Nodes  BY <1>1, Zenon DEF CalmWorld
<1> HIDE DEF p
<1>3. PICK m \in Looked(p) :
         \/ m.endpoints[p] = None /\ meta' = m
         \/ /\ m.endpoints[p] # None
            /\ m.endpoints[p] \notin m.nodes \/ DialFails(m.endpoints[p])
            /\ meta' = Without(m, p)
  BY CalmRefresh, Zenon DEF LeaderFails, p
<1>4. m # Truth
  <2> SUFFICES ASSUME m = Truth PROVE FALSE  OBVIOUS
  <2>1. m.endpoints[p] = leader[p] /\ m.nodes = Nodes  BY <1>2, TruthOf, Zenon
  <2> QED BY <1>2, <1>3, <2>1, Zenon DEF DialFails
<1>5. m = meta /\ meta.endpoints[p] # None  BY <1>4, CalmLooked, Zenon
<1>6. meta' = Without(meta, p) /\ (meta.endpoints[p] \notin meta.nodes \/ meta.endpoints[p] \notin up)
  BY <1>3, <1>5, Zenon DEF DialFails
<1>7. ~Known(p)  BY <1>2, <1>5, <1>6, Zenon DEF Known
<1> QED BY <1>4, <1>5, <1>6, <1>7, Zenon DEF p

LEMMA WithoutIs ==
    ASSUME PoolTypes, NEW p \in Parts
    PROVE  /\ Without(meta, p).nodes = meta.nodes
           /\ Without(meta, p).endpoints[p] = None
           /\ \A q \in Parts : q # p => Without(meta, p).endpoints[q] = meta.endpoints[q]
  BY DEF Without, PoolTypes

\* What a step of a calm cluster and an open broker preserves.
Settled ==
    /\ UNCHANGED <<up, leader, calm>>
    /\ meta = Truth => meta' = Truth
    /\ \A p \in Parts : Known(p) => Known(p)'
    /\ \A p \in Parts : Usable(p) => Usable(p)'
    /\ \A u \in Users, c \in Conns : c = held[u] =>
         /\ addr'[c] = addr[c] /\ (Doomed(c)' => Doomed(c))
         /\ IF err[c] = None THEN err'[c] = None \/ meta' = Truth ELSE err'[c] # None
    /\ \A c : Noticed(c) => Noticed(c)'
    /\ \A n \in Nodes : conns[n] # None => conns'[n] \in {conns[n], None}

LEMMA SettledAlone ==
    ASSUME UNCHANGED <<up, leader, calm, conns, addr, err>>, meta = Truth => meta' = Truth,
           \A p \in Parts : Known(p) => Known(p)', \A c : Doomed(c)' => Doomed(c)
    PROVE  Settled
<1>1. ASSUME NEW p \in Parts, Usable(p) PROVE Usable(p)'
  <2>1. PICK c : c = conns[leader[p]] /\ c = conns'[leader'[p]]  BY Zenon
  <2>2. c # None => ~Doomed(c)  BY <1>1, <2>1, Zenon DEF Usable
  <2>3. c # None => ~Doomed(c)'  BY <2>2, Zenon
  <2> QED BY <2>1, <2>3, Zenon DEF Usable, Doomed
<1>2. Truth' = Truth  BY Zenon DEF Truth
<1>3. \A c : Noticed(c) => Noticed(c)'  BY <1>2, Zenon DEF Noticed, Pooled
<1> QED BY <1>1, <1>3, Zenon DEF Settled

\* In a calm cluster nobody gives up a connection that works.
LEMMA EvictsPending ==
    ASSUME LeadersInv, calm, NEW u \in Users, User(u), NEW v \in Users, pc'[v] = "evict"
    PROVE  held'[v] = held[v] /\ Doomed(held[v])
<1>1. CASE v # u
  <2>1. PICK w, k, c, e, t, l, r : Becomes(u, w, k, c, e, t, l, r)  BY UserBecomes, Zenon DEF LeadersInv
  <2>2. Same(v)  BY <1>1, <2>1, BecomesIs, Zenon DEF LeadersInv
  <2> QED BY <2>2, Zenon DEF Same, Doomed
<1>2. CASE v = u
  <2>1. Request(u)  BY <1>2, EvictBegins, Zenon DEF LeadersInv
  <2>2. PICK e \in Outcomes(u, held[u]) : CloseDead(u, e) /\ e \notin {"ok", "NotLeader", "refused"}
    BY <1>2, EvictBegins, Zenon DEF LeadersInv
  <2>3. pc[u] = "call"  BY <2>1, Zenon DEF Request
  <2>4. err[held[u]] # None
    <3>1. e \notin Unreadable  BY <2>3, OutcomesOf, Zenon DEF LeadersInv
    <3>2. e \notin {"ok", "NotLeader", "refused"} \cup Unreadable  BY <2>2, <3>1, Zenon
    <3> QED BY <2>3, <3>2, OutcomesOf, Zenon DEF LeadersInv
  <2>5. held'[u] = held[u]  BY <2>2, Zenon DEF CloseDead, Goto, LeadersInv, Inv, PoolTypes
  <2> QED BY <1>2, <2>4, <2>5, Zenon DEF Doomed
<1> QED BY <1>1, <1>2

LEMMA DoomedKept ==
    ASSUME LeadersInv, calm, NEW u \in Users, User(u), NEW c, err'[c] # None => Doomed(c), Doomed(c)'
    PROVE  Doomed(c)
<1>1. ASSUME NEW v \in Users, pc'[v] = "evict", held'[v] = c PROVE Doomed(c)
  <2>1. PICK d : d = held[v]  OBVIOUS
  <2>2. held'[v] = d /\ Doomed(d)  BY <1>1, <2>1, EvictsPending, Zenon
  <2>3. c = d  BY <1>1, <2>2, Zenon
  <2> QED BY <2>2, <2>3, Zenon
<1>2. err'[c] # None \/ \E v \in Users : pc'[v] = "evict" /\ held'[v] = c  BY Zenon DEF Doomed
<1> QED BY <1>1, <1>2, Zenon

LEMMA DoomedAlone ==
    ASSUME LeadersInv, calm, NEW u \in Users, User(u), UNCHANGED err
    PROVE  \A c : Doomed(c)' => Doomed(c)
<1>1. ASSUME NEW c, Doomed(c)' PROVE Doomed(c)
  <2>1. err'[c] # None => Doomed(c)  BY Zenon DEF Doomed
  <2> QED BY <1>1, <2>1, DoomedKept, Zenon
<1> QED BY <1>1, Zenon

\* The metadata are those of the cluster, or stay.
LEMMA KnownKept ==
    ASSUME LeadersInv, CalmWorld, calm, UNCHANGED <<up, leader>>, meta' \in {meta, Truth}
    PROVE  (meta = Truth => meta' = Truth) /\ \A p \in Parts : Known(p) => Known(p)'
<1>1. CASE meta' = meta  BY <1>1, Zenon DEF Known
<1>2. CASE meta' = Truth
  <2>1. meta'.endpoints = leader' /\ meta'.nodes = up'  BY <1>2, TruthOf, Zenon
  <2>2. \A p \in Parts : leader'[p] \in up'  BY Zenon DEF CalmWorld
  <2> QED BY <1>2, <2>1, <2>2, Zenon DEF Known
<1> QED BY <1>1, <1>2

LEMMA LeaderFailsSettled ==
    ASSUME LeadersInv, CalmWorld, calm, NEW u \in Users, LeaderFails(u)
    PROVE  Settled
<1>1. UNCHANGED <<up, leader, calm, conns, addr, err>>  BY Zenon DEF LeaderFails, worldVars
<1>2. part[u] \in Parts /\ PoolTypes  BY Zenon DEF LeadersInv, Inv, PoolTypes
<1>3. meta' = Without(meta, part[u]) /\ meta # Truth  BY CalmLeaderFails, Zenon
<1>4. ASSUME NEW p \in Parts, Known(p) PROVE Known(p)'
  <2>1. CASE p = part[u]  BY <1>2, <1>3, <2>1, WithoutIs, Zenon DEF Known
  <2>2. CASE p # part[u]
    <3>1. meta'.nodes = meta.nodes /\ meta'.endpoints[p] = meta.endpoints[p]  BY <1>2, <1>3, <2>2, WithoutIs, Zenon
    <3> QED BY <1>1, <1>4, <3>1, Zenon DEF Known
  <2> QED BY <2>1, <2>2
<1>5. \A c : Doomed(c)' => Doomed(c)
  <2>1. User(u)  BY Zenon DEF User
  <2> QED BY <1>1, <2>1, DoomedAlone, Zenon
<1> QED BY <1>1, <1>3, <1>4, <1>5, SettledAlone, Zenon

\* muLeaderConnection opens c, which is a new connection, to n.
Opens(u, n, c) ==
    /\ conns' = [conns EXCEPT ![n] = c]
    /\ addr' = [x \in Conns |-> IF x = c THEN n ELSE addr[x]]
    /\ err' = [x \in Conns |-> IF x = c THEN None ELSE err[x]]
    /\ Continue(u, "call", c)

\* muLeaderConnection returns a connection to n.
Connects(u, n) ==
    /\ meta' = Truth \/ (meta' = meta /\ meta.endpoints[part[u]] # None)
    /\ n = meta'.endpoints[part[u]]
    /\ \/ conns[n] # None /\ Continue(u, "call", conns[n]) /\ UNCHANGED <<conns, addr, err>>
       \/ conns[n] = None /\ \E c \in Unused(conns) : Opens(u, n, c)

LEMMA LeaderOpens ==
    ASSUME LeadersInv, CalmWorld, calm, NEW u \in Users, LeaderConnection(u)
    PROVE  \E n \in Nodes : Connects(u, n)
<1>1. PICK m \in Looked(part[u]) :
         LET n == m.endpoints[part[u]] IN
         /\ n # None /\ meta' = m
         /\ IF ConnOf(n) # None
            THEN Continue(u, "call", ConnOf(n)) /\ UNCHANGED <<conns, addr, err, open>>
            ELSE /\ n \in m.nodes /\ Dials(n)
                 /\ Unused(conns) # {}
                 /\ LET c == CHOOSE c \in Unused(conns) : TRUE IN
                    /\ Opened([x \in {c} |-> n])
                    /\ conns' = [conns EXCEPT ![n] = c]
                    /\ Continue(u, "call", c)
  BY Zenon DEF LeaderConnection
<1> DEFINE n == m.endpoints[part[u]]
           c == CHOOSE c \in Unused(conns) : TRUE
<1>2. meta' = m /\ n = meta'.endpoints[part[u]] /\ (m = Truth \/ (m = meta /\ meta.endpoints[part[u]] # None))
  BY <1>1, CalmLooked, Zenon
<1>3. CASE ConnOf(n) # None
  <2>1. Continue(u, "call", ConnOf(n)) /\ UNCHANGED <<conns, addr, err, open>>  BY <1>1, <1>3, Zenon
  <2> HIDE DEF n
  <2>2. n \in Nodes /\ conns[n] = ConnOf(n)  BY <1>3, Zenon DEF ConnOf
  <2> QED BY <1>2, <1>3, <2>1, <2>2, Zenon DEF Connects
<1>4. CASE ConnOf(n) = None
  <2>1. Unused(conns) # {} /\ Opened([x \in {c} |-> n]) /\ conns' = [conns EXCEPT ![n] = c] /\ Dials(n)
        /\ Continue(u, "call", c)
    BY <1>1, <1>4, Zenon
  <2>2. c \in Unused(conns)  BY <2>1, Zenon
  <2> HIDE DEF n, c
  <2>3. n \in Nodes  BY <2>1, Zenon DEF Dials, LeadersInv, Inv, PoolTypes
  <2>4. conns[n] = None  BY <1>4, <2>3, Zenon DEF ConnOf
  <2>5. /\ addr' = [x \in Conns |-> IF x = c THEN n ELSE addr[x]]
        /\ err' = [x \in Conns |-> IF x = c THEN None ELSE err[x]]
    <3> DEFINE to == [x \in {c} |-> n]
    <3>1. DOMAIN to = {c} /\ to[c] = n  OBVIOUS
    <3> HIDE DEF to
    <3>2. /\ addr' = [x \in Conns |-> IF x \in DOMAIN to THEN to[x] ELSE addr[x]]
          /\ err' = [x \in Conns |-> IF x \in DOMAIN to THEN None ELSE err[x]]
      BY <2>1, Zenon DEF Opened, to
    <3> QED BY <3>1, <3>2, Zenon
  <2>6. Opens(u, n, c)  BY <2>1, <2>5, Zenon DEF Opens
  <2> QED BY <1>2, <2>2, <2>3, <2>4, <2>6, Zenon DEF Connects
<1> QED BY <1>3, <1>4

LEMMA LeaderConnectionSettled ==
    ASSUME LeadersInv, CalmWorld, calm, NEW u \in Users, LeaderConnection(u)
    PROVE  Settled
<1>0. UNCHANGED <<up, leader, calm>>  BY Zenon DEF LeaderConnection, worldVars
<1>1. PICK n \in Nodes : Connects(u, n)  BY LeaderOpens, Zenon
<1>2. (meta = Truth => meta' = Truth) /\ \A p \in Parts : Known(p) => Known(p)'
  <2>1. meta' \in {meta, Truth}  BY <1>1, Zenon DEF Connects
  <2> QED BY <1>0, <2>1, KnownKept, Zenon
<1>3. CASE UNCHANGED <<conns, addr, err>>
  <2>1. User(u)  BY Zenon DEF User
  <2>2. \A c : Doomed(c)' => Doomed(c)  BY <1>3, <2>1, DoomedAlone, Zenon
  <2> QED BY <1>0, <1>2, <1>3, <2>2, SettledAlone, Zenon
<1>4. CASE conns[n] = None /\ \E c \in Unused(conns) : Opens(u, n, c)
  <2>1. PICK c \in Unused(conns) :
           /\ conns' = [conns EXCEPT ![n] = c]
           /\ addr' = [x \in Conns |-> IF x = c THEN n ELSE addr[x]]
           /\ err' = [x \in Conns |-> IF x = c THEN None ELSE err[x]]
    BY <1>4, Zenon DEF Opens
  <2>2. conns \in [Nodes -> Conns \cup {None}] /\ held \in [Users -> Conns \cup {None}]
    BY Zenon DEF LeadersInv, Inv, PoolTypes
  <2>3. c \in Conns /\ c \notin Pooled(conns) /\ \A v \in Users : c # held[v]  BY Zenon DEF Unused
  <2>4. conns'[n] = c /\ \A k \in Nodes : k # n => conns'[k] = conns[k]  BY <2>1, <2>2, Zenon
  <2>5. \A k \in Nodes : conns[k] # None => conns'[k] = conns[k] /\ conns[k] # c /\ conns[k] \in Conns
    BY <1>4, <2>2, <2>3, <2>4, Zenon DEF Pooled
  <2>6. User(u)  BY Zenon DEF User
  <2>7. ASSUME NEW x \in Conns, x # c PROVE addr'[x] = addr[x] /\ err'[x] = err[x] /\ (Doomed(x)' => Doomed(x))
    <3>1. addr'[x] = addr[x] /\ err'[x] = err[x]  BY <2>1, <2>7, Zenon
    <3>2. err'[x] # None => Doomed(x)  BY <3>1, Zenon DEF Doomed
    <3>3. Doomed(x)' => Doomed(x)  BY <2>6, <3>2, DoomedKept, Zenon
    <3> QED BY <3>1, <3>3, Zenon
  <2>8. ~Doomed(c)'
    <3>1. err'[c] = None  BY <2>1, <2>3, Zenon
    <3>2. ASSUME NEW v \in Users, pc'[v] = "evict" PROVE held'[v] # c  BY <2>3, <2>6, <3>2, EvictsPending, Zenon
    <3> QED BY <3>1, <3>2, Zenon DEF Doomed
  <2>9. ASSUME NEW p \in Parts, Usable(p) PROVE Usable(p)'
    <3>1. leader'[p] = leader[p] /\ leader[p] \in Nodes  BY <1>0, Zenon DEF CalmWorld
    <3>2. PICK x : x = conns'[leader'[p]]  OBVIOUS
    <3>3. ASSUME x # None PROVE ~Doomed(x)'
      <4>1. CASE leader[p] = n  BY <2>4, <2>8, <3>1, <3>2, <4>1, Zenon
      <4>2. CASE leader[p] # n
        <5>1. x = conns[leader[p]]  BY <2>4, <3>1, <3>2, <4>2, Zenon
        <5>2. x \in Conns /\ x # c  BY <2>5, <3>1, <3>3, <5>1, Zenon
        <5>3. ~Doomed(x)  BY <2>9, <3>3, <5>1, Zenon DEF Usable
        <5> QED BY <2>7, <5>2, <5>3, Zenon
      <4> QED BY <4>1, <4>2
    <3> QED BY <3>2, <3>3, Zenon DEF Usable, Doomed
  <2>10. ASSUME NEW v \in Users, NEW x \in Conns, x = held[v] PROVE x # c
    BY <2>3, <2>10, Zenon
  <2>11. ASSUME NEW x, Noticed(x) PROVE Noticed(x)'
    <3>1. Truth' = Truth  BY <1>0, Zenon DEF Truth
    <3>2. ASSUME x \in Pooled(conns) PROVE x \in Pooled(conns')
      <4>1. PICK k \in Nodes : x = conns[k] /\ x # None  BY <3>2, Zenon DEF Pooled
      <4> QED BY <2>5, <4>1, Zenon DEF Pooled
    <3> QED BY <1>2, <2>11, <3>1, <3>2, Zenon DEF Noticed
  <2>12. ASSUME NEW v \in Users, NEW x \in Conns, x = held[v]
         PROVE  /\ addr'[x] = addr[x] /\ (Doomed(x)' => Doomed(x))
                /\ IF err[x] = None THEN err'[x] = None \/ meta' = Truth ELSE err'[x] # None
    BY <2>7, <2>10, <2>12, Zenon
  <2> QED BY <1>0, <1>2, <2>5, <2>9, <2>11, <2>12, Zenon DEF Settled
<1> QED BY <1>1, <1>3, <1>4, Zenon DEF Connects

\* What muCloseDeadConnection does to the pool and the connection.
LEMMA Evicts ==
    ASSUME LeadersInv, NEW u \in Users, CloseDeadConnection(u)
    PROVE  /\ held[u] \in Conns /\ held[u] # None /\ pc[u] = "evict"
           /\ conns' = [n \in Nodes |-> IF conns[n] = held[u] THEN None ELSE conns[n]]
           /\ \A c \in Conns :
                err'[c] = IF c = held[u] /\ c \in Pooled(conns) /\ err[c] = None THEN "ErrClosed" ELSE err[c]
           /\ Evicted(held[u]) = {} <=> held[u] \notin Pooled(conns)
<1>1. pc[u] = "evict" /\ held[u] \in Conns /\ held[u] # None
  <2>1. pc[u] = "evict"  BY Zenon DEF CloseDeadConnection
  <2>2. held[u] # None  BY <2>1, Zenon DEF LeadersInv, Inv, CallersHold
  <2>3. held[u] \in Conns \cup {None}  BY Zenon DEF LeadersInv, Inv, PoolTypes
  <2> QED BY <2>1, <2>2, <2>3, Zenon
<1> DEFINE gone == Evicted(held[u])
           S == {conns[n] : n \in gone}
<1>2. conns' = [n \in Nodes |-> IF n \in gone THEN None ELSE conns[n]] /\ CloseConns(S)
  BY Zenon DEF CloseDeadConnection
<1>3. gone \subseteq Nodes /\ \A n \in Nodes : n \in gone <=> conns[n] = held[u]  BY Zenon DEF Evicted
<1> HIDE DEF gone
<1>4. conns' = [n \in Nodes |-> IF conns[n] = held[u] THEN None ELSE conns[n]]  BY <1>2, <1>3, Zenon
<1>5. gone = {} <=> held[u] \notin Pooled(conns)  BY <1>1, <1>3, Zenon DEF Pooled
<1>6. \A c \in Conns : c \in S <=> c = held[u] /\ c \in Pooled(conns)
  <2>1. ASSUME NEW c \in Conns, c \in S PROVE c = held[u] /\ c \in Pooled(conns)
    BY <1>1, <1>3, <2>1, Zenon DEF Pooled
  <2>2. ASSUME NEW c \in Conns, c = held[u], c \in Pooled(conns) PROVE c \in S
    BY <1>3, <2>2, Zenon DEF Pooled
  <2> QED BY <2>1, <2>2, Zenon
<1> HIDE DEF S
<1>7. err' = [c \in Conns |-> IF c \in S /\ err[c] = None THEN "ErrClosed" ELSE err[c]]  BY <1>2, Zenon DEF CloseConns
<1>8. \A c \in Conns : err'[c] = IF c = held[u] /\ c \in Pooled(conns) /\ err[c] = None THEN "ErrClosed" ELSE err[c]
  BY <1>6, <1>7, Zenon
<1> QED BY <1>1, <1>4, <1>5, <1>8, Zenon DEF gone

\* In a calm cluster it refreshes the metadata, too.
LEMMA CalmEvicts ==
    ASSUME LeadersInv, CalmWorld, calm, NEW u \in Users, CloseDeadConnection(u)
    PROVE  /\ conns' = [n \in Nodes |-> IF conns[n] = held[u] THEN None ELSE conns[n]]
           /\ UNCHANGED <<addr, up, leader, calm>>
           /\ meta' = IF held[u] \in Pooled(conns) THEN Truth ELSE meta
<1> DEFINE gone == Evicted(held[u])
           pool == [n \in Nodes |-> IF n \in gone THEN None ELSE conns[n]]
<1>1. /\ IF gone = {} THEN UNCHANGED meta ELSE meta' \in Refreshed(pool) \cup NotRefreshed(pool)
      /\ UNCHANGED <<addr, up, leader, calm>>
  BY Zenon DEF CloseDeadConnection, worldVars
<1>2. Refreshed(pool) \cup NotRefreshed(pool) = {Truth}
  <2> HIDE DEF pool
  <2> QED BY CalmRefresh, Zenon
<1>3. gone = {} <=> held[u] \notin Pooled(conns)  BY Evicts, Zenon
<1> HIDE DEF gone, pool
<1> QED BY <1>1, <1>2, <1>3, Evicts, Zenon

LEMMA EvictsSettled ==
    ASSUME LeadersInv, CalmWorld, calm, NEW u \in Users, CloseDeadConnection(u)
    PROVE  Settled
<1>0. User(u)  BY Zenon DEF User
<1>1. /\ conns' = [n \in Nodes |-> IF conns[n] = held[u] THEN None ELSE conns[n]]
      /\ UNCHANGED <<addr, up, leader, calm>>
      /\ meta' = IF held[u] \in Pooled(conns) THEN Truth ELSE meta
  BY CalmEvicts, Zenon
<1>2. (meta = Truth => meta' = Truth) /\ \A p \in Parts : Known(p) => Known(p)'
  <2>1. meta' \in {meta, Truth}  BY <1>1, Zenon
  <2> QED BY <1>1, <2>1, KnownKept, Zenon
<1>3. \A n \in Nodes : conns'[n] \in {conns[n], None}  BY <1>1, Zenon
<1>4. ASSUME NEW c \in Conns
      PROVE  /\ IF err[c] = None THEN err'[c] = None \/ (c = held[u] /\ meta' = Truth) ELSE err'[c] # None
             /\ Doomed(c)' => Doomed(c)
  <2>1. err'[c] = IF c = held[u] /\ c \in Pooled(conns) /\ err[c] = None THEN "ErrClosed" ELSE err[c]
    BY Evicts, Zenon
  <2>2. IF err[c] = None THEN err'[c] = None \/ (c = held[u] /\ meta' = Truth) ELSE err'[c] # None
    BY <1>1, <2>1, Zenon
  <2>3. err'[c] # None => Doomed(c)
    <3>1. pc[u] = "evict"  BY Evicts, Zenon
    <3> QED BY <2>2, <3>1, Zenon DEF Doomed
  <2>4. Doomed(c)' => Doomed(c)  BY <1>0, <2>3, DoomedKept, Zenon
  <2> QED BY <2>2, <2>4, Zenon
<1>5. ASSUME NEW p \in Parts, Usable(p) PROVE Usable(p)'
  <2>1. leader'[p] = leader[p] /\ leader[p] \in Nodes  BY <1>1, Zenon DEF CalmWorld
  <2>2. PICK x : x = conns'[leader'[p]]  OBVIOUS
  <2>3. ASSUME x # None PROVE ~Doomed(x)'
    <3>1. x = conns[leader[p]]  BY <1>3, <2>1, <2>2, <2>3, Zenon
    <3>2. x \in Conns  BY <2>1, <2>3, <3>1, Zenon DEF LeadersInv, Inv, PoolTypes
    <3>3. ~Doomed(x)  BY <1>5, <2>3, <3>1, Zenon DEF Usable
    <3> QED BY <1>4, <3>2, <3>3, Zenon
  <2> QED BY <2>2, <2>3, Zenon DEF Usable, Doomed
<1>6. ASSUME NEW x, Noticed(x) PROVE Noticed(x)'
  <2>1. Truth' = Truth  BY <1>1, Zenon DEF Truth
  <2>2. CASE meta' = Truth  BY <2>1, <2>2, Zenon DEF Noticed
  <2>3. CASE meta' # Truth
    <3>1. held[u] \notin Pooled(conns) /\ x \in Pooled(conns)  BY <1>1, <1>2, <1>6, <2>3, Zenon DEF Noticed
    <3>2. PICK k \in Nodes : x = conns[k] /\ x # None  BY <3>1, Zenon DEF Pooled
    <3>3. conns'[k] = x  BY <1>1, <3>1, <3>2, Zenon
    <3> QED BY <3>2, <3>3, Zenon DEF Noticed, Pooled
  <2> QED BY <2>2, <2>3
<1>7. ASSUME NEW v \in Users, NEW x \in Conns, x = held[v]
      PROVE  /\ addr'[x] = addr[x] /\ (Doomed(x)' => Doomed(x))
             /\ IF err[x] = None THEN err'[x] = None \/ meta' = Truth ELSE err'[x] # None
  BY <1>1, <1>4, Zenon
<1> QED BY <1>1, <1>2, <1>3, <1>5, <1>6, <1>7, Zenon DEF Settled

LEMMA CalmSettled ==
    ASSUME LeadersInv, CalmWorld, calm, ~closed', [Next]_vars
    PROVE  Settled
<1>1. ASSUME NEW u \in Users, User(u) PROVE Settled
  <2>1. ~CoordinatorFails(u) /\ ~CoordinatorConnection(u)
    BY Zenon DEF CoordinatorFails, CoordinatorConnection, LeadersInv, NoCoordinator
  <2>2. CASE Request(u)
    <3>1. UNCHANGED <<up, leader, calm, conns, addr, err, meta>>  BY <2>2, Zenon DEF Request, poolVars
    <3>2. (meta = Truth => meta' = Truth) /\ \A p \in Parts : Known(p) => Known(p)'  BY <3>1, Zenon DEF Known
    <3>3. \A c : Doomed(c)' => Doomed(c)  BY <1>1, <3>1, DoomedAlone, Zenon
    <3> QED BY <3>1, <3>2, <3>3, SettledAlone, Zenon
  <2>3. CASE RefreshMetadata(u)
    <3>1. UNCHANGED <<up, leader, calm, conns, addr, err>>  BY <2>3, Zenon DEF RefreshMetadata, worldVars
    <3>2. meta' \in Refreshed(conns) \/ meta' \in NotRefreshed(conns)  BY <2>3, Zenon DEF RefreshMetadata
    <3>3. meta' \in {meta, Truth}  BY <3>2, CalmRefresh, Zenon
    <3>4. (meta = Truth => meta' = Truth) /\ \A p \in Parts : Known(p) => Known(p)'  BY <3>1, <3>3, KnownKept, Zenon
    <3>5. \A c : Doomed(c)' => Doomed(c)  BY <1>1, <3>1, DoomedAlone, Zenon
    <3> QED BY <3>1, <3>4, <3>5, SettledAlone, Zenon
  <2> QED BY <1>1, <2>1, <2>2, <2>3, LeaderFailsSettled, LeaderConnectionSettled, EvictsSettled, Zenon DEF User
<1>2. ASSUME UNCHANGED <<up, leader, calm, conns, addr, err, meta>>,
             \A v \in Users : pc'[v] = "evict" => pc[v] = "evict" /\ held'[v] = held[v]
      PROVE  Settled
  <2>1. (meta = Truth => meta' = Truth) /\ \A p \in Parts : Known(p) => Known(p)'  BY <1>2, Zenon DEF Known
  <2>2. \A c : Doomed(c)' => Doomed(c)  BY <1>2, Zenon DEF Doomed
  <2> QED BY <1>2, <2>1, <2>2, SettledAlone, Zenon
<1>3. ASSUME NEW u \in Users, NEW k \in Kinds[u], NEW p \in Parts, Call(u, k, p) PROVE Settled
  <2>1. UNCHANGED <<up, leader, calm, conns, addr, err, meta>>  BY <1>3, Zenon DEF Call, poolVars, worldVars
  <2>2. pc'[u] = Attempt(k, held[u]) /\ \A v \in Users \ {u} : Same(v)  BY <1>3, CallBecomes, Zenon DEF LeadersInv
  <2>3. pc'[u] # "evict"  BY <2>2 DEF Attempt
  <2>4. \A v \in Users : pc'[v] = "evict" => pc[v] = "evict" /\ held'[v] = held[v]  BY <2>2, <2>3, Zenon DEF Same
  <2> QED BY <1>2, <2>1, <2>4
<1>4. ~Close  BY Zenon DEF Close
<1>5. ~World
  BY Zenon DEF World, ConnDies, NodeStops, NodeStarts, LeaderMoves, Calm, Fault, CalmWorld
<1>6. CASE UNCHANGED vars
  <2>1. UNCHANGED <<up, leader, calm, conns, addr, err, meta, pc, held>>  BY <1>6, Zenon DEF vars
  <2> QED BY <1>2, <2>1, Zenon
<1> QED BY <1>1, <1>3, <1>4, <1>5, <1>6, Zenon DEF Next

LEMMA HeldIs ==
    ASSUME Inv, NEW u \in Users, pc[u] \in {"call", "evict"}
    PROVE  held[u] \in Conns /\ held[u] # None
<1>1. held[u] # None  BY Zenon DEF Inv, CallersHold
<1>2. held[u] \in Conns \cup {None}  BY Zenon DEF Inv, PoolTypes
<1> QED BY <1>1, <1>2, Zenon

\* A step leaves what the others have learnt.
LEMMA LearntKept ==
    ASSUME LeadersInv, CalmWorld, calm, Settled, NEW v \in Users, Same(v), Learnt(v)
    PROVE  Learnt(v)'
<1>1. Failed(v)' = Failed(v)  BY Zenon DEF Failed, Same
<1>2. part[v] \in Parts /\ leader[part[v]] \in Nodes
  <2>1. part[v] \in Parts  BY Zenon DEF LeadersInv, Inv, PoolTypes
  <2> QED BY <2>1, Zenon DEF CalmWorld
<1>3. Truth' = Truth  BY Zenon DEF Truth, Settled
<1>4. (Known(part[v]) => Known(part[v])') /\ (Usable(part[v]) => Usable(part[v])')
  <2>1. PICK p \in Parts : p = part[v]  BY <1>2, Zenon
  <2>2. part'[v] = p  BY <2>1, Zenon DEF Same
  <2>3. (Known(p) => Known(p)') /\ (Usable(p) => Usable(p)')  BY Zenon DEF Settled
  <2> QED BY <2>1, <2>2, <2>3, Zenon DEF Usable, Doomed, Known
<1>5. ASSUME pc'[v] = "leader" PROVE LearntLeader(v, Failed(v))'
  <2>1. LearntLeader(v, Failed(v))  BY <1>5, Zenon DEF Learnt, Same
  <2>2. /\ ltries[v] > 0 => Known(part[v])'
        /\ Failed(v) >= 1 => meta' = Truth'
        /\ Failed(v) >= 2 => Usable(part[v])'
    BY <1>3, <1>4, <2>1, Zenon DEF LearntLeader, Settled
  <2> QED BY <1>1, <2>2, Zenon DEF LearntLeader, Same, Known, Usable
<1>6. ASSUME pc'[v] \in {"call", "evict"} PROVE LearntCall(v, Failed(v))'
  <2>1. LearntCall(v, Failed(v))
    <3>1. pc[v] \in {"call", "evict"}  BY <1>6, Zenon DEF Same
    <3> QED BY <3>1, Zenon DEF Learnt
  <2>2. PICK c \in Conns : c = held[v] /\ c # None
    <3>1. pc[v] \in {"call", "evict"}  BY <1>6, Zenon DEF Same
    <3> QED BY <3>1, HeldIs, Zenon DEF LeadersInv
  <2>3. held'[v] = c  BY <2>2, Zenon DEF Same
  <2>4. /\ addr'[c] = addr[c] /\ (Doomed(c)' => Doomed(c))
        /\ IF err[c] = None THEN err'[c] = None \/ meta' = Truth ELSE err'[c] # None
    BY <2>2, Zenon DEF Settled
  <2>5. ASSUME Failed(v) >= 0, err'[c] # None PROVE Noticed(c)'
    <3>1. CASE err[c] = None  BY <1>3, <2>4, <2>5, <3>1, Zenon DEF Noticed
    <3>2. CASE err[c] # None
      <4>1. Noticed(c)  BY <2>1, <2>2, <2>5, <3>2, Zenon DEF LearntCall
      <4> QED BY <4>1, Zenon DEF Settled
    <3> QED BY <3>1, <3>2
  <2>6. ASSUME conns[leader[part[v]]] = c PROVE conns'[leader[part[v]]] = c \/ Usable(part[v])'
    <3>1. conns'[leader[part[v]]] \in {c, None}  BY <1>2, <2>2, <2>6, Zenon DEF Settled
    <3> QED BY <3>1, Zenon DEF Usable, Settled, Same
  <2>7. /\ Failed(v) >= 1 => /\ meta' = Truth' /\ addr'[c] = leader[part[v]]
                             /\ Doomed(c)' => conns'[leader[part[v]]] = c \/ Usable(part[v])'
        /\ Failed(v) >= 2 => ~Doomed(c)'
    BY <1>3, <1>4, <2>1, <2>2, <2>4, <2>6, Zenon DEF LearntCall, Settled
  <2>8. Noticed(c)' => Noticed(held[v])'  BY <2>3, Zenon DEF Noticed
  <2>9. Doomed(held[v])' => Doomed(c)'  BY <2>3, Zenon DEF Doomed
  <2> QED BY <1>1, <2>3, <2>5, <2>7, <2>8, <2>9, Zenon DEF LearntCall, Same, Settled
<1>7. ASSUME pc'[v] = "refresh" PROVE LearntRefresh(v, Failed(v))'
  <2>1. LearntRefresh(v, Failed(v))  BY <1>7, Zenon DEF Learnt, Same
  <2> QED BY <1>1, <1>4, <2>1, Zenon DEF LearntRefresh, Same
<1>8. ASSUME pc'[v] = "evict" PROVE err'[held'[v]] # None
  <2>1. pc[v] = "evict" /\ held'[v] = held[v] /\ err[held[v]] # None  BY <1>8, Zenon DEF Learnt, Same
  <2>2. held[v] \in Conns  BY <2>1, HeldIs, Zenon DEF LeadersInv
  <2> QED BY <2>1, <2>2, Zenon DEF Settled
<1> QED BY <1>1, <1>5, <1>6, <1>7, <1>8, Zenon DEF Learnt

-----------------------------------------------------------------------------
(* How the call of a goroutine goes on, in a calm cluster.                 *)

\* u, still in its call, is at w with connection c, after n failures.
Proceeds(u, w, c, n, l) ==
    /\ pc'[u] = w /\ held'[u] = c /\ kind'[u] = kind[u] /\ part'[u] = part[u] /\ ltries'[u] = l
    /\ Failed(u)' = n

LEMMA ContinueProceeds ==
    ASSUME LeadersInv, NEW u \in Users, NEW w, NEW c, Continue(u, w, c)
    PROVE  Proceeds(u, w, c, Failed(u), ltries[u])
<1>1. Becomes(u, w, kind[u], c, cause[u], tries[u], ltries[u], res[u])  BY ContinueBecomes, Zenon DEF LeadersInv
<1>2. Is(u, w, kind[u], c, cause[u], tries[u], ltries[u], res[u])  BY <1>1, BecomesIs, Zenon DEF LeadersInv
<1> QED BY <1>2, Zenon DEF Is, Proceeds, Failed

LEMMA CloseDeadProceeds ==
    ASSUME LeadersInv, NEW u \in Users, NEW e, CloseDead(u, e)
    PROVE  Proceeds(u, "evict", held[u], Failed(u), ltries[u])
<1>1. Becomes(u, "evict", kind[u], held[u], e, tries[u], ltries[u], res[u])
  BY CloseDeadBecomes, Zenon DEF LeadersInv
<1>2. PICK w : w = "evict"  OBVIOUS
<1>3. Becomes(u, w, kind[u], held[u], e, tries[u], ltries[u], res[u])  BY <1>1, <1>2, Zenon
<1>4. Is(u, w, kind[u], held[u], e, tries[u], ltries[u], res[u])  BY <1>3, BecomesIs, Zenon DEF LeadersInv
<1> QED BY <1>2, <1>4, Zenon DEF Is, Proceeds, Failed

\* Failures are counted in tries.
LEMMA FailedType ==
    ASSUME LeadersInv, NEW u \in Users
    PROVE  tries[u] \in Nat /\ Failed(u) \in Int
<1>1. tries[u] \in 0 .. (RetryLimit - 1) /\ RetryLimit \in Nat  BY TypesOf, Zenon DEF LeadersInv
<1>2. tries[u] \in Nat  BY <1>1, SMT
<1>3. Failed(u) = tries[u] - 1 \/ Failed(u) = tries[u] - 0  BY Zenon DEF Failed
<1> QED BY <1>2, <1>3, SMT

\* A call that has failed at most once, but for the connection that fetch keeps,
\* has another try.
LEMMA CalmRetry ==
    ASSUME EnoughTries, LeadersInv, NEW u \in Users, pc[u] # "idle", Failed(u) <= 1, Retry(u, None)
    PROVE  Proceeds(u, IF kind[u] = "offset" THEN "refresh" ELSE "leader", None, Failed(u) + 1, 0)
<1>1. kind[u] \in Kinds[u] /\ kind[u] \in {"produce", "offset", "fetch"}
  BY KindsOfCalls, TypesOf, Zenon DEF EnoughTries, LeadersInv
<1>2. MoreTries(u)
  <2>1. tries[u] \in Nat /\ RetryLimit \in Nat  BY FailedType, TypesOf, Zenon DEF LeadersInv
  <2>2. CASE kind[u] = "fetch"
    <3>1. RetryLimit >= 4  BY <1>1, <2>2, Zenon DEF EnoughTries
    <3>2. tries[u] - 1 <= 1  BY <2>2, Zenon DEF Failed
    <3> QED BY <2>1, <3>1, <3>2, SMT DEF MoreTries
  <2>3. CASE kind[u] # "fetch"
    <3>1. RetryLimit >= 4 \/ RetryLimit >= 3  BY Zenon DEF EnoughTries
    <3>2. tries[u] - 0 <= 1  BY <2>3, Zenon DEF Failed
    <3> QED BY <2>1, <3>1, <3>2, SMT DEF MoreTries
  <2> QED BY <2>2, <2>3
<1>3. PICK w, t, k : /\ w = IF kind[u] = "offset" THEN "refresh" ELSE "leader"
                     /\ t = tries[u] + 1
                     /\ k = IF KeepsConn(u) THEN None ELSE None
  OBVIOUS
<1>4. k = None /\ w = IF kind[u] = "offset" THEN "refresh" ELSE Attempt(kind[u], k)
  <2>1. k = None  BY <1>3, Zenon
  <2>2. Attempt(kind[u], None) = "leader"  BY <1>1, Zenon DEF Attempt
  <2> QED BY <1>3, <2>1, <2>2, Zenon
<1>5. Becomes(u, w, kind[u], k, None, t, 0, res[u])  BY <1>2, <1>3, <1>4, RetryBecomes, Zenon DEF LeadersInv
<1>6. Is(u, w, kind[u], k, None, t, 0, res[u])  BY <1>5, BecomesIs, Zenon DEF LeadersInv
<1>7. Failed(u)' = Failed(u) + 1
  <2>1. Failed(u)' = t - (IF kind[u] = "fetch" THEN 1 ELSE 0)  BY <1>6, Zenon DEF Failed, Is
  <2>2. t = tries[u] + 1  BY <1>3, Zenon
  <2>3. CASE kind[u] = "fetch"
    <3>1. Failed(u)' = t - 1 /\ Failed(u) = tries[u] - 1  BY <2>1, <2>3, Zenon DEF Failed
    <3> QED BY <2>2, <3>1, FailedType, SMT
  <2>4. CASE kind[u] # "fetch"
    <3>1. Failed(u)' = t - 0 /\ Failed(u) = tries[u] - 0  BY <2>1, <2>4, Zenon DEF Failed
    <3> QED BY <2>2, <3>1, FailedType, SMT
  <2> QED BY <2>3, <2>4
<1> QED BY <1>3, <1>4, <1>6, <1>7, Zenon DEF Is, Proceeds

\* How the call of u goes on.
Fine(u) == IF pc'[u] = "idle" THEN res'[u] = "ok" ELSE Learnt(u)'

LEMMA LeaderFailsFine ==
    ASSUME EnoughTries, LeadersInv, CalmWorld, calm, NEW u \in Users, Learnt(u), LeaderFails(u)
    PROVE  Fine(u)
<1>1. /\ meta' = Without(meta, part[u]) /\ ~Known(part[u]) /\ meta # Truth
      /\ pc[u] = "leader" /\ NoConn(u)
  BY CalmLeaderFails, Zenon DEF LeaderFails
<1>2. LearntLeader(u, Failed(u)) /\ Failed(u) <= 2  BY <1>1, Zenon DEF Learnt
<1>3. ~(ltries[u] > 0) /\ ~(Failed(u) >= 1)  BY <1>1, <1>2, Zenon DEF LearntLeader
<1>4. ltries[u] + 1 < LeaderRetryLimit
  <2>1. ltries[u] \in 0 .. (LeaderRetryLimit - 1) /\ LeaderRetryLimit \in Nat  BY TypesOf, Zenon DEF LeadersInv
  <2>2. LeaderRetryLimit >= 2  BY Zenon DEF EnoughTries
  <2> QED BY <1>3, <2>1, <2>2, SMT
<1>5. PICK w, l : w = "leader" /\ l = ltries[u] + 1  OBVIOUS
<1>6. Becomes(u, pc[u], kind[u], held[u], cause[u], tries[u], l, res[u])
  BY <1>1, <1>4, <1>5, NoConnBecomes, Zenon DEF LeadersInv
<1>7. Is(u, pc[u], kind[u], held[u], cause[u], tries[u], l, res[u])  BY <1>6, BecomesIs, Zenon DEF LeadersInv
<1>8. Failed(u)' = Failed(u) /\ pc'[u] = "leader" /\ part'[u] = part[u]  BY <1>1, <1>7, Zenon DEF Failed, Is
<1>9. Known(part[u])'
  <2>1. part[u] \in Parts /\ PoolTypes  BY Zenon DEF LeadersInv, Inv, PoolTypes
  <2> QED BY <1>1, <1>8, <2>1, WithoutIs, Zenon DEF Known
<1>10. Failed(u) \in Int /\ ~(Failed(u) >= 2)
  <2>1. Failed(u) \in Int  BY FailedType, Zenon
  <2> QED BY <1>3, <2>1, SMT
<1> QED BY <1>2, <1>3, <1>8, <1>9, <1>10, Zenon DEF Fine, Learnt, LearntLeader

LEMMA RefreshFine ==
    ASSUME EnoughTries, LeadersInv, CalmWorld, calm, NEW u \in Users, Learnt(u), Settled, RefreshMetadata(u)
    PROVE  Fine(u)
<1>1. pc[u] = "refresh" /\ pc[u] # "idle" /\ LearntRefresh(u, Failed(u)) /\ Failed(u) <= 2
  BY Zenon DEF RefreshMetadata, Learnt
<1>2. /\ meta' = Truth
      /\ IF kind[u] = "offset" THEN Continue(u, "leader", None) ELSE Retry(u, None)
  BY CalmRefresh, Zenon DEF RefreshMetadata
<1>3. Truth' = Truth  BY Zenon DEF Truth, Settled
<1>4. ASSUME NEW p \in Parts PROVE Known(p)'
  <2>1. meta'.endpoints = leader' /\ meta'.nodes = up' /\ leader' = leader /\ up' = up
    BY <1>2, TruthOf, Zenon DEF Settled
  <2>2. leader[p] \in up  BY Zenon DEF CalmWorld
  <2>3. leader'[p] \in meta'.nodes  BY <2>1, <2>2, SMT
  <2>4. meta'.endpoints[p] = leader'[p]  BY <2>1, Zenon
  <2> QED BY <2>3, <2>4, Zenon DEF Known
<1>5. PICK p \in Parts : p = part[u]
  <2>1. part[u] \in Parts  BY Zenon DEF LeadersInv, Inv, PoolTypes
  <2> QED BY <2>1, Zenon
<1>6. Usable(p) => Usable(p)'  BY Zenon DEF Settled
<1>7. Failed(u) \in Int  BY FailedType, Zenon
<1>8. CASE kind[u] = "offset"
  <2>1. Proceeds(u, "leader", None, Failed(u), ltries[u])
    <3>1. PICK w : w = "leader"  OBVIOUS
    <3> QED BY <1>2, <1>8, <3>1, ContinueProceeds, Zenon
  <2>2. Failed(u) >= 2 => Usable(p)'  BY <1>1, <1>5, <1>6, <1>8, Zenon DEF LearntRefresh
  <2>3. part'[u] = p /\ pc'[u] = "leader" /\ Failed(u)' = Failed(u)  BY <1>5, <2>1, Zenon DEF Proceeds
  <2>4. LearntLeader(u, Failed(u))'
    BY <1>2, <1>3, <1>4, <2>2, <2>3, Zenon DEF LearntLeader, Known, Usable, Doomed
  <2> QED BY <1>1, <2>3, <2>4, Zenon DEF Fine, Learnt
<1>9. CASE kind[u] # "offset"
  <2>1. Failed(u) <= 1 /\ (Failed(u) >= 1 => Usable(p))  BY <1>1, <1>5, <1>9, Zenon DEF LearntRefresh
  <2>2. Proceeds(u, IF kind[u] = "offset" THEN "refresh" ELSE "leader", None, Failed(u) + 1, 0)
    BY <1>1, <1>2, <1>9, <2>1, CalmRetry, Zenon
  <2>3. part'[u] = p /\ pc'[u] = "leader" /\ Failed(u)' = Failed(u) + 1 /\ ltries'[u] = 0
    BY <1>5, <1>9, <2>2, Zenon DEF Proceeds
  <2>4. Failed(u) + 1 >= 2 => Usable(p)'
    <3>1. Failed(u) + 1 >= 2 => Failed(u) >= 1  BY <1>7, SMT
    <3> QED BY <1>6, <2>1, <3>1, Zenon
  <2>5. LearntLeader(u, Failed(u))'
    BY <1>2, <1>3, <1>4, <2>3, <2>4, Zenon DEF LearntLeader, Known, Usable, Doomed
  <2>6. Failed(u) + 1 <= 2  BY <1>7, <2>1, SMT
  <2> QED BY <2>3, <2>5, <2>6, Zenon DEF Fine, Learnt
<1> QED BY <1>8, <1>9

LEMMA LeaderConnectionFine ==
    ASSUME LeadersInv, CalmWorld, calm, NEW u \in Users, Learnt(u), Settled, LeaderConnection(u)
    PROVE  Fine(u)
<1>1. pc[u] = "leader" /\ LearntLeader(u, Failed(u)) /\ Failed(u) <= 2  BY Zenon DEF LeaderConnection, Learnt
<1>2. PICK n \in Nodes : Connects(u, n)  BY LeaderOpens, Zenon
<1>3. PICK p \in Parts : p = part[u]
  <2>1. part[u] \in Parts  BY Zenon DEF LeadersInv, Inv, PoolTypes
  <2> QED BY <2>1, Zenon
<1>4. Truth' = Truth /\ leader' = leader  BY Zenon DEF Truth, Settled
<1>5. ASSUME Failed(u) >= 1 PROVE meta' = Truth' /\ n = leader[p]
  <2>1. meta' = Truth  BY <1>1, <1>2, <1>5, Zenon DEF LearntLeader, Connects
  <2>2. n = Truth.endpoints[p]  BY <1>2, <1>3, <2>1, Zenon DEF Connects
  <2> QED BY <1>4, <2>1, <2>2, TruthOf, Zenon
<1>6. Failed(u) >= 2 => Failed(u) >= 1
  <2>1. Failed(u) \in Int  BY FailedType, Zenon
  <2> QED BY <2>1, SMT
<1>7. Failed(u) >= 2 => Usable(p)'  BY <1>1, <1>3, Zenon DEF LearntLeader, Settled
<1>8. ASSUME NEW c, c # None, Continue(u, "call", c), conns'[n] = c, addr'[c] = n,
             err'[c] # None => Noticed(c)'
      PROVE  Fine(u)
  <2>1. PICK w : w = "call"  OBVIOUS
  <2>2. Proceeds(u, w, c, Failed(u), ltries[u])  BY <1>8, <2>1, ContinueProceeds, Zenon
  <2>3. pc'[u] = "call" /\ held'[u] = c /\ part'[u] = p /\ Failed(u)' = Failed(u)
    BY <1>3, <2>1, <2>2, Zenon DEF Proceeds
  <2>4. err'[held'[u]] # None => Noticed(held[u])'  BY <1>8, <2>3, Zenon DEF Noticed
  <2>5. Failed(u)' >= 1 => meta' = Truth' /\ addr'[held'[u]] = leader'[part'[u]] /\ conns'[leader'[part'[u]]] = held'[u]
    BY <1>4, <1>5, <1>8, <2>3, Zenon
  <2>6. Failed(u)' >= 2 => ~Doomed(held[u])'
    <3>1. Failed(u) >= 2 => conns'[leader'[p]] = c /\ Usable(p)'  BY <1>4, <1>5, <1>6, <1>7, <1>8, Zenon
    <3> QED BY <1>8, <2>3, <3>1, Zenon DEF Usable, Doomed
  <2>7. LearntCall(u, Failed(u))'  BY <2>4, <2>5, <2>6, Zenon DEF LearntCall
  <2>8. pc'[u] # "evict"  BY <2>3
  <2> QED BY <1>1, <2>3, <2>7, <2>8, Zenon DEF Fine, Learnt
<1>9. CASE conns[n] # None /\ Continue(u, "call", conns[n]) /\ UNCHANGED <<conns, addr, err>>
  <2>1. PICK c : c = conns[n]  OBVIOUS
  <2>2. Noticed(c)'  BY <1>9, <2>1, Zenon DEF Noticed, Pooled
  <2>3. addr[c] = n  BY <1>9, <2>1, Zenon DEF LeadersInv, Inv, PoolMatches
  <2> QED BY <1>8, <1>9, <2>1, <2>2, <2>3, Zenon
<1>10. CASE conns[n] = None /\ \E c \in Unused(conns) : Opens(u, n, c)
  <2>1. PICK c \in Unused(conns) : Opens(u, n, c)  BY <1>10, Zenon
  <2>2. c \in Conns /\ c # None  BY BrokerAssumption, Zenon DEF Unused
  <2>3. addr'[c] = n /\ err'[c] = None /\ Continue(u, "call", c)  BY <2>1, <2>2, Zenon DEF Opens
  <2>4. conns'[n] = c  BY <2>1, Zenon DEF Opens, LeadersInv, Inv, PoolTypes
  <2> QED BY <1>8, <2>2, <2>3, <2>4, Zenon
<1> QED BY <1>2, <1>9, <1>10, Zenon DEF Connects

\* The errors of a request in a calm cluster.
LEMMA CalmOutcomes ==
    ASSUME EnoughTries, LeadersInv, CalmWorld, calm, ~closed, NEW u \in Users, pc[u] = "call",
           NEW e \in Outcomes(u, held[u])
    PROVE  \/ err[held[u]] # None /\ e \in {"EOF", "OpError"}
           \/ err[held[u]] # None /\ e = "ErrClosed" /\ held[u] \notin Pooled(conns)
           \/ err[held[u]] = None /\ e = "ok"
           \/ err[held[u]] = None /\ e = "NotLeader" /\ addr[held[u]] # leader[part[u]]
<1>1. kind[u] \in {"produce", "offset", "fetch"}
  <2>1. pc[u] # "idle"  OBVIOUS
  <2> QED BY <2>1, KindsOfCalls, Zenon DEF EnoughTries, LeadersInv
<1>2. held[u] \in Conns  BY HeldIs, Zenon DEF LeadersInv
<1>3. \/ err[held[u]] \in {"EOF", "OpError"} \cup {None}
      \/ err[held[u]] = "ErrClosed" /\ held[u] \notin Pooled(conns)
  BY <1>2, Zenon DEF CalmWorld, Errs, EnoughTries
<1>4. CASE err[held[u]] # None
  <2>1. e = err[held[u]]  BY <1>4, Zenon DEF Outcomes
  <2> QED BY <1>3, <1>4, <2>1, Zenon
<1>5. CASE err[held[u]] = None
  <2>1. kind[u] \notin {"commit", "Offset"}  BY <1>1
  <2>2. e \in (IF addr[held[u]] = leader[part[u]] THEN {"ok"} ELSE {"NotLeader"})
    BY <1>5, <2>1, Zenon DEF Outcomes
  <2> QED BY <1>5, <2>2, Zenon
<1> QED BY <1>4, <1>5

LEMMA RequestFine ==
    ASSUME EnoughTries, LeadersInv, CalmWorld, calm, ~closed, NEW u \in Users, Learnt(u), Settled, Request(u)
    PROVE  Fine(u)
<1>1. /\ pc[u] = "call" /\ pc[u] # "idle" /\ LearntCall(u, Failed(u)) /\ Failed(u) <= 2
      /\ UNCHANGED <<meta, conns, addr, err, up, leader>>
  BY Zenon DEF Request, Learnt, poolVars
<1>2. kind[u] \in {"produce", "offset", "fetch"}
  BY <1>1, KindsOfCalls, Zenon DEF EnoughTries, LeadersInv
<1>3. PICK e \in Outcomes(u, held[u]) :
         \/ kind[u] = "produce" /\ ProduceOutcome(u, e)
         \/ kind[u] = "offset" /\ OffsetOutcome(u, e)
         \/ kind[u] = "fetch" /\ FetchOutcome(u, e)
  <2>1. kind[u] \notin {"commit", "Offset"}  BY <1>2
  <2> QED BY <2>1, Zenon DEF Request
<1>4. Truth' = Truth  BY <1>1, Zenon DEF Truth
<1>5. CASE err[held[u]] # None /\ CloseDead(u, e)
  <2>1. Proceeds(u, "evict", held[u], Failed(u), ltries[u])  BY <1>5, CloseDeadProceeds, Zenon
  <2>2. pc'[u] = "evict" /\ held'[u] = held[u] /\ part'[u] = part[u] /\ Failed(u)' = Failed(u)
    BY <2>1, Zenon DEF Proceeds
  <2>3. ~(Failed(u) >= 2)  BY <1>1, <1>5, Zenon DEF LearntCall, Doomed
  <2>4. Failed(u) >= 0 => Noticed(held[u])'
    <3>1. Failed(u) >= 0 => Noticed(held[u])  BY <1>1, <1>5, Zenon DEF LearntCall
    <3> QED BY <1>1, <1>4, <2>2, <3>1, Zenon DEF Noticed, Pooled
  <2>5. Failed(u) >= 1 => /\ meta' = Truth' /\ addr'[held'[u]] = leader'[part'[u]]
                          /\ conns'[leader'[part'[u]]] = held'[u] \/ Usable(part[u])'
    <3>1. Failed(u) >= 1 => /\ meta = Truth /\ addr[held[u]] = leader[part[u]]
                            /\ conns[leader[part[u]]] = held[u] \/ Usable(part[u])
      BY <1>1, <1>5, Zenon DEF LearntCall, Doomed
    <3>2. Usable(part[u]) => Usable(part[u])'
      <4>1. PICK p \in Parts : p = part[u]  BY Zenon DEF LeadersInv, Inv, PoolTypes
      <4>2. Usable(p) => Usable(p)'  BY Zenon DEF Settled
      <4> QED BY <2>2, <4>1, <4>2, Zenon DEF Usable, Doomed
    <3> QED BY <1>1, <1>4, <2>2, <3>1, <3>2, Zenon
  <2>6. LearntCall(u, Failed(u))'  BY <2>2, <2>3, <2>4, <2>5, Zenon DEF LearntCall
  <2>7. err'[held'[u]] # None  BY <1>1, <1>5, <2>2, Zenon
  <2>8. pc'[u] \notin {"idle", "leader", "refresh"}  BY <2>2
  <2> QED BY <1>1, <2>2, <2>6, <2>7, <2>8, Zenon DEF Fine, Learnt
<1>6. CASE e = "ok"
  <2>1. \E c : Return(u, "ok", c)
    BY <1>3, <1>6, Zenon DEF ProduceOutcome, OffsetOutcome, FetchOutcome
  <2>2. pc'[u] = "idle" /\ res'[u] = "ok"
    BY <2>1, Zenon DEF Return, Goto, LeadersInv, Inv, PoolTypes, UserTypes
  <2> QED BY <2>2, Zenon DEF Fine
<1>7. CASE e = "NotLeader" /\ addr[held[u]] # leader[part[u]]
  <2>1. Failed(u) \in Int /\ ~(Failed(u) >= 1)
    <3>1. ~(Failed(u) >= 1)  BY <1>1, <1>7, Zenon DEF LearntCall
    <3> QED BY <3>1, FailedType, Zenon
  <2>2. Failed(u) <= 1 /\ ~(Failed(u) >= 2) /\ ~(Failed(u) + 1 >= 2) /\ Failed(u) + 1 <= 2  BY <2>1, SMT
  <2>3. CASE kind[u] = "offset"
    <3>1. Retry(u, None)  BY <1>3, <1>7, <2>3, Zenon DEF OffsetOutcome
    <3>2. Proceeds(u, IF kind[u] = "offset" THEN "refresh" ELSE "leader", None, Failed(u) + 1, 0)
      BY <1>1, <2>2, <3>1, CalmRetry, Zenon
    <3>3. pc'[u] = "refresh" /\ kind'[u] = "offset" /\ Failed(u)' = Failed(u) + 1
      BY <2>3, <3>2, Zenon DEF Proceeds
    <3> QED BY <2>2, <3>3, Zenon DEF Fine, Learnt, LearntRefresh
  <2>4. CASE kind[u] # "offset"
    <3>1. Continue(u, "refresh", None)
      BY <1>3, <1>7, <2>4, Zenon DEF ProduceOutcome, FetchOutcome
    <3>2. PICK w : w = "refresh"  OBVIOUS
    <3>3. Proceeds(u, w, None, Failed(u), ltries[u])  BY <3>1, <3>2, ContinueProceeds, Zenon
    <3>4. pc'[u] = "refresh" /\ kind'[u] # "offset" /\ Failed(u)' = Failed(u)
      BY <2>4, <3>2, <3>3, Zenon DEF Proceeds
    <3> QED BY <1>1, <2>1, <2>2, <3>4, Zenon DEF Fine, Learnt, LearntRefresh
  <2> QED BY <2>3, <2>4
<1>8. CASE err[held[u]] # None /\ e \in {"EOF", "OpError"}
  <2>1. e \notin {"ok", "refused", "NotLeader"} /\ e \in {"EOF", "short", "OpError"}  BY <1>8
  <2>2. CloseDead(u, e)  BY <1>3, <2>1, Zenon DEF ProduceOutcome, OffsetOutcome, FetchOutcome
  <2> QED BY <1>5, <1>8, <2>2
<1>9. CASE err[held[u]] # None /\ e = "ErrClosed" /\ held[u] \notin Pooled(conns)
  <2>1. e \notin {"ok", "refused", "NotLeader", "EOF", "short", "OpError"}  BY <1>9
  <2>2. part[u] \in Parts /\ leader[part[u]] \in Nodes /\ held[u] # None
    <3>1. part[u] \in Parts  BY Zenon DEF LeadersInv, Inv, PoolTypes
    <3>2. held[u] # None  BY <1>1, HeldIs, Zenon DEF LeadersInv
    <3> QED BY <3>1, <3>2, Zenon DEF CalmWorld
  <2>3. PICK p \in Parts : p = part[u]  BY <2>2, Zenon
  <2>4. Failed(u) >= 1 => Usable(p)'
    <3>1. conns[leader[part[u]]] # held[u]  BY <1>9, <2>2, Zenon DEF Pooled
    <3>2. Failed(u) >= 1 => Usable(p)  BY <1>1, <1>9, <2>3, <3>1, Zenon DEF LearntCall, Doomed
    <3> QED BY <3>2, Zenon DEF Settled
  <2>5. Failed(u) \in Int /\ ~(Failed(u) >= 2)
    <3>1. ~(Failed(u) >= 2)  BY <1>1, <1>9, Zenon DEF LearntCall, Doomed
    <3> QED BY <3>1, FailedType, Zenon
  <2>6. Failed(u) <= 1 /\ Failed(u) + 1 <= 2 /\ (Failed(u) + 1 >= 2 => Failed(u) >= 1)  BY <2>5, SMT
  <2>7. CASE kind[u] = "produce"
    <3>1. Continue(u, "refresh", None)  BY <1>3, <2>1, <2>7, Zenon DEF ProduceOutcome
    <3>2. PICK w : w = "refresh"  OBVIOUS
    <3>3. Proceeds(u, w, None, Failed(u), ltries[u])  BY <3>1, <3>2, ContinueProceeds, Zenon
    <3>4. pc'[u] = "refresh" /\ kind'[u] = "produce" /\ Failed(u)' = Failed(u) /\ part'[u] = p
      BY <2>3, <2>7, <3>2, <3>3, Zenon DEF Proceeds
    <3>5. Failed(u)' >= 1 => Usable(part[u])'  BY <2>4, <3>4, Zenon DEF Usable, Doomed
    <3> QED BY <1>1, <2>6, <3>4, <3>5, Zenon DEF Fine, Learnt, LearntRefresh
  <2>8. CASE kind[u] = "offset"
    <3>1. Retry(u, None)  BY <1>3, <2>1, <2>8, Zenon DEF OffsetOutcome
    <3>2. Proceeds(u, IF kind[u] = "offset" THEN "refresh" ELSE "leader", None, Failed(u) + 1, 0)
      BY <1>1, <2>6, <3>1, CalmRetry, Zenon
    <3>3. pc'[u] = "refresh" /\ kind'[u] = "offset" /\ Failed(u)' = Failed(u) + 1 /\ part'[u] = p
      BY <2>3, <2>8, <3>2, Zenon DEF Proceeds
    <3>4. Failed(u)' >= 2 => Usable(part[u])'  BY <2>4, <2>6, <3>3, Zenon DEF Usable, Doomed
    <3> QED BY <2>6, <3>3, <3>4, Zenon DEF Fine, Learnt, LearntRefresh
  <2>9. CASE kind[u] = "fetch"
    <3>1. CloseDead(u, e)  BY <1>3, <2>1, <2>9, Zenon DEF FetchOutcome
    <3> QED BY <1>5, <1>9, <3>1
  <2> QED BY <1>2, <2>7, <2>8, <2>9
<1> QED BY <1>1, <1>6, <1>7, <1>8, <1>9, CalmOutcomes, Zenon

LEMMA EvictFine ==
    ASSUME EnoughTries, LeadersInv, CalmWorld, calm, NEW u \in Users, Learnt(u), Settled, CloseDeadConnection(u)
    PROVE  Fine(u)
<1>1. /\ pc[u] = "evict" /\ pc[u] # "idle" /\ LearntCall(u, Failed(u))
      /\ (Continue(u, "refresh", None) /\ kind[u] = "produce") \/ Retry(u, None)
  BY Zenon DEF CloseDeadConnection, Learnt
<1>2. err[held[u]] # None  BY <1>1, Zenon DEF Learnt
<1>3. Failed(u) \in Int /\ ~(Failed(u) >= 2)
  <2>1. ~(Failed(u) >= 2)  BY <1>1, <1>2, Zenon DEF LearntCall, Doomed
  <2> QED BY <2>1, FailedType, Zenon
<1>4. /\ Failed(u) <= 1 /\ Failed(u) <= 2 /\ Failed(u) + 1 <= 2 /\ (Failed(u) + 1 >= 2 => Failed(u) >= 1)
      /\ (Failed(u) + 1 >= 1 => Failed(u) >= 0)
  BY <1>3, SMT
<1>5. /\ conns' = [n \in Nodes |-> IF conns[n] = held[u] THEN None ELSE conns[n]]
      /\ UNCHANGED <<addr, up, leader, calm>>
      /\ meta' = IF held[u] \in Pooled(conns) THEN Truth ELSE meta
  BY CalmEvicts, Zenon
<1>6. Truth' = Truth  BY <1>5, Zenon DEF Truth
<1>7. Failed(u) >= 0 => meta' = Truth'  BY <1>1, <1>2, <1>5, <1>6, Zenon DEF LearntCall, Noticed
<1>8. PICK p \in Parts : p = part[u] /\ leader[p] \in Nodes
  <2>1. part[u] \in Parts  BY Zenon DEF LeadersInv, Inv, PoolTypes
  <2>2. leader[part[u]] \in Nodes  BY <2>1, Zenon DEF CalmWorld
  <2> QED BY <2>1, <2>2, Zenon
<1>9. ASSUME Failed(u) >= 1 PROVE Usable(p)'
  <2>1. CASE conns[leader[p]] = held[u]
    <3>1. conns'[leader[p]] = None /\ leader' = leader  BY <1>5, <1>8, <2>1, Zenon
    <3> QED BY <3>1, Zenon DEF Usable
  <2>2. CASE Usable(p)  BY <2>2, Zenon DEF Settled
  <2> QED BY <1>1, <1>2, <1>8, <1>9, <2>1, <2>2, Zenon DEF LearntCall, Doomed
<1>10. CASE Continue(u, "refresh", None) /\ kind[u] = "produce"
  <2>1. PICK w : w = "refresh"  OBVIOUS
  <2>2. Proceeds(u, w, None, Failed(u), ltries[u])  BY <1>10, <2>1, ContinueProceeds, Zenon
  <2>3. pc'[u] = "refresh" /\ kind'[u] = "produce" /\ Failed(u)' = Failed(u) /\ part'[u] = p
    BY <1>8, <1>10, <2>1, <2>2, Zenon DEF Proceeds
  <2>4. Failed(u)' >= 1 => Usable(part[u])'  BY <1>9, <2>3, Zenon DEF Usable, Doomed
  <2> QED BY <1>4, <2>3, <2>4, Zenon DEF Fine, Learnt, LearntRefresh
<1>11. CASE Retry(u, None)
  <2>1. Proceeds(u, IF kind[u] = "offset" THEN "refresh" ELSE "leader", None, Failed(u) + 1, 0)
    BY <1>1, <1>4, <1>11, CalmRetry, Zenon
  <2>2. Failed(u)' = Failed(u) + 1 /\ part'[u] = p /\ ltries'[u] = 0 /\ kind'[u] = kind[u]
        /\ pc'[u] = IF kind[u] = "offset" THEN "refresh" ELSE "leader"
    BY <1>8, <2>1, Zenon DEF Proceeds
  <2>3. Failed(u)' >= 2 => Usable(part[u])'  BY <1>4, <1>9, <2>2, Zenon DEF Usable, Doomed
  <2>4. Failed(u)' >= 1 => meta' = Truth'  BY <1>4, <1>7, <2>2, Zenon
  <2>5. CASE kind[u] = "offset"
    BY <1>4, <2>2, <2>3, <2>5, Zenon DEF Fine, Learnt, LearntRefresh
  <2>6. CASE kind[u] # "offset"
    <3>1. ~(ltries'[u] > 0)
      <4>1. ~(0 > 0)  BY SMT
      <4> QED BY <2>2, <4>1, Zenon
    <3>2. LearntLeader(u, Failed(u))'  BY <2>3, <2>4, <3>1, Zenon DEF LearntLeader
    <3> QED BY <1>4, <2>2, <2>6, <3>2, Zenon DEF Fine, Learnt
  <2> QED BY <2>5, <2>6
<1> QED BY <1>1, <1>10, <1>11, Zenon

\* A new call has not failed yet.  One that begins with a connection is that of a
\* consumer.
LEMMA CallFine ==
    ASSUME EnoughTries, LeadersInv, CalmWorld, calm, NEW u \in Users, NEW k \in Kinds[u], NEW p \in Parts, Call(u, k, p)
    PROVE  Fine(u)
<1>1. /\ pc'[u] = Attempt(k, held[u]) /\ kind'[u] = k /\ held'[u] = held[u]
      /\ tries'[u] = tries[u] /\ ltries'[u] = ltries[u]
  BY CallBecomes, Zenon DEF LeadersInv
<1>2. tries'[u] = 0 /\ ltries'[u] = 0 /\ (held[u] # None => Kinds[u] = {"fetch"})
  <2>1. pc[u] = "idle"  BY Zenon DEF Call
  <2> QED BY <1>1, <2>1, Zenon DEF CalmWorld
<1>3. k \in {"produce", "offset", "fetch"}  BY KindsOfCalls, Zenon DEF EnoughTries, LeadersInv
<1>4. Failed(u)' = 0 - (IF k = "fetch" THEN 1 ELSE 0)  BY <1>1, <1>2, Zenon DEF Failed
<1>5. /\ Failed(u)' <= 2 /\ ~(Failed(u)' >= 1) /\ ~(Failed(u)' >= 2) /\ ~(ltries'[u] > 0)
      /\ k = "fetch" => ~(Failed(u)' >= 0)
  <2>1. PICK f : f = Failed(u)'  OBVIOUS
  <2>2. CASE k = "fetch"
    <3>1. f = 0 - 1  BY <1>4, <2>1, <2>2, Zenon
    <3>2. f <= 2 /\ ~(f >= 1) /\ ~(f >= 2) /\ ~(f >= 0) /\ ~(0 > 0)  BY <3>1, SMT
    <3> QED BY <1>2, <2>1, <3>2, Zenon
  <2>3. CASE k # "fetch"
    <3>1. f = 0 - 0  BY <1>4, <2>1, <2>3, Zenon
    <3>2. f <= 2 /\ ~(f >= 1) /\ ~(f >= 2) /\ ~(0 > 0)  BY <3>1, SMT
    <3> QED BY <1>2, <2>1, <2>3, <3>2, Zenon
  <2> QED BY <2>2, <2>3
<1>6. CASE held[u] = None
  <2>1. pc'[u] = "leader"  BY <1>1, <1>3, <1>6, Zenon DEF Attempt
  <2> QED BY <1>5, <2>1, Zenon DEF Fine, Learnt, LearntLeader
<1>7. CASE held[u] # None
  <2>1. pc'[u] = "call" /\ k = "fetch"
    <3>1. k \in {"fetch"}  BY <1>2, <1>7, Zenon
    <3> QED BY <1>1, <1>7, <3>1, Zenon DEF Attempt
  <2> QED BY <1>5, <2>1, Zenon DEF Fine, Learnt, LearntCall
<1> QED BY <1>6, <1>7

-----------------------------------------------------------------------------
(* The invariant.                                                          *)

LEMMA OnlyFetch ==
    ASSUME LeadersOnly, UserTypes, NEW u \in Users, pc[u] # "idle", KeepsConn(u)
    PROVE  Kinds[u] = {"fetch"}
<1>1. kind[u] \in Kinds[u] /\ kind[u] \in {"produce", "offset", "fetch"}  BY KindsOfCalls, TypesOf, Zenon
<1>2. kind[u] = "fetch"  BY <1>1, Zenon DEF KeepsConn
<1>3. Kinds[u] \in (SUBSET {"produce", "offset"}) \cup {{"fetch"}} \cup (SUBSET {"commit", "Offset"})
  BY BrokerAssumption, Zenon
<1>4. \/ Kinds[u] \subseteq {"produce", "offset"} \/ Kinds[u] = {"fetch"}
      \/ Kinds[u] \subseteq {"commit", "Offset"}
  BY <1>3, Zenon
<1>5. "fetch" \notin {"produce", "offset"} /\ "fetch" \notin {"commit", "Offset"}  OBVIOUS
<1> QED BY <1>1, <1>2, <1>4, <1>5, Zenon

LEMMA ErrsSame == ASSUME Errs, UNCHANGED <<conns, err>> PROVE Errs'
  BY Zenon DEF Errs, Pooled

\* muCloseDeadConnection takes what it closes out of the pool.
LEMMA EvictErrs ==
    ASSUME LeadersInv, Errs, NEW u \in Users, CloseDeadConnection(u)
    PROVE  Errs'
<1> SUFFICES ASSUME NEW c \in Conns
             PROVE  err'[c] \in Deaths \cup {None} \/ (err'[c] = "ErrClosed" /\ c \notin Pooled(conns'))
  BY Zenon DEF Errs
<1>1. /\ held[u] # None
      /\ conns' = [n \in Nodes |-> IF conns[n] = held[u] THEN None ELSE conns[n]]
      /\ err'[c] = IF c = held[u] /\ c \in Pooled(conns) /\ err[c] = None THEN "ErrClosed" ELSE err[c]
  BY Evicts, Zenon
<1>2. held[u] \notin Pooled(conns')  BY <1>1, Zenon DEF Pooled
<1>3. c \notin Pooled(conns) => c \notin Pooled(conns')  BY <1>1, Zenon DEF Pooled
<1> QED BY <1>1, <1>2, <1>3, Zenon DEF Errs

\* A new connection has no error.
LEMMA OpenErrs ==
    ASSUME LeadersInv, Errs, NEW u \in Users, LeaderConnection(u)
    PROVE  Errs'
<1>1. CASE UNCHANGED <<conns, err>>  BY <1>1, ErrsSame, Zenon
<1>2. CASE \E c, n : Opened([x \in {c} |-> n]) /\ conns' = [conns EXCEPT ![n] = c]
  <2>1. PICK c, n : Opened([x \in {c} |-> n]) /\ conns' = [conns EXCEPT ![n] = c]  BY <1>2, Zenon
  <2>2. \A k \in Nodes : conns'[k] \in {conns[k], c}  BY <2>1, Zenon DEF LeadersInv, Inv, PoolTypes
  <2>3. \A x \in Conns : err'[x] = IF x = c THEN None ELSE err[x]
    <3>1. DOMAIN [x \in {c} |-> n] = {c}  OBVIOUS
    <3> QED BY <2>1, <3>1, Zenon DEF Opened
  <2>4. \A x \in Conns : x # c /\ x \notin Pooled(conns) => x \notin Pooled(conns')  BY <2>2, Zenon DEF Pooled
  <2> QED BY <2>3, <2>4, Zenon DEF Errs
<1> QED BY <1>1, <1>2, Zenon DEF LeaderConnection

LEMMA CalmWorldStep ==
    ASSUME LeadersOnly, LeadersInv, CalmWorld, [Next]_vars
    PROVE  CalmWorld'
<1> DEFINE Left(u) == pc[u] = "idle" => tries[u] = 0 /\ ltries[u] = 0 /\ (held[u] # None => Kinds[u] = {"fetch"})
           Rest == calm => up = Nodes /\ \A p \in Parts : leader[p] \in Nodes
           Loud == ~calm => \A u \in Users : ~quiet[u]
<1>1. ASSUME NEW u \in Users, User(u) PROVE CalmWorld'
  <2>1. UNCHANGED <<up, leader, calm, closed>>
    BY <1>1, Zenon DEF User, LeaderFails, LeaderConnection, CoordinatorFails, CoordinatorConnection, Request,
                       CloseDeadConnection, RefreshMetadata, worldVars
  <2>2. PICK w, k, c, e, t, l, r : Becomes(u, w, k, c, e, t, l, r) /\ Leaves(u, w, c, t, l)
    BY <1>1, UserBecomes, Zenon DEF LeadersInv
  <2>3. Is(u, w, k, c, e, t, l, r) /\ \A v \in Users \ {u} : Same(v)  BY <2>2, BecomesIs, Zenon DEF LeadersInv
  <2>4. Rest'  BY <2>1, Zenon DEF CalmWorld
  <2>5. Loud'  BY <2>1, <2>2, Zenon DEF CalmWorld, Becomes
  <2>6. ASSUME ~closed' PROVE Errs'
    <3>1. Errs  BY <2>1, <2>6, Zenon DEF CalmWorld
    <3>2. ~CoordinatorFails(u) /\ ~CoordinatorConnection(u)
      BY Zenon DEF CoordinatorFails, CoordinatorConnection, LeadersInv, NoCoordinator
    <3>3. CASE LeaderFails(u) \/ Request(u) \/ RefreshMetadata(u)
      <4>1. UNCHANGED <<conns, err>>  BY <3>3, Zenon DEF LeaderFails, Request, RefreshMetadata, poolVars
      <4> QED BY <3>1, <4>1, ErrsSame, Zenon
    <3> QED BY <1>1, <3>1, <3>2, <3>3, EvictErrs, OpenErrs, Zenon DEF User
  <2>7. ASSUME NEW v \in Users PROVE Left(v)'
    <3>1. CASE v # u  BY <2>3, <3>1, Zenon DEF CalmWorld, Same
    <3>2. CASE v = u
      <4>1. pc[u] # "idle"
        BY <1>1 DEF User, LeaderFails, LeaderConnection, CoordinatorFails, CoordinatorConnection, Request,
                    CloseDeadConnection, RefreshMetadata
      <4>2. KeepsConn(u) => Kinds[u] = {"fetch"}  BY <4>1, OnlyFetch, Zenon DEF LeadersInv
      <4> QED BY <2>2, <2>3, <3>2, <4>2, Zenon DEF Is, Leaves
    <3> QED BY <3>1, <3>2
  <2> QED BY <2>4, <2>5, <2>6, <2>7, Zenon DEF CalmWorld
<1>2. ASSUME NEW u \in Users, NEW k \in Kinds[u], NEW p \in Parts, Call(u, k, p) PROVE CalmWorld'
  <2>1. UNCHANGED <<up, leader, calm, closed, conns, err>>  BY <1>2, Zenon DEF Call, poolVars, worldVars
  <2>2. pc'[u] = Attempt(k, held[u]) /\ quiet'[u] = calm /\ \A v \in Users \ {u} : Same(v)
    BY <1>2, CallBecomes, Zenon DEF LeadersInv
  <2>3. pc'[u] # "idle"  BY <2>2 DEF Attempt
  <2>4. Rest' /\ (~closed' => Errs')  BY <2>1, ErrsSame, Zenon DEF CalmWorld
  <2>5. ASSUME ~calm', NEW v \in Users PROVE ~quiet'[v]
    <3>1. CASE v = u  BY <2>1, <2>2, <2>5, <3>1, Zenon
    <3>2. CASE v # u  BY <2>1, <2>2, <2>5, <3>2, Zenon DEF CalmWorld, Same
    <3> QED BY <3>1, <3>2
  <2>6. ASSUME NEW v \in Users PROVE Left(v)'
    <3>1. CASE v = u  BY <2>3, <3>1, Zenon
    <3>2. CASE v # u  BY <2>2, <3>2, Zenon DEF CalmWorld, Same
    <3> QED BY <3>1, <3>2
  <2> QED BY <2>4, <2>5, <2>6, Zenon DEF CalmWorld
<1>3. CASE Close  BY <1>3, Zenon DEF Close, userVars, worldVars, CalmWorld
<1>4. CASE World
  <2>1. UNCHANGED <<closed, pc, tries, ltries, held, quiet>>
    BY <1>4, Zenon DEF World, ConnDies, NodeStops, NodeStarts, LeaderMoves, Calm, poolVars, userVars
  <2>2. \/ ~calm' /\ ~calm
        \/ UNCHANGED <<up, leader, calm>>
        \/ \E n \in Nodes : n \notin up /\ up' = up \cup {n} /\ UNCHANGED <<leader, calm>>
        \/ calm' /\ up = Nodes /\ (\A p \in Parts : leader[p] \in Nodes) /\ UNCHANGED <<up, leader>>
    BY <1>4, Zenon DEF World, ConnDies, NodeStops, NodeStarts, LeaderMoves, Calm, Fault
  <2>3. Rest'  BY <2>2, Zenon DEF CalmWorld
  <2>4. Loud'
    <3>1. ~calm' => ~calm  BY <2>2, Zenon
    <3> QED BY <2>1, <3>1, Zenon DEF CalmWorld
  <2>5. ~closed' => Errs'
    <3>1. UNCHANGED conns /\ (UNCHANGED err \/ \E S : Die(S))
      BY <1>4, Zenon DEF World, ConnDies, NodeStops, NodeStarts, LeaderMoves, Calm, poolVars
    <3>2. ASSUME NEW S, Die(S), Errs, UNCHANGED conns PROVE Errs'
      <4>1. Pooled(conns') = Pooled(conns)  BY <3>2, Zenon DEF Pooled
      <4>2. PICK e \in Deaths : err' = [c \in Conns |-> IF c \in S /\ err[c] = None THEN e ELSE err[c]]
        BY <3>2, Zenon DEF Die
      <4>3. \A c \in Conns : err'[c] = e \/ err'[c] = err[c]  BY <4>2, Zenon
      <4> QED BY <3>2, <4>1, <4>3, Zenon DEF Errs
    <3> QED BY <2>1, <3>1, <3>2, ErrsSame, Zenon DEF CalmWorld
  <2> QED BY <2>1, <2>3, <2>4, <2>5, Zenon DEF CalmWorld
<1>5. CASE UNCHANGED vars
  <2>1. ~closed' => Errs'  BY <1>5, ErrsSame, Zenon DEF vars, CalmWorld
  <2> QED BY <1>5, <2>1, Zenon DEF vars, CalmWorld
<1> QED BY <1>1, <1>2, <1>3, <1>4, <1>5, Zenon DEF Next

LEMMA CalmInvStep ==
    ASSUME EnoughTries, LeadersInv, CalmInv, [Next]_vars
    PROVE  CalmInv'
<1>1. CalmWorld /\ CalmWorld'  BY CalmWorldStep, Zenon DEF CalmInv, EnoughTries
<1> SUFFICES ASSUME ~closed', NEW v \in Users PROVE Succeeds(v)'  BY <1>1, Zenon DEF CalmInv
<1>2. ~closed
  BY Zenon DEF Next, Close, User, LeaderFails, LeaderConnection, CoordinatorFails, CoordinatorConnection, Request,
               CloseDeadConnection, RefreshMetadata, Call, World, ConnDies, NodeStops, NodeStarts, LeaderMoves,
               Calm, vars
<1>3. Succeeds(v)  BY <1>2, Zenon DEF CalmInv
<1>4. CASE calm
  <2>1. Settled  BY <1>1, <1>4, CalmSettled, Zenon
  <2>2. ASSUME Same(v) PROVE Succeeds(v)'
    <3>1. CASE quiet[v] /\ pc[v] # "idle"
      <4>1. Learnt(v)'  BY <1>1, <1>3, <1>4, <2>1, <2>2, <3>1, LearntKept, Zenon DEF Succeeds
      <4> QED BY <2>2, <3>1, <4>1, Zenon DEF Succeeds, Same
    <3>2. CASE ~(quiet[v] /\ pc[v] # "idle")  BY <1>3, <2>2, <3>2, Zenon DEF Succeeds, Same
    <3> QED BY <3>1, <3>2
  <2>3. ASSUME NEW u \in Users, User(u) PROVE Succeeds(v)'
    <3>1. PICK w, k, c, e, t, l, r : Becomes(u, w, k, c, e, t, l, r)  BY <2>3, UserBecomes, Zenon DEF LeadersInv
    <3>2. (\A x \in Users \ {u} : Same(x)) /\ quiet'[u] = quiet[u]  BY <3>1, BecomesIs, Zenon DEF LeadersInv, Is
    <3>3. CASE v # u  BY <2>2, <3>2, <3>3, Zenon
    <3>4. CASE v = u
      <4> SUFFICES ASSUME quiet[u] PROVE Fine(u)  BY <3>2, <3>4, Zenon DEF Succeeds, Fine
      <4>1. pc[u] # "idle"
        BY <2>3 DEF User, LeaderFails, LeaderConnection, CoordinatorFails, CoordinatorConnection, Request,
                    CloseDeadConnection, RefreshMetadata
      <4>2. Learnt(u)  BY <1>3, <3>4, <4>1, Zenon DEF Succeeds
      <4>3. ~CoordinatorFails(u) /\ ~CoordinatorConnection(u)
        BY Zenon DEF CoordinatorFails, CoordinatorConnection, LeadersInv, NoCoordinator
      <4> QED BY <1>1, <1>2, <1>4, <2>1, <2>3, <4>2, <4>3, LeaderFailsFine, LeaderConnectionFine, RequestFine,
                 EvictFine, RefreshFine, Zenon DEF User
    <3> QED BY <3>3, <3>4
  <2>4. ASSUME NEW u \in Users, NEW k \in Kinds[u], NEW p \in Parts, Call(u, k, p) PROVE Succeeds(v)'
    <3>1. \A x \in Users \ {u} : Same(x)  BY <2>4, CallBecomes, Zenon DEF LeadersInv
    <3>2. CASE v # u  BY <2>2, <3>1, <3>2, Zenon
    <3>3. CASE v = u
      <4>1. Fine(u)  BY <1>1, <1>4, <2>4, CallFine, Zenon
      <4> QED BY <3>3, <4>1, Zenon DEF Succeeds, Fine
    <3> QED BY <3>2, <3>3
  <2>5. CASE World \/ UNCHANGED vars
    <3>1. UNCHANGED userVars
      BY <2>5, Zenon DEF World, ConnDies, NodeStops, NodeStarts, LeaderMoves, Calm, vars, userVars
    <3>2. Same(v)  BY <3>1, Zenon DEF Same, userVars
    <3> QED BY <2>2, <3>2
  <2>6. ~Close  BY Zenon DEF Close
  <2> QED BY <2>3, <2>4, <2>5, <2>6, Zenon DEF Next
<1>5. CASE ~calm
  <2>1. ~quiet[v]  BY <1>1, <1>5, Zenon DEF CalmWorld
  <2>2. ~quiet'[v]
    <3>1. CASE ~calm'  BY <1>1, <3>1, Zenon DEF CalmWorld
    <3>2. CASE calm'
      <4>1. UNCHANGED quiet
        BY <1>5, <3>2, Zenon DEF Next, Close, User, LeaderFails, LeaderConnection, CoordinatorFails,
           CoordinatorConnection, Request, CloseDeadConnection, RefreshMetadata, Call, World, ConnDies,
           NodeStops, NodeStarts, LeaderMoves, Calm, vars, userVars, worldVars
      <4> QED BY <2>1, <4>1, Zenon
    <3> QED BY <3>1, <3>2
  <2> QED BY <2>2, Zenon DEF Succeeds
<1> QED BY <1>4, <1>5

\* A call to a leader that begins when the cluster is calm succeeds, whatever the
\* broker remembers of the time before: with one try for each of the things that
\* can be wrong, produce, offset and fetch do not use up their retries.
THEOREM LeadersSucceed == ASSUME EnoughTries PROVE Spec => []CalmSucceeds
<1>1. LeadersOnly  BY Zenon DEF EnoughTries
<1>2. Spec => []LeadersInv  BY <1>1, LeadersInvHolds
<1>3. Init => CalmInv
  <2> SUFFICES ASSUME Init PROVE CalmInv  OBVIOUS
  <2>1. \A u \in Users : ~quiet[u] /\ tries[u] = 0 /\ ltries[u] = 0 /\ held[u] = None  BY Zenon DEF Init
  <2>2. ~calm /\ \A c \in Conns : err[c] = None  BY Zenon DEF Init
  <2>3. Errs  BY <2>2, Zenon DEF Errs
  <2> QED BY <2>1, <2>2, <2>3, Zenon DEF CalmInv, CalmWorld, Succeeds
<1>4. LeadersInv /\ CalmInv /\ [Next]_vars => CalmInv'  BY CalmInvStep, Zenon
<1>5. CalmInv => CalmSucceeds  BY Zenon DEF CalmInv, Succeeds, CalmSucceeds
<1> QED BY <1>2, <1>3, <1>4, <1>5, PTL DEF Spec
=============================================================================
