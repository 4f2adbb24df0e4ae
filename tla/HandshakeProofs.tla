-------------------------- MODULE HandshakeProofs ---------------------------
(***************************************************************************)
(* Theorems about Handshake, for any kinds of requests, any version        *)
(* numbers, any ranges of the driver and of the node.                      *)
(***************************************************************************)
EXTENDS Handshake, TLAPS

USE HandshakeAssumption

-----------------------------------------------------------------------------
\* A range of versions that is not empty has both ends in Version, and the
\* highest version of two ranges is the lesser of their ends.
LEMMA BestIsMax ==
    ASSUME NEW r \in SupportedVersion, NEW s \in SupportedVersion
    PROVE  LET common == {v \in Version : r.min <= v /\ v <= r.max}
                             \cap {v \in Version : s.min <= v /\ v <= s.max}
           IN  /\ common = {} <=> lesser(r.max, s.max) < greater(r.min, s.min)
               /\ common # {} => Max(common) = lesser(r.max, s.max)
<1> DEFINE common == {v \in Version : r.min <= v /\ v <= r.max}
                         \cap {v \in Version : s.min <= v /\ v <= s.max}
           top == lesser(r.max, s.max)
<1>1. /\ r.min \in Nat /\ r.max \in Nat /\ s.min \in Nat /\ s.max \in Nat
      /\ r.max <= MaxVersion /\ s.max <= MaxVersion
  BY DEF SupportedVersion, Version
<1>2. \A v : v \in common <=> v \in Nat /\ greater(r.min, s.min) <= v /\ v <= top
  BY <1>1 DEF Version, lesser, greater
<1>3. top \in Nat /\ greater(r.min, s.min) \in Nat  BY <1>1 DEF lesser, greater
<1> HIDE DEF common, top
<1>4. common = {} <=> top < greater(r.min, s.min)  BY <1>2, <1>3
<1>5. ASSUME common # {} PROVE Max(common) = top
  <2>1. top \in common  BY <1>2, <1>3, <1>4, <1>5
  <2>2. \A x \in common : (\A y \in common : x >= y) <=> x = top  BY <1>2, <1>3, <2>1
  <2>3. Max(common) = CHOOSE x \in common : \A y \in common : x >= y  BY DEF Max
  <2> QED BY <2>1, <2>2, <2>3
<1> QED BY <1>4, <1>5 DEF common, top

\* What a node tells is a range for some kinds of requests.
LEMMA Told ==
    /\ Empty \in Tells
    /\ \A f \in Tells : DOMAIN f \subseteq Keys /\ \A k \in DOMAIN f : f[k] \in SupportedVersion
<1>1. Empty \in [{} -> SupportedVersion] /\ {} \in SUBSET Keys  BY DEF Empty
<1>2. Empty \in Tells  BY <1>1 DEF Tells
<1>3. ASSUME NEW f \in Tells
      PROVE  DOMAIN f \subseteq Keys /\ \A k \in DOMAIN f : f[k] \in SupportedVersion
  <2>1. PICK S \in SUBSET Keys : f \in [S -> SupportedVersion]  BY DEF Tells
  <2> QED BY <2>1
<1> QED BY <1>2, <1>3

\* The version chosen for a request is one of the versions.
LEMMA BestVersionType ==
    ASSUME apiVersions \in Tells, NEW k \in Keys
    PROVE  /\ Supported(k) \in SupportedVersion
           /\ getBestVersion(k) \in Version
<1>1. Supported(k) \in SupportedVersion
  <2>1. [min |-> 0, max |-> 0] \in SupportedVersion  BY DEF SupportedVersion, Version
  <2> QED BY <2>1 DEF Supported
<1>2. 0 \in Version  BY DEF Version
<1>3. ASSUME k \in DOMAIN apiVersions
      PROVE  lesser(Supported(k).max, apiVersions[k].max) \in Version
  <2>1. apiVersions[k] \in SupportedVersion  BY <1>3, Told
  <2> QED BY <1>1, <2>1 DEF SupportedVersion, lesser
<1> QED BY <1>1, <1>2, <1>3 DEF getBestVersion

-----------------------------------------------------------------------------
(* The invariant.                                                          *)

\* The invariant holds when a constructor is called.
LEMMA InvInit == Init => Inv
  BY Told DEF Init, Inv, TypeOK, Phase, NoSocketLeft, BestVersionAgreed

\* A request is sent in the best version of what the node told.
LEMMA SendStep ==
    ASSUME Inv, NEW k \in Keys, SendRequest(k)
    PROVE  BestVersionAgreed'
<1> DEFINE known(r) == {v \in Version : r.min <= v /\ v <= r.max}
           common == IF k \in DOMAIN node /\ fetchVersions
                     THEN known(Supported(k)) \cap known(node[k]) ELSE {}
<1>1. /\ apiVersions \in Tells /\ node \in Tells
      /\ apiVersions = IF fetchVersions THEN node ELSE Empty
      /\ node' = node /\ fetchVersions' = fetchVersions
      /\ sent' = [key |-> k, version |-> getBestVersion(k)]
  BY DEF Inv, TypeOK, Phase, SendRequest
<1>2. Supported(k) \in SupportedVersion  BY <1>1, BestVersionType
<1>3. getBestVersion(k) = IF common = {} THEN 0 ELSE Max(common)
  <2>1. CASE k \in DOMAIN node /\ fetchVersions
    <3>1. apiVersions = node /\ node[k] \in SupportedVersion  BY <1>1, <2>1, Told
    <3>2. common = known(Supported(k)) \cap known(node[k])  BY <2>1
    <3>3. /\ common = {} <=> lesser(Supported(k).max, node[k].max)
                               < greater(Supported(k).min, node[k].min)
          /\ common # {} => Max(common) = lesser(Supported(k).max, node[k].max)
      BY <1>2, <3>1, <3>2, BestIsMax
    <3>4. /\ lesser(Supported(k).max, node[k].max) \in Int
          /\ greater(Supported(k).min, node[k].min) \in Int
      BY <1>2, <3>1 DEF SupportedVersion, Version, lesser, greater
    <3> HIDE DEF common
    <3> QED BY <2>1, <3>1, <3>3, <3>4 DEF getBestVersion
  <2>2. CASE ~(k \in DOMAIN node /\ fetchVersions)
    <3>1. k \notin DOMAIN apiVersions  BY <1>1, <2>2 DEF Empty
    <3> QED BY <2>2, <3>1 DEF getBestVersion
  <2> QED BY <2>1, <2>2
<1>4. sent'.key = k /\ sent'.version = getBestVersion(k)  BY <1>1
<1> QED BY <1>1, <1>3, <1>4 DEF BestVersionAgreed, Supported

\* Each step of a constructor, and each request, keeps the invariant.
LEMMA InvStep == Inv /\ [Next]_vars => Inv'
<1> SUFFICES ASSUME Inv, [Next]_vars PROVE Inv'  OBVIOUS
<1>1. CASE Dial
  BY <1>1, Told DEF Inv, TypeOK, Phase, NoSocketLeft, BestVersionAgreed, Dial
<1>2. CASE DialFails
  BY <1>2 DEF Inv, TypeOK, Phase, NoSocketLeft, BestVersionAgreed, DialFails
<1>3. CASE CacheAPIVersions
  BY <1>3 DEF Inv, TypeOK, Phase, NoSocketLeft, BestVersionAgreed, CacheAPIVersions
<1>4. CASE APIVersionsFail
  <2>1. pc = "versions" /\ conn = "up" /\ sockets = 1 /\ sent = None
    BY <1>4 DEF Inv, Phase, NoSocketLeft, APIVersionsFail
  <2>2. conn' = "closed" /\ sockets' = 0 /\ fetchVersions' = FALSE /\ sent' = None
    BY <1>4, <2>1 DEF APIVersionsFail, AskAgain, Closed
  <2>3. pc' \in {"dial", "returned"} /\ (transport = "tcp" => pc' = "dial")
    BY <1>4 DEF APIVersionsFail, Retry
  <2>4. UNCHANGED <<transport, node, apiVersions>>  BY <1>4 DEF APIVersionsFail
  <2>5. TypeOK'  BY <2>2, <2>3, <2>4 DEF Inv, TypeOK
  <2>6. Phase' /\ NoSocketLeft'  BY <2>2, <2>3, <2>4 DEF Phase, NoSocketLeft
  <2>7. BestVersionAgreed'  BY <2>2 DEF BestVersionAgreed
  <2> QED BY <2>5, <2>6, <2>7 DEF Inv
<1>5. ASSUME NEW k \in Keys, SendRequest(k) PROVE Inv'
  <2>1. BestVersionAgreed'  BY <1>5, SendStep
  <2>2. getBestVersion(k) \in Version  BY BestVersionType DEF Inv, TypeOK
  <2>3. TypeOK'  BY <1>5, <2>2 DEF Inv, TypeOK, SendRequest
  <2>4. Phase' /\ NoSocketLeft'  BY <1>5 DEF Inv, Phase, NoSocketLeft, SendRequest
  <2> QED BY <2>1, <2>3, <2>4 DEF Inv
<1>6. CASE UNCHANGED vars
  BY <1>6 DEF Inv, TypeOK, Phase, NoSocketLeft, BestVersionAgreed, vars, Supported
<1> QED BY <1>1, <1>2, <1>3, <1>4, <1>5, <1>6 DEF Next, Construct

\* The invariant holds in every state of every behaviour.
LEMMA InvHolds == Spec => []Inv
  BY InvInit, InvStep, PTL DEF Spec

-----------------------------------------------------------------------------
(* The theorems.                                                           *)

\* The variables of the constructors have their types.
THEOREM HandshakeTypeCorrect == Spec => []TypeOK
<1>1. Inv => TypeOK  BY DEF Inv
<1> QED BY <1>1, InvHolds, PTL

\* newTCPConnection and newTLSConnection leave no socket behind, whatever fails.
THEOREM ConstructorsCloseSockets == Spec => []NoSocketLeft
<1>1. Inv => NoSocketLeft  BY DEF Inv
<1> QED BY <1>1, InvHolds, PTL

\* getBestVersion gives the highest version that both the driver and the node
\* support, for all ranges and all kinds of requests.
THEOREM VersionsAgreed == Spec => []BestVersionAgreed
<1>1. Inv => BestVersionAgreed  BY DEF Inv
<1> QED BY <1>1, InvHolds, PTL

\* newTCPConnection never returns a connection it has closed.
THEOREM TCPReturnsUsable == Spec => []TCPInitialized
<1>1. Inv => TCPInitialized  BY DEF Inv, Phase, TCPInitialized, Initialized
<1> QED BY <1>1, InvHolds, PTL
=============================================================================
