------------------------------- MODULE MCWire -------------------------------
(***************************************************************************)
(* All kinds of requests in all the versions that SupportedByDriver        *)
(* allows.  APIVersions goes out before versions are known and CreateTopics*)
(* is not in SupportedByDriver, so both are sent in version 0.             *)
(***************************************************************************)
EXTENDS Wire

Highest == [Produce |-> 2, Fetch |-> 5, Offset |-> 2, Metadata |-> 5, OffsetCommit |-> 3,
            OffsetFetch |-> 3, ConsumerMetadata |-> 1, APIVersions |-> 0, CreateTopics |-> 0]

\* Empty, single and several elements at each depth, with each combination of two depths.
Shapes == {<<0, 1, 2>>, <<1, 1, 1>>, <<1, 0, 2>>, <<1, 2, 0>>, <<2, 1, 1>>, <<2, 2, 2>>}

All == {r \in [kind : Kinds, version : 0..5, shape : Shapes, sample : 1..3, id : {0}] :
          /\ r.version <= Highest[r.kind]
          \* the client produces to one partition at a time
          /\ r.kind = "Produce" => r.shape[1] = 1 /\ r.shape[2] = 1}

\* ConsumerMetadata is written in version 0 whatever its version is.
Sound == {r \in All : r.kind = "ConsumerMetadata" => r.version = 0}
Coordinators == {r \in All : r.kind = "ConsumerMetadata" /\ r.version = 1}

One == {r \in All : r.kind = "Fetch" /\ r.version = 5 /\ r.shape = <<1, 1, 1>> /\ r.sample = 1}
MCCut == {r \in Sound : r.shape = <<1, 1, 1>> /\ r.sample = 1 /\ r.version = 0 /\ r.kind \in {"Offset", "OffsetCommit", "APIVersions"}}

\* All errors but 32, which is read as another one.
MCErrNos == (-1..71) \ {32}
=============================================================================
