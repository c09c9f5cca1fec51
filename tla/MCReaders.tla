------------------------------ MODULE MCReaders -----------------------------
(***************************************************************************)
(* An instance of Readers for TLC: p1 records and has an age that does not *)
(* parse, p2 is paused and purges.                                         *)
(***************************************************************************)
EXTENDS Readers

CONSTANTS h1, p1, p2, u1, ns1, n1, f, a

MCPolicyOf == [h \in Watchers |-> p1]
MCNamespaceOf == [u \in UIDs |-> ns1]
MCNameOf == [u \in UIDs |-> n1]
MCIncarnation == [u \in UIDs |-> 1]
MCPolicySpec == [h \in Watchers |->
    [namespaces |-> {}, excludeNamespaces |-> {}, includeNames |-> {}, excludeNames |-> {},
     matchLabels |-> [l \in {} |-> a], ignoreFields |-> {}, snapshotEvery |-> 4,
     creations |-> TRUE, updates |-> TRUE, deletions |-> TRUE]]
MCMaxAge == [p \in Policies |-> IF p = p1 THEN Unparsable ELSE 0]
=============================================================================
