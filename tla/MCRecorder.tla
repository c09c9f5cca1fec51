----------------------------- MODULE MCRecorder -----------------------------
(***************************************************************************)
(* Instances of Recorder for TLC: the policies, and which slot runs which. *)
(***************************************************************************)
EXTENDS RecorderRefinement, Fidelity

CONSTANTS
    h1, h2,       \* informer slots
    p1, p2,       \* policies
    u1, u2,       \* objects
    ns1, n1,      \* their namespace and name
    f, g, s,      \* paths, s one of the status
    a, b          \* values

\* u2 is created under the name of u1 when that has gone.
MCNamespaceOf == [u \in UIDs |-> ns1]
MCNameOf == [u \in UIDs |-> n1]
MCIncarnation == [u \in UIDs |-> IF u = u2 THEN 2 ELSE 1]

\* The defaults of api/v1alpha1: everything of the kind, all three events.
Everything == [namespaces |-> {}, excludeNamespaces |-> {},
               includeNames |-> {}, excludeNames |-> {},
               matchLabels |-> [l \in {} |-> a], ignoreFields |-> {},
               snapshotEvery |-> 0,
               creations |-> TRUE, updates |-> TRUE, deletions |-> TRUE]

SnapshotsEvery(n) == [Everything EXCEPT !.snapshotEvery = n]

\* One policy, restarted over two slots, or two policies of one slot each.
OnePolicy == [h \in Watchers |-> p1]
TwoPolicies == [h \in Watchers |-> IF h = h1 THEN p1 ELSE p2]

Every1 == [h \in Watchers |-> SnapshotsEvery(1)]
Every2 == [h \in Watchers |-> SnapshotsEvery(2)]
Every3 == [h \in Watchers |-> SnapshotsEvery(3)]

\* Filters that admit objects labelled f = a in ns1 only, and no status.
Labelled == [h \in Watchers |-> [SnapshotsEvery(1) EXCEPT
    !.ignoreFields = {s}, !.namespaces = {ns1}, !.includeNames = {n1},
    !.excludeNamespaces = Namespaces \ {ns1}, !.excludeNames = Names \ {n1},
    !.matchLabels = [l \in {f} |-> a]]]
=============================================================================
