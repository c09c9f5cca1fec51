-------------------------------- MODULE Store -------------------------------
(***************************************************************************)
(* The two tables of internal/storage (sqlite and postgres behave alike):  *)
(* resource_revisions, the history, and tracked_resources, the index that  *)
(* holds each resource's current revision.  Every operator is one SQL      *)
(* statement, hence one atomic step; no method spans both tables in one    *)
(* transaction.                                                            *)
(*                                                                         *)
(* A row keeps its key, its event and its data (a full document when it is *)
(* a snapshot, else a merge patch).  `seen' is auxiliary: the document the *)
(* recorder held when it wrote the row, which a patch does not tell.       *)
(***************************************************************************)
EXTENDS Naturals, FiniteSets, Docs

CONSTANT UIDs

VARIABLES
    rows,      \* resource_revisions
    current,   \* tracked_resources.current_revision, 0 where u has no record
    deleted    \* tracked_resources.is_deleted

storeVars == <<rows, current, deleted>>

EventTypes == {"CREATED", "UPDATED", "DELETED"}

Revision == [uid : UIDs, revision : Nat \ {0}, event : EventTypes,
             isSnapshot : BOOLEAN, data : Patch, seen : Doc]

StoreTypeOK ==
    /\ rows \subseteq Revision
    /\ \A r \in rows : r.isSnapshot => r.data \in Doc
    /\ current \in [UIDs -> Nat]
    /\ deleted \in [UIDs -> BOOLEAN]

StoreInit ==
    /\ rows = {}
    /\ current = [u \in UIDs |-> 0]
    /\ deleted = [u \in UIDs |-> FALSE]

-----------------------------------------------------------------------------
(* Queries *)

RowsOf(u) == {r \in rows : r.uid = u}

Revisions(u) == {r.revision : r \in RowsOf(u)}

Newest(S) == CHOOSE r \in S : \A s \in S : s.revision <= r.revision

\* Mutant: ORDER BY revision without DESC.
OldestRevision(u) == CHOOSE r \in RowsOf(u) : \A s \in RowsOf(u) : r.revision <= s.revision

\* GetLatestRevision, where u has rows.
GetLatestRevision(u) == Newest(RowsOf(u))

SnapshotsUpTo(u, n) == {r \in RowsOf(u) : r.isSnapshot /\ r.revision <= n}

\* GetNearestSnapshot, where there is one.
GetNearestSnapshot(u, n) == Newest(SnapshotsUpTo(u, n))

\* Mutant: the upper bound is exclusive.
PatchesBefore(u, from, to) ==
    {r \in RowsOf(u) : from < r.revision /\ r.revision < to}

\* GetPatchesBetween: the rows after `from' and up to `to'.
GetPatchesBetween(u, from, to) ==
    {r \in RowsOf(u) : from < r.revision /\ r.revision <= to}

(***************************************************************************)
(* The loop of reconstructResource (internal/server/handlers.go): from the *)
(* snapshot `base' on, every later row up to n in order.  A revision       *)
(* without a row leaves the document as it is.                             *)
(***************************************************************************)
Replayed(base, n, patches) ==
    LET doc[i \in base.revision..n] ==
            IF i = base.revision THEN base.data
            ELSE LET at == {r \in patches : r.revision = i} IN
                 IF at = {} THEN doc[i - 1]
                 ELSE LET p == CHOOSE r \in at : TRUE IN
                      IF p.isSnapshot THEN p.data ELSE ApplyMergePatch(doc[i - 1], p.data)
    IN doc[n]

\* reconstructResource, where both its SELECTs see the same rows.
Reconstruct(u, n) ==
    LET base == GetNearestSnapshot(u, n)
    IN Replayed(base, n, GetPatchesBetween(u, base.revision, n))

-----------------------------------------------------------------------------
(* Statements *)

\* Mutant: a schema without the UNIQUE constraint.
NeverConflicts(rev) == FALSE

\* UNIQUE(resource_uid, revision)
Conflicts(rev) == \E r \in rows : r.uid = rev.uid /\ r.revision = rev.revision

\* StoreRevision: the INSERT that succeeds.
StoreRevision(rev) ==
    /\ ~Conflicts(rev)
    /\ rows' = rows \cup {rev}
    /\ UNCHANGED <<current, deleted>>

\* UpsertTrackedResource: every caller's record has IsDeleted false.
UpsertTrackedResource(u, revision) ==
    /\ current' = [current EXCEPT ![u] = revision]
    /\ deleted' = [deleted EXCEPT ![u] = FALSE]
    /\ UNCHANGED rows

\* Mutant: the deletion's own revision is published as well.
MarkDeletedAndAdvance(u) ==
    /\ deleted' = [deleted EXCEPT ![u] = @ \/ current[u] > 0]
    /\ current' = [current EXCEPT ![u] = @ + 1]
    /\ UNCHANGED rows

\* MarkDeleted: an UPDATE, so it changes nothing where u has no record.
MarkDeleted(u) ==
    /\ deleted' = [deleted EXCEPT ![u] = @ \/ current[u] > 0]
    /\ UNCHANGED <<rows, current>>
=============================================================================
