------------------------------ MODULE Recorder ------------------------------
(***************************************************************************)
(* The recorder: the informers and event handlers that ResourceWatcher     *)
(* (internal/controller/resource_watcher.go) starts for each policy, the   *)
(* store they share, and the cluster they watch.                           *)
(*                                                                         *)
(* A watcher is one goroutine of watchResource: an informer over the       *)
(* modelled kind and its resourceEventHandler.  client-go calls a handler  *)
(* one event at a time, so a handler is a sequential process:              *)
(*                                                                         *)
(*   idle --(OnAdd, OnUpdate, OnDelete)--> get --> store --> index --> idle*)
(*                                          \-> latest -/                  *)
(*                                                                         *)
(* one step for each call into the store.  Handlers of different policies, *)
(* or of one policy restarted, run concurrently over the same store and    *)
(* hold no lock; a policy's restart does not wait for the old handler.     *)
(***************************************************************************)
EXTENDS Integers, Sequences, Store

CONSTANTS
    Gone,             \* the version that ends a deleted object's history
    Watchers,         \* informer slots: a restart takes a stopped one
    Policies,         \* names of FlashbackPolicy objects
    PolicyOf,         \* the policy whose watcher a slot is
    PolicySpec,       \* the policy spec a slot's handler was started with
    NamespaceOf,      \* object -> namespace, fixed for the life of a UID
    NameOf,           \* object -> name
    Incarnation,      \* the order in which objects own one name
    FaultKinds,       \* which faults happen: "read", "store", "index", "crash"
    MaxFaults,        \* bound on the faults of a behaviour
    MaxVersions,      \* bound on the versions of all objects, but for Gone
    MaxReconciles     \* bound on the reconciliations of a behaviour

Namespaces == {NamespaceOf[u] : u \in UIDs}
Names == {NameOf[u] : u \in UIDs}

\* FlashbackPolicySpec and its TrackedResource, as the handler reads them.
\* snapshotEvery 0 is the field left unset.
Specs == [namespaces : SUBSET Namespaces, excludeNamespaces : SUBSET Namespaces,
          includeNames : SUBSET Names, excludeNames : SUBSET Names,
          matchLabels : UNION {[L -> Vals] : L \in SUBSET Fields},
          ignoreFields : SUBSET Fields, snapshotEvery : Nat,
          creations : BOOLEAN, updates : BOOLEAN, deletions : BOOLEAN]

ASSUME PolicyAssumption ==
    /\ PolicyOf \in [Watchers -> Policies]
    /\ PolicySpec \in [Watchers -> Specs]

ASSUME GoneAssumption == Gone \notin Doc

ASSUME UIDsAssumption == UIDs # {}

SameName(u, w) == NamespaceOf[u] = NamespaceOf[w] /\ NameOf[u] = NameOf[w]

ASSUME IncarnationAssumption ==
    /\ Incarnation \in [UIDs -> Nat]
    /\ \A u, w \in UIDs : SameName(u, w) /\ Incarnation[u] = Incarnation[w] => u = w

VARIABLES
    versions,     \* versions[u]: what the API server has held for u, oldest first
    phase,        \* phase[h]: the life of the goroutine of watchResource
    initial,      \* initial[h]: objects of the initial list not yet handed over
    pos,          \* pos[h][u]: the version of u in h's informer cache, 0 if none
    replaced,     \* auxiliary: <<w, u>> where a handler got w as u's old object
    pc,           \* pc[h]: the store call the handler is about to make
    job,          \* job[h]: the handler's locals
    faults,       \* faults so far
    reconciles    \* reconciliations so far

clusterVars == <<versions>>
informerVars == <<phase, initial, pos, replaced>>
handlerVars == <<pc, job>>
vars == <<versions, phase, initial, pos, replaced, pc, job, faults, reconciles,
          rows, current, deleted>>

(***************************************************************************)
(* The locals of a handler call: the event, the stripped documents it      *)
(* compares, and the revision number once it is chosen.  "LISTED" is an    *)
(* OnAdd whose isInInitialList is true.                                    *)
(***************************************************************************)
Job == [event : EventTypes \cup {"LISTED", "NONE"}, uid : UIDs,
        old : Doc, new : Doc, revision : Nat]

NoDoc == [f \in Fields |-> Absent]

NoJob == [event |-> "NONE", uid |-> CHOOSE u \in UIDs : TRUE,
          old |-> NoDoc, new |-> NoDoc, revision |-> 0]

TypeOK ==
    /\ StoreTypeOK
    /\ versions \in [UIDs -> Seq(Doc \cup {Gone})]
    /\ phase \in [Watchers -> {"stopped", "starting", "running", "draining"}]
    /\ initial \in [Watchers -> SUBSET UIDs]
    /\ pos \in [Watchers -> [UIDs -> Nat]]
    /\ replaced \subseteq UIDs \X UIDs
    /\ pc \in [Watchers -> {"idle", "get", "latest", "store", "index"}]
    /\ job \in [Watchers -> Job]
    /\ faults \in Nat
    /\ reconciles \in Nat

NotCached == [u \in UIDs |-> 0]

Init ==
    /\ StoreInit
    /\ versions = [u \in UIDs |-> <<>>]
    /\ phase = [h \in Watchers |-> "stopped"]
    /\ initial = [h \in Watchers |-> {}]
    /\ pos = [h \in Watchers |-> NotCached]
    /\ replaced = {}
    /\ pc = [h \in Watchers |-> "idle"]
    /\ job = [h \in Watchers |-> NoJob]
    /\ faults = 0
    /\ reconciles = 0

-----------------------------------------------------------------------------
(* The cluster (external): any client may write any object. *)

Newer(u) == Len(versions[u])
Last(u) == versions[u][Newer(u)]
Live(u) == Newer(u) > 0 /\ Last(u) # Gone
Finished(u) == Newer(u) > 0 /\ Last(u) = Gone

\* The objects that had u's name before it, and those that get it after it.
Former(u) == {w \in UIDs : SameName(w, u) /\ Incarnation[w] < Incarnation[u]}
Later(u) == {w \in UIDs : SameName(w, u) /\ Incarnation[u] < Incarnation[w]}

Written == {v \in UIDs \X (1..MaxVersions) :
               v[2] <= Newer(v[1]) /\ versions[v[1]][v[2]] # Gone}

\* An object is created or changed; a UID is never used again once Gone, and a
\* name belongs to one object at a time.
Write(u, d) ==
    /\ Cardinality(Written) < MaxVersions
    /\ ~Finished(u)
    /\ \A w \in Former(u) : ~Live(w)
    /\ \A w \in Later(u) : Newer(w) = 0
    /\ Live(u) => d # Last(u)
    /\ versions' = [versions EXCEPT ![u] = Append(@, d)]
    /\ UNCHANGED <<informerVars, handlerVars, storeVars, faults, reconciles>>

Remove(u) ==
    /\ Live(u)
    /\ versions' = [versions EXCEPT ![u] = Append(@, Gone)]
    /\ UNCHANGED <<informerVars, handlerVars, storeVars, faults, reconciles>>

-----------------------------------------------------------------------------
(* Starting and stopping watchers: ResourceWatcher *)

\* cancel(): an informer that has not listed yet ends at once; another one may
\* still hand over what it has buffered, and nobody waits for its handler.
Cancelled(state) == CASE state = "starting" -> "stopped"
                      [] state = "running" -> "draining"
                      [] OTHER -> state

\* StopPolicy, and Reconcile of a policy that is paused or deleted.
StopPolicy(p) ==
    /\ reconciles < MaxReconciles
    /\ reconciles' = reconciles + 1
    /\ \E h \in Watchers : PolicyOf[h] = p /\ phase[h] \in {"starting", "running"}
    /\ phase' = [h \in Watchers |->
                   IF PolicyOf[h] = p THEN Cancelled(phase[h]) ELSE phase[h]]
    /\ UNCHANGED <<clusterVars, initial, pos, replaced, handlerVars, storeVars, faults>>

\* Reconcile: every watcher of the policy is cancelled and a new one started.
Reconcile(h) ==
    /\ reconciles < MaxReconciles
    /\ reconciles' = reconciles + 1
    /\ phase[h] = "stopped"
    /\ phase' = [g \in Watchers |->
                   IF g = h THEN "starting"
                   ELSE IF PolicyOf[g] = PolicyOf[h] THEN Cancelled(phase[g])
                   ELSE phase[g]]
    /\ UNCHANGED <<clusterVars, initial, pos, replaced, handlerVars, storeVars, faults>>

\* The informer's initial list (external, client-go).
List(h) ==
    /\ phase[h] = "starting"
    /\ phase' = [phase EXCEPT ![h] = "running"]
    /\ pos' = [pos EXCEPT ![h] = [u \in UIDs |-> Newer(u)]]
    /\ initial' = [initial EXCEPT ![h] = {u \in UIDs : Live(u)}]
    /\ UNCHANGED <<clusterVars, replaced, handlerVars, storeVars, faults, reconciles>>

\* A cancelled informer drops what is left of its buffer and ends.
Exit(h) ==
    /\ phase[h] = "draining"
    /\ pc[h] = "idle"
    /\ phase' = [phase EXCEPT ![h] = "stopped"]
    /\ initial' = [initial EXCEPT ![h] = {}]
    /\ pos' = [pos EXCEPT ![h] = NotCached]
    /\ UNCHANGED <<clusterVars, replaced, handlerVars, storeVars, faults, reconciles>>

-----------------------------------------------------------------------------
(* What a handler decides from its policy *)

\* shouldTrack: the object's own namespace, name and labels.
ShouldTrack(h, u, d) ==
    LET p == PolicySpec[h] IN
    /\ p.namespaces # {} => NamespaceOf[u] \in p.namespaces
    /\ NamespaceOf[u] \notin p.excludeNamespaces
    /\ p.includeNames # {} => NameOf[u] \in p.includeNames
    /\ NameOf[u] \notin p.excludeNames
    /\ \A l \in DOMAIN p.matchLabels : d[l] = p.matchLabels[l]

Strip(h, d) == StripFields(d, PolicySpec[h].ignoreFields)

SnapshotEvery(h) ==
    IF PolicySpec[h].snapshotEvery > 0 THEN PolicySpec[h].snapshotEvery ELSE 20

\* Mutant: one revision too late.
IsLateSnapshotTime(h, revision) == revision % (SnapshotEvery(h) + 1) = 0

\* revision%snapshotEvery == 0
IsSnapshotTime(h, revision) == revision % SnapshotEvery(h) = 0

Fault(kind) ==
    /\ kind \in FaultKinds
    /\ faults < MaxFaults
    /\ faults' = faults + 1

-----------------------------------------------------------------------------
(* Events: client-go calls the handler.  Each action is the call up to its *)
(* first use of the store; an early return leaves the handler idle.        *)

Ready(h) == phase[h] \in {"running", "draining"} /\ pc[h] = "idle"

Cached(h, u) == pos[h][u] > 0 /\ versions[u][pos[h][u]] # Gone

Begin(h, event, u, old, new) ==
    /\ pc' = [pc EXCEPT ![h] = "get"]
    /\ job' = [job EXCEPT ![h] = [event |-> event, uid |-> u, old |-> Strip(h, old),
                                  new |-> Strip(h, new), revision |-> 0]]

\* OnAdd of the initial list.
OnAddInitial(h, u) ==
    /\ Ready(h)
    /\ u \in initial[h]
    /\ initial' = [initial EXCEPT ![h] = @ \ {u}]
    /\ LET d == versions[u][pos[h][u]] IN
       IF ShouldTrack(h, u, d) THEN Begin(h, "LISTED", u, d, d) ELSE UNCHANGED handlerVars
    /\ UNCHANGED <<clusterVars, phase, pos, replaced, storeVars, faults, reconciles>>

\* The informer's cache is keyed by namespace and name: the object it holds, if
\* any, under the name of u, be it u or a former owner that it has not seen go.
CachedByName(h, u) == {w \in {u} \cup Former(u) : Cached(h, w)}

\* The informer moves on to version j of u, past every former owner of the name.
\* A watch shows every version; a re-list after a broken watch shows only the
\* newest one of the name.
Observe(h, u, j) ==
    /\ Ready(h)
    /\ initial[h] \cap ({u} \cup Former(u)) = {}
    /\ pos[h][u] < j
    /\ pos' = [pos EXCEPT ![h] = [w \in UIDs |-> IF w = u THEN j
                                               ELSE IF w \in Former(u) THEN Newer(w)
                                               ELSE pos[h][w]]]
    /\ UNCHANGED <<clusterVars, phase, initial, storeVars, faults, reconciles>>

\* OnAdd where the cache had nothing under the name.
OnAdd(h, u, j) ==
    /\ Observe(h, u, j)
    /\ CachedByName(h, u) = {}
    /\ versions[u][j] # Gone
    /\ UNCHANGED replaced
    /\ LET d == versions[u][j] IN
       IF ShouldTrack(h, u, d) THEN Begin(h, "CREATED", u, d, d) ELSE UNCHANGED handlerVars

\* Mutant: the policy's filters are applied to the old object.
OnUpdateOfTracked(h, w, u, j) ==
    /\ Observe(h, u, j)
    /\ w \in CachedByName(h, u)
    /\ versions[u][j] # Gone
    /\ replaced' = IF w = u THEN replaced ELSE replaced \cup {<<w, u>>}
    /\ LET old == versions[w][pos[h][w]]
           new == versions[u][j]
           patch == ComputeMergePatch(Strip(h, old), Strip(h, new))
       IN IF ShouldTrack(h, w, old) /\ PolicySpec[h].updates /\ ~IsEmpty(patch)
          THEN Begin(h, "UPDATED", u, old, new)
          ELSE UNCHANGED handlerVars

\* A patch is only recorded if the stripped documents differ; the periodic
\* resync, which calls OnUpdate with equal objects, is a stutter.  The old object
\* w is another one if u was created under its name while the watch was broken:
\* nothing compares the UIDs, and what is recorded is recorded of u.
OnUpdate(h, w, u, j) ==
    /\ Observe(h, u, j)
    /\ w \in CachedByName(h, u)
    /\ versions[u][j] # Gone
    /\ replaced' = IF w = u THEN replaced ELSE replaced \cup {<<w, u>>}
    /\ LET old == versions[w][pos[h][w]]
           new == versions[u][j]
           patch == ComputeMergePatch(Strip(h, old), Strip(h, new))
       IN IF ShouldTrack(h, u, new) /\ PolicySpec[h].updates /\ ~IsEmpty(patch)
          THEN Begin(h, "UPDATED", u, old, new)
          ELSE UNCHANGED handlerVars

\* Mutant: tombstones are dropped.
OnDeleteWatched(h, u, j) ==
    /\ Observe(h, u, j)
    /\ Cached(h, u)
    /\ versions[u][j] = Gone
    /\ UNCHANGED replaced
    /\ LET d == versions[u][pos[h][u]] IN
       IF j = pos[h][u] + 1 /\ ShouldTrack(h, u, d) /\ PolicySpec[h].deletions
       THEN Begin(h, "DELETED", u, d, d)
       ELSE UNCHANGED handlerVars

\* OnDelete gets the object's last state, or the cached one in a tombstone
\* (DeletedFinalStateUnknown) when the deletion was found by a re-list.  Where
\* the re-list shows a later owner of the name there is none, but an OnUpdate.
OnDelete(h, u, j) ==
    /\ Observe(h, u, j)
    /\ Cached(h, u)
    /\ versions[u][j] = Gone
    /\ UNCHANGED replaced
    /\ LET d == versions[u][pos[h][u]] IN
       IF ShouldTrack(h, u, d) /\ PolicySpec[h].deletions
       THEN Begin(h, "DELETED", u, d, d)
       ELSE UNCHANGED handlerVars

Deliver(h) ==
    \E u \in UIDs :
        \/ OnAddInitial(h, u)
        \/ \E j \in 1..Newer(u) :
             \/ OnAdd(h, u, j)
             \/ \E w \in UIDs : OnUpdate(h, w, u, j)
             \/ OnDelete(h, u, j)

-----------------------------------------------------------------------------
(* The handler's calls into the store *)

Return(h) ==
    /\ pc' = [pc EXCEPT ![h] = "idle"]
    /\ job' = [job EXCEPT ![h] = NoJob]

Goto(h, label) == pc' = [pc EXCEPT ![h] = label]

\* Mutants: counting from 0; the record that exists is forgotten.
SameRevision(found) == found
FirstRevision(found) == 1

\* existing.CurrentRevision + 1, or 1 where existing is nil.
NextRevision(found) == found + 1

\* What each handler does with the current revision it read, 0 for none.
Proceed(h, found) ==
    LET j == job[h]
        relisted == j.event = "LISTED" /\ found > 0
        event == IF j.event = "LISTED" /\ ~relisted THEN "CREATED" ELSE j.event
    IN IF event = "CREATED" /\ ~PolicySpec[h].creations
       THEN Return(h)
       ELSE /\ Goto(h, IF relisted THEN "latest" ELSE "store")
            /\ job' = [job EXCEPT ![h] = [j EXCEPT !.event = event,
                                                   !.revision = NextRevision(found)]]

\* GetTrackedResource; its error is ignored and read as "no record".
Lookup(h) ==
    /\ pc[h] = "get"
    /\ \/ Proceed(h, current[job[h].uid]) /\ UNCHANGED faults
       \/ Proceed(h, 0) /\ Fault("read")
    /\ UNCHANGED <<clusterVars, informerVars, storeVars, reconciles>>

\* The last stored document, if the newest revision is a snapshot.
Drifted(h, last) ==
    /\ last.isSnapshot
    /\ ~IsEmpty(ComputeMergePatch(last.data, job[h].new))
    /\ PolicySpec[h].updates

\* A re-listed object is compared with what GetLatestRevision returns.
ReadLatest(h) ==
    /\ pc[h] = "latest"
    /\ LET u == job[h].uid IN
       \/ /\ RowsOf(u) # {} /\ Drifted(h, GetLatestRevision(u))
          /\ Goto(h, "store")
          /\ job' = [job EXCEPT ![h].event = "UPDATED", ![h].old = GetLatestRevision(u).data]
          /\ UNCHANGED faults
       \/ /\ RowsOf(u) # {} => ~Drifted(h, GetLatestRevision(u))
          /\ Return(h)
          /\ UNCHANGED faults
       \/ Return(h) /\ Fault("read")
    /\ UNCHANGED <<clusterVars, informerVars, storeVars, reconciles>>

\* Creations and deletions are stored as snapshots, updates every so often.
RevisionOf(h) ==
    LET j == job[h]
        snapshot == j.event # "UPDATED" \/ IsSnapshotTime(h, j.revision)
    IN [uid |-> j.uid, revision |-> j.revision, event |-> j.event, isSnapshot |-> snapshot,
        data |-> IF snapshot THEN j.new ELSE ComputeMergePatch(j.old, j.new),
        seen |-> j.new]

\* Mutant: the error is logged and the handler goes on to the index.
SaveAndGoOn(h) ==
    /\ pc[h] = "store"
    /\ Goto(h, "index")
    /\ \/ StoreRevision(RevisionOf(h)) /\ UNCHANGED <<job, faults>>
       \/ Conflicts(RevisionOf(h)) /\ UNCHANGED <<job, storeVars, faults>>
       \/ Fault("store") /\ UNCHANGED <<job, storeVars>>
    /\ UNCHANGED <<clusterVars, informerVars, reconciles>>

\* StoreRevision; on an error, a taken revision number included, the handler
\* logs it and returns, and the event is gone.
Save(h) ==
    /\ pc[h] = "store"
    /\ \/ StoreRevision(RevisionOf(h)) /\ Goto(h, "index") /\ UNCHANGED <<job, faults>>
       \/ Conflicts(RevisionOf(h)) /\ Return(h) /\ UNCHANGED <<storeVars, faults>>
       \/ Fault("store") /\ Return(h) /\ UNCHANGED storeVars
    /\ UNCHANGED <<clusterVars, informerVars, reconciles>>

\* UpsertTrackedResource or MarkDeleted; an error is only logged.
Index(h) ==
    /\ pc[h] = "index"
    /\ Return(h)
    /\ \/ /\ IF job[h].event = "DELETED"
             THEN MarkDeleted(job[h].uid)
             ELSE UpsertTrackedResource(job[h].uid, job[h].revision)
          /\ UNCHANGED faults
       \/ Fault("index") /\ UNCHANGED storeVars
    /\ UNCHANGED <<clusterVars, informerVars, reconciles>>

\* The process ends between any two steps; a graceful shutdown (StopAll, then
\* the store is closed under handlers still running) leaves the same state.
Crash ==
    /\ \E h \in Watchers : phase[h] # "stopped"
    /\ Fault("crash")
    /\ phase' = [h \in Watchers |-> "stopped"]
    /\ initial' = [h \in Watchers |-> {}]
    /\ pos' = [h \in Watchers |-> NotCached]
    /\ pc' = [h \in Watchers |-> "idle"]
    /\ job' = [h \in Watchers |-> NoJob]
    /\ UNCHANGED <<clusterVars, replaced, storeVars, reconciles>>

Cluster == \E u \in UIDs : (\E d \in Doc : Write(u, d)) \/ Remove(u)

Handle(h) == Lookup(h) \/ ReadLatest(h) \/ Save(h) \/ Index(h)

Next ==
    \/ Cluster
    \/ \E p \in Policies : StopPolicy(p)
    \/ \E h \in Watchers : Reconcile(h) \/ List(h) \/ Exit(h) \/ Deliver(h) \/ Handle(h)
    \/ Crash

Spec == Init /\ [][Next]_vars

(***************************************************************************)
(* Go runs every goroutine, client-go lists, and hands over what it has    *)
(* observed, a cancelled informer ends, and a call into the store returns. *)
(* Nothing makes the cluster, the user or a fault act.                     *)
(***************************************************************************)
Fairness ==
    \A h \in Watchers :
        /\ WF_vars(List(h))
        /\ WF_vars(Exit(h))
        /\ WF_vars(Deliver(h))
        /\ WF_vars(Handle(h))

FairSpec == Spec /\ Fairness

-----------------------------------------------------------------------------
(* Properties that hold whatever the policies, the interleaving and faults *)

\* No gaps: the stored revisions of an object are 1..n, and the index names
\* the last of them or the one before it (the window between StoreRevision and
\* UpsertTrackedResource, which a fault or a deletion leaves open for good).
Gapless ==
    \A u \in UIDs : Revisions(u) \in {1..current[u], 1..(current[u] + 1)}

\* One writer: although handlers take no lock, two of them are never between
\* StoreRevision and UpsertTrackedResource for the same object; the UNIQUE
\* revision number one of them won keeps the other out.
SingleCommitter ==
    \A g, h \in Watchers :
        pc[g] = "index" /\ pc[h] = "index" /\ job[g].uid = job[h].uid => g = h

\* The index never goes back and never skips: a delayed Upsert of one handler
\* cannot overwrite the newer revision another handler published.
CurrentSteps ==
    [][\A u \in UIDs : current'[u] \in {current[u], current[u] + 1}]_vars

\* A recorded deletion is final: no handler that was still at work on an older
\* event adds a revision after it, moves the index or un-deletes the object.
SealedByDeletion ==
    [][\A u \in UIDs :
         (\E r \in RowsOf(u) : r.event = "DELETED") =>
             /\ Revisions(u)' = Revisions(u)
             /\ current'[u] = current[u]
             /\ deleted[u] => deleted'[u]]_vars

\* Replay is bounded (README: "worst-case reconstruction applies at most 19
\* patches"): where all handlers have one snapshotEvery N, a revision of N or
\* more is a snapshot or has one among the N - 1 revisions before it.
BoundedReplay ==
    \A h \in Watchers :
        (\A g \in Watchers : SnapshotEvery(g) = SnapshotEvery(h)) =>
            \A r \in rows :
                \/ r.revision < SnapshotEvery(h)
                \/ \E s \in SnapshotsUpTo(r.uid, r.revision) :
                       r.revision - s.revision < SnapshotEvery(h)

(***************************************************************************)
(* The inductive invariant behind them.  A revision number works as a lock:*)
(* a handler about to index u holds revision current + 1, whose row it     *)
(* wrote, so every other INSERT at or below that number fails; a DELETED   *)
(* row holds current + 1 for ever, because MarkDeleted moves no number.    *)
(***************************************************************************)
InformersBehind ==
    \A h \in Watchers : \A u \in UIDs :
        /\ pos[h][u] <= Newer(u)
        /\ u \in initial[h] => Cached(h, u)

JobsChosen ==
    \A h \in Watchers :
        /\ pc[h] # "idle" => job[h].event # "NONE"
        /\ pc[h] \in {"latest", "store", "index"} =>
               job[h].revision \in 1..(current[job[h].uid] + 1)
        /\ pc[h] \in {"store", "index"} => job[h].event \in EventTypes

CommitterHoldsRow ==
    \A h \in Watchers : pc[h] = "index" =>
        /\ job[h].revision = current[job[h].uid] + 1
        /\ RevisionOf(h) \in rows

DeletionHoldsRevision ==
    \A r \in rows : r.event = "DELETED" => r.revision = current[r.uid] + 1

DeletedHasRow ==
    \A u \in UIDs : deleted[u] => \E r \in RowsOf(u) : r.event = "DELETED"

KeysUnique ==
    \A r, s \in rows : r.uid = s.uid /\ r.revision = s.revision => r = s

IndInv ==
    /\ TypeOK
    /\ InformersBehind
    /\ KeysUnique
    /\ Gapless
    /\ JobsChosen
    /\ CommitterHoldsRow
    /\ SingleCommitter
    /\ DeletionHoldsRevision
    /\ DeletedHasRow

-----------------------------------------------------------------------------
(* Properties of one watcher of an object, undisturbed by faults *)

\* u came to a handler as the new object of an update from a former owner of
\* its name, and the other way round.
TookOver(u) == \E w \in UIDs : <<w, u>> \in replaced
WasReplaced(u) == \E w \in UIDs : <<u, w>> \in replaced

\* Every revision is reconstructed as the document the handler saw (README:
\* "Reconstruct the exact state of any resource at any revision").  Only of an
\* object that took over its name in an update can the first revisions have no
\* snapshot before them.
ExactReconstruction ==
    \A r \in rows :
        IF SnapshotsUpTo(r.uid, r.revision) = {}
        THEN TookOver(r.uid)
        ELSE Reconstruct(r.uid, r.revision) = r.seen

\* The newest document the store can show for u.
LatestSeen(u) == Newest(RowsOf(u)).seen

\* To h, the object u took its name over from was once the same as d.
SameAsFormer(h, u, d) ==
    \E w \in UIDs : <<w, u>> \in replaced /\ \E i \in 1..Newer(w) :
        versions[w][i] # Gone /\ Strip(h, versions[w][i]) = d

\* It is d; an object that took over its name looking like the one before it is
\* recorded from its first change on.
Shows(h, u, d) == IF RowsOf(u) = {} THEN SameAsFormer(h, u, d) ELSE LatestSeen(u) = d

UpToDate(h, u) == ShouldTrack(h, u, Last(u)) => Shows(h, u, Strip(h, Last(u)))

CaughtUp(h) ==
    /\ phase[h] = "running"
    /\ pc[h] = "idle"
    /\ initial[h] = {}
    /\ \A u \in UIDs : pos[h][u] = Newer(u) \/ (Finished(u) /\ ~Cached(h, u))

\* A watcher with nothing left to do has recorded the present state of every
\* object it tracks (README: "records the complete change history").
NothingMissed ==
    \A h \in Watchers : CaughtUp(h) =>
        \A u \in UIDs : Live(u) => UpToDate(h, u)

\* As long as a watcher is left running, the store ends up with the present
\* state of every object that stays.
RecordedEventually ==
    \A h \in Watchers : \A u \in UIDs :
        <>[](phase[h] = "running") => <>[](Live(u) => UpToDate(h, u))

\* As long as a watcher is left running, an object that has gone ends up marked
\* deleted, if anything of it was recorded at all, unless the handler was given
\* the next owner of its name as its update.
DeletionMarkedEventually ==
    \A h \in Watchers : \A u \in UIDs :
        <>[](phase[h] = "running") =>
            <>[](Finished(u) => current[u] = 0 \/ deleted[u] \/ WasReplaced(u))
=============================================================================
