------------------------------- MODULE Fidelity ------------------------------
(***************************************************************************)
(* What makes a recorded history faithful: the conditions under which one  *)
(* recorder of an object tells the truth and misses nothing, and the       *)
(* invariants by which it does.  The handler never looks at the last row   *)
(* before it stores a patch; the patch fits that row only because the      *)
(* informer's cache and the store went through the same documents.         *)
(***************************************************************************)
EXTENDS Recorder

-----------------------------------------------------------------------------
(* Conditions *)

\* Two handlers of one object choose the same number, and the loser's event is
\* dropped: one slot, started again only after its last handler has ended.
OneRecorder == \A g, h \in Watchers : g = h

\* A read that fails starts again at 1.
ReadsSucceed == "read" \notin FaultKinds

\* An INSERT that fails drops its event.
InsertsSucceed == "store" \notin FaultKinds

\* No process ends, and no write fails, between StoreRevision and the index.
WritesComplete == {"store", "index", "crash"} \cap FaultKinds = {}

RecordsCreations == \A h \in Watchers : PolicySpec[h].creations
RecordsUpdates == \A h \in Watchers : PolicySpec[h].updates

\* An object cannot leave and enter again what the policy selects.
SelectsByName == \A h \in Watchers : DOMAIN PolicySpec[h].matchLabels = {}

\* A change of a label the policy selects by is not ignored.
KeepsLabels ==
    \A h \in Watchers : DOMAIN PolicySpec[h].matchLabels \cap PolicySpec[h].ignoreFields = {}

\* Every revision is a snapshot.
EverySnapshot == \A h \in Watchers : SnapshotEvery(h) = 1

\* The watcher has not been restarted.
StartedOnce == reconciles <= 1

\* A re-listed object that is left as it is recorded has not changed, or its
\* updates are not recorded anyway.  A restart may find a change it cannot see,
\* where the newest revision is a patch (run recorder_drift); this is about the
\* behaviours without such a restart.
CatchesDrift(h) ==
    ReadLatest(h) /\ PolicySpec[h].updates =>
        LET u == job[h].uid IN
        pc'[h] = "store" \/ RowsOf(u) = {} \/ LatestSeen(u) = job[h].new

DriftCaught == [][\A h \in Watchers : CatchesDrift(h)]_vars

-----------------------------------------------------------------------------
(* Numbers: with one recorder and reads that succeed *)

NextChosen ==
    \A h \in Watchers : pc[h] \in {"latest", "store", "index"} =>
        job[h].revision = current[job[h].uid] + 1

UnpublishedIsLast ==
    \A h \in Watchers : pc[h] = "index" /\ RowsOf(job[h].uid) # {} =>
        \E r \in RowsOf(job[h].uid) : r.revision = job[h].revision

EndsAtIndex ==
    \A u \in UIDs : RowsOf(u) # {} =>
        \E r \in RowsOf(u) :
            /\ r.revision \in {current[u], current[u] + 1}
            /\ \A s \in RowsOf(u) : s.revision <= r.revision

-----------------------------------------------------------------------------
(* The informer and its handler *)

Listed(h) == phase[h] \in {"running", "draining"}

Busy(h, u) == pc[h] # "idle" /\ job[h].uid = u

IdleUntilListed ==
    \A h \in Watchers : phase[h] \in {"stopped", "starting"} =>
        pc[h] = "idle" /\ pos[h] = NotCached

LatestIsListed == \A h \in Watchers : pc[h] = "latest" => job[h].event = "LISTED"

\* The owners of a name follow each other, in the cluster and in every cache.
OwnersSucceed == \A u \in UIDs : \A w \in Former(u) : Newer(u) > 0 => ~Live(w)

CachesSucceed ==
    \A h \in Watchers : \A u \in UIDs : \A w \in Former(u) :
        pos[h][u] > 0 => pos[h][w] = Newer(w)

\* A recorder has listed or watched what it records.
RecordedIsSeen ==
    \A h \in Watchers : \A u \in UIDs : RowsOf(u) # {} \/ Busy(h, u) =>
        Newer(u) > 0 /\ (Listed(h) => pos[h][u] > 0)

Succession == OwnersSucceed /\ CachesSucceed /\ RecordedIsSeen

Orderly == IdleUntilListed /\ LatestIsListed /\ Succession

-----------------------------------------------------------------------------
(* The chain: every patch leads from the document before it to its own *)

Held(h, u) == versions[u][pos[h][u]]

\* The handler has been given this version of u and is done with it.
Delivered(h, u) == Cached(h, u) /\ u \notin initial[h] /\ ~Busy(h, u)

Taken(u) == \E r \in RowsOf(u) : r.revision = current[u] + 1

\* If there is room for a next revision of u, it comes after document d.
EndsWith(u, d) == ~Taken(u) => \A r \in RowsOf(u) : r.revision = current[u] => r.seen = d

SnapshotTellsAll == \A r \in rows : r.isSnapshot => r.data = r.seen

PatchesFollow ==
    \A r, s \in rows :
        r.uid = s.uid /\ s.revision = r.revision + 1 /\ ~s.isSnapshot =>
            ApplyMergePatch(r.seen, s.data) = s.seen

CacheFollowed ==
    \A h \in Watchers : \A u \in UIDs :
        Delivered(h, u) /\ ShouldTrack(h, u, Held(h, u)) /\ PolicySpec[h].updates =>
            EndsWith(u, Strip(h, Held(h, u)))

JobsOfCache ==
    \A h \in Watchers : pc[h] # "idle" /\ job[h].event # "DELETED" =>
        LET u == job[h].uid IN
        Cached(h, u) /\ u \notin initial[h] /\ job[h].new = Strip(h, Held(h, u))

JobsFollow ==
    \A h \in Watchers :
        LET u == job[h].uid IN
        /\ pc[h] \in {"get", "store"} /\ job[h].event = "UPDATED" => EndsWith(u, job[h].old)
        /\ pc[h] = "index" =>
               \A r \in RowsOf(u) : r.revision = job[h].revision => r.seen = job[h].new

ChainInv == SnapshotTellsAll /\ PatchesFollow /\ CacheFollowed /\ JobsOfCache /\ JobsFollow

-----------------------------------------------------------------------------
(* The beginning: the first patch has a snapshot before it, unless it leads *)
(* from the document of a former owner of the name                          *)

HasBegun(u) == RowsOf(u) # {} \/ TookOver(u)

FirstIsSnapshot == \A r \in rows : r.revision = 1 => r.isSnapshot \/ TookOver(r.uid)

CacheRecorded ==
    \A h \in Watchers : \A u \in UIDs :
        Delivered(h, u) /\ ShouldTrack(h, u, Held(h, u)) => HasBegun(u)

JobsRecorded ==
    \A h \in Watchers :
        pc[h] = "latest" \/ (pc[h] \in {"get", "store"} /\ job[h].event = "UPDATED") =>
            HasBegun(job[h].uid)

FirstInv == FirstIsSnapshot /\ CacheRecorded /\ JobsRecorded

-----------------------------------------------------------------------------
(* The end: the newest row is what the cache holds *)

GoneIsLast == \A u \in UIDs : \A i \in 1..(Newer(u) - 1) : versions[u][i] # Gone

\* A deletion was the last thing the informer saw of the object.
SawTheEnd(h, u) ==
    Finished(u) /\ (Listed(h) => pos[h][u] = Newer(u))

DeletionsSeen ==
    \A h \in Watchers :
        /\ \A r \in rows : r.event = "DELETED" => SawTheEnd(h, r.uid)
        /\ pc[h] # "idle" /\ job[h].event = "DELETED" => SawTheEnd(h, job[h].uid)

\* Revision current + 1 is taken while it is being published, or by a deletion.
TakenForAReason ==
    \A u \in UIDs : Taken(u) =>
        \/ \E h \in Watchers : pc[h] = "index" /\ job[h].uid = u
        \/ \E r \in RowsOf(u) : r.event = "DELETED"

CacheUpToDate ==
    \A h \in Watchers : \A u \in UIDs :
        Delivered(h, u) /\ ShouldTrack(h, u, Held(h, u)) => Shows(h, u, Strip(h, Held(h, u)))

LatestHasRows == \A h \in Watchers : pc[h] = "latest" => RowsOf(job[h].uid) # {}

EndInv ==
    /\ GoneIsLast
    /\ DeletionsSeen
    /\ TakenForAReason
    /\ JobsOfCache
    /\ LatestHasRows
    /\ CacheUpToDate

-----------------------------------------------------------------------------

\* The informer's cache and the store tell the same story: the inductive
\* invariant behind ExactReconstruction and NothingMissed.  Every patch leads
\* from the document of the row before it to its own, the first row is a
\* snapshot, and the newest is the version the cache holds, although the handler
\* never reads a row to compute a patch.  An object that took over its name in an
\* update may begin with a patch, and without a row while it looks like the other.
FidelityInv == Orderly /\ NextChosen /\ ChainInv /\ FirstInv /\ EndInv
=============================================================================
