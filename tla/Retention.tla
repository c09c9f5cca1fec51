------------------------------ MODULE Retention -----------------------------
(***************************************************************************)
(* Retention (internal/controller/policy_controller.go): time passes, and  *)
(* every reconciliation of a policy, a paused one included, ends with a    *)
(* purge of the revisions older than that policy's maxAge.  The purge is   *)
(* one DELETE over the whole table: it does not ask whose policy wrote a   *)
(* row, which object it is of, or whether younger patches need it.         *)
(*                                                                         *)
(* Time is counted in units of the shortest maxAge of interest.            *)
(***************************************************************************)
EXTENDS Fidelity

CONSTANTS
    MaxAge,      \* policy -> spec.retention.maxAge, its default where empty
    Unparsable,  \* a maxAge that time.ParseDuration refuses
    NoPolicy,    \* no reconciliation under way
    MaxClock     \* bound on the time that passes

ASSUME RetentionAssumption ==
    /\ Unparsable \notin Nat
    /\ MaxAge \in [Policies -> Nat \cup {Unparsable}]
    /\ MaxClock \in Nat
    /\ NoPolicy \notin Policies

VARIABLES
    clock,       \* the wall clock
    stamp,       \* stamp[r]: the timestamp of row r
    now,         \* now[h]: the handler's local, 0 while it is idle
    pending      \* the policy being reconciled whose purge is yet to come

retentionVars == <<clock, stamp, now, pending>>
allVars == <<vars, retentionVars>>

RetentionTypeOK ==
    /\ TypeOK
    /\ clock \in 1..(MaxClock + 1)
    /\ stamp \in [rows -> 1..clock]
    /\ now \in [Watchers -> 0..clock]
    /\ \A h \in Watchers : (pc[h] = "idle") <=> (now[h] = 0)
    /\ pending \in Policies \cup {NoPolicy}

RetentionInit ==
    /\ Init
    /\ clock = 1
    /\ stamp = [r \in rows |-> 0]
    /\ now = [h \in Watchers |-> 0]
    /\ pending = NoPolicy

-----------------------------------------------------------------------------

Tick ==
    /\ clock <= MaxClock
    /\ clock' = clock + 1
    /\ UNCHANGED <<vars, stamp, now, pending>>

\* A handler takes the time once, before its first call into the store.
Receive(h) ==
    /\ Deliver(h)
    /\ now' = [now EXCEPT ![h] = IF pc'[h] = "idle" THEN 0 ELSE clock]
    /\ UNCHANGED <<clock, stamp, pending>>

\* Mutant: the field is not set, the zero time.
ZeroTime(h) == 0

\* rev.Timestamp
Timestamp(h) == now[h]

\* A step of a handler; the row it may add carries the handler's time.
Work(h) ==
    /\ Handle(h)
    /\ stamp' = [r \in rows' |-> IF r \in rows THEN stamp[r] ELSE Timestamp(h)]
    /\ now' = [now EXCEPT ![h] = IF pc'[h] = "idle" THEN 0 ELSE @]
    /\ UNCHANGED <<clock, pending>>

\* FlashbackPolicyReconciler.Reconcile up to the purge: the watchers of p are
\* restarted, or stopped if it is paused.  The manager runs one at a time.
Requeue(p) ==
    /\ pending = NoPolicy
    /\ \/ \E h \in Watchers : PolicyOf[h] = p /\ Reconcile(h)
       \/ StopPolicy(p)
       \/ /\ \A h \in Watchers : PolicyOf[h] = p => phase[h] \notin {"starting", "running"}
          /\ UNCHANGED vars
    /\ pending' = p
    /\ UNCHANGED <<clock, stamp, now>>

\* A policy that is not found is stopped and not purged for.
PolicyDeleted(p) ==
    /\ pending = NoPolicy
    /\ StopPolicy(p)
    /\ UNCHANGED retentionVars

\* Mutant: snapshots are spared, as if each stood for itself.
OldPatches(p) == {r \in rows : stamp[r] + MaxAge[p] < clock /\ ~r.isSnapshot}

\* timestamp < now - maxAge
Old(p) == {r \in rows : stamp[r] + MaxAge[p] < clock}

\* The policies whose maxAge parses.
Purging == {p \in Policies : MaxAge[p] # Unparsable}

\* runRetention, PurgeOldRevisions: a policy whose maxAge does not parse never
\* gets as far as the DELETE.  An error of either kind is logged and the
\* reconciliation goes on.
Purge(p) ==
    /\ pending = p
    /\ pending' = NoPolicy
    /\ \/ p \in Purging /\ rows' = rows \ Old(p) /\ UNCHANGED faults
       \/ p \in Purging /\ Fault("purge") /\ UNCHANGED rows
       \/ p \notin Purging /\ UNCHANGED <<rows, faults>>
    /\ stamp' = [r \in rows' |-> stamp[r]]
    /\ UNCHANGED <<clusterVars, informerVars, handlerVars, reconciles, current, deleted, clock, now>>

ProcessEnds ==
    /\ Crash
    /\ now' = [h \in Watchers |-> 0]
    /\ pending' = NoPolicy
    /\ UNCHANGED <<clock, stamp>>

RetentionNext ==
    \/ Tick
    \/ Cluster /\ UNCHANGED retentionVars
    \/ \E h \in Watchers : \/ (List(h) \/ Exit(h)) /\ UNCHANGED retentionVars
                           \/ Receive(h)
                           \/ Work(h)
    \/ \E p \in Policies : Requeue(p) \/ PolicyDeleted(p) \/ Purge(p)
    \/ ProcessEnds

(***************************************************************************)
(* A reconciliation under way goes on to its purge.  That there is a next  *)
(* one (RequeueAfter: 5 minutes) is the premise of the property.           *)
(***************************************************************************)
RetentionFairness == \A p \in Policies : WF_allVars(Purge(p))

RetentionSpec == RetentionInit /\ [][RetentionNext]_allVars

-----------------------------------------------------------------------------

\* A purge shortens a history and never tears it: what is left of an object's
\* revisions is a run without gaps that ends at the number the index names or
\* the one after it, although rows are deleted by time and not by number.
HistoryIsSuffix ==
    \A u \in UIDs : Revisions(u) # {} =>
        \E first \in Revisions(u), last \in {current[u], current[u] + 1} :
            Revisions(u) = first..last

(***************************************************************************)
(* The inductive invariant behind HistoryIsSuffix, for one watcher and     *)
(* reads that do not fail: timestamps follow revision numbers, so that a   *)
(* purge by time takes the lowest numbers, and the row a handler is about  *)
(* to publish goes last.                                                   *)
(***************************************************************************)
Shapes ==
    /\ current \in [UIDs -> Nat]
    /\ \A r \in rows : r.uid \in UIDs /\ r.revision \in Nat
    /\ clock \in Nat
    /\ stamp \in [rows -> 0..clock]
    /\ now \in [Watchers -> 0..clock]
    /\ DOMAIN pc = Watchers /\ DOMAIN job = Watchers
    /\ \A h \in Watchers : {"uid", "revision"} \subseteq DOMAIN job[h] /\ job[h].uid \in UIDs

TimeFollowsRevision ==
    \A r, s \in rows : r.uid = s.uid /\ r.revision <= s.revision => stamp[r] <= stamp[s]

HandlerIsLatest ==
    \A h \in Watchers : pc[h] # "idle" => \A r \in rows : stamp[r] <= now[h]

SuffixInv ==
    /\ Shapes
    /\ NextChosen
    /\ TimeFollowsRevision
    /\ HandlerIsLatest
    /\ UnpublishedIsLast
    /\ HistoryIsSuffix

\* A policy that keeps being reconciled, and whose maxAge parses, leaves no
\* revision older than that behind, even if a purge fails.
EventuallyPurged ==
    \A p \in Purging : []<>(pending = p) => []<>(\A r \in rows : stamp[r] + MaxAge[p] >= clock)
=============================================================================
