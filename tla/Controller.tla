----------------------------- MODULE Controller -----------------------------
(***************************************************************************)
(* The policy controller (internal/controller/policy_controller.go) and    *)
(* the table of watchers it keeps (ResourceWatcher, resource_watcher.go).  *)
(*                                                                         *)
(* controller-runtime queues a policy when it changes and when its requeue *)
(* time comes, and one worker reconciles them:                             *)
(*                                                                         *)
(*   idle -> get -> stop -> start (an entry at a time) -> finish -> idle   *)
(*                                                                         *)
(* Every reconciliation, also a periodic one, cancels the policy's         *)
(* watchers and starts new ones; a watcher is reached only by the cancel   *)
(* function kept in the table under its policy and its resource.           *)
(***************************************************************************)
EXTENDS Naturals, FiniteSets

CONSTANTS
    Policies,    \* names of FlashbackPolicy objects
    Entries,     \* what spec.resources can list
    Keys,        \* group, version and resource: what parseGVR returns
    KeyOf,       \* entry -> key, or NoKey where parseGVR fails
    NoKey,
    NotFound,    \* in place of the spec of a policy that does not exist
    Routines,    \* names for goroutines of watchResource
    NoRoutine,
    MaxEdits     \* bound on the changes users make

ASSUME ControllerAssumption ==
    /\ KeyOf \in [Entries -> Keys \cup {NoKey}]
    /\ NoKey \notin Keys
    /\ NoRoutine \notin Routines
    /\ Policies # {} /\ Entries # {}

\* The part of FlashbackPolicySpec that decides what is watched.
Specs == [paused : BOOLEAN, resources : SUBSET Entries]

ASSUME NotFound \notin Specs

VARIABLES
    spec,        \* spec[p]: the policy as the manager's cache has it
    queue,       \* the workqueue, with what waits there to be tried again
    work,        \* the reconciliation in progress
    watchers,    \* rw.watchers: (policy, key) -> whose cancel function it is
    routine,     \* the goroutines of watchResource
    up,          \* the manager runs
    edits        \* changes so far

controllerVars == <<spec, queue, work, watchers, routine, up, edits>>

Slots == Policies \X Keys

SomePolicy == CHOOSE p \in Policies : TRUE

IdleWork == [at |-> "idle", policy |-> SomePolicy, spec |-> NotFound, rest |-> {}]

Free == [state |-> "free", policy |-> SomePolicy, entry |-> CHOOSE e \in Entries : TRUE]

Work == [at : {"idle", "get", "stop", "start", "finish"}, policy : Policies,
         spec : Specs \cup {NotFound}, rest : SUBSET Entries]

Goroutine == [state : {"free", "running", "cancelled"}, policy : Policies, entry : Entries]

ControllerTypeOK ==
    /\ spec \in [Policies -> Specs \cup {NotFound}]
    /\ queue \subseteq Policies
    /\ work \in Work
    /\ watchers \in [Slots -> Routines \cup {NoRoutine}]
    /\ routine \in [Routines -> Goroutine]
    /\ up \in BOOLEAN
    /\ edits \in Nat

\* NewResourceWatcher; the cache's first list queues every policy there is.
ControllerInit ==
    /\ spec \in [Policies -> Specs \cup {NotFound}]
    /\ queue = {p \in Policies : spec[p] # NotFound}
    /\ work = IdleWork
    /\ watchers = [s \in Slots |-> NoRoutine]
    /\ routine = [w \in Routines |-> Free]
    /\ up = TRUE
    /\ edits = 0

-----------------------------------------------------------------------------
(* What happens around the worker *)

\* A user creates, changes, pauses or deletes a policy (external).
Edit(p, s) ==
    /\ up
    /\ edits < MaxEdits
    /\ edits' = edits + 1
    /\ s # spec[p]
    /\ spec' = [spec EXCEPT ![p] = s]
    /\ queue' = queue \cup {p}
    /\ UNCHANGED <<work, watchers, routine, up>>

\* RequeueAfter: 5 minutes (external).  A policy that exists is queued, at work,
\* or waiting for this; for one deleted meanwhile it would find nothing to do.
Requeue(p) ==
    /\ up
    /\ spec[p] # NotFound
    /\ p \notin queue
    /\ queue' = queue \cup {p}
    /\ UNCHANGED <<spec, work, watchers, routine, up, edits>>

\* A goroutine whose context is cancelled leaves informer.Run.
Exit(w) ==
    /\ routine[w].state = "cancelled"
    /\ routine' = [routine EXCEPT ![w] = Free]
    /\ UNCHANGED <<spec, queue, work, watchers, up, edits>>

\* Mutant: the context is forgotten, not cancelled.
Forgotten(r) == r

\* cancel()
Cancelled(r) == IF r.state = "running" THEN [r EXCEPT !.state = "cancelled"] ELSE r

\* main after mgr.Start: StopAll, and the process ends.
StopAll ==
    /\ up
    /\ up' = FALSE
    /\ routine' = [w \in Routines |->
                     IF \E s \in Slots : watchers[s] = w THEN Cancelled(routine[w])
                     ELSE routine[w]]
    /\ watchers' = [s \in Slots |-> NoRoutine]
    /\ UNCHANGED <<spec, queue, work, edits>>

-----------------------------------------------------------------------------
(* Reconcile *)

\* The worker takes a policy from the queue (external); a change made from here
\* on queues it again.
Take(p) ==
    /\ up
    /\ work.at = "idle"
    /\ p \in queue
    /\ queue' = queue \ {p}
    /\ work' = [IdleWork EXCEPT !.at = "get", !.policy = p]
    /\ UNCHANGED <<spec, watchers, routine, up, edits>>

\* r.Get: the policy is read from the cache, or found to be gone.
Get(p) ==
    /\ up
    /\ work.at = "get" /\ work.policy = p
    /\ work' = [work EXCEPT !.at = "stop", !.spec = spec[p]]
    /\ UNCHANGED <<spec, queue, watchers, routine, up, edits>>

\* Another error of r.Get is returned: nothing is stopped or started, and the
\* policy is tried again after a back-off.
GetFails(p) ==
    /\ up
    /\ work.at = "get" /\ work.policy = p
    /\ work' = IdleWork
    /\ queue' = queue \cup {p}
    /\ UNCHANGED <<spec, watchers, routine, up, edits>>

\* Mutant: prefix := policyName, without the slash; one name begins another.
NameBegins(s, p) == TRUE

\* key[:len(prefix)] == prefix, where a key is policy + "/" + resource and the
\* prefix policy + "/".  The name of an object of the API holds no "/", so the
\* prefix ends at the first "/" of any key it begins: the two names are equal.
Matches(s, p) == s[1] = p

\* Mutant: a paused policy is let alone, not stopped.
StopsUnlessPaused(s) == s = NotFound \/ ~s.paused

\* Whether Reconcile calls StopPolicy for the policy it has read: always.
Stops(s) == TRUE

\* StopPolicy, under the lock.
StopPolicy(p) ==
    /\ routine' = [w \in Routines |->
                     IF \E s \in Slots : Matches(s, p) /\ watchers[s] = w
                     THEN Cancelled(routine[w]) ELSE routine[w]]
    /\ watchers' = [s \in Slots |-> IF Matches(s, p) THEN NoRoutine ELSE watchers[s]]

\* ResourceWatcher.Reconcile up to its loop.  A policy that was not found ends
\* here and is not requeued; a paused one has nothing to start.
Stop ==
    /\ up
    /\ work.at = "stop"
    /\ IF Stops(work.spec) THEN StopPolicy(work.policy) ELSE UNCHANGED <<watchers, routine>>
    /\ work' = IF work.spec = NotFound THEN IdleWork
               ELSE [work EXCEPT !.at = "start",
                                 !.rest = IF work.spec.paused THEN {} ELSE work.spec.resources]
    /\ UNCHANGED <<spec, queue, up, edits>>

\* Mutant: a parse error ends the loop.
RestAfterError(rest, e) == IF KeyOf[e] = NoKey THEN {} ELSE rest \ {e}

\* The entries still to do; a parse error is logged and skips one.
RestAfter(rest, e) == rest \ {e}

FreeRoutine == CHOOSE w \in Routines : routine[w].state = "free"

\* One round of the loop: the cancel function is put into the table, over the
\* one that may be there, and the goroutine started.
Start(e) ==
    /\ up
    /\ work.at = "start"
    /\ e \in work.rest
    /\ work' = [work EXCEPT !.rest = RestAfter(@, e)]
    /\ \/ KeyOf[e] = NoKey /\ UNCHANGED <<watchers, routine>>
       \/ /\ KeyOf[e] # NoKey
          /\ \E w \in Routines : routine[w].state = "free"
          /\ watchers' = [watchers EXCEPT ![<<work.policy, KeyOf[e]>>] = FreeRoutine]
          /\ routine' = [routine EXCEPT ![FreeRoutine] =
                           [state |-> "running", policy |-> work.policy, entry |-> e]]
    /\ UNCHANGED <<spec, queue, up, edits>>

\* The end of the loop; runRetention and refreshStatus change nothing here.
EndOfLoop ==
    /\ up
    /\ work.at = "start"
    /\ work.rest = {}
    /\ work' = [work EXCEPT !.at = "finish"]
    /\ UNCHANGED <<spec, queue, watchers, routine, up, edits>>

\* updateStatus: on success the policy is requeued in 5 minutes, or at once if
\* the status written differs, which is a change of the policy like any other
\* (there is no predicate); a conflict or another error is retried at once.
Finish ==
    /\ up
    /\ work.at = "finish"
    /\ work' = IdleWork
    /\ queue' \in {queue, queue \cup {work.policy}}
    /\ UNCHANGED <<spec, watchers, routine, up, edits>>

Step == Stop \/ (\E e \in Entries : Start(e)) \/ EndOfLoop \/ Finish

ControllerNext ==
    \/ \E p \in Policies : \/ \E s \in Specs \cup {NotFound} : Edit(p, s)
                           \/ Requeue(p)
                           \/ Take(p)
                           \/ Get(p)
                           \/ GetFails(p)
    \/ \E w \in Routines : Exit(w)
    \/ Step
    \/ StopAll

(***************************************************************************)
(* The worker runs, the queue serves every policy in it, a read that is    *)
(* tried again and again succeeds in the end, timers fire and a cancelled  *)
(* informer ends.  Nothing makes a user act.                               *)
(***************************************************************************)
ControllerFairness ==
    /\ WF_controllerVars(Step)
    /\ \A p \in Policies : /\ SF_controllerVars(Take(p))
                           /\ SF_controllerVars(Get(p))
                           /\ WF_controllerVars(Requeue(p))
    /\ \A w \in Routines : WF_controllerVars(Exit(w))

ControllerSpec == ControllerInit /\ [][ControllerNext]_controllerVars

FairControllerSpec == ControllerSpec /\ ControllerFairness

-----------------------------------------------------------------------------

\* A goroutine that still watches is the one whose cancel function the table
\* holds, so that the next StopPolicy or StopAll reaches it.
NoOrphan ==
    \A w \in Routines : routine[w].state = "running" =>
        watchers[<<routine[w].policy, KeyOf[routine[w].entry]>>] = w

\* No two entries of a policy are watched under one key.
DistinctKeys ==
    \A d, e \in Entries : KeyOf[d] = KeyOf[e] /\ KeyOf[d] # NoKey => d = e

\* The table names running goroutines only, and none for what is yet to start.
Registered ==
    \A s \in Slots : watchers[s] # NoRoutine =>
        /\ routine[watchers[s]].state = "running"
        /\ routine[watchers[s]].policy = s[1]
        /\ KeyOf[routine[watchers[s]].entry] = s[2]

StartsAfresh ==
    /\ \A w \in Routines : routine[w].state = "running" => KeyOf[routine[w].entry] \in Keys
    /\ work.at = "start" =>
           \A e \in work.rest : KeyOf[e] \in Keys =>
               watchers[<<work.policy, KeyOf[e]>>] = NoRoutine

ControllerInv ==
    /\ ControllerTypeOK
    /\ NoOrphan
    /\ Registered
    /\ StartsAfresh

\* A reconciliation of one policy never stops a watcher of another.
OthersUndisturbed ==
    [][\A w \in Routines :
         routine[w].state = "running" /\ routine'[w].state # "running" /\ up' =>
             routine[w].policy = work.policy]_controllerVars

Stopped(p) == IF spec[p] = NotFound THEN TRUE ELSE spec[p].paused

Watching(p) == {routine[w].entry : w \in {v \in Routines :
                    routine[v].state # "free" /\ routine[v].policy = p}}

\* A policy that stays paused or deleted ends up with no goroutine watching for
\* it, whatever the worker was doing when it was paused (README: spec.paused,
\* "Pause all tracking").
PausedGoesQuiet ==
    \A p \in Policies : <>[](up /\ Stopped(p)) => <>[](Watching(p) = {})

Wanted(p) == {e \in spec[p].resources : KeyOf[e] # NoKey}

\* As long as the process runs, every policy gets watchers for all its entries
\* that can be parsed, and for no others, again and again although each
\* reconciliation stops them all: an edit made while the worker was on an older
\* version is not lost (users make finitely many edits, so specs settle).
TracksItsSpec ==
    \A p \in Policies :
        <>[]up => []<>(Stopped(p) \/ Watching(p) = Wanted(p))
=============================================================================
