-------------------------- MODULE ControllerProofs --------------------------
(***************************************************************************)
(* Proofs about Controller: where no two entries of a policy have one key, *)
(* the table of watchers reaches every goroutine that still watches, and a *)
(* reconciliation leaves other policies' watchers alone.                   *)
(***************************************************************************)
EXTENDS Controller, TLAPS

LEMMA FreeType == Free \in Goroutine /\ Free.state = "free"
<1>1. (CHOOSE e \in Entries : TRUE) \in Entries /\ SomePolicy \in Policies
  BY ControllerAssumption DEF SomePolicy
<1> QED BY <1>1 DEF Free, Goroutine

LEMMA IdleWorkType == IdleWork \in Work /\ IdleWork.at = "idle"
<1>1. SomePolicy \in Policies
  BY ControllerAssumption DEF SomePolicy
<1> QED BY <1>1 DEF IdleWork, Work

\* cancel() only ends what is running, and changes nothing else.
LEMMA CancelledFacts ==
    ASSUME NEW r \in Goroutine
    PROVE  /\ Cancelled(r) \in Goroutine
           /\ Cancelled(r).state # "running"
           /\ Cancelled(r).policy = r.policy
           /\ Cancelled(r).entry = r.entry
           /\ r.state # "running" => Cancelled(r) = r
<1>1. CASE r.state = "running"
  <2>1. Cancelled(r) = [state |-> "cancelled", policy |-> r.policy, entry |-> r.entry]
    BY <1>1 DEF Cancelled, Goroutine
  <2> QED BY <1>1, <2>1 DEF Goroutine
<1>2. CASE r.state # "running"
  BY <1>2 DEF Cancelled
<1> QED BY <1>1, <1>2

LEMMA InitInv == ControllerInit => ControllerInv
<1> SUFFICES ASSUME ControllerInit PROVE ControllerInv
  OBVIOUS
<1>1. ControllerTypeOK
  BY FreeType, IdleWorkType DEF ControllerInit, ControllerTypeOK
<1>2. \A w \in Routines : routine[w].state = "free"
  BY FreeType DEF ControllerInit
<1>3. \A s \in Slots : watchers[s] = NoRoutine
  BY DEF ControllerInit
<1>4. work.at = "idle"
  BY IdleWorkType DEF ControllerInit
<1> QED BY <1>1, <1>2, <1>3, <1>4 DEF ControllerInv, NoOrphan, Registered, StartsAfresh

\* What a step that leaves the table and the goroutines alone needs.
LEMMA TablesUntouched ==
    ASSUME ControllerInv, ControllerTypeOK', UNCHANGED <<watchers, routine>>,
           \/ work' = work
           \/ work'.at # "start"
    PROVE  ControllerInv'
<1>1. NoOrphan'
  BY DEF ControllerInv, NoOrphan
<1>2. Registered'
  BY DEF ControllerInv, Registered
<1>3. StartsAfresh'
  BY DEF ControllerInv, StartsAfresh
<1> QED BY <1>1, <1>2, <1>3 DEF ControllerInv

\* Whatever set of slots is emptied: their goroutines are cancelled with them.
LEMMA EmptySlots ==
    ASSUME ControllerInv, NEW S \in SUBSET Slots,
           routine' = [w \in Routines |->
                         IF \E s \in S : watchers[s] = w THEN Cancelled(routine[w])
                         ELSE routine[w]],
           watchers' = [s \in Slots |-> IF s \in S THEN NoRoutine ELSE watchers[s]]
    PROVE  /\ watchers' \in [Slots -> Routines \cup {NoRoutine}]
           /\ routine' \in [Routines -> Goroutine]
           /\ NoOrphan'
           /\ Registered'
           /\ \A w \in Routines : routine'[w].state = "running" => routine'[w] = routine[w]
           /\ \A w \in Routines : routine[w].state = "running" /\ routine'[w].state # "running" =>
                  \E s \in S : watchers[s] = w
<1>1. /\ watchers \in [Slots -> Routines \cup {NoRoutine}]
      /\ \A w \in Routines : routine[w] \in Goroutine
  BY DEF ControllerInv, ControllerTypeOK
<1>2. watchers' \in [Slots -> Routines \cup {NoRoutine}]
  BY <1>1
<1>3. ASSUME NEW w \in Routines
      PROVE  /\ routine'[w] \in Goroutine
             /\ routine'[w].state = "running" =>
                    routine'[w] = routine[w] /\ \A s \in S : watchers[s] # w
             /\ routine[w].state = "running" /\ routine'[w].state # "running" =>
                    \E s \in S : watchers[s] = w
  <2>1. CASE \E s \in S : watchers[s] = w
    <3>1. routine'[w] = Cancelled(routine[w])
      BY <2>1
    <3> QED BY <1>1, <2>1, <3>1, CancelledFacts
  <2>2. CASE ~(\E s \in S : watchers[s] = w)
    <3>1. routine'[w] = routine[w]
      BY <2>2
    <3> QED BY <1>1, <2>2, <3>1
  <2> QED BY <2>1, <2>2
<1>4. routine' \in [Routines -> Goroutine]
  <2>1. DOMAIN routine' = Routines /\ routine' = [w \in Routines |-> routine'[w]]
    OBVIOUS
  <2> QED BY <1>3, <2>1
<1>5. NoOrphan'
  <2> SUFFICES ASSUME NEW w \in Routines, routine'[w].state = "running"
               PROVE  watchers'[<<routine'[w].policy, KeyOf[routine'[w].entry]>>] = w
    BY DEF NoOrphan
  <2>1. routine'[w] = routine[w] /\ \A s \in S : watchers[s] # w
    BY <1>3
  <2> DEFINE t == <<routine[w].policy, KeyOf[routine[w].entry]>>
  <2>2. watchers[t] = w /\ KeyOf[routine[w].entry] \in Keys
    BY <2>1 DEF ControllerInv, NoOrphan, StartsAfresh
  <2>3. t \in Slots
    BY <1>1, <2>2 DEF Slots, Goroutine
  <2> QED BY <2>1, <2>2, <2>3
<1>6. Registered'
  <2> SUFFICES ASSUME NEW s \in Slots, watchers'[s] # NoRoutine
               PROVE  /\ routine'[watchers'[s]].state = "running"
                      /\ routine'[watchers'[s]].policy = s[1]
                      /\ KeyOf[routine'[watchers'[s]].entry] = s[2]
    BY DEF Registered
  <2>1. s \notin S /\ watchers'[s] = watchers[s]
    OBVIOUS
  <2>2. watchers[s] \in Routines
    BY <1>1, <2>1
  <2>3. /\ routine[watchers[s]].state = "running"
        /\ routine[watchers[s]].policy = s[1]
        /\ KeyOf[routine[watchers[s]].entry] = s[2]
    BY <2>1 DEF ControllerInv, Registered
  <2>4. ASSUME NEW t \in S, watchers[t] = watchers[s] PROVE FALSE
    <3>1. t \in Slots
      OBVIOUS
    <3>2. t[1] = s[1] /\ t[2] = s[2]
      BY <2>1, <2>3, <2>4, <3>1 DEF ControllerInv, Registered
    <3>3. t = s
      BY <3>1, <3>2 DEF Slots
    <3> QED BY <2>1, <3>3
  <2>5. routine'[watchers[s]] = routine[watchers[s]]
    BY <2>2, <2>4
  <2> QED BY <2>1, <2>3, <2>5
<1> QED BY <1>2, <1>3, <1>4, <1>5, <1>6

-----------------------------------------------------------------------------

\* StopPolicy empties the policy's slots; Reconcile then has a clean table.
LEMMA StopPreserves == ControllerInv /\ Stop => ControllerInv'
<1> SUFFICES ASSUME ControllerInv, Stop PROVE ControllerInv'
  OBVIOUS
<1> DEFINE p == work.policy
           S == {s \in Slots : Matches(s, p)}
<1>0. work \in Work
  BY DEF ControllerInv, ControllerTypeOK
<1>1. StopPolicy(p)
  BY DEF Stop, Stops
<1>2. /\ watchers' \in [Slots -> Routines \cup {NoRoutine}]
      /\ routine' \in [Routines -> Goroutine]
      /\ NoOrphan'
      /\ Registered'
      /\ \A w \in Routines : routine'[w].state = "running" => routine'[w] = routine[w]
  <2>1. routine' = [w \in Routines |->
                      IF \E s \in S : watchers[s] = w THEN Cancelled(routine[w]) ELSE routine[w]]
    BY <1>1 DEF StopPolicy
  <2>2. watchers' = [s \in Slots |-> IF s \in S THEN NoRoutine ELSE watchers[s]]
    BY <1>1 DEF StopPolicy
  <2>3. S \in SUBSET Slots
    OBVIOUS
  <2> HIDE DEF S
  <2> QED BY <2>1, <2>2, <2>3, EmptySlots
<1>3. work' \in Work /\ (work'.at = "start" => work'.policy = p)
  <2>1. CASE work.spec = NotFound
    BY <2>1, IdleWorkType DEF Stop
  <2>2. CASE work.spec # NotFound /\ work.spec.paused
    <3>1. work' = [work EXCEPT !.at = "start", !.rest = {}]
      BY <2>2 DEF Stop
    <3> QED BY <1>0, <3>1 DEF Work
  <2>3. CASE work.spec # NotFound /\ ~work.spec.paused
    <3>1. work' = [work EXCEPT !.at = "start", !.rest = work.spec.resources]
      BY <2>3 DEF Stop
    <3>2. work.spec.resources \in SUBSET Entries
      BY <1>0, <2>3 DEF Work, Specs
    <3> QED BY <1>0, <3>1, <3>2 DEF Work
  <2> QED BY <2>1, <2>2, <2>3
<1>4. ControllerTypeOK'
  BY <1>2, <1>3 DEF ControllerInv, ControllerTypeOK, Stop
<1>5. StartsAfresh'
  <2>1. \A w \in Routines : routine'[w].state = "running" => KeyOf[routine'[w].entry] \in Keys
    BY <1>2 DEF ControllerInv, StartsAfresh
  <2>2. ASSUME work'.at = "start", NEW e \in work'.rest, KeyOf[e] \in Keys
        PROVE  watchers'[<<work'.policy, KeyOf[e]>>] = NoRoutine
    <3>1. p \in Policies
      BY <1>0 DEF Work
    <3>2. <<p, KeyOf[e]>> \in Slots /\ Matches(<<p, KeyOf[e]>>, p)
      BY <2>2, <3>1 DEF Slots, Matches
    <3> QED BY <1>1, <1>3, <2>2, <3>2 DEF StopPolicy
  <2> QED BY <2>1, <2>2 DEF StartsAfresh
<1> QED BY <1>2, <1>4, <1>5 DEF ControllerInv

LEMMA StopAllPreserves == ControllerInv /\ StopAll => ControllerInv'
<1> SUFFICES ASSUME ControllerInv, StopAll PROVE ControllerInv'
  OBVIOUS
<1>1. /\ watchers' \in [Slots -> Routines \cup {NoRoutine}]
      /\ routine' \in [Routines -> Goroutine]
      /\ NoOrphan'
      /\ Registered'
      /\ \A w \in Routines : routine'[w].state = "running" => routine'[w] = routine[w]
  <2> DEFINE S == Slots
  <2>1. routine' = [w \in Routines |->
                      IF \E s \in S : watchers[s] = w THEN Cancelled(routine[w]) ELSE routine[w]]
    BY DEF StopAll
  <2>2. watchers' = [s \in Slots |-> IF s \in S THEN NoRoutine ELSE watchers[s]]
    BY DEF StopAll
  <2>3. S \in SUBSET Slots
    OBVIOUS
  <2> HIDE DEF S
  <2> QED BY <2>1, <2>2, <2>3, EmptySlots
<1>2. ControllerTypeOK'
  BY <1>1 DEF ControllerInv, ControllerTypeOK, StopAll
<1>3. \A s \in Slots : watchers'[s] = NoRoutine
  BY DEF StopAll
<1>4. StartsAfresh'
  <2>1. work' = work /\ work \in Work
    BY DEF StopAll, ControllerInv, ControllerTypeOK
  <2>2. \A w \in Routines : routine'[w].state = "running" => KeyOf[routine'[w].entry] \in Keys
    BY <1>1 DEF ControllerInv, StartsAfresh
  <2>3. ASSUME NEW e \in work'.rest, KeyOf[e] \in Keys
        PROVE  watchers'[<<work'.policy, KeyOf[e]>>] = NoRoutine
    <3>1. <<work'.policy, KeyOf[e]>> \in Slots
      BY <2>1, <2>3 DEF Slots, Work
    <3> QED BY <1>3, <3>1
  <2> QED BY <2>2, <2>3 DEF StartsAfresh
<1> QED BY <1>1, <1>2, <1>4 DEF ControllerInv

\* With distinct keys the slot a new watcher takes is empty, so that no cancel
\* function is overwritten, and the slots of what is yet to start stay empty.
LEMMA StartPreserves ==
    ASSUME DistinctKeys, ControllerInv, NEW e \in Entries, Start(e)
    PROVE  ControllerInv'
<1> DEFINE p == work.policy
           t == <<p, KeyOf[e]>>
           w == FreeRoutine
<1>0. /\ work \in Work
      /\ watchers \in [Slots -> Routines \cup {NoRoutine}]
      /\ routine \in [Routines -> Goroutine]
      /\ work.at = "start" /\ e \in work.rest
  BY DEF ControllerInv, ControllerTypeOK, Start
<1>1. /\ work' \in Work
      /\ work'.policy = p
      /\ work'.rest = work.rest \ {e}
  <2>1. work' = [work EXCEPT !.rest = work.rest \ {e}]
    BY DEF Start, RestAfter
  <2> QED BY <1>0, <2>1 DEF Work
<1>2. CASE KeyOf[e] = NoKey
  <2>1. UNCHANGED <<watchers, routine>>
    BY <1>2 DEF Start
  <2>2. ControllerTypeOK'
    BY <1>1, <2>1 DEF ControllerInv, ControllerTypeOK, Start
  <2>3. NoOrphan' /\ Registered'
    BY <2>1 DEF ControllerInv, NoOrphan, Registered
  <2>4. StartsAfresh'
    BY <1>0, <1>1, <2>1 DEF ControllerInv, StartsAfresh
  <2> QED BY <2>2, <2>3, <2>4 DEF ControllerInv
<1>3. CASE KeyOf[e] # NoKey
  <2> DEFINE g == [state |-> "running", policy |-> p, entry |-> e]
  <2>1. w \in Routines /\ routine[w].state = "free"
    BY <1>3 DEF Start, FreeRoutine
  <2>2. KeyOf[e] \in Keys /\ p \in Policies /\ t \in Slots
    BY <1>0, <1>3, ControllerAssumption DEF Work, Slots
  <2>3. g \in Goroutine
    BY <2>2 DEF Goroutine
  <2>4. watchers' = [watchers EXCEPT ![t] = w] /\ routine' = [routine EXCEPT ![w] = g]
    BY <1>3 DEF Start
  <2>5. watchers[t] = NoRoutine
    BY <1>0, <2>2 DEF ControllerInv, StartsAfresh
  <2> HIDE DEF w
  <2>6. ControllerTypeOK'
    BY <1>0, <1>1, <2>1, <2>2, <2>3, <2>4 DEF ControllerInv, ControllerTypeOK, Start
  <2>7. NoOrphan'
    <3> SUFFICES ASSUME NEW v \in Routines, routine'[v].state = "running"
                 PROVE  watchers'[<<routine'[v].policy, KeyOf[routine'[v].entry]>>] = v
      BY DEF NoOrphan
    <3>1. CASE v = w
      <4>1. routine'[v] = g
        BY <1>0, <2>4, <3>1
      <4> QED BY <1>0, <2>2, <2>4, <3>1, <4>1
    <3>2. CASE v # w
      <4>1. routine'[v] = routine[v]
        BY <1>0, <2>4, <3>2
      <4> DEFINE r == <<routine[v].policy, KeyOf[routine[v].entry]>>
      <4>2. watchers[r] = v
        BY <4>1 DEF ControllerInv, NoOrphan
      <4>3. r # t
        BY <2>5, <4>2, ControllerAssumption
      <4>4. KeyOf[routine[v].entry] \in Keys /\ routine[v] \in Goroutine
        BY <1>0, <4>1 DEF ControllerInv, StartsAfresh
      <4>5. r \in Slots
        BY <4>4 DEF Slots, Goroutine
      <4> QED BY <1>0, <2>4, <4>1, <4>2, <4>3, <4>5
    <3> QED BY <3>1, <3>2
  <2>8. Registered'
    <3> SUFFICES ASSUME NEW s \in Slots, watchers'[s] # NoRoutine
                 PROVE  /\ routine'[watchers'[s]].state = "running"
                        /\ routine'[watchers'[s]].policy = s[1]
                        /\ KeyOf[routine'[watchers'[s]].entry] = s[2]
      BY DEF Registered
    <3>1. CASE s = t
      <4>1. watchers'[s] = w /\ routine'[w] = g
        BY <1>0, <2>1, <2>4, <3>1
      <4> QED BY <3>1, <4>1
    <3>2. CASE s # t
      <4>1. watchers'[s] = watchers[s]
        BY <1>0, <2>4, <3>2
      <4>2. /\ routine[watchers[s]].state = "running"
            /\ routine[watchers[s]].policy = s[1]
            /\ KeyOf[routine[watchers[s]].entry] = s[2]
        BY <4>1 DEF ControllerInv, Registered
      <4>3. watchers[s] \in Routines /\ watchers[s] # w
        BY <1>0, <2>1, <4>1, <4>2
      <4>4. routine'[watchers[s]] = routine[watchers[s]]
        BY <1>0, <2>4, <4>3
      <4> QED BY <4>1, <4>2, <4>4
    <3> QED BY <3>1, <3>2
  <2>9. StartsAfresh'
    <3>1. ASSUME NEW v \in Routines, routine'[v].state = "running"
          PROVE  KeyOf[routine'[v].entry] \in Keys
      <4>1. CASE v = w
        <5>1. routine'[v] = g
          BY <1>0, <2>4, <4>1
        <5> QED BY <2>2, <5>1
      <4>2. CASE v # w
        <5>1. routine'[v] = routine[v]
          BY <1>0, <2>4, <4>2
        <5> QED BY <3>1, <5>1 DEF ControllerInv, StartsAfresh
      <4> QED BY <4>1, <4>2
    <3>2. ASSUME NEW d \in work'.rest, KeyOf[d] \in Keys
          PROVE  watchers'[<<work'.policy, KeyOf[d]>>] = NoRoutine
      <4>1. d \in work.rest /\ d # e /\ d \in Entries
        BY <1>0, <1>1 DEF Work
      <4>2. KeyOf[d] # KeyOf[e]
        BY <1>3, <4>1 DEF DistinctKeys
      <4>3. watchers[<<p, KeyOf[d]>>] = NoRoutine
        BY <1>0, <3>2, <4>1 DEF ControllerInv, StartsAfresh
      <4>4. <<p, KeyOf[d]>> # t /\ <<p, KeyOf[d]>> \in Slots
        BY <2>2, <3>2, <4>2 DEF Slots
      <4> QED BY <1>0, <1>1, <2>4, <4>3, <4>4
    <3> QED BY <3>1, <3>2 DEF StartsAfresh
  <2> QED BY <2>6, <2>7, <2>8, <2>9 DEF ControllerInv
<1> QED BY <1>2, <1>3

LEMMA ExitPreserves ==
    ASSUME ControllerInv, NEW w \in Routines, Exit(w)
    PROVE  ControllerInv'
<1>1. /\ routine \in [Routines -> Goroutine]
      /\ routine[w].state = "cancelled"
      /\ routine' = [routine EXCEPT ![w] = Free]
      /\ watchers' = watchers /\ work' = work
  BY DEF ControllerInv, ControllerTypeOK, Exit
<1>2. \A v \in Routines : routine'[v].state = "running" => routine'[v] = routine[v]
  BY <1>1, FreeType
<1>3. ControllerTypeOK'
  <2>1. routine' \in [Routines -> Goroutine]
    BY <1>1, FreeType
  <2> QED BY <2>1 DEF ControllerInv, ControllerTypeOK, Exit
<1>4. NoOrphan'
  BY <1>1, <1>2 DEF ControllerInv, NoOrphan
<1>5. Registered'
  <2> SUFFICES ASSUME NEW s \in Slots, watchers[s] # NoRoutine
               PROVE  routine'[watchers[s]] = routine[watchers[s]]
    BY <1>1 DEF ControllerInv, Registered
  <2>1. routine[watchers[s]].state = "running" /\ watchers[s] \in Routines
    BY DEF ControllerInv, Registered, ControllerTypeOK
  <2> QED BY <1>1, <2>1
<1>6. StartsAfresh'
  BY <1>1, <1>2 DEF ControllerInv, StartsAfresh
<1> QED BY <1>3, <1>4, <1>5, <1>6 DEF ControllerInv

LEMMA StepInv == DistinctKeys /\ ControllerInv /\ [ControllerNext]_controllerVars => ControllerInv'
<1> SUFFICES ASSUME DistinctKeys, ControllerInv, [ControllerNext]_controllerVars
             PROVE  ControllerInv'
  OBVIOUS
<1>1. ASSUME NEW p \in Policies, NEW s \in Specs \cup {NotFound}, Edit(p, s)
      PROVE  ControllerInv'
  <2>1. ControllerTypeOK'
    BY <1>1 DEF ControllerInv, ControllerTypeOK, Edit
  <2> QED BY <1>1, <2>1, TablesUntouched DEF Edit
<1>2. ASSUME NEW p \in Policies, Requeue(p) PROVE ControllerInv'
  <2>1. ControllerTypeOK'
    BY <1>2 DEF ControllerInv, ControllerTypeOK, Requeue
  <2> QED BY <1>2, <2>1, TablesUntouched DEF Requeue
<1>3. ASSUME NEW p \in Policies, Take(p) \/ Get(p) \/ GetFails(p) PROVE ControllerInv'
  <2>1. work' \in Work /\ work'.at # "start"
    BY <1>3, IdleWorkType DEF ControllerInv, ControllerTypeOK, Take, Get, GetFails, Work
  <2>2. ControllerTypeOK'
    BY <1>3, <2>1 DEF ControllerInv, ControllerTypeOK, Take, Get, GetFails
  <2> QED BY <1>3, <2>1, <2>2, TablesUntouched DEF Take, Get, GetFails
<1>4. CASE EndOfLoop
  <2>1. work' \in Work /\ work'.at = "finish"
    BY <1>4 DEF ControllerInv, ControllerTypeOK, EndOfLoop, Work
  <2>2. ControllerTypeOK'
    BY <1>4, <2>1 DEF ControllerInv, ControllerTypeOK, EndOfLoop
  <2> QED BY <1>4, <2>1, <2>2, TablesUntouched DEF EndOfLoop
<1>5. CASE Finish
  <2>1. work.policy \in Policies
    BY DEF ControllerInv, ControllerTypeOK, Work
  <2>2. ControllerTypeOK'
    BY <1>5, <2>1, IdleWorkType DEF ControllerInv, ControllerTypeOK, Finish
  <2> QED BY <1>5, <2>2, IdleWorkType, TablesUntouched DEF Finish
<1>6. CASE UNCHANGED controllerVars
  <2>1. ControllerTypeOK'
    BY <1>6 DEF ControllerInv, ControllerTypeOK, controllerVars
  <2> QED BY <1>6, <2>1, TablesUntouched DEF controllerVars
<1> QED BY <1>1, <1>2, <1>3, <1>4, <1>5, <1>6, StopPreserves, StopAllPreserves, StartPreserves,
           ExitPreserves DEF ControllerNext, Step

-----------------------------------------------------------------------------

\* The inductive invariant, where no two entries are watched under one key.
THEOREM ControllerInvariance == ASSUME DistinctKeys PROVE ControllerSpec => []ControllerInv
<1>1. ControllerInv /\ [ControllerNext]_controllerVars => ControllerInv'
  BY StepInv
<1>2. ControllerInit => ControllerInv
  BY InitInv
<1> QED BY <1>1, <1>2, PTL DEF ControllerSpec

\* No goroutine watches on out of reach of StopPolicy and StopAll: what
\* spec.paused and the deletion of a policy rely on.
THEOREM EveryWatcherReachable == ASSUME DistinctKeys PROVE ControllerSpec => []NoOrphan
<1>1. ControllerInv => NoOrphan
  BY DEF ControllerInv
<1>2. ControllerSpec => []ControllerInv
  BY ControllerInvariance
<1> QED BY <1>1, <1>2, PTL

\* A watcher ends only by a reconciliation of its own policy.
LEMMA StepsUndisturbing ==
    ASSUME ControllerInv, [ControllerNext]_controllerVars, NEW w \in Routines,
           routine[w].state = "running", routine'[w].state # "running", up'
    PROVE  routine[w].policy = work.policy
<1> DEFINE p == work.policy
           S == {s \in Slots : Matches(s, p)}
<1>0. routine \in [Routines -> Goroutine]
  BY DEF ControllerInv, ControllerTypeOK
<1>1. CASE Stop
  <2>1. StopPolicy(p)
    BY <1>1 DEF Stop, Stops
  <2>2. PICK s \in Slots : Matches(s, p) /\ watchers[s] = w
    <3>1. CASE \E s \in Slots : Matches(s, p) /\ watchers[s] = w
      BY <3>1
    <3>2. CASE ~(\E s \in Slots : Matches(s, p) /\ watchers[s] = w)
      <4>1. routine'[w] = routine[w]
        BY <2>1, <3>2 DEF StopPolicy
      <4> QED BY <4>1
    <3> QED BY <3>1, <3>2
  <2>3. routine[w].policy = s[1]
    BY <2>2, ControllerAssumption DEF ControllerInv, Registered
  <2> QED BY <2>2, <2>3 DEF Matches
<1>2. ASSUME NEW e \in Entries, Start(e) PROVE FALSE
  <2>1. CASE KeyOf[e] = NoKey
    BY <1>2, <2>1 DEF Start
  <2>2. CASE KeyOf[e] # NoKey
    <3>1. FreeRoutine \in Routines /\ routine[FreeRoutine].state = "free"
      BY <1>2, <2>2 DEF Start, FreeRoutine
    <3> HIDE DEF FreeRoutine
    <3>2. routine' = [routine EXCEPT ![FreeRoutine] =
                        [state |-> "running", policy |-> work.policy, entry |-> e]]
      BY <1>2, <2>2 DEF Start
    <3>3. routine'[w] = routine[w]
      BY <1>0, <3>1, <3>2
    <3> QED BY <3>3
  <2> QED BY <2>1, <2>2
<1>3. ASSUME NEW v \in Routines, Exit(v) PROVE FALSE
  <2>1. v # w
    BY <1>3 DEF Exit
  <2>2. routine'[w] = routine[w]
    BY <1>0, <1>3, <2>1 DEF Exit
  <2> QED BY <2>2
<1>4. CASE UNCHANGED routine
  BY <1>4
<1>5. CASE StopAll
  BY <1>5 DEF StopAll
<1> QED BY <1>1, <1>2, <1>3, <1>4, <1>5
        DEF ControllerNext, Step, Edit, Requeue, Take, Get, GetFails, EndOfLoop, Finish,
            controllerVars

\* A reconciliation never stops the watchers of another policy: the prefix it
\* compares keys with ends in a slash.
THEOREM OthersKeepWatching ==
    ASSUME DistinctKeys PROVE ControllerSpec => OthersUndisturbed
<1>1. ControllerInv /\ [ControllerNext]_controllerVars =>
          [\A w \in Routines :
             routine[w].state = "running" /\ routine'[w].state # "running" /\ up' =>
                 routine[w].policy = work.policy]_controllerVars
  BY StepsUndisturbing
<1>2. ControllerSpec => []ControllerInv
  BY ControllerInvariance
<1> QED BY <1>1, <1>2, PTL DEF ControllerSpec, OthersUndisturbed
=============================================================================
