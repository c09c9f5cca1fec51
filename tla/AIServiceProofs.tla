-------------------------- MODULE AIServiceProofs ---------------------------
(***************************************************************************)
(* The sliding window of the AI guard, for any limit, any minute and any   *)
(* set of concurrent requests.                                             *)
(***************************************************************************)
EXTENDS AIService, FiniteSetTheorems, TLAPS

-----------------------------------------------------------------------------
(* The window *)

\* Dropping expired entries keeps the set finite and no larger.
LEMMA FreshShrinks ==
    ASSUME Bounded
    PROVE  /\ IsFiniteSet(Fresh)
           /\ Cardinality(Fresh) \in Nat
           /\ Limit > 0 => Cardinality(Fresh) <= Limit
<1>1. Fresh \in SUBSET reqTimes
  BY DEF Fresh
<1>2. IsFiniteSet(Fresh) /\ Cardinality(Fresh) <= Cardinality(reqTimes)
  BY <1>1, FS_Subset DEF Bounded
<1>3. Cardinality(Fresh) \in Nat /\ Cardinality(reqTimes) \in Nat
  BY <1>2, FS_CardinalityType DEF Bounded
<1> QED BY <1>2, <1>3, RateAssumption DEF Bounded

\* What has not expired is what the last minute admitted: the guard's decision
\* is made on the true count.
LEMMA FreshIsLastMinute ==
    ASSUME TypeOK, Remembered
    PROVE  Fresh = AdmittedIn(now - Window, now)
BY RateAssumption DEF TypeOK, Remembered, Fresh, AdmittedIn, Entry

\* The minute that ends now is within what the guard remembers, so it has no
\* more than Limit admissions.
LEMMA CountWithin ==
    ASSUME NEW S, IsFiniteSet(S), Cardinality(S) <= Limit, NEW A \in SUBSET S
    PROVE  Cardinality(A) <= Limit
<1>1. IsFiniteSet(A) /\ Cardinality(A) <= Cardinality(S)
  BY FS_Subset
<1>2. Cardinality(A) \in Nat /\ Cardinality(S) \in Nat
  BY <1>1, FS_CardinalityType
<1> QED BY <1>1, <1>2, RateAssumption

LEMMA InitInv == Init => GuardInv
<1> SUFFICES ASSUME Init PROVE GuardInv
  OBVIOUS
<1>1. NoRequest \in Request
  BY DEF NoRequest, Request, Routes, Flaws
<1>2. TypeOK
  BY <1>1 DEF Init, TypeOK, Stages, Answers
<1>3. Remembered
  BY DEF Init, Remembered, AdmittedIn
<1>4. IsFiniteSet({}) /\ Cardinality({}) = 0
  BY FS_EmptySet
<1>5. Bounded
  BY <1>4, RateAssumption DEF Init, Bounded
<1>6. WindowBound
  <2>1. \A t : AdmittedIn(t - Window, t) = {}
    BY DEF Init, AdmittedIn
  <2> QED BY <2>1, <1>4, RateAssumption DEF WindowBound
<1> QED BY <1>2, <1>3, <1>5, <1>6 DEF GuardInv

-----------------------------------------------------------------------------
(* Steps *)

\* A step outside the guard moves one request and leaves its record alone.
LEMMA QuietStep ==
    ASSUME GuardInv, TypeOK', UNCHANGED <<now, reqTimes, admitted>>
    PROVE  GuardInv'
<1>1. Remembered'
  BY DEF GuardInv, Remembered, AdmittedIn
<1>2. Bounded'
  BY DEF GuardInv, Bounded
<1>3. WindowBound'
  BY DEF GuardInv, WindowBound, AdmittedIn
<1> QED BY <1>1, <1>2, <1>3 DEF GuardInv

\* Goto and Respond keep the types of a request's state.
LEMMA MoveType ==
    ASSUME TypeOK, NEW r \in Requests, NEW stage \in Stages, NEW a \in Answers,
           Goto(r, stage) \/ Respond(r, a)
    PROVE  /\ pc' \in [Requests -> Stages]
           /\ request' \in [Requests -> Request]
           /\ answer' \in [Requests -> Answers]
<1>1. NoRequest \in Request
  BY DEF NoRequest, Request, Routes, Flaws
<1>2. CASE Goto(r, stage)
  BY <1>2 DEF TypeOK, Goto
<1>3. CASE Respond(r, a)
  BY <1>1, <1>3 DEF TypeOK, Respond, Stages
<1> QED BY <1>2, <1>3

\* A step of a request that does not enter the guard.
LEMMA MoveStep ==
    ASSUME GuardInv, NEW r \in Requests, NEW stage \in Stages, NEW a \in Answers,
           Goto(r, stage) \/ Respond(r, a), Unshared
    PROVE  GuardInv'
<1>1. TypeOK'
  BY MoveType DEF GuardInv, TypeOK, Unshared, guardVars
<1> QED BY <1>1, QuietStep DEF Unshared, guardVars

LEMMA ArriveStep ==
    ASSUME GuardInv, NEW r \in Requests, NEW route \in Routes,
           NEW flaws \in {{}} \cup {{f} : f \in Flaws(route)}, Arrive(r, route, flaws)
    PROVE  GuardInv'
<1>1. [route |-> route, flaws |-> flaws] \in Request
  <2>1. flaws \in SUBSET Flaws(route)
    OBVIOUS
  <2>2. [route |-> route, flaws |-> flaws] \in [route : {route}, flaws : SUBSET Flaws(route)]
    BY <2>1
  <2> QED BY <2>2 DEF Request
<1>2. CASE enabled
  <2>1. TypeOK'
    BY <1>1, <1>2 DEF GuardInv, TypeOK, Arrive, Unshared, guardVars, Stages
  <2> QED BY <2>1, QuietStep DEF Arrive, Unshared, guardVars
<1>3. CASE ~enabled
  BY <1>3, MoveStep DEF Arrive, Stages, Answers
<1> QED BY <1>2, <1>3

LEMMA TickStep ==
    ASSUME GuardInv, Tick
    PROVE  GuardInv'
<1> USE RateAssumption
<1>1. TypeOK' /\ now' = now + 1 /\ now \in Nat
  BY DEF GuardInv, TypeOK, Tick, guardVars
<1>2. Remembered'
  BY <1>1 DEF GuardInv, TypeOK, Remembered, AdmittedIn, Tick, guardVars, Entry
<1>3. Bounded'
  BY DEF GuardInv, Bounded, Tick, guardVars
<1>4. WindowBound'
  <2> SUFFICES ASSUME Limit > 0, NEW t \in 0..(now + 1)
               PROVE  Cardinality(AdmittedIn(t - Window, t))' <= Limit
    BY <1>1 DEF WindowBound
  <2>1. CASE t = now + 1
    <3>1. AdmittedIn(t - Window, t)' \in SUBSET reqTimes'
      BY <1>1, <1>2, <2>1 DEF Remembered, AdmittedIn
    <3>2. IsFiniteSet(reqTimes') /\ Cardinality(reqTimes') <= Limit
      BY <1>3 DEF Bounded
    <3> QED BY <3>1, <3>2, CountWithin
  <2>2. CASE t # now + 1
    <3>1. t \in 0..now
      BY <2>2, <1>1
    <3> QED BY <3>1 DEF GuardInv, WindowBound, AdmittedIn, Tick, guardVars
  <2> QED BY <2>1, <2>2
<1> QED BY <1>1, <1>2, <1>3, <1>4 DEF GuardInv

\* The guard's critical section.
LEMMA GuardStep ==
    ASSUME GuardInv, NEW r \in Requests, Complete(r)
    PROVE  GuardInv'
<1> USE RateAssumption
<1> DEFINE e == [id |-> r, time |-> now]
<1>1. e \in Entry /\ now \in Nat
  BY DEF GuardInv, TypeOK, Entry
<1>2. CASE Limit = 0
  <2>1. Goto(r, "provider") /\ Unshared
    BY <1>2 DEF Complete, CheckRateLimit, Unshared
  <2> QED BY <2>1, MoveStep DEF Stages, Answers
<1>3. CASE Limit # 0 /\ Cardinality(Fresh) >= Limit
  <2>1. Refuse(r) /\ UNCHANGED <<enabled, now>>
    BY <1>3 DEF Complete, CheckRateLimit
  <2>2. TypeOK'
    <3>1. Fresh \subseteq Entry
      BY DEF GuardInv, TypeOK, Fresh
    <3>2. /\ pc' \in [Requests -> Stages]
          /\ request' \in [Requests -> Request]
          /\ answer' \in [Requests -> Answers]
      BY <2>1, MoveType DEF GuardInv, Refuse, Stages, Answers
    <3> QED BY <2>1, <3>1, <3>2 DEF GuardInv, TypeOK, Refuse
  <2>3. Remembered'
    BY <2>1, <1>1 DEF GuardInv, TypeOK, Remembered, AdmittedIn, Refuse, Fresh, Entry
  <2>4. Bounded'
    BY <2>1, FreshShrinks DEF GuardInv, Refuse, Bounded
  <2>5. WindowBound'
    BY <2>1 DEF GuardInv, WindowBound, AdmittedIn, Refuse
  <2> QED BY <2>2, <2>3, <2>4, <2>5 DEF GuardInv
<1>4. CASE Limit # 0 /\ ~(Cardinality(Fresh) >= Limit)
  <2>1. Admit(r) /\ UNCHANGED <<enabled, now>>
    BY <1>4 DEF Complete, CheckRateLimit
  <2>2. TypeOK'
    <3>1. Fresh \subseteq Entry
      BY DEF GuardInv, TypeOK, Fresh
    <3>2. /\ pc' \in [Requests -> Stages]
          /\ request' \in [Requests -> Request]
          /\ answer' \in [Requests -> Answers]
      BY <2>1, MoveType DEF GuardInv, Admit, Stages, Answers
    <3> QED BY <2>1, <1>1, <3>1, <3>2 DEF GuardInv, TypeOK, Admit
  <2>3. Remembered'
    BY <2>1, <1>1 DEF GuardInv, TypeOK, Remembered, AdmittedIn, Admit, Fresh, Entry
  <2>4. Bounded'
    <3> DEFINE F == Fresh
    <3>1. IsFiniteSet(F) /\ Cardinality(F) \in Nat /\ Cardinality(F) < Limit
      BY <1>4, FreshShrinks DEF GuardInv
    <3>2. reqTimes' = F \cup {e}
      BY <2>1 DEF Admit
    <3> HIDE DEF F, e
    <3>3. /\ IsFiniteSet(F \cup {e})
          /\ Cardinality(F \cup {e}) = IF e \in F THEN Cardinality(F) ELSE Cardinality(F) + 1
      BY <3>1, FS_AddElement
    <3>4. Cardinality(F \cup {e}) <= Limit
      BY <3>1, <3>3
    <3> QED BY <3>2, <3>3, <3>4 DEF Bounded
  <2>5. WindowBound'
    <3> SUFFICES ASSUME Limit > 0, NEW t \in 0..now
                 PROVE  Cardinality(AdmittedIn(t - Window, t))' <= Limit
      BY <2>1 DEF WindowBound
    <3>1. CASE t = now
      <4>1. AdmittedIn(t - Window, t)' \in SUBSET reqTimes'
        BY <2>1, <2>3, <3>1 DEF Remembered, AdmittedIn
      <4>2. IsFiniteSet(reqTimes') /\ Cardinality(reqTimes') <= Limit
        BY <2>4 DEF Bounded
      <4> QED BY <4>1, <4>2, CountWithin
    <3>2. CASE t # now
      <4>1. AdmittedIn(t - Window, t)' = AdmittedIn(t - Window, t)
        BY <2>1, <1>1, <3>2 DEF Admit, AdmittedIn
      <4> QED BY <4>1 DEF GuardInv, WindowBound
    <3> QED BY <3>1, <3>2
  <2> QED BY <2>2, <2>3, <2>4, <2>5 DEF GuardInv
<1> QED BY <1>2, <1>3, <1>4

LEMMA NextInv == GuardInv /\ [Next]_vars => GuardInv'
<1> SUFFICES ASSUME GuardInv, [Next]_vars PROVE GuardInv'
  OBVIOUS
<1> USE DEF Stages, Answers
<1>1. CASE Tick
  BY <1>1, TickStep
<1>2. ASSUME NEW r \in Requests, NEW route \in Routes,
             NEW flaws \in {{}} \cup {{f} : f \in Flaws(route)}, Arrive(r, route, flaws)
      PROVE  GuardInv'
  BY <1>2, ArriveStep
<1>3. ASSUME NEW r \in Requests, HandleAISummarize(r) PROVE GuardInv'
  BY <1>3, MoveStep DEF HandleAISummarize, SummarizeChange
<1>4. ASSUME NEW r \in Requests, HandleAISummarizeDiff(r) PROVE GuardInv'
  BY <1>4, MoveStep DEF HandleAISummarizeDiff, SummarizeDiff
<1>5. ASSUME NEW r \in Requests, HandleAIAnomalies(r) PROVE GuardInv'
  BY <1>5, MoveStep DEF HandleAIAnomalies, AnalyzeChanges
<1>6. ASSUME NEW r \in Requests, HandleAIQuery(r) PROVE GuardInv'
  BY <1>6, MoveStep DEF HandleAIQuery
<1>7. ASSUME NEW r \in Requests, Ask(r) PROVE GuardInv'
  BY <1>7, MoveStep DEF Ask
<1>8. ASSUME NEW r \in Requests, Complete(r) PROVE GuardInv'
  BY <1>8, GuardStep
<1>9. ASSUME NEW r \in Requests, ProviderReplies(r) PROVE GuardInv'
  BY <1>9, MoveStep DEF ProviderReplies
<1>10. ASSUME NEW r \in Requests, ProviderFails(r) PROVE GuardInv'
  BY <1>10, MoveStep DEF ProviderFails
<1>11. CASE UNCHANGED vars
  <2>1. TypeOK'
    BY <1>11 DEF GuardInv, TypeOK, vars
  <2> QED BY <1>11, <2>1, QuietStep DEF vars
<1> QED
  BY <1>1, <1>2, <1>3, <1>4, <1>5, <1>6, <1>7, <1>8, <1>9, <1>10, <1>11 DEF Next, Handle

-----------------------------------------------------------------------------
(* Calls and their entries *)

\* What can be wrong with a request is what can be wrong on its route.
LEMMA FlawsOfRoute ==
    ASSUME NEW q \in Request
    PROVE  /\ q.route = "anomalies" => q.flaws = {}
           /\ q.route = "query" =>
                q.flaws \subseteq {"body", "empty", "too long", "injection", "off topic"}
<1>1. q.flaws \subseteq Flaws(q.route)
  BY DEF Request
<1>2. Flaws("anomalies") = {}
  BY Zenon DEF Flaws
<1>3. Flaws("query") = {"body", "empty", "too long", "injection", "off topic"}
  BY Zenon DEF Flaws
<1> QED BY <1>1, <1>2, <1>3

LEMMA CallsInit == Init => Checked /\ Accounted
BY DEF Init, Checked, Accounted, Called, At, NoRequest

\* A request that is not yet called for moves on towards the guard, its input
\* checked when it leaves the handler.
LEMMA GoesOn ==
    ASSUME TypeOK, Checked, Accounted, NEW r \in Requests,
           NEW stage \in {"second", "gather", "limit"},
           pc[r] \in {"handler", "second", "gather"},
           At(r, "handler") => request[r].flaws = {},
           Goto(r, stage), Unshared
    PROVE  Checked' /\ Accounted'
<1> USE DEF Goto, Unshared, guardVars, TypeOK
<1>1. /\ pc'[r] = stage /\ request' = request /\ answer' = answer
      /\ \A q \in Requests \ {r} : pc'[q] = pc[q]
  OBVIOUS
<1>2. answer[r] = "none" /\ ~Called(r) /\ ~Called(r)' /\ enabled /\ request[r].flaws = {}
  BY <1>1 DEF Checked, Called, At
<1>3. \A q \in Requests : Called(q)' = Called(q)
  BY <1>1, <1>2 DEF Called, At
<1>4. Checked'
  BY <1>1, <1>2, <1>3 DEF Checked, At
<1>5. Accounted'
  BY <1>3, Zenon DEF Accounted
<1> QED BY <1>4, <1>5

\* A request is answered without the provider.
LEMMA AnsweredWithout ==
    ASSUME TypeOK, Checked, Accounted, NEW r \in Requests,
           NEW a \in Answers \ {"none", "completed", "provider error"},
           pc[r] \notin {"provider", "done"},
           Respond(r, a), UNCHANGED <<enabled, admitted>>
    PROVE  Checked' /\ Accounted'
<1> USE DEF Respond, TypeOK
<1>1. /\ pc'[r] = "done" /\ answer'[r] = a /\ request'[r].flaws = {}
      /\ \A q \in Requests \ {r} :
           pc'[q] = pc[q] /\ answer'[q] = answer[q] /\ request'[q] = request[q]
  BY DEF NoRequest
<1>2. ~Called(r) /\ ~Called(r)'
  BY <1>1 DEF Checked, Called, At
<1>3. \A q \in Requests : Called(q)' = Called(q)
  BY <1>1, <1>2 DEF Called, At
<1>4. Checked'
  BY <1>1, <1>2, <1>3 DEF Checked, At
<1>5. Accounted'
  BY <1>3, Zenon DEF Accounted
<1> QED BY <1>4, <1>5

LEMMA CallsArrive ==
    ASSUME TypeOK, Checked, Accounted, NEW r \in Requests,
           NEW route, NEW flaws, Arrive(r, route, flaws)
    PROVE  Checked' /\ Accounted'
<1>1. CASE enabled
  <2> USE <1>1 DEF Arrive, At, Unshared, guardVars, TypeOK
  <2>1. /\ pc'[r] = "handler" /\ answer' = answer
        /\ \A q \in Requests \ {r} : pc'[q] = pc[q] /\ request'[q] = request[q]
    OBVIOUS
  <2>2. \A q \in Requests : Called(q)' = Called(q)
    BY <2>1 DEF Called
  <2>3. Checked'
    BY <2>1, <2>2 DEF Checked
  <2>4. Accounted'
    BY <2>2, Zenon DEF Accounted
  <2> QED BY <2>3, <2>4
<1>2. CASE ~enabled
  <2>1. Respond(r, "unavailable") /\ pc[r] = "idle" /\ Unshared
    BY <1>2 DEF Arrive, At
  <2> QED BY <2>1, AnsweredWithout DEF Answers, Unshared, guardVars
<1> QED BY <1>1, <1>2

\* The guard admits a request, with one entry of its own, and calls for it.
LEMMA CallsAdmit ==
    ASSUME TypeOK, Checked, Accounted, NEW r \in Requests,
           At(r, "limit"), Goto(r, "provider"), UNCHANGED enabled,
           \/ Limit = 0 /\ UNCHANGED admitted
           \/ admitted' = admitted \cup {[id |-> r, time |-> now]}
    PROVE  Checked' /\ Accounted'
<1> USE DEF Goto, TypeOK, At
<1> DEFINE e == [id |-> r, time |-> now]
           own(q) == {x \in admitted : x.id = q}
<1>1. /\ pc'[r] = "provider" /\ request' = request /\ answer' = answer
      /\ \A q \in Requests \ {r} : pc'[q] = pc[q]
  OBVIOUS
<1>2. answer[r] = "none" /\ ~Called(r) /\ Called(r)' /\ enabled /\ request[r].flaws = {}
  BY <1>1 DEF Checked, Called
<1>3. \A q \in Requests \ {r} : Called(q)' = Called(q)
  BY <1>1 DEF Called
<1>4. Checked'
  BY <1>1, <1>2, <1>3 DEF Checked
<1>5. Accounted'
  <2> SUFFICES ASSUME Limit > 0, NEW q \in Requests
               PROVE  IF Called(q)' THEN \E x \in own(q)' : own(q)' = {x} ELSE own(q)' = {}
    BY DEF Accounted
  <2>1. admitted' = admitted \cup {e}
    BY RateAssumption
  <2>2. CASE q = r
    <3>1. own(r) = {}
      BY <1>2 DEF Accounted
    <3>2. own(r)' = {e}
      BY <2>1, <3>1
    <3> QED BY <1>2, <2>2, <3>2
  <2>3. CASE q # r
    <3>1. own(q)' = own(q)
      BY <2>1, <2>3
    <3> QED BY <1>3, <2>3, <3>1 DEF Accounted
  <2> QED BY <2>2, <2>3
<1> QED BY <1>4, <1>5

LEMMA CallsComplete ==
    ASSUME TypeOK, Checked, Accounted, NEW r \in Requests, Complete(r)
    PROVE  Checked' /\ Accounted'
<1>1. CASE Refuse(r)
  BY <1>1, AnsweredWithout DEF Complete, Refuse, At, Answers
<1>2. CASE ~Refuse(r)
  BY <1>2, CallsAdmit DEF Complete, CheckRateLimit, Admit, guardVars
<1> QED BY <1>1, <1>2

\* The exchange with the provider ends: the entry stays.
LEMMA CallsEnd ==
    ASSUME TypeOK, Checked, Accounted, NEW r \in Requests,
           NEW a \in {"completed", "provider error"},
           At(r, "provider"), Respond(r, a), Unshared
    PROVE  Checked' /\ Accounted'
<1> USE DEF Respond, TypeOK, At, Unshared, guardVars
<1>1. /\ pc'[r] = "done" /\ answer'[r] = a /\ request'[r].flaws = {}
      /\ \A q \in Requests \ {r} :
           pc'[q] = pc[q] /\ answer'[q] = answer[q] /\ request'[q] = request[q]
  BY DEF NoRequest
<1>2. Called(r) /\ Called(r)' /\ enabled
  BY <1>1 DEF Checked, Called
<1>3. \A q \in Requests : Called(q)' = Called(q)
  BY <1>1, <1>2 DEF Called
<1>4. Checked'
  BY <1>1, <1>2, <1>3 DEF Checked
<1>5. Accounted'
  BY <1>3, Zenon DEF Accounted
<1> QED BY <1>4, <1>5

LEMMA CallsNext ==
    ASSUME TypeOK, Checked, Accounted, [Next]_vars
    PROVE  Checked' /\ Accounted'
<1> USE DEF Answers, Unshared, guardVars
<1>1. CASE Tick \/ UNCHANGED vars
  <2>1. UNCHANGED <<enabled, pc, request, answer, admitted>>
    BY <1>1 DEF Tick, vars
  <2>2. \A r \in Requests : Called(r)' = Called(r)
    BY <2>1 DEF Called, At
  <2>3. Checked'
    BY <2>1, <2>2 DEF Checked, At
  <2>4. Accounted'
    BY <2>1, <2>2, Zenon DEF Accounted
  <2> QED BY <2>3, <2>4
<1>2. ASSUME NEW r \in Requests, NEW route, NEW flaws, Arrive(r, route, flaws)
      PROVE  Checked' /\ Accounted'
  BY <1>2, CallsArrive
<1>3. ASSUME NEW r \in Requests, HandleAISummarize(r)
      PROVE  Checked' /\ Accounted'
  BY <1>3, GoesOn, AnsweredWithout DEF HandleAISummarize, SummarizeChange, Serves, At
<1>4. ASSUME NEW r \in Requests, HandleAISummarizeDiff(r)
      PROVE  Checked' /\ Accounted'
  BY <1>4, GoesOn, AnsweredWithout DEF HandleAISummarizeDiff, SummarizeDiff, Serves, At
<1>5. ASSUME NEW r \in Requests, HandleAIAnomalies(r)
      PROVE  Checked' /\ Accounted'
  <2>1. Serves(r, "anomalies") => request[r].flaws = {}
    BY FlawsOfRoute DEF TypeOK, Serves
  <2> QED BY <1>5, <2>1, GoesOn, AnsweredWithout
          DEF HandleAIAnomalies, AnalyzeChanges, Serves, At
<1>6. ASSUME NEW r \in Requests, HandleAIQuery(r)
      PROVE  Checked' /\ Accounted'
  <2>1. Serves(r, "query") =>
          request[r].flaws \subseteq {"body", "empty", "too long", "injection", "off topic"}
    BY FlawsOfRoute DEF TypeOK, Serves
  <2>2. CASE Respond(r, "bad request")
    BY <1>6, <2>2, AnsweredWithout DEF HandleAIQuery, Serves, At
  <2>3. CASE ~Respond(r, "bad request")
    <3>1. Goto(r, "gather") /\ Serves(r, "query") /\ request[r].flaws = {}
      BY <1>6, <2>1, <2>3 DEF HandleAIQuery, ValidateQuestion
    <3> QED BY <1>6, <3>1, GoesOn DEF HandleAIQuery, Serves, At
  <2> QED BY <2>2, <2>3
<1>7. ASSUME NEW r \in Requests, Ask(r)
      PROVE  Checked' /\ Accounted'
  BY <1>7, GoesOn DEF Ask, At
<1>8. ASSUME NEW r \in Requests, Complete(r)
      PROVE  Checked' /\ Accounted'
  BY <1>8, CallsComplete
<1>9. ASSUME NEW r \in Requests, ProviderReplies(r) \/ ProviderFails(r)
      PROVE  Checked' /\ Accounted'
  BY <1>9, CallsEnd DEF ProviderReplies, ProviderFails
<1> QED BY <1>1, <1>2, <1>3, <1>4, <1>5, <1>6, <1>7, <1>8, <1>9 DEF Next, Handle

-----------------------------------------------------------------------------
(* Theorems *)

\* The invariant of the guard and of the requests holds in every state.
THEOREM Invariance == Spec => []IndInv
<1>1. Init => IndInv
  BY InitInv, CallsInit DEF IndInv
<1>2. IndInv /\ [Next]_vars => IndInv'
  BY NextInv, CallsNext DEF IndInv, GuardInv
<1> QED BY <1>1, <1>2, PTL DEF Spec

\* Quota is spent on calls of the provider only, once for each, never on bad
\* input or on a request that was answered without the provider.
THEOREM QuotaSpentOnCalls == Spec => []QuotaIsForCalls
<1>1. IndInv => QuotaIsForCalls
  <2> SUFFICES ASSUME IndInv, Limit > 0, NEW r \in Requests
               PROVE  /\ Called(r) => request[r].flaws = {} /\ enabled
                      /\ Cardinality({e \in admitted : e.id = r}) =
                             IF Called(r) THEN 1 ELSE 0
    BY DEF QuotaIsForCalls
  <2> DEFINE own == {e \in admitted : e.id = r}
  <2>1. Called(r) => request[r].flaws = {} /\ enabled
    BY DEF IndInv, Checked, Called, At
  <2>2. IF Called(r) THEN \E e \in own : own = {e} ELSE own = {}
    BY DEF IndInv, Accounted
  <2> HIDE DEF own
  <2>3. Cardinality(own) = IF Called(r) THEN 1 ELSE 0
    <3>1. CASE Called(r)
      BY <2>2, <3>1, FS_Singleton
    <3>2. CASE ~Called(r)
      BY <2>2, <3>2, FS_EmptySet
    <3> QED BY <3>1, <3>2
  <2> QED BY <2>1, <2>3 DEF own
<1> QED BY <1>1, Invariance, PTL

\* No minute of any behaviour sees more than Limit admissions, however many
\* requests run and however they interleave (guardrails.go, checkRateLimit).
THEOREM AtMostLimitAMinute == Spec => []WindowBound
<1>1. IndInv => WindowBound
  BY DEF IndInv, GuardInv
<1> QED BY <1>1, Invariance, PTL

\* The guard refuses a request only if the last minute did admit Limit others:
\* neither refused requests nor old ones count.
THEOREM NoSpuriousRefusal == Spec => RefusedOnlyWhenFull
<1> DEFINE P == \A r \in Requests :
                  answer[r] # "refused" /\ answer'[r] = "refused" =>
                      Cardinality(AdmittedIn(now - Window, now)) >= Limit
<1>1. IndInv /\ [Next]_vars => [P]_vars
  <2> SUFFICES ASSUME GuardInv, Next, NEW q \in Requests,
                      answer[q] # "refused", answer'[q] = "refused"
               PROVE  Cardinality(AdmittedIn(now - Window, now)) >= Limit
    BY DEF IndInv, vars
  <2>1. Fresh = AdmittedIn(now - Window, now)
    BY FreshIsLastMinute DEF GuardInv
  <2>2. PICK r \in Requests : Complete(r)
    <3>1. ASSUME NEW r \in Requests, NEW a, a # "refused", Respond(r, a) PROVE FALSE
      BY <3>1 DEF Respond, GuardInv, TypeOK
    <3> USE <3>1 DEF Goto
    <3>2. ~Tick
      BY DEF Tick
    <3>3. ASSUME NEW r \in Requests, NEW route \in Routes, NEW flaws,
                 Arrive(r, route, flaws)
          PROVE  FALSE
      BY <3>3 DEF Arrive
    <3>4. ASSUME NEW r \in Requests,
                 \/ HandleAISummarize(r) \/ HandleAISummarizeDiff(r)
                 \/ HandleAIAnomalies(r) \/ HandleAIQuery(r) \/ Ask(r)
                 \/ ProviderReplies(r) \/ ProviderFails(r)
          PROVE  FALSE
      BY <3>4 DEF HandleAISummarize, HandleAISummarizeDiff, HandleAIAnomalies,
                  HandleAIQuery, Ask, ProviderReplies, ProviderFails,
                  SummarizeChange, SummarizeDiff, AnalyzeChanges
    <3> QED BY <3>2, <3>3, <3>4 DEF Next, Handle
  <2>3. Limit # 0 /\ Cardinality(Fresh) >= Limit
    BY <2>2 DEF Complete, CheckRateLimit, Goto, Admit
  <2> QED BY <2>1, <2>3
<1> QED BY <1>1, Invariance, PTL DEF Spec, RefusedOnlyWhenFull
=============================================================================
