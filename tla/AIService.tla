------------------------------ MODULE AIService ------------------------------
(***************************************************************************)
(* The AI routes of the API server (internal/server/ai_handlers.go), the   *)
(* guard they share (internal/ai/guardrails.go) and the language model     *)
(* behind it (internal/ai/provider.go).                                    *)
(*                                                                         *)
(* net/http runs every request in a goroutine of its own:                  *)
(*                                                                         *)
(*   idle --> handler --> (second | gather) --> limit --> provider --> done*)
(*                                                                         *)
(* one step for each call that leaves the goroutine: a read of the store,  *)
(* the guard's critical section, the exchange with the provider.  All      *)
(* requests share reqTimes, which rateMu protects.                         *)
(***************************************************************************)
EXTENDS Integers, FiniteSets

CONSTANTS
    Requests,   \* requests, each made once
    Limit,      \* GuardrailsConfig.MaxRequestsPerMinute
    Window,     \* a minute, in ticks of the clock
    MaxTime     \* bound on the clock

ASSUME RateAssumption == Limit \in Nat /\ Window \in Nat

VARIABLES
    enabled,    \* whether the server has a provider (s.ai # nil)
    now,        \* time.Now()
    pc,         \* pc[r]: where the goroutine of r is
    request,    \* request[r]: its route, and what is wrong with its input
    answer,     \* answer[r]: what it was answered
    reqTimes,   \* GuardedProvider.reqTimes, each time with its request
    admitted    \* auxiliary: every entry reqTimes ever had

vars == <<enabled, now, pc, request, answer, reqTimes, admitted>>
guardVars == <<reqTimes, admitted>>

Stages == {"idle", "handler", "second", "gather", "limit", "provider", "done"}

\* 503, 400, 404, and the three kinds of 500: the store, the guard, the provider.
Answers == {"none", "unavailable", "bad request", "not found", "store error",
            "refused", "provider error", "no changes", "completed"}

Routes == {"summarize", "diff", "anomalies", "query"}

\* What can be wrong with the input of each route.
Flaws(route) ==
    CASE route = "summarize" -> {"revision"}
      [] route = "diff"      -> {"from", "to"}
      [] route = "anomalies" -> {}
      [] route = "query"     -> {"body", "empty", "too long", "injection", "off topic"}

Request == UNION {[route : {route}, flaws : SUBSET Flaws(route)] : route \in Routes}

NoRequest == [route |-> "anomalies", flaws |-> {}]

Entry == [id : Requests, time : Nat]

TypeOK ==
    /\ enabled \in BOOLEAN
    /\ now \in Nat
    /\ pc \in [Requests -> Stages]
    /\ request \in [Requests -> Request]
    /\ answer \in [Requests -> Answers]
    /\ reqTimes \subseteq Entry
    /\ admitted \subseteq Entry

Init ==
    /\ enabled \in BOOLEAN
    /\ now = 0
    /\ pc = [r \in Requests |-> "idle"]
    /\ request = [r \in Requests |-> NoRequest]
    /\ answer = [r \in Requests |-> "none"]
    /\ reqTimes = {}
    /\ admitted = {}

Tick ==
    /\ now < MaxTime
    /\ now' = now + 1
    /\ UNCHANGED <<enabled, pc, request, answer, guardVars>>

-----------------------------------------------------------------------------
(* The handlers *)

At(r, stage) == pc[r] = stage

Serves(r, route) == At(r, "handler") /\ request[r].route = route

Goto(r, stage) ==
    /\ pc' = [pc EXCEPT ![r] = stage]
    /\ UNCHANGED <<request, answer>>

\* The goroutine ends, and its locals with it.
Respond(r, a) ==
    /\ pc' = [pc EXCEPT ![r] = "done"]
    /\ answer' = [answer EXCEPT ![r] = a]
    /\ request' = [request EXCEPT ![r] = NoRequest]

Unshared == UNCHANGED <<enabled, now, guardVars>>

\* A request arrives, with at most one flaw: the first one found is answered.
\* requireAI: without a provider every route answers 503.
Arrive(r, route, flaws) ==
    /\ At(r, "idle")
    /\ IF enabled
       THEN /\ pc' = [pc EXCEPT ![r] = "handler"]
            /\ request' = [request EXCEPT ![r] = [route |-> route, flaws |-> flaws]]
            /\ UNCHANGED answer
       ELSE Respond(r, "unavailable")
    /\ Unshared

\* SummarizeChange and SummarizeDiff put their input into a prompt and complete it.
SummarizeChange(r) == Goto(r, "limit")
SummarizeDiff(r) == Goto(r, "limit")

\* AnalyzeChanges reports an empty history without asking the provider.
AnalyzeChanges(r) == Respond(r, "no changes") \/ Goto(r, "limit")

\* handleAISummarize reads one revision.
HandleAISummarize(r) ==
    /\ Serves(r, "summarize")
    /\ IF request[r].flaws # {} THEN Respond(r, "bad request")
       ELSE \/ Respond(r, "store error")
            \/ Respond(r, "not found")
            \/ SummarizeChange(r)
    /\ Unshared

\* handleAISummarizeDiff reconstructs two revisions; the error of the
\* GetTrackedResource between them and the prompt is ignored.
HandleAISummarizeDiff(r) ==
    /\ \/ /\ Serves(r, "diff")
          /\ IF request[r].flaws # {} THEN Respond(r, "bad request")
             ELSE Respond(r, "store error") \/ Goto(r, "second")
       \/ /\ At(r, "second")
          /\ Respond(r, "store error") \/ SummarizeDiff(r)
    /\ Unshared

\* handleAIAnomalies reads the recent history.
HandleAIAnomalies(r) ==
    /\ Serves(r, "anomalies")
    /\ Respond(r, "store error") \/ AnalyzeChanges(r)
    /\ Unshared

\* Mutant: a check for prompt injection that lets any other topic pass.
ValidateInjectionOnly(flaws) == "injection" \notin flaws

\* ValidateQuestion: no known injection pattern, and some Kubernetes keyword.
ValidateQuestion(flaws) == flaws \cap {"empty", "injection", "off topic"} = {}

\* handleAIQuery validates the question before anything is read.
HandleAIQuery(r) ==
    /\ Serves(r, "query")
    /\ LET flaws == request[r].flaws IN
       IF flaws \cap {"body", "empty", "too long"} # {} \/ ~ValidateQuestion(flaws)
       THEN Respond(r, "bad request")
       ELSE Goto(r, "gather")
    /\ Unshared

\* Ask gathers the context from four reads; a read that fails is left out, so
\* gathering never does.
Ask(r) ==
    /\ At(r, "gather")
    /\ Goto(r, "limit")
    /\ Unshared

-----------------------------------------------------------------------------
(* The guard and the provider *)

\* Mutants: nothing expires; an entry expires a tick too early.
NoneExpires == reqTimes
FreshTooStrict == {e \in reqTimes : e.time > now - Window + 1}

\* The entries that are After(now - 1 minute); the others are dropped.
Fresh == {e \in reqTimes : e.time > now - Window}

\* Mutant: no mutex; another goroutine's append overwrites this one.
AdmitUnrecorded(r) ==
    /\ reqTimes' = Fresh
    /\ admitted' = admitted \cup {[id |-> r, time |-> now]}
    /\ Goto(r, "provider")

Admit(r) ==
    /\ reqTimes' = Fresh \cup {[id |-> r, time |-> now]}
    /\ admitted' = admitted \cup {[id |-> r, time |-> now]}
    /\ Goto(r, "provider")

Refuse(r) ==
    /\ reqTimes' = Fresh
    /\ UNCHANGED admitted
    /\ Respond(r, "refused")

\* checkRateLimit, under rateMu; a limit of 0 disables it.
CheckRateLimit(r) ==
    IF Limit = 0 THEN Goto(r, "provider") /\ UNCHANGED guardVars
    ELSE IF Cardinality(Fresh) >= Limit THEN Refuse(r)
    ELSE Admit(r)

\* GuardedProvider.Complete up to the call of the inner provider; redaction and
\* the hardened prompt change texts only.
Complete(r) ==
    /\ At(r, "limit")
    /\ CheckRateLimit(r)
    /\ UNCHANGED <<enabled, now>>

\* openAIProvider.Complete: a reply with a choice (external: it may never come).
ProviderReplies(r) ==
    /\ At(r, "provider")
    /\ Respond(r, "completed")
    /\ Unshared

\* Mutant: an http.Client without a Timeout; only what the provider sends counts.
NeverTimesOut(r) == FALSE

\* openAIProvider.Complete: no connection, the client's 5 minutes, a status
\* other than 200, an error body, or no choices.  The quota is not given back.
ProviderFails(r) ==
    /\ At(r, "provider")
    /\ Respond(r, "provider error")
    /\ Unshared

Handle(r) ==
    \/ HandleAISummarize(r)
    \/ HandleAISummarizeDiff(r)
    \/ HandleAIAnomalies(r)
    \/ HandleAIQuery(r)
    \/ Ask(r)
    \/ Complete(r)

Next ==
    \/ Tick
    \/ \E r \in Requests :
        \/ \E route \in Routes :
               \E flaws \in {{}} \cup {{f} : f \in Flaws(route)} : Arrive(r, route, flaws)
        \/ Handle(r)
        \/ ProviderReplies(r)
        \/ ProviderFails(r)

Spec == Init /\ [][Next]_vars

\* The goroutine of a request runs on; the client's own time-out ends an
\* exchange the provider does not.  Nothing makes the provider reply.
Fairness ==
    \A r \in Requests : WF_vars(Handle(r)) /\ WF_vars(ProviderFails(r))

FairSpec == Spec /\ Fairness

-----------------------------------------------------------------------------
(* Properties *)

AdmittedIn(from, to) == {e \in admitted : from < e.time /\ e.time <= to}

\* README: "Rate limiting - 30 requests/minute per instance".  However the
\* requests interleave, no minute sees more than Limit of them admitted: the
\* window slides, it does not restart.
WindowBound ==
    Limit > 0 => \A t \in 0..now : Cardinality(AdmittedIn(t - Window, t)) <= Limit

\* A request is refused only if the last minute really had Limit admissions:
\* refused ones do not count, so a client that keeps retrying is not shut out.
RefusedOnlyWhenFull ==
    [][\A r \in Requests :
         answer[r] # "refused" /\ answer'[r] = "refused" =>
             Cardinality(AdmittedIn(now - Window, now)) >= Limit]_vars

\* The provider is, or was, asked for r.
Called(r) == At(r, "provider") \/ answer[r] \in {"completed", "provider error"}

\* The quota is spent on calls of the provider only, once for each, and none of
\* them is for a request with bad input or one that was answered without it.
QuotaIsForCalls ==
    Limit > 0 =>
      \A r \in Requests :
        /\ Called(r) => request[r].flaws = {} /\ enabled
        /\ Cardinality({e \in admitted : e.id = r}) = IF Called(r) THEN 1 ELSE 0

\* Every request is answered, even if the provider never replies.
EveryRequestAnswered == \A r \in Requests : ~At(r, "idle") ~> At(r, "done")

(***************************************************************************)
(* The inductive invariant behind WindowBound: what reqTimes has dropped   *)
(* can no longer share a minute with anything admitted from now on.        *)
(***************************************************************************)
Remembered ==
    /\ reqTimes \subseteq admitted
    /\ AdmittedIn(now - Window, now) \subseteq reqTimes
    /\ \A e \in admitted : e.time <= now

Bounded ==
    /\ IsFiniteSet(reqTimes)
    /\ Limit > 0 => Cardinality(reqTimes) <= Limit

GuardInv == TypeOK /\ Remembered /\ Bounded /\ WindowBound

(***************************************************************************)
(* The one behind QuotaIsForCalls: what is wrong with a request is found   *)
(* before it leaves its handler, and one that is called for has one entry. *)
(***************************************************************************)
Checked ==
    \A r \in Requests :
        /\ pc[r] \notin {"idle", "handler"} => request[r].flaws = {}
        /\ pc[r] \notin {"idle", "done"} \/ Called(r) => enabled
        /\ answer[r] # "none" => At(r, "done")

Accounted ==
    Limit > 0 =>
      \A r \in Requests :
        LET own == {e \in admitted : e.id = r} IN
        IF Called(r) THEN \E e \in own : own = {e} ELSE own = {}

IndInv == GuardInv /\ Checked /\ Accounted
=============================================================================
