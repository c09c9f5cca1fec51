--------------------------- MODULE RetentionProofs ---------------------------
(***************************************************************************)
(* What a purge leaves of a history: for one watcher whose reads succeed,  *)
(* whatever else fails, any number of objects, policies and ages, the      *)
(* revisions left are a run without gaps that ends where the index says.   *)
(***************************************************************************)
EXTENDS Retention, RecorderProofs

-----------------------------------------------------------------------------
(* Numbers *)

\* What is left of a run when its lower part is taken is a run again.
LEMMA UpperPart ==
    ASSUME NEW a \in Nat, NEW b \in Nat, NEW T \in SUBSET (a..b), T # {},
           \A m \in T : \A n \in a..b : m <= n => n \in T
    PROVE  \E first \in T : T = first..b
<1>1. T \in SUBSET Nat
  OBVIOUS
<1>2. PICK m \in T : \A n \in T : m <= n
  BY <1>1, LeastElement
<1>3. \A n \in T : n \in m..b
  BY <1>2
<1>4. ASSUME NEW n \in m..b PROVE n \in T
  <2>1. m \in Nat /\ n \in a..b /\ m <= n
    BY <1>1, <1>2
  <2> QED BY <1>2, <2>1
<1>5. T = m..b
  BY <1>3, <1>4
<1> QED BY <1>5

-----------------------------------------------------------------------------
(* Steps *)

LEMMA InitSuffix == RetentionInit => SuffixInv
<1> SUFFICES ASSUME RetentionInit PROVE SuffixInv
  OBVIOUS
<1> USE DEF RetentionInit, Init, StoreInit
<1>1. (CHOOSE u \in UIDs : TRUE) \in UIDs
  BY UIDsAssumption
<1>2. Shapes
  BY <1>1 DEF Shapes, NoJob
<1>3. NextChosen /\ TimeFollowsRevision /\ HandlerIsLatest /\ UnpublishedIsLast
  BY DEF NextChosen, TimeFollowsRevision, HandlerIsLatest, UnpublishedIsLast
<1>4. HistoryIsSuffix
  BY DEF HistoryIsSuffix, Revisions, RowsOf
<1> QED BY <1>2, <1>3, <1>4 DEF SuffixInv

\* A step that leaves the store and its timestamps alone, and every handler
\* where it was, at rest, or at the start of a call.
LEMMA QuietSuffix ==
    ASSUME SuffixInv, Shapes',
           UNCHANGED <<rows, current, stamp>>,
           \A h \in Watchers :
               \/ pc'[h] = "idle"
               \/ pc'[h] = "get" /\ now'[h] = clock
               \/ pc'[h] = pc[h] /\ job'[h] = job[h] /\ now'[h] = now[h]
    PROVE  SuffixInv'
<1>1. NextChosen'
  BY DEF SuffixInv, NextChosen
<1>2. TimeFollowsRevision' /\ HistoryIsSuffix'
  BY DEF SuffixInv, TimeFollowsRevision, HistoryIsSuffix, Revisions, RowsOf
<1>3. HandlerIsLatest'
  BY DEF SuffixInv, Shapes, HandlerIsLatest
<1>4. UnpublishedIsLast'
  BY DEF SuffixInv, UnpublishedIsLast, RowsOf
<1> QED BY <1>1, <1>2, <1>3, <1>4 DEF SuffixInv

LEMMA TickSuffix == ASSUME SuffixInv, Tick PROVE SuffixInv'
<1> USE DEF Tick, vars
<1>1. Shapes'
  BY DEF SuffixInv, Shapes
<1> QED BY <1>1, QuietSuffix

\* Informers and the cluster do not touch the store or the handlers.
LEMMA OutsideSuffix ==
    ASSUME SuffixInv, UNCHANGED <<storeVars, handlerVars, clock, stamp, now>>
    PROVE  SuffixInv'
<1> USE DEF storeVars, handlerVars
<1>1. Shapes'
  BY DEF SuffixInv, Shapes
<1> QED BY <1>1, QuietSuffix

\* An event: the handler returns early or begins a call at the present time.
LEMMA ReceiveSuffix ==
    ASSUME SuffixInv, NEW h \in Watchers, Receive(h)
    PROVE  SuffixInv'
<1>1. /\ UNCHANGED <<rows, current, clock, stamp>>
      /\ \/ UNCHANGED handlerVars /\ pc[h] = "idle"
         \/ \E event, old, new : \E u \in UIDs : Begin(h, event, u, old, new)
  BY DEF Receive, Deliver, OnAddInitial, OnAdd, OnUpdate, OnDelete, Observe, Ready, storeVars
<1>2. now' = [now EXCEPT ![h] = IF pc'[h] = "idle" THEN 0 ELSE clock]
  BY DEF Receive
<1>3. now' \in [Watchers -> 0..clock]
  BY <1>2 DEF SuffixInv, Shapes
<1>4. CASE UNCHANGED handlerVars /\ pc[h] = "idle"
  <2>1. Shapes'
    BY <1>1, <1>3, <1>4 DEF SuffixInv, Shapes, handlerVars
  <2>2. \A g \in Watchers : pc'[g] = "idle" \/ (pc'[g] = pc[g] /\ job'[g] = job[g] /\ now'[g] = now[g])
    BY <1>2, <1>4 DEF SuffixInv, Shapes, handlerVars
  <2> QED BY <1>1, <2>1, <2>2, QuietSuffix
<1>5. ASSUME NEW event, NEW old, NEW new, NEW u \in UIDs, Begin(h, event, u, old, new)
      PROVE  SuffixInv'
  <2>1. Shapes'
    BY <1>1, <1>3, <1>5 DEF SuffixInv, Shapes, Begin
  <2>2. pc'[h] = "get" /\ now'[h] = clock
    BY <1>2, <1>5 DEF SuffixInv, Shapes, Begin
  <2>3. \A g \in Watchers \ {h} : pc'[g] = pc[g] /\ job'[g] = job[g] /\ now'[g] = now[g]
    BY <1>2, <1>5 DEF SuffixInv, Shapes, Begin
  <2> QED BY <1>1, <2>1, <2>2, <2>3, QuietSuffix
<1> QED BY <1>1, <1>4, <1>5

\* The process ends: no handler is left at work.
LEMMA EndSuffix ==
    ASSUME SuffixInv, ProcessEnds
    PROVE  SuffixInv'
<1> USE DEF ProcessEnds, Crash, storeVars
<1>1. (CHOOSE u \in UIDs : TRUE) \in UIDs
  BY UIDsAssumption
<1>2. Shapes'
  BY <1>1 DEF SuffixInv, Shapes, NoJob
<1> QED BY <1>2, QuietSuffix

-----------------------------------------------------------------------------
(* Calls into the store *)

\* A handler that returns, whatever became of the index meanwhile.
LEMMA ReturnSuffix ==
    ASSUME SuffixInv, NEW h \in Watchers, Return(h), Work(h),
           UNCHANGED <<rows, current>>
    PROVE  SuffixInv'
<1>1. (CHOOSE u \in UIDs : TRUE) \in UIDs
  BY UIDsAssumption
<1>2. UNCHANGED <<clock, stamp>> /\ now' = [now EXCEPT ![h] = 0]
  BY DEF Work, Return, SuffixInv, Shapes
<1>3. Shapes'
  BY <1>1, <1>2 DEF Return, SuffixInv, Shapes, NoJob
<1>4. \A g \in Watchers :
        pc'[g] = "idle" \/ (pc'[g] = pc[g] /\ job'[g] = job[g] /\ now'[g] = now[g])
  BY <1>2 DEF Return, SuffixInv, Shapes
<1> QED BY <1>2, <1>3, <1>4, QuietSuffix

\* A handler that leaves the rows alone leaves the clock and the stamps alone.
LEMMA WorkTimes ==
    ASSUME SuffixInv, NEW h \in Watchers, Work(h), UNCHANGED rows
    PROVE  /\ UNCHANGED <<clock, stamp>>
           /\ pc'[h] # "idle" => UNCHANGED now
BY DEF Work, SuffixInv, Shapes

\* A handler goes on with the number after the one the index has.
LEMMA AdvanceSuffix ==
    ASSUME SuffixInv, NEW h \in Watchers, Work(h),
           UNCHANGED <<rows, current>>,
           pc[h] # "idle",
           NEW label \in {"latest", "store"}, pc' = [pc EXCEPT ![h] = label],
           NEW k, job' = [job EXCEPT ![h] = k],
           {"uid", "revision"} \subseteq DOMAIN k,
           k.uid = job[h].uid, k.revision = current[k.uid] + 1
    PROVE  SuffixInv'
<1>1. pc'[h] = label /\ job'[h] = k
  BY DEF SuffixInv, Shapes
<1>2. \A g \in Watchers \ {h} : pc'[g] = pc[g] /\ job'[g] = job[g]
  BY DEF SuffixInv, Shapes
<1>3. UNCHANGED <<clock, stamp, now>>
  BY <1>1, WorkTimes
<1>4. Shapes'
  BY <1>1, <1>2, <1>3 DEF SuffixInv, Shapes
<1>5. NextChosen'
  BY <1>1, <1>2 DEF SuffixInv, NextChosen
<1>6. TimeFollowsRevision' /\ HistoryIsSuffix'
  BY <1>3 DEF SuffixInv, TimeFollowsRevision, HistoryIsSuffix, Revisions, RowsOf
<1>7. HandlerIsLatest'
  BY <1>2, <1>3 DEF SuffixInv, HandlerIsLatest
<1>8. UnpublishedIsLast'
  BY <1>1, <1>2 DEF SuffixInv, UnpublishedIsLast, RowsOf
<1> QED BY <1>4, <1>5, <1>6, <1>7, <1>8 DEF SuffixInv

LEMMA LookupSuffix ==
    ASSUME SuffixInv, ReadsSucceed, NEW h \in Watchers, Work(h), Lookup(h)
    PROVE  SuffixInv'
<1> DEFINE found == current[job[h].uid]
           event == IF job[h].event = "LISTED" /\ ~(found > 0) THEN "CREATED" ELSE job[h].event
           k == [job[h] EXCEPT !.event = event, !.revision = found + 1]
<1>1. UNCHANGED <<rows, current>> /\ pc[h] = "get" /\ Proceed(h, found)
  BY DEF Lookup, ReadsSucceed, Fault, storeVars
<1>2. CASE Return(h)
  BY <1>1, <1>2, ReturnSuffix
<1>3. CASE ~Return(h)
  <2>1. PICK label \in {"latest", "store"} :
          pc' = [pc EXCEPT ![h] = label] /\ job' = [job EXCEPT ![h] = k]
    BY <1>1, <1>3 DEF Proceed, NextRevision, Goto
  <2>2. {"uid", "revision"} \subseteq DOMAIN k
    BY DEF SuffixInv, Shapes
  <2>3. k.uid = job[h].uid
    BY DEF SuffixInv, Shapes
  <2>4. k.revision = found + 1
    BY DEF SuffixInv, Shapes
  <2> HIDE DEF k
  <2>5. k.revision = current[k.uid] + 1
    BY <2>3, <2>4
  <2> HIDE DEF found
  <2> QED BY <1>1, <2>1, <2>2, <2>3, <2>5, AdvanceSuffix
<1> QED BY <1>2, <1>3

LEMMA ReadLatestSuffix ==
    ASSUME SuffixInv, NEW h \in Watchers, Work(h), ReadLatest(h)
    PROVE  SuffixInv'
<1>1. UNCHANGED <<rows, current>> /\ pc[h] = "latest"
  BY DEF ReadLatest, storeVars
<1>2. CASE Return(h)
  BY <1>1, <1>2, ReturnSuffix
<1>3. CASE ~Return(h)
  <2>1. PICK d :
          job' = [job EXCEPT ![h].event = "UPDATED", ![h].old = d]
    BY <1>3 DEF ReadLatest
  <2>2. pc' = [pc EXCEPT ![h] = "store"]
    BY <1>3 DEF ReadLatest, Goto
  <2> DEFINE k == [job[h] EXCEPT !.event = "UPDATED", !.old = d]
  <2>3. job' = [job EXCEPT ![h] = k]
    BY <2>1 DEF SuffixInv, Shapes
  <2>4. {"uid", "revision"} \subseteq DOMAIN k
    BY DEF SuffixInv, Shapes
  <2>5. k.uid = job[h].uid /\ k.revision = job[h].revision
    BY DEF SuffixInv, Shapes
  <2>6. k.revision = current[k.uid] + 1
    BY <1>1, <2>5 DEF SuffixInv, NextChosen
  <2> HIDE DEF k
  <2> QED BY <1>1, <2>2, <2>3, <2>4, <2>5, <2>6, AdvanceSuffix
<1> QED BY <1>2, <1>3

\* The revision a handler holds is the next one: with one watcher, an INSERT
\* that succeeds extends the run by one and carries the latest time.
LEMMA InsertSuffix ==
    ASSUME SuffixInv, OneRecorder, NEW h \in Watchers, Work(h),
           pc[h] = "store", StoreRevision(RevisionOf(h)), Goto(h, "index"), UNCHANGED job
    PROVE  SuffixInv'
<1> DEFINE row == RevisionOf(h)
           u == job[h].uid
           n == current[u] + 1
<1>1. u \in UIDs /\ current[u] \in Nat /\ row.uid = u /\ row.revision = n
  BY DEF SuffixInv, Shapes, NextChosen, RevisionOf
<1>2. /\ rows' = rows \cup {row} /\ current' = current
      /\ \A r \in rows : ~(r.uid = u /\ r.revision = n)
  BY <1>1 DEF StoreRevision, Conflicts
<1>3. pc'[h] = "index" /\ \A g \in Watchers : g = h
  BY DEF SuffixInv, Shapes, Goto, OneRecorder
<1> HIDE DEF row
<1>4. row \notin rows
  BY <1>1, <1>2
<1>5. clock' = clock /\ now' = now /\ now[h] \in 0..clock
  BY <1>3 DEF Work, SuffixInv, Shapes
<1>6. /\ stamp' = [r \in rows' |-> IF r \in rows THEN stamp[r] ELSE now[h]]
      /\ \A r \in rows : stamp[r] <= now[h] /\ stamp[r] \in 0..clock
  BY DEF Work, Timestamp, SuffixInv, Shapes, HandlerIsLatest
<1>7. /\ stamp'[row] = now[h]
      /\ \A r \in rows : stamp'[r] = stamp[r]
  BY <1>2, <1>4, <1>6
<1>8. Shapes'
  <2>1. stamp' \in [rows' -> 0..clock]
    BY <1>5, <1>6
  <2> QED BY <1>1, <1>2, <1>5, <2>1 DEF SuffixInv, Shapes, Goto
<1>9. \A r \in RowsOf(u) : r.revision \in Nat /\ r.revision < n
  BY <1>1, <1>2 DEF SuffixInv, Shapes, HistoryIsSuffix, Revisions, RowsOf
<1>10. NextChosen'
  BY <1>1, <1>2, <1>3 DEF SuffixInv, NextChosen
<1>11. TimeFollowsRevision'
  <2> SUFFICES ASSUME NEW r \in rows', NEW s \in rows', r.uid = s.uid, r.revision <= s.revision
               PROVE  stamp'[r] <= stamp'[s]
    BY DEF TimeFollowsRevision
  <2>1. CASE r \in rows /\ s \in rows
    BY <1>7, <2>1 DEF SuffixInv, TimeFollowsRevision
  <2>2. CASE s = row
    BY <1>2, <1>5, <1>6, <1>7, <2>2
  <2>3. CASE r = row /\ s \in rows
    BY <1>1, <1>9, <2>3 DEF RowsOf
  <2> QED BY <1>2, <2>1, <2>2, <2>3
<1>12. HandlerIsLatest'
  BY <1>2, <1>3, <1>5, <1>6, <1>7 DEF HandlerIsLatest
<1>13. UnpublishedIsLast'
  <2>1. row \in RowsOf(u)' /\ row.revision = job'[h].revision /\ job'[h].uid = u
    BY <1>1, <1>2 DEF RowsOf, SuffixInv, NextChosen
  <2> QED BY <1>3, <2>1 DEF UnpublishedIsLast
<1>14. HistoryIsSuffix'
  <2> SUFFICES ASSUME NEW v \in UIDs, Revisions(v)' # {}
               PROVE  \E first \in Revisions(v)', last \in {current'[v], current'[v] + 1} :
                          Revisions(v)' = first..last
    BY DEF HistoryIsSuffix
  <2>1. CASE v # u
    <3>1. Revisions(v)' = Revisions(v)
      BY <1>1, <1>2, <2>1 DEF Revisions, RowsOf
    <3> QED BY <1>2, <3>1 DEF SuffixInv, HistoryIsSuffix
  <2>2. CASE v = u
    <3>1. Revisions(u)' = Revisions(u) \cup {n}
      BY <1>1, <1>2 DEF Revisions, RowsOf
    <3>2. CASE Revisions(u) = {}
      <4>1. Revisions(u)' = n..n
        BY <1>1, <3>1, <3>2
      <4> QED BY <1>1, <1>2, <2>2, <4>1
    <3>3. CASE Revisions(u) # {}
      <4>1. PICK first \in Revisions(u), last \in {current[u], current[u] + 1} :
              Revisions(u) = first..last
        BY <1>1, <3>3 DEF SuffixInv, HistoryIsSuffix
      <4>2. /\ first \in Nat /\ first < n
            /\ n \notin Revisions(u)
        BY <1>9 DEF Revisions
      <4>3. last = current[u]
        BY <1>1, <4>1, <4>2
      <4>4. Revisions(u)' = first..n
        BY <1>1, <3>1, <4>1, <4>2, <4>3
      <4> QED BY <1>2, <2>2, <3>1, <4>1, <4>4
    <3> QED BY <3>2, <3>3
  <2> QED BY <2>1, <2>2
<1> QED BY <1>8, <1>10, <1>11, <1>12, <1>13, <1>14 DEF SuffixInv

LEMMA SaveSuffix ==
    ASSUME SuffixInv, OneRecorder, NEW h \in Watchers, Work(h), Save(h)
    PROVE  SuffixInv'
<1>1. CASE StoreRevision(RevisionOf(h)) /\ Goto(h, "index") /\ UNCHANGED job
  BY <1>1, InsertSuffix DEF Save
<1>2. CASE Return(h) /\ UNCHANGED storeVars
  BY <1>2, ReturnSuffix DEF storeVars
<1> QED BY <1>1, <1>2 DEF Save

\* The index moves to the row just written, which a purge has left the last
\* one of the object, or has taken with all the others.
LEMMA PublishSuffix ==
    ASSUME SuffixInv, OneRecorder, NEW h \in Watchers, Work(h),
           pc[h] = "index", Return(h),
           UpsertTrackedResource(job[h].uid, job[h].revision)
    PROVE  SuffixInv'
<1> DEFINE u == job[h].uid
           n == current[u] + 1
<1>1. u \in UIDs /\ current[u] \in Nat /\ job[h].revision = n
  BY DEF SuffixInv, Shapes, NextChosen
<1>2. rows' = rows /\ current' = [current EXCEPT ![u] = n]
  BY <1>1 DEF UpsertTrackedResource
<1>3. \A g \in Watchers : g = h /\ pc'[g] = "idle"
  BY DEF SuffixInv, Shapes, Return, OneRecorder
<1>4. UNCHANGED <<clock, stamp>> /\ now' = [now EXCEPT ![h] = 0]
  BY <1>2, <1>3 DEF Work, SuffixInv, Shapes
<1>5. Shapes'
  <2>1. (CHOOSE v \in UIDs : TRUE) \in UIDs
    BY UIDsAssumption
  <2> QED BY <1>1, <1>2, <1>4, <2>1 DEF Return, SuffixInv, Shapes, NoJob
<1>6. NextChosen' /\ HandlerIsLatest' /\ UnpublishedIsLast'
  BY <1>3 DEF NextChosen, HandlerIsLatest, UnpublishedIsLast
<1>7. TimeFollowsRevision'
  BY <1>2, <1>4 DEF SuffixInv, TimeFollowsRevision
<1>8. HistoryIsSuffix'
  <2> SUFFICES ASSUME NEW v \in UIDs, Revisions(v) # {}
               PROVE  \E first \in Revisions(v), last \in {current'[v], current'[v] + 1} :
                          Revisions(v) = first..last
    BY <1>2 DEF HistoryIsSuffix, Revisions, RowsOf
  <2>1. PICK first \in Revisions(v), last \in {current[v], current[v] + 1} :
          Revisions(v) = first..last
    BY DEF SuffixInv, HistoryIsSuffix
  <2>2. CASE v # u
    BY <1>1, <1>2, <2>1, <2>2 DEF SuffixInv, Shapes
  <2>3. CASE v = u
    <3>1. n \in Revisions(u)
      BY <1>1, <2>3 DEF SuffixInv, UnpublishedIsLast, Revisions
    <3>2. last = n
      BY <1>1, <2>1, <2>3, <3>1
    <3>3. current'[u] = n
      BY <1>1, <1>2 DEF SuffixInv, Shapes
    <3> QED BY <2>1, <2>3, <3>2, <3>3
  <2> QED BY <2>2, <2>3
<1> QED BY <1>5, <1>6, <1>7, <1>8 DEF SuffixInv

LEMMA IndexSuffix ==
    ASSUME SuffixInv, OneRecorder, NEW h \in Watchers, Work(h), Index(h)
    PROVE  SuffixInv'
<1>1. CASE UNCHANGED <<rows, current>>
  BY <1>1, ReturnSuffix DEF Index
<1>2. CASE UpsertTrackedResource(job[h].uid, job[h].revision)
  BY <1>2, PublishSuffix DEF Index
<1> QED BY <1>1, <1>2 DEF Index, MarkDeleted, storeVars

-----------------------------------------------------------------------------
(* The purge *)

\* Rows are deleted by time, and time follows revision.
LEMMA PurgeTakesOldest ==
    ASSUME SuffixInv, NEW p \in Policies, Purge(p)
    PROVE  /\ rows' \in SUBSET rows
           /\ \A r \in rows' : \A s \in rows :
                  r.uid = s.uid /\ r.revision <= s.revision => s \in rows'
<1>1. rows' \in SUBSET rows
  BY DEF Purge
<1>2. /\ p \in Purging => MaxAge[p] \in Nat
      /\ clock \in Nat /\ stamp \in [rows -> 0..clock]
  BY RetentionAssumption DEF SuffixInv, Shapes, Purging
<1>3. ASSUME NEW r \in rows', NEW s \in rows, r.uid = s.uid, r.revision <= s.revision
      PROVE  s \in rows'
  <2>1. stamp[r] <= stamp[s] /\ stamp[r] \in Nat /\ stamp[s] \in Nat
    BY <1>1, <1>2, <1>3 DEF SuffixInv, TimeFollowsRevision
  <2> QED BY <1>2, <2>1 DEF Purge, Old
<1> QED BY <1>1, <1>3

\* What is left of an object's run is its upper part.
LEMMA PurgeSuffix ==
    ASSUME SuffixInv, NEW p \in Policies, Purge(p)
    PROVE  SuffixInv'
<1>1. /\ UNCHANGED <<current, clock, now, pc, job>>
      /\ rows' \in SUBSET rows
      /\ stamp' = [r \in rows' |-> stamp[r]]
  BY DEF Purge, handlerVars
<1>2. clock \in Nat /\ stamp \in [rows -> 0..clock]
  BY DEF SuffixInv, Shapes
<1>3. ASSUME NEW r \in rows', NEW s \in rows, r.uid = s.uid, r.revision <= s.revision
      PROVE  s \in rows'
  BY <1>3, PurgeTakesOldest
<1>4. Shapes'
  BY <1>1, <1>2 DEF SuffixInv, Shapes
<1>5. NextChosen'
  BY <1>1 DEF SuffixInv, NextChosen
<1>6. TimeFollowsRevision' /\ HandlerIsLatest'
  BY <1>1 DEF SuffixInv, TimeFollowsRevision, HandlerIsLatest
<1>7. HistoryIsSuffix'
  <2> SUFFICES ASSUME NEW u \in UIDs, Revisions(u)' # {}
               PROVE  \E first \in Revisions(u)', last \in {current[u], current[u] + 1} :
                          Revisions(u)' = first..last
    BY <1>1 DEF HistoryIsSuffix
  <2>1. Revisions(u)' \in SUBSET Revisions(u)
    BY <1>1 DEF Revisions, RowsOf
  <2>2. PICK first \in Revisions(u), last \in {current[u], current[u] + 1} :
          Revisions(u) = first..last
    BY <2>1 DEF SuffixInv, HistoryIsSuffix
  <2>3. first \in Nat /\ last \in Nat
    BY <2>2 DEF SuffixInv, Shapes, Revisions, RowsOf
  <2>4. \A m \in Revisions(u)' : \A n \in first..last : m <= n => n \in Revisions(u)'
    BY <1>1, <1>3, <2>2 DEF Revisions, RowsOf
  <2>5. \E low \in Revisions(u)' : Revisions(u)' = low..last
    BY <2>1, <2>2, <2>3, <2>4, UpperPart
  <2> QED BY <2>5
<1>8. UnpublishedIsLast'
  <2> SUFFICES ASSUME NEW h \in Watchers, pc[h] = "index", NEW r \in rows', r.uid = job[h].uid
               PROVE  \E s \in rows' : s.uid = job[h].uid /\ s.revision = job[h].revision
    BY <1>1 DEF UnpublishedIsLast, RowsOf
  <2> DEFINE u == job[h].uid
  <2>1. /\ u \in UIDs /\ current[u] \in Nat /\ job[h].revision = current[u] + 1
        /\ r \in RowsOf(u)
    BY <1>1 DEF SuffixInv, Shapes, NextChosen, RowsOf
  <2>2. PICK s \in RowsOf(u) : s.revision = current[u] + 1
    BY <2>1 DEF SuffixInv, UnpublishedIsLast
  <2>3. r.revision <= s.revision
    <3>1. r.revision \in Revisions(u)
      BY <2>1 DEF Revisions
    <3>2. PICK first \in Revisions(u), last \in {current[u], current[u] + 1} :
            Revisions(u) = first..last
      BY <2>1, <3>1 DEF SuffixInv, HistoryIsSuffix
    <3> QED BY <2>1, <2>2, <3>1, <3>2
  <2> QED BY <1>3, <2>1, <2>2, <2>3 DEF RowsOf
<1> QED BY <1>4, <1>5, <1>6, <1>7, <1>8 DEF SuffixInv

-----------------------------------------------------------------------------

LEMMA NextSuffix ==
    ASSUME SuffixInv, OneRecorder, ReadsSucceed, [RetentionNext]_allVars
    PROVE  SuffixInv'
<1>1. CASE UNCHANGED allVars
  BY <1>1, OutsideSuffix DEF allVars, vars, retentionVars, storeVars, handlerVars
<1>2. CASE Tick
  BY <1>2, TickSuffix
<1>3. CASE Cluster /\ UNCHANGED retentionVars
  BY <1>3, OutsideSuffix DEF Cluster, Write, Remove, retentionVars
<1>4. ASSUME NEW h \in Watchers, List(h) \/ Exit(h), UNCHANGED retentionVars
      PROVE  SuffixInv'
  BY <1>4, OutsideSuffix DEF List, Exit, retentionVars
<1>5. ASSUME NEW h \in Watchers, Receive(h)
      PROVE  SuffixInv'
  BY <1>5, ReceiveSuffix
<1>6. ASSUME NEW h \in Watchers, Work(h)
      PROVE  SuffixInv'
  BY <1>6, LookupSuffix, ReadLatestSuffix, SaveSuffix, IndexSuffix DEF Work, Handle
<1>7. ASSUME NEW p \in Policies, Requeue(p) \/ PolicyDeleted(p)
      PROVE  SuffixInv'
  BY <1>7, OutsideSuffix
     DEF Requeue, PolicyDeleted, Reconcile, StopPolicy, vars, retentionVars, storeVars, handlerVars
<1>8. ASSUME NEW p \in Policies, Purge(p)
      PROVE  SuffixInv'
  BY <1>8, PurgeSuffix
<1>9. CASE ProcessEnds
  BY <1>9, EndSuffix
<1> QED BY <1>1, <1>2, <1>3, <1>4, <1>5, <1>6, <1>7, <1>8, <1>9 DEF RetentionNext

\* The invariant holds in every state.
THEOREM RetentionInvariance ==
    ASSUME OneRecorder, ReadsSucceed
    PROVE  RetentionSpec => []SuffixInv
<1>1. SuffixInv /\ [RetentionNext]_allVars => SuffixInv'
  BY NextSuffix
<1> QED BY InitSuffix, <1>1, PTL DEF RetentionSpec

\* A purge never tears a history: whatever the ages, the policies and the
\* failed writes, what is left has no gaps and ends where the index says.
THEOREM PurgeLeavesSuffix ==
    ASSUME OneRecorder, ReadsSucceed
    PROVE  RetentionSpec => []HistoryIsSuffix
<1>1. SuffixInv => HistoryIsSuffix
  BY DEF SuffixInv
<1> QED BY RetentionInvariance, <1>1, PTL
=============================================================================
