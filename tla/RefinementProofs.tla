-------------------------- MODULE RefinementProofs --------------------------
(***************************************************************************)
(* The recorder implements HistoryLog, for all objects, watchers, policies *)
(* and faults: an INSERT extends a log, an upsert publishes, MarkDeleted   *)
(* closes, and nothing else shows.                                         *)
(***************************************************************************)
EXTENDS RecorderProofs, RecorderRefinement, SequenceTheorems

\* The log of an object, read off its rows.
LEMMA LogFacts ==
    ASSUME IndInv, NEW u \in UIDs
    PROVE  /\ TopRevision(u) \in {current[u], current[u] + 1}
           /\ TopRevision(u) \in Nat
           /\ Revisions(u) = 1..TopRevision(u)
           /\ LogOf(u) \in Seq(HL!Entry)
           /\ Len(LogOf(u)) = TopRevision(u)
           /\ \A r \in RowsOf(u) :
                  LogOf(u)[r.revision] = [event |-> r.event, doc |-> r.seen]
<1>1. current[u] \in Nat
  BY DEF IndInv, TypeOK, StoreTypeOK
<1>2. TopRevision(u) \in {current[u], current[u] + 1} /\ TopRevision(u) \in Nat
  BY <1>1 DEF TopRevision
<1>3. Revisions(u) = 1..TopRevision(u)
  BY <1>1 DEF TopRevision, IndInv, Gapless
<1>4. \A r \in RowsOf(u) : RowAt(u, r.revision) = r
  BY DEF RowAt, IndInv, KeysUnique, RowsOf
<1>5. \A n \in 1..TopRevision(u) : RowAt(u, n) \in RowsOf(u)
  BY <1>3, <1>4 DEF Revisions
<1>6. \A r \in RowsOf(u) : r.event \in EventTypes /\ r.seen \in Doc
  BY DEF RowsOf, IndInv, TypeOK, StoreTypeOK, Revision
<1>7. \A n \in 1..TopRevision(u) : EntryAt(u, n) \in HL!Entry
  BY <1>5, <1>6 DEF EntryAt, HL!Entry, EventTypes
<1>8. LogOf(u) \in [1..TopRevision(u) -> HL!Entry]
  BY <1>7 DEF LogOf
<1>9. LogOf(u) \in Seq(HL!Entry)
  BY <1>2, <1>8, SeqDef
<1>10. Len(LogOf(u)) = TopRevision(u)
  BY <1>2, <1>8, <1>9, LenProperties
<1>11. \A r \in RowsOf(u) : r.revision \in 1..TopRevision(u)
  BY <1>3 DEF Revisions
<1>12. \A r \in RowsOf(u) : LogOf(u)[r.revision] = [event |-> r.event, doc |-> r.seen]
  BY <1>4, <1>11 DEF LogOf, EntryAt
<1> QED BY <1>2, <1>3, <1>9, <1>10, <1>12

\* The log of an object is a function of its rows and of how many there are.
LEMMA LogUnchanged ==
    ASSUME NEW u \in UIDs,
           RowsOf(u)' = RowsOf(u), TopRevision(u)' = TopRevision(u)
    PROVE  LogOf(u)' = LogOf(u)
BY DEF LogOf, EntryAt, RowAt

LEMMA InitMaps == Init => HL!Init
<1> SUFFICES ASSUME Init PROVE HL!Init
  OBVIOUS
<1>1. \A u \in UIDs : TopRevision(u) = 0
  BY DEF Init, StoreInit, TopRevision, Revisions, RowsOf
<1>2. \A u \in UIDs : LogOf(u) = <<>>
  BY <1>1 DEF LogOf
<1> QED BY <1>2 DEF Init, StoreInit, HL!Init, Logs

\* A successful INSERT appends the handler's event to the object's log.
LEMMA InsertExtends ==
    ASSUME IndInv, IndInv', NEW h \in Watchers, pc[h] = "store",
           StoreRevision(RevisionOf(h))
    PROVE  HL!Next
<1>0. PICK u, rev : u = job[h].uid /\ rev = RevisionOf(h)
  OBVIOUS
<1> DEFINE e == [event |-> rev.event, doc |-> rev.seen]
<1>1. /\ rev \in Revision /\ rev.uid = u /\ rev.revision = current[u] + 1
      /\ Revisions(u) = 1..current[u]
  BY <1>0, IndHasBase, RevisionOfType, InsertIsNext DEF StoreRevision
<1>2. u \in UIDs /\ current[u] \in Nat
  BY <1>0 DEF IndInv, TypeOK, StoreTypeOK, Job
<1>3. rows' = rows \cup {rev} /\ current' = current /\ deleted' = deleted
  BY <1>0 DEF StoreRevision
<1>4. e \in HL!Entry
  BY <1>1 DEF HL!Entry, Revision, EventTypes
<1>5. TopRevision(u) = current[u]
  BY <1>1, <1>2 DEF TopRevision
<1>6. RowsOf(u)' = RowsOf(u) \cup {rev}
  BY <1>1, <1>3 DEF RowsOf
<1>7. TopRevision(u)' = current[u] + 1
  BY <1>1, <1>3, <1>6 DEF TopRevision, Revisions
<1>8. LogOf(u)' = Append(LogOf(u), e) /\ Len(LogOf(u)') = Len(LogOf(u)) + 1
  <2>0. PICK m \in Nat : m = current[u]
    BY <1>2
  <2>1. ASSUME NEW n \in 1..m PROVE EntryAt(u, n)' = EntryAt(u, n)
    <3>1. PICK r \in RowsOf(u) : r.revision = n
      BY <1>1, <2>0 DEF Revisions
    <3>2. RowAt(u, n) = r
      BY <3>1 DEF RowAt, IndInv, KeysUnique, RowsOf
    <3>3. RowAt(u, n)' = r
      BY <3>1, <1>6 DEF RowAt, IndInv, KeysUnique, RowsOf
    <3> QED BY <3>2, <3>3 DEF EntryAt
  <2>2. EntryAt(u, m + 1)' = e
    <3>1. (CHOOSE r \in RowsOf(u)' : r.revision = m + 1) = rev
      BY <1>1, <1>6, <2>0 DEF IndInv, KeysUnique, RowsOf
    <3> QED BY <3>1 DEF EntryAt, RowAt
  <2>3. LogOf(u)' = [n \in 1..(m + 1) |-> EntryAt(u, n)']
    BY <1>7, <2>0 DEF LogOf
  <2>4. PICK s \in Seq(HL!Entry) : s = LogOf(u) /\ Len(s) = m
    BY <1>2, <1>5, <2>0, LogFacts
  <2>5. \A n \in 1..m : s[n] = EntryAt(u, n)
    BY <1>5, <2>0, <2>4 DEF LogOf
  <2> HIDE DEF e
  <2>6. /\ Append(s, e) \in Seq(HL!Entry)
        /\ Len(Append(s, e)) = m + 1
        /\ \A n \in 1..m : Append(s, e)[n] = s[n]
        /\ Append(s, e)[m + 1] = e
    BY <1>4, <2>4, AppendProperties
  <2>7. Append(s, e) = [n \in 1..(m + 1) |-> Append(s, e)[n]]
    BY <2>6, LenProperties
  <2>8. \A n \in 1..(m + 1) : Append(s, e)[n] = EntryAt(u, n)'
    BY <2>0, <2>1, <2>2, <2>5, <2>6
  <2> QED BY <2>0, <2>3, <2>4, <2>6, <2>7, <2>8
<1>9. \A v \in UIDs \ {u} : LogOf(v)' = LogOf(v)
  <2> SUFFICES ASSUME NEW v \in UIDs \ {u} PROVE LogOf(v)' = LogOf(v)
    OBVIOUS
  <2>1. RowsOf(v)' = RowsOf(v)
    BY <1>1, <1>3 DEF RowsOf
  <2> QED BY <2>1, <1>3, LogUnchanged DEF TopRevision, Revisions
<1>10. Logs' = [Logs EXCEPT ![u] = Append(@, e)]
  BY <1>2, <1>8, <1>9 DEF Logs
<1>11. ~HL!Pending(u)
  BY <1>2, <1>5, LogFacts DEF HL!Pending, Logs
<1>12. HL!Extend(u, e)
  BY <1>3, <1>10, <1>11 DEF HL!Extend
<1>13. Len(Logs'[u]) > Len(Logs[u])
  <2>1. Logs'[u] = LogOf(u)' /\ Logs[u] = LogOf(u)
    BY <1>2 DEF Logs
  <2>2. Len(LogOf(u)) \in Nat
    BY <1>2, <1>5, LogFacts
  <2> QED BY <1>8, <2>1, <2>2
<1> QED BY <1>2, <1>4, <1>12, <1>13 DEF HL!Next

\* The handler's row is the one pending entry of the object's log.
LEMMA CommitterPending ==
    ASSUME IndInv, NEW h \in Watchers, pc[h] = "index"
    PROVE  LET u == job[h].uid IN
           /\ u \in UIDs /\ current[u] \in Nat
           /\ job[h].revision = current[u] + 1
           /\ Revisions(u) = 1..(current[u] + 1)
           /\ HL!Pending(u)
           /\ Logs[u][Len(Logs[u])].event = job[h].event
           /\ deleted[u] => job[h].event = "DELETED"
<1> DEFINE u == job[h].uid
           rev == RevisionOf(h)
<1>1. u \in UIDs /\ current[u] \in Nat
  BY DEF IndInv, TypeOK, StoreTypeOK, Job
<1>2. /\ job[h].revision = current[u] + 1
      /\ rev \in RowsOf(u) /\ rev.revision = current[u] + 1 /\ rev.event = job[h].event
  BY IndHasBase, RevisionOfType DEF IndInv, CommitterHoldsRow, RowsOf
<1>3. deleted[u] => job[h].event = "DELETED"
  BY <1>1, <1>2 DEF IndInv, DeletedHasRow, DeletionHoldsRevision, KeysUnique, RowsOf
<1> HIDE DEF rev, u
<1>4. TopRevision(u) = current[u] + 1
  BY <1>2 DEF TopRevision, Revisions
<1>5. Len(LogOf(u)) = current[u] + 1 /\ Revisions(u) = 1..(current[u] + 1)
  BY <1>1, <1>4, LogFacts
<1>6. LogOf(u)[current[u] + 1].event = job[h].event
  <2>1. PICK r : r = rev
    OBVIOUS
  <2>2. r \in RowsOf(u) /\ r.revision = current[u] + 1 /\ r.event = job[h].event
    BY <1>2, <2>1
  <2>3. LogOf(u)[r.revision] = [event |-> r.event, doc |-> r.seen]
    BY <1>1, <2>2, LogFacts
  <2> QED BY <2>2, <2>3
<1>7. Logs[u] = LogOf(u)
  BY <1>1 DEF Logs
<1>8. HL!Pending(u)
  BY <1>1, <1>5, <1>7 DEF HL!Pending
<1> QED BY <1>1, <1>2, <1>3, <1>5, <1>6, <1>7, <1>8 DEF u

LEMMA IndexMaps ==
    ASSUME IndInv, NEW h \in Watchers, Index(h)
    PROVE  [HL!Next]_HL!logVars
<1>0. PICK u : u = job[h].uid
  OBVIOUS
<1>1. /\ u \in UIDs /\ current[u] \in Nat
      /\ job[h].revision = current[u] + 1
      /\ Revisions(u) = 1..(current[u] + 1)
      /\ HL!Pending(u)
      /\ Logs[u][Len(Logs[u])].event = job[h].event
      /\ deleted[u] => job[h].event = "DELETED"
  BY <1>0, CommitterPending DEF Index
<1>2. rows' = rows
  BY DEF Index, MarkDeleted, UpsertTrackedResource, storeVars
<1>3. current \in [UIDs -> Nat] /\ deleted \in [UIDs -> BOOLEAN]
  BY DEF IndInv, TypeOK, StoreTypeOK
<1>4. \A v \in UIDs : RowsOf(v)' = RowsOf(v) /\ Revisions(v)' = Revisions(v)
  BY <1>2 DEF RowsOf, Revisions
<1>5. ASSUME \A v \in UIDs : TopRevision(v)' = TopRevision(v)
      PROVE  Logs' = Logs
  BY <1>4, <1>5, LogUnchanged DEF Logs
<1>6. CASE UNCHANGED storeVars
  <2>1. \A v \in UIDs : TopRevision(v)' = TopRevision(v)
    BY <1>6, <1>4 DEF TopRevision, storeVars
  <2> QED BY <1>5, <1>6, <2>1 DEF HL!logVars, storeVars
<1>7. CASE job[h].event = "DELETED" /\ MarkDeleted(u)
  <2>1. current' = current /\ deleted' = [deleted EXCEPT ![u] = @ \/ current[u] > 0]
    BY <1>7 DEF MarkDeleted
  <2>2. \A v \in UIDs : TopRevision(v)' = TopRevision(v)
    BY <2>1, <1>4 DEF TopRevision
  <2>3. Logs' = Logs
    BY <1>5, <2>2
  <2>4. CASE current[u] > 0
    <3>1. deleted' = [deleted EXCEPT ![u] = TRUE]
      BY <2>1, <2>4
    <3>2. HL!Close(u)
      BY <1>1, <1>7, <2>1, <2>3, <2>4, <3>1 DEF HL!Close, HL!Closing
    <3> QED BY <1>1, <3>2 DEF HL!Next
  <2>5. CASE ~(current[u] > 0)
    <3>1. deleted' = deleted
      BY <1>1, <1>3, <2>1, <2>5
    <3> QED BY <2>1, <2>3, <3>1 DEF HL!logVars
  <2> QED BY <2>4, <2>5
<1>8. CASE job[h].event # "DELETED" /\ UpsertTrackedResource(u, job[h].revision)
  <2>1. current' = [current EXCEPT ![u] = @ + 1]
    BY <1>1, <1>8 DEF UpsertTrackedResource
  <2>2. deleted' = deleted
    BY <1>1, <1>3, <1>8 DEF UpsertTrackedResource
  <2>3. ASSUME NEW v \in UIDs PROVE TopRevision(v)' = TopRevision(v)
    <3>1. CASE v = u
      BY <3>1, <1>1, <1>3, <1>4, <2>1 DEF TopRevision
    <3>2. CASE v # u
      BY <3>2, <1>1, <1>3, <1>4, <2>1 DEF TopRevision
    <3> QED BY <3>1, <3>2
  <2>4. Logs' = Logs
    BY <1>5, <2>3
  <2>5. HL!Publish(u)
    BY <1>1, <1>8, <2>1, <2>2, <2>4 DEF HL!Publish, HL!Closing
  <2> QED BY <1>1, <2>5 DEF HL!Next
<1> QED BY <1>0, <1>6, <1>7, <1>8 DEF Index

LEMMA StepMaps == IndInv /\ IndInv' /\ [Next]_vars => [HL!Next]_HL!logVars
<1> SUFFICES ASSUME IndInv, IndInv', [Next]_vars PROVE [HL!Next]_HL!logVars
  OBVIOUS
<1>1. CASE \E h \in Watchers : Index(h)
  BY <1>1, IndexMaps
<1>2. CASE UNCHANGED storeVars
  <2>1. \A u \in UIDs : RowsOf(u)' = RowsOf(u) /\ TopRevision(u)' = TopRevision(u)
    BY <1>2 DEF storeVars, RowsOf, TopRevision, Revisions
  <2>2. Logs' = Logs
    BY <2>1, LogUnchanged DEF Logs
  <2> QED BY <1>2, <2>2 DEF HL!logVars, storeVars
<1>3. CASE \E h \in Watchers : Save(h)
  <2>1. PICK h \in Watchers : Save(h)
    BY <1>3
  <2>2. CASE StoreRevision(RevisionOf(h))
    BY <2>1, <2>2, InsertExtends DEF Save
  <2> QED BY <1>2, <2>1, <2>2 DEF Save
<1> QED BY <1>1, <1>2, <1>3, StoreUntouched

\* What readers see of the store is, at every step, an append-only log per
\* object with at most one unpublished entry, closed by a deletion.
THEOREM Refinement == Spec => ImplementsHistoryLog
<1>1. Init => HL!Init
  BY InitMaps
<1>2. IndInv /\ IndInv' /\ [Next]_vars => [HL!Next]_HL!logVars
  BY StepMaps
<1> QED BY <1>1, <1>2, Invariance, PTL DEF Spec, ImplementsHistoryLog, HL!Spec
=============================================================================
