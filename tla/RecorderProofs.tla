--------------------------- MODULE RecorderProofs ---------------------------
(***************************************************************************)
(* What holds of the recorder for every set of objects, watchers, policies *)
(* and faults: what no step spoils (BaseInv), the inductive invariant      *)
(* IndInv, and what follows from it.                                       *)
(***************************************************************************)
EXTENDS Recorder, WellFoundedInduction, TLAPS

-----------------------------------------------------------------------------
(* Numbers *)

LEMMA LeastElement ==
    ASSUME NEW S \in SUBSET Nat, S # {}
    PROVE  \E m \in S : \A n \in S : m <= n
<1>1. PICK m \in S : \A n \in S : ~ (<<n, m>> \in OpToRel(<, Nat))
  BY NatLessThanWellFounded, WFMin, Zenon
<1>2. \A n \in S : ~ (n < m)
  BY <1>1 DEF OpToRel
<1> QED BY <1>2

LEMMA GreatestElement ==
    ASSUME NEW S \in SUBSET Nat, S # {}, NEW b \in Nat, \A n \in S : n <= b
    PROVE  \E m \in S : \A n \in S : n <= m
<1> DEFINE T == {b - n : n \in S}
<1>1. \A n \in S : b - n \in Nat
  OBVIOUS
<1>2. PICK t \in T : \A k \in T : t <= k
  <2>1. T \in SUBSET Nat
    BY <1>1
  <2>2. T # {}
    OBVIOUS
  <2> QED BY <2>1, <2>2, LeastElement
<1>3. PICK m \in S : t = b - m
  BY <1>2
<1>4. \A n \in S : b - m <= b - n
  BY <1>2, <1>3
<1> QED BY <1>4

-----------------------------------------------------------------------------
(* Documents *)

\* Stripping fields of a document (diff.StripFields) gives a document.
LEMMA StripType ==
    ASSUME NEW d \in Doc, NEW ignored
    PROVE  StripFields(d, ignored) \in Doc
BY DEF StripFields, Doc

\* A merge patch is a function over some of the paths (diff.ComputeMergePatch).
LEMMA PatchType ==
    ASSUME NEW old \in Doc, NEW new \in Doc
    PROVE  ComputeMergePatch(old, new) \in Patch
<1> DEFINE S == {g \in Fields : old[g] # new[g]}
<1>1. ComputeMergePatch(old, new) \in [S -> Vals \cup {Absent}]
  BY DEF ComputeMergePatch, Doc
<1>2. S \in SUBSET Fields
  OBVIOUS
<1> QED BY <1>1, <1>2 DEF Patch

\* A snapshot is stored in the same column as a patch.
LEMMA DocIsPatch == Doc \subseteq Patch
<1>1. Fields \in SUBSET Fields
  OBVIOUS
<1> QED BY <1>1 DEF Doc, Patch

\* The round trip the history relies on: a merge patch applied to the document
\* it was computed from gives the other document (diff.ApplyMergePatch).
THEOREM PatchRoundTrip ==
    ASSUME NEW old \in Doc, NEW new \in Doc
    PROVE  ApplyMergePatch(old, ComputeMergePatch(old, new)) = new
BY DEF ApplyMergePatch, ComputeMergePatch, Doc

\* A patch is empty (diff.IsEmpty) only between equal documents.
LEMMA EmptyPatch ==
    ASSUME NEW old \in Doc, NEW new \in Doc, IsEmpty(ComputeMergePatch(old, new))
    PROVE  old = new
<1>1. \A f \in Fields : old[f] = new[f]
  BY DEF IsEmpty, ComputeMergePatch
<1> QED BY <1>1 DEF Doc

LEMMA NoJobType == NoJob \in Job
<1>1. NoDoc \in Doc
  BY DEF NoDoc, Doc
<1>2. (CHOOSE u \in UIDs : TRUE) \in UIDs
  BY UIDsAssumption
<1> QED BY <1>1, <1>2 DEF NoJob, Job, EventTypes

-----------------------------------------------------------------------------
(* What no step of the recorder and no purge spoils: types and keys *)

JobsFormed ==
    \A h \in Watchers :
        /\ pc[h] # "idle" => job[h].event # "NONE"
        /\ pc[h] \in {"latest", "store", "index"} => job[h].revision # 0
        /\ pc[h] \in {"store", "index"} => job[h].event \in EventTypes

RowsBounded == \A u \in UIDs : \E n \in Nat : \A r \in RowsOf(u) : r.revision <= n

BaseInv ==
    /\ TypeOK
    /\ InformersBehind
    /\ JobsFormed
    /\ KeysUnique
    /\ RowsBounded

\* The store is left alone, and every handler where it was, at rest, or at a
\* point where it has chosen no revision yet.
Calm ==
    /\ UNCHANGED storeVars
    /\ \A h \in Watchers :
           \/ pc'[h] = "idle"
           \/ pc'[h] = "get" /\ job'[h].event # "NONE"
           \/ pc'[h] = pc[h] /\ job'[h] = job[h]

LEMMA InitBase == Init => BaseInv
<1> SUFFICES ASSUME Init PROVE BaseInv
  OBVIOUS
<1> USE DEF Init, StoreInit, NotCached
<1>1. TypeOK
  BY NoJobType DEF TypeOK, StoreTypeOK
<1>2. InformersBehind
  BY DEF InformersBehind, Newer
<1>3. JobsFormed /\ KeysUnique
  BY DEF JobsFormed, KeysUnique
<1>4. RowsBounded
  <2>1. 0 \in Nat
    OBVIOUS
  <2> QED BY <2>1 DEF RowsBounded, RowsOf
<1> QED BY <1>1, <1>2, <1>3, <1>4 DEF BaseInv

LEMMA CalmBase ==
    ASSUME BaseInv, TypeOK', InformersBehind', Calm
    PROVE  BaseInv'
<1> USE DEF BaseInv, Calm, storeVars
<1>1. JobsFormed'
  BY DEF JobsFormed
<1>2. KeysUnique' /\ RowsBounded'
  BY DEF KeysUnique, RowsBounded, RowsOf
<1> QED BY <1>1, <1>2

\* Appending a version leaves the earlier ones in place.
LEMMA AppendVersion ==
    ASSUME TypeOK, InformersBehind, NEW u \in UIDs, NEW d \in Doc \cup {Gone},
           versions' = [versions EXCEPT ![u] = Append(@, d)],
           UNCHANGED <<informerVars, handlerVars, storeVars, faults, reconciles>>
    PROVE  TypeOK' /\ InformersBehind'
<1> USE DEF informerVars, handlerVars, storeVars
<1>1. TypeOK'
  BY DEF TypeOK, StoreTypeOK
<1>2. ASSUME NEW h \in Watchers, NEW v \in UIDs
      PROVE  pos'[h][v] <= Newer(v)' /\ (v \in initial'[h] => Cached(h, v)')
  <2>1. versions[v] \in Seq(Doc \cup {Gone}) /\ pos[h][v] \in Nat
    BY DEF TypeOK
  <2>2. pos[h][v] <= Len(versions[v]) /\ (v \in initial[h] => Cached(h, v))
    BY DEF InformersBehind, Newer
  <2>3. Len(versions'[v]) >= Len(versions[v])
    BY <2>1 DEF TypeOK
  <2>4. \A i \in 1..Len(versions[v]) : versions'[v][i] = versions[v][i]
    BY <2>1 DEF TypeOK
  <2> QED BY <2>1, <2>2, <2>3, <2>4 DEF Newer, Cached
<1> QED BY <1>1, <1>2 DEF InformersBehind

LEMMA ClusterBase ==
    ASSUME BaseInv, Cluster
    PROVE  BaseInv' /\ Calm
<1>1. PICK u \in UIDs, d \in Doc \cup {Gone} :
        /\ versions' = [versions EXCEPT ![u] = Append(@, d)]
        /\ UNCHANGED <<informerVars, handlerVars, storeVars, faults, reconciles>>
  BY DEF Cluster, Write, Remove
<1>2. TypeOK' /\ InformersBehind'
  BY <1>1, AppendVersion DEF BaseInv
<1>3. Calm
  BY <1>1 DEF Calm, handlerVars
<1> QED BY <1>2, <1>3, CalmBase

LEMMA CancelledType ==
    ASSUME NEW x \in {"stopped", "starting", "running", "draining"}
    PROVE  Cancelled(x) \in {"stopped", "starting", "running", "draining"}
BY DEF Cancelled

LEMMA StopPolicyBase ==
    ASSUME BaseInv, NEW p \in Policies, StopPolicy(p)
    PROVE  BaseInv' /\ Calm
<1> USE DEF StopPolicy, clusterVars, handlerVars, storeVars
<1>1. TypeOK'
  BY CancelledType DEF BaseInv, TypeOK, StoreTypeOK
<1>2. InformersBehind'
  BY DEF BaseInv, InformersBehind, Newer, Cached
<1>3. Calm
  BY DEF Calm
<1> QED BY <1>1, <1>2, <1>3, CalmBase

LEMMA ReconcileBase ==
    ASSUME BaseInv, NEW h \in Watchers, Reconcile(h)
    PROVE  BaseInv' /\ Calm
<1> USE DEF Reconcile, clusterVars, handlerVars, storeVars
<1>1. TypeOK'
  BY CancelledType DEF BaseInv, TypeOK, StoreTypeOK
<1>2. InformersBehind'
  BY DEF BaseInv, InformersBehind, Newer, Cached
<1>3. Calm
  BY DEF Calm
<1> QED BY <1>1, <1>2, <1>3, CalmBase

LEMMA ListBase ==
    ASSUME BaseInv, NEW h \in Watchers, List(h)
    PROVE  BaseInv' /\ Calm
<1> USE DEF List, clusterVars, handlerVars, storeVars
<1>1. \A u \in UIDs : Newer(u) \in Nat
  BY DEF BaseInv, TypeOK, Newer
<1>2. TypeOK'
  BY <1>1 DEF BaseInv, TypeOK, StoreTypeOK
<1>3. ASSUME NEW g \in Watchers, NEW u \in UIDs
      PROVE  pos'[g][u] <= Newer(u)' /\ (u \in initial'[g] => Cached(g, u)')
  <2>1. CASE g = h
    BY <2>1, <1>1 DEF BaseInv, TypeOK, Newer, Cached, Live, Last
  <2>2. CASE g # h
    <3>1. pos'[g] = pos[g] /\ initial'[g] = initial[g]
      BY <2>2 DEF BaseInv, TypeOK
    <3> QED BY <3>1 DEF BaseInv, InformersBehind, Newer, Cached
  <2> QED BY <2>1, <2>2
<1>4. InformersBehind'
  BY <1>3 DEF InformersBehind
<1>5. Calm
  BY DEF Calm
<1> QED BY <1>2, <1>4, <1>5, CalmBase

LEMMA ExitBase ==
    ASSUME BaseInv, NEW h \in Watchers, Exit(h)
    PROVE  BaseInv' /\ Calm
<1> USE DEF Exit, clusterVars, handlerVars, storeVars
<1>1. TypeOK'
  BY DEF BaseInv, TypeOK, StoreTypeOK, NotCached
<1>2. ASSUME NEW g \in Watchers, NEW u \in UIDs
      PROVE  pos'[g][u] <= Newer(u)' /\ (u \in initial'[g] => Cached(g, u)')
  <2>1. CASE g = h
    BY <2>1 DEF BaseInv, TypeOK, Newer, NotCached
  <2>2. CASE g # h
    <3>1. pos'[g] = pos[g] /\ initial'[g] = initial[g]
      BY <2>2 DEF BaseInv, TypeOK
    <3> QED BY <3>1 DEF BaseInv, InformersBehind, Newer, Cached
  <2> QED BY <2>1, <2>2
<1>3. InformersBehind'
  BY <1>2 DEF InformersBehind
<1>4. Calm
  BY DEF Calm
<1> QED BY <1>1, <1>3, <1>4, CalmBase

LEMMA CrashBase ==
    ASSUME BaseInv, Crash
    PROVE  BaseInv' /\ Calm
<1> USE DEF Crash, Fault, clusterVars, storeVars
<1>1. TypeOK'
  BY NoJobType DEF BaseInv, TypeOK, StoreTypeOK, NotCached
<1>2. InformersBehind'
  BY DEF BaseInv, TypeOK, InformersBehind, Newer, NotCached
<1>3. Calm
  BY DEF Calm
<1> QED BY <1>1, <1>2, <1>3, CalmBase

LEMMA StutterBase ==
    ASSUME BaseInv, UNCHANGED vars
    PROVE  BaseInv' /\ Calm
<1> USE DEF vars, storeVars
<1>1. TypeOK'
  BY DEF BaseInv, TypeOK, StoreTypeOK
<1>2. InformersBehind'
  BY DEF BaseInv, InformersBehind, Newer, Cached
<1>3. Calm
  BY DEF Calm
<1> QED BY <1>1, <1>2, <1>3, CalmBase

-----------------------------------------------------------------------------
(* Events *)

LEMMA BeginType ==
    ASSUME TypeOK, NEW h \in Watchers, NEW u \in UIDs,
           NEW event \in EventTypes \cup {"LISTED"},
           NEW old \in Doc, NEW new \in Doc,
           Begin(h, event, u, old, new) \/ UNCHANGED handlerVars
    PROVE  /\ pc' \in [Watchers -> {"idle", "get", "latest", "store", "index"}]
           /\ job' \in [Watchers -> Job]
           /\ \A g \in Watchers :
                \/ pc'[g] = "get" /\ job'[g].event # "NONE"
                \/ pc'[g] = pc[g] /\ job'[g] = job[g]
<1>1. Strip(h, old) \in Doc /\ Strip(h, new) \in Doc
  BY StripType DEF Strip
<1>2. CASE Begin(h, event, u, old, new)
  <2> DEFINE k == [event |-> event, uid |-> u, old |-> Strip(h, old),
                   new |-> Strip(h, new), revision |-> 0]
  <2>1. k \in Job /\ k.event # "NONE"
    BY <1>1 DEF Job, EventTypes
  <2>2. pc' = [pc EXCEPT ![h] = "get"] /\ job' = [job EXCEPT ![h] = k]
    BY <1>2 DEF Begin
  <2> HIDE DEF k
  <2> QED BY <2>1, <2>2 DEF TypeOK
<1>3. CASE UNCHANGED handlerVars
  BY <1>3 DEF handlerVars, TypeOK
<1> QED BY <1>2, <1>3

\* What an informer holds of a cached object is a document.
LEMMA CachedIsDoc ==
    ASSUME BaseInv, NEW h \in Watchers, NEW u \in UIDs, Cached(h, u)
    PROVE  versions[u][pos[h][u]] \in Doc
BY DEF BaseInv, InformersBehind, TypeOK, Cached, Newer

LEMMA OnAddInitialBase ==
    ASSUME BaseInv, NEW h \in Watchers, NEW u \in UIDs, OnAddInitial(h, u)
    PROVE  BaseInv' /\ Calm
<1> USE DEF clusterVars, storeVars
<1> DEFINE d == versions[u][pos[h][u]]
<1>1. d \in Doc
  BY CachedIsDoc DEF OnAddInitial, BaseInv, InformersBehind
<1>2. Begin(h, "LISTED", u, d, d) \/ UNCHANGED handlerVars
  BY DEF OnAddInitial
<1>3. /\ pc' \in [Watchers -> {"idle", "get", "latest", "store", "index"}]
      /\ job' \in [Watchers -> Job]
      /\ \A g \in Watchers :
           \/ pc'[g] = "get" /\ job'[g].event # "NONE"
           \/ pc'[g] = pc[g] /\ job'[g] = job[g]
  BY <1>1, <1>2, BeginType DEF BaseInv
<1>4. TypeOK'
  BY <1>3 DEF OnAddInitial, BaseInv, TypeOK, StoreTypeOK
<1>5. InformersBehind'
  BY DEF OnAddInitial, BaseInv, TypeOK, InformersBehind, Newer, Cached
<1>6. Calm
  BY <1>3 DEF OnAddInitial, Calm
<1> QED BY <1>4, <1>5, <1>6, CalmBase

\* The informer is at version j of u, and at the end of every former owner.
LEMMA Observed ==
    ASSUME BaseInv, NEW h \in Watchers, NEW u \in UIDs, NEW j \in 1..Newer(u),
           Observe(h, u, j)
    PROVE  /\ pos' \in [Watchers -> [UIDs -> Nat]]
           /\ pos'[h][u] = j
           /\ \A w \in Former(u) : w \in UIDs /\ w # u /\ pos'[h][w] = Newer(w)
           /\ \A v \in UIDs \ ({u} \cup Former(u)) : pos'[h][v] = pos[h][v]
           /\ \A g \in Watchers : g # h => pos'[g] = pos[g]
<1>1. j \in Nat /\ \A w \in UIDs : Newer(w) \in Nat
  BY DEF BaseInv, TypeOK, Newer
<1>2. \A w \in Former(u) : w \in UIDs /\ w # u
  BY IncarnationAssumption DEF Former
<1>3. pos \in [Watchers -> [UIDs -> Nat]]
  BY DEF BaseInv, TypeOK
<1> QED BY <1>1, <1>2, <1>3 DEF Observe

LEMMA ObserveBase ==
    ASSUME BaseInv, NEW h \in Watchers, NEW u \in UIDs, NEW j \in 1..Newer(u),
           OnAdd(h, u, j) \/ (\E w \in UIDs : OnUpdate(h, w, u, j)) \/ OnDelete(h, u, j)
    PROVE  BaseInv' /\ Calm
<1> USE DEF clusterVars, storeVars
<1> DEFINE old(w) == versions[w][pos[h][w]]
           new == versions[u][j]
<1>1. Observe(h, u, j)
  BY DEF OnAdd, OnUpdate, OnDelete
<1>2. \A w \in UIDs : Cached(h, w) => old(w) \in Doc
  BY CachedIsDoc
<1>3. new # Gone => new \in Doc
  BY DEF BaseInv, TypeOK, Newer
<1>4. /\ pc' \in [Watchers -> {"idle", "get", "latest", "store", "index"}]
      /\ job' \in [Watchers -> Job]
      /\ \A g \in Watchers :
           \/ pc'[g] = "get" /\ job'[g].event # "NONE"
           \/ pc'[g] = pc[g] /\ job'[g] = job[g]
  <2>1. CASE OnAdd(h, u, j)
    <3>1. new \in Doc /\ (Begin(h, "CREATED", u, new, new) \/ UNCHANGED handlerVars)
      BY <2>1, <1>3 DEF OnAdd
    <3> QED BY <3>1, BeginType DEF BaseInv, EventTypes
  <2>2. CASE \E w \in UIDs : OnUpdate(h, w, u, j)
    <3> PICK w \in UIDs : OnUpdate(h, w, u, j)
      BY <2>2
    <3>1. /\ old(w) \in Doc /\ new \in Doc
          /\ Begin(h, "UPDATED", u, old(w), new) \/ UNCHANGED handlerVars
      BY <1>2, <1>3 DEF OnUpdate, CachedByName
    <3> QED BY <3>1, BeginType DEF BaseInv, EventTypes
  <2>3. CASE OnDelete(h, u, j)
    <3>1. old(u) \in Doc /\ (Begin(h, "DELETED", u, old(u), old(u)) \/ UNCHANGED handlerVars)
      BY <2>3, <1>2 DEF OnDelete
    <3> QED BY <3>1, BeginType DEF BaseInv, EventTypes
  <2> QED BY <2>1, <2>2, <2>3
<1>5. TypeOK'
  <2>1. replaced' \subseteq UIDs \X UIDs
    BY DEF OnAdd, OnUpdate, OnDelete, BaseInv, TypeOK
  <2>2. pos' \in [Watchers -> [UIDs -> Nat]]
    BY <1>1, Observed
  <2> QED BY <1>1, <1>4, <2>1, <2>2 DEF Observe, BaseInv, TypeOK, StoreTypeOK
<1>6. ASSUME NEW g \in Watchers, NEW v \in UIDs
      PROVE  pos'[g][v] <= Newer(v)' /\ (v \in initial'[g] => Cached(g, v)')
  <2>1. CASE g = h /\ v \in {u} \cup Former(u)
    <3>1. pos'[g][v] <= Newer(v) /\ v \notin initial[g]
      BY <2>1, <1>1, Observed DEF Observe, BaseInv, TypeOK, Newer
    <3> QED BY <3>1, <1>1 DEF Observe, Newer
  <2>2. CASE g # h \/ v \notin {u} \cup Former(u)
    <3>1. pos'[g][v] = pos[g][v]
      BY <2>2, <1>1, Observed
    <3> QED BY <3>1, <1>1 DEF Observe, BaseInv, InformersBehind, Newer, Cached
  <2> QED BY <2>1, <2>2
<1>7. InformersBehind'
  BY <1>6 DEF InformersBehind
<1>8. Calm
  BY <1>1, <1>4 DEF Observe, Calm
<1> QED BY <1>5, <1>7, <1>8, CalmBase

LEMMA DeliverBase ==
    ASSUME BaseInv, NEW h \in Watchers, Deliver(h)
    PROVE  BaseInv' /\ Calm
BY OnAddInitialBase, ObserveBase DEF Deliver

-----------------------------------------------------------------------------
(* Calls into the store *)

\* The newest of an object's rows is one of them.
LEMMA NewestOf ==
    ASSUME BaseInv, NEW u \in UIDs, NEW S \in SUBSET RowsOf(u), S # {}
    PROVE  Newest(S) \in S /\ \A r \in S : r.revision <= Newest(S).revision
<1> DEFINE T == {r.revision : r \in S}
<1>1. PICK b \in Nat : \A r \in RowsOf(u) : r.revision <= b
  BY DEF BaseInv, RowsBounded
<1>2. T \in SUBSET Nat /\ T # {} /\ \A n \in T : n <= b
  BY <1>1 DEF BaseInv, TypeOK, StoreTypeOK, Revision, RowsOf
<1>3. PICK m \in T : \A n \in T : n <= m
  BY <1>2, GreatestElement
<1>4. PICK top \in S : top.revision = m
  BY <1>3
<1>5. \A r \in S : r.revision <= top.revision
  BY <1>3, <1>4
<1> QED BY <1>5 DEF Newest

LEMMA LatestOf ==
    ASSUME BaseInv, NEW u \in UIDs, RowsOf(u) # {}
    PROVE  /\ GetLatestRevision(u) \in RowsOf(u)
           /\ \A r \in RowsOf(u) : r.revision <= GetLatestRevision(u).revision
BY NewestOf DEF GetLatestRevision

\* The row a handler builds is well formed.
LEMMA RevisionOfType ==
    ASSUME BaseInv, NEW h \in Watchers, pc[h] \in {"store", "index"}
    PROVE  /\ RevisionOf(h) \in Revision
           /\ RevisionOf(h).isSnapshot => RevisionOf(h).data \in Doc
           /\ RevisionOf(h).isSnapshot => RevisionOf(h).data = job[h].new
           /\ ~RevisionOf(h).isSnapshot =>
                  /\ job[h].event = "UPDATED"
                  /\ RevisionOf(h).data = ComputeMergePatch(job[h].old, job[h].new)
           /\ RevisionOf(h).uid = job[h].uid
           /\ RevisionOf(h).revision = job[h].revision
           /\ RevisionOf(h).event = job[h].event
           /\ RevisionOf(h).seen = job[h].new
<1> DEFINE snapshot == job[h].event # "UPDATED" \/ IsSnapshotTime(h, job[h].revision)
           data == IF snapshot THEN job[h].new
                   ELSE ComputeMergePatch(job[h].old, job[h].new)
<1>1. job[h] \in Job /\ job[h].event \in EventTypes /\ job[h].revision \in Nat \ {0}
  BY DEF BaseInv, TypeOK, JobsFormed, StoreTypeOK, Job
<1>2. snapshot \in BOOLEAN
  BY DEF IsSnapshotTime
<1>3. data \in Patch /\ (snapshot => data \in Doc)
  BY <1>1, PatchType, DocIsPatch DEF Job
<1>4. /\ snapshot => data = job[h].new
      /\ ~snapshot => /\ job[h].event = "UPDATED"
                      /\ data = ComputeMergePatch(job[h].old, job[h].new)
  OBVIOUS
<1>5. RevisionOf(h) = [uid |-> job[h].uid, revision |-> job[h].revision,
                       event |-> job[h].event, isSnapshot |-> snapshot,
                       data |-> data, seen |-> job[h].new]
  BY DEF RevisionOf
<1> HIDE DEF snapshot, data
<1> QED BY <1>1, <1>2, <1>3, <1>4, <1>5 DEF Revision, Job

\* A handler that returns leaves nothing behind but the store.
LEMMA ReturnBase ==
    ASSUME BaseInv, NEW h \in Watchers, Return(h),
           faults' \in Nat,
           UNCHANGED <<clusterVars, informerVars, storeVars, reconciles>>
    PROVE  BaseInv' /\ Calm
<1> USE DEF Return, clusterVars, informerVars, storeVars
<1>1. TypeOK'
  BY NoJobType DEF BaseInv, TypeOK, StoreTypeOK
<1>2. InformersBehind'
  BY DEF BaseInv, InformersBehind, Newer, Cached
<1>3. \A g \in Watchers : pc'[g] = "idle" \/ (pc'[g] = pc[g] /\ job'[g] = job[g])
  BY DEF BaseInv, TypeOK
<1>4. Calm
  BY <1>3 DEF Calm
<1> QED BY <1>1, <1>2, <1>4, CalmBase

\* A handler goes on with a revision number and has not written yet.
Chooses(h, label) ==
    /\ label \in {"latest", "store"}
    /\ pc' = [pc EXCEPT ![h] = label]
    /\ job' = [job EXCEPT ![h] = job'[h]]
    /\ job'[h] \in Job
    /\ job'[h].uid = job[h].uid
    /\ job'[h].new = job[h].new
    /\ job'[h].revision # 0
    /\ job'[h].event # "NONE"
    /\ label = "store" => job'[h].event \in EventTypes

LEMMA ChooseBase ==
    ASSUME BaseInv, NEW h \in Watchers, NEW label, Chooses(h, label),
           faults' \in Nat,
           UNCHANGED <<clusterVars, informerVars, storeVars, reconciles>>
    PROVE  /\ BaseInv'
           /\ pc'[h] = label
           /\ \A g \in Watchers \ {h} : pc'[g] = pc[g] /\ job'[g] = job[g]
<1> USE DEF clusterVars, informerVars, storeVars
<1>1. job' \in [Watchers -> Job]
  BY Zenon DEF Chooses, BaseInv, TypeOK
<1>2. TypeOK'
  BY <1>1 DEF BaseInv, TypeOK, StoreTypeOK, Chooses
<1>3. InformersBehind'
  BY DEF BaseInv, InformersBehind, Newer, Cached
<1>4. pc'[h] = label /\ \A g \in Watchers \ {h} : pc'[g] = pc[g] /\ job'[g] = job[g]
  BY DEF BaseInv, TypeOK, Chooses
<1>5. JobsFormed'
  BY <1>4 DEF BaseInv, JobsFormed, Chooses
<1>6. KeysUnique' /\ RowsBounded'
  BY DEF BaseInv, KeysUnique, RowsBounded, RowsOf
<1> QED BY <1>2, <1>3, <1>4, <1>5, <1>6 DEF BaseInv

\* After its lookup a handler drops a creation nobody wants, or has a number.
LEMMA ProceedForm ==
    ASSUME BaseInv, NEW h \in Watchers, pc[h] = "get",
           NEW found \in Nat, Proceed(h, found)
    PROVE  \/ /\ Return(h)
              /\ ~PolicySpec[h].creations
              /\ job[h].event = "CREATED" \/ (job[h].event = "LISTED" /\ found = 0)
           \/ /\ Chooses(h, IF job[h].event = "LISTED" /\ found > 0 THEN "latest" ELSE "store")
              /\ job'[h].revision = found + 1
              /\ job'[h].old = job[h].old
              /\ job'[h].event = IF job[h].event = "LISTED" /\ ~(found > 0)
                                 THEN "CREATED" ELSE job[h].event
<1> DEFINE relisted == job[h].event = "LISTED" /\ found > 0
           event == IF job[h].event = "LISTED" /\ ~relisted THEN "CREATED"
                    ELSE job[h].event
           label == IF relisted THEN "latest" ELSE "store"
           k == [job[h] EXCEPT !.event = event, !.revision = NextRevision(found)]
<1>1. CASE event = "CREATED" /\ ~PolicySpec[h].creations
  BY <1>1 DEF Proceed
<1>2. CASE ~(event = "CREATED" /\ ~PolicySpec[h].creations)
  <2>1. pc' = [pc EXCEPT ![h] = label] /\ job' = [job EXCEPT ![h] = k]
    BY <1>2 DEF Proceed, Goto
  <2>2. job[h] \in Job /\ job[h].event # "NONE" /\ job \in [Watchers -> Job]
    BY DEF BaseInv, TypeOK, JobsFormed
  <2>3. /\ event \in EventTypes \cup {"LISTED"}
        /\ label = "store" => event \in EventTypes
    BY <2>2 DEF Job, EventTypes
  <2>4. NextRevision(found) \in Nat /\ NextRevision(found) = found + 1
    BY DEF NextRevision
  <2>5. event = IF job[h].event = "LISTED" /\ ~(found > 0) THEN "CREATED" ELSE job[h].event
    OBVIOUS
  <2>6. label = (IF job[h].event = "LISTED" /\ found > 0 THEN "latest" ELSE "store")
        /\ label \in {"latest", "store"}
    OBVIOUS
  <2> HIDE DEF event, label
  <2>7. /\ k \in Job
        /\ k.revision = found + 1
        /\ k.uid = job[h].uid /\ k.old = job[h].old /\ k.new = job[h].new
        /\ k.event = event
    BY <2>2, <2>3, <2>4 DEF Job, EventTypes
  <2>8. found + 1 # 0 /\ event # "NONE"
    BY <2>3 DEF EventTypes
  <2> HIDE DEF k
  <2>9. job'[h] = k
    BY <2>1, <2>2
  <2>10. Chooses(h, label)
    BY <2>1, <2>3, <2>6, <2>7, <2>8, <2>9 DEF Chooses
  <2> QED BY <2>5, <2>6, <2>7, <2>9, <2>10
<1> QED BY <1>1, <1>2

\* Its number is the one after the index's, or 1 where the read has failed.
LEMMA LookupForm ==
    ASSUME BaseInv, NEW h \in Watchers, Lookup(h)
    PROVE  /\ pc[h] = "get"
           /\ UNCHANGED <<clusterVars, informerVars, storeVars, reconciles>>
           /\ faults' \in Nat
           /\ \E found \in 0..current[job[h].uid] :
                  /\ Proceed(h, found)
                  /\ found = current[job[h].uid] \/ Fault("read")
<1> DEFINE cur == current[job[h].uid]
<1>1. cur \in Nat /\ faults \in Nat
  BY DEF BaseInv, TypeOK, StoreTypeOK, Job
<1>2. cur \in 0..cur /\ 0 \in 0..cur
  BY <1>1
<1>3. faults' \in Nat
  BY <1>1 DEF Lookup, Fault
<1> HIDE DEF cur
<1>4. \E found \in 0..cur : Proceed(h, found) /\ (found = cur \/ Fault("read"))
  BY <1>2 DEF Lookup, cur
<1> QED BY <1>3, <1>4 DEF Lookup, cur

\* A re-listed object is dropped, or becomes an update of the newest snapshot.
LEMMA ReadLatestForm ==
    ASSUME BaseInv, NEW h \in Watchers, ReadLatest(h)
    PROVE  LET u == job[h].uid
               last == GetLatestRevision(u)
           IN  /\ pc[h] = "latest"
               /\ UNCHANGED <<clusterVars, informerVars, storeVars, reconciles>>
               /\ faults' \in Nat
               /\ \/ Return(h)
                  \/ /\ Chooses(h, "store")
                     /\ job'[h].revision = job[h].revision
                     /\ job'[h].event = "UPDATED"
                     /\ job'[h].old = last.data
                     /\ RowsOf(u) # {}
                     /\ last.isSnapshot
                     /\ PolicySpec[h].updates
<1> DEFINE u == job[h].uid
           last == GetLatestRevision(u)
<1>1. faults' \in Nat
  BY DEF ReadLatest, Fault, BaseInv, TypeOK
<1>2. CASE /\ RowsOf(u) # {} /\ Drifted(h, last)
           /\ Goto(h, "store")
           /\ job' = [job EXCEPT ![h].event = "UPDATED", ![h].old = last.data]
  <2>1. u \in UIDs /\ job[h] \in Job /\ job \in [Watchers -> Job] /\ pc[h] = "latest"
    BY DEF BaseInv, TypeOK, Job, ReadLatest
  <2>2. last \in rows /\ last.isSnapshot /\ PolicySpec[h].updates
    BY <1>2, <2>1, LatestOf DEF RowsOf, Drifted
  <2>3. PICK d : d = last.data
    OBVIOUS
  <2>4. d \in Doc
    BY <2>2, <2>3 DEF BaseInv, TypeOK, StoreTypeOK
  <2>5. job[h].revision # 0
    BY <2>1 DEF BaseInv, JobsFormed
  <2> DEFINE k == [job[h] EXCEPT !.event = "UPDATED", !.old = d]
  <2>6. job' = [job EXCEPT ![h] = k]
    BY <1>2, <2>1, <2>3
  <2>7. /\ k \in Job /\ k.event = "UPDATED" /\ k.revision = job[h].revision
        /\ k.uid = u /\ k.old = d /\ k.new = job[h].new
    BY <2>1, <2>4 DEF Job, EventTypes
  <2> HIDE DEF k
  <2>8. job'[h] = k
    BY <2>1, <2>6
  <2>9. Chooses(h, "store")
    BY <1>2, <2>5, <2>6, <2>7, <2>8 DEF Chooses, Goto, EventTypes
  <2> QED BY <1>1, <1>2, <2>1, <2>2, <2>3, <2>7, <2>8, <2>9 DEF ReadLatest
<1> QED BY <1>1, <1>2 DEF ReadLatest

\* A row is added where no row has its number.
LEMMA InsertBase ==
    ASSUME BaseInv, NEW h \in Watchers, pc[h] = "store",
           StoreRevision(RevisionOf(h)), Goto(h, "index"),
           UNCHANGED <<job, faults>>,
           UNCHANGED <<clusterVars, informerVars, reconciles>>
    PROVE  BaseInv'
<1> USE DEF clusterVars, informerVars
<1> DEFINE rev == RevisionOf(h)
<1>1. /\ rev \in Revision /\ (rev.isSnapshot => rev.data \in Doc)
      /\ rev.uid = job[h].uid /\ rev.revision \in Nat
  BY RevisionOfType DEF Revision
<1>2. /\ rows' = rows \cup {rev} /\ current' = current /\ deleted' = deleted
      /\ ~Conflicts(rev)
  BY DEF StoreRevision
<1> HIDE DEF rev
<1>3. /\ pc' = [pc EXCEPT ![h] = "index"] /\ job' = job /\ pc'[h] = "index"
      /\ \A g \in Watchers \ {h} : pc'[g] = pc[g]
  BY DEF Goto, BaseInv, TypeOK
<1>4. TypeOK'
  BY <1>1, <1>2, <1>3 DEF BaseInv, TypeOK, StoreTypeOK
<1>5. InformersBehind'
  BY DEF BaseInv, InformersBehind, Newer, Cached
<1>6. JobsFormed'
  BY <1>3 DEF BaseInv, JobsFormed
<1>7. KeysUnique'
  BY <1>2 DEF BaseInv, KeysUnique, Conflicts
<1>8. RowsBounded'
  <2> SUFFICES ASSUME NEW u \in UIDs
               PROVE  \E n \in Nat : \A r \in RowsOf(u)' : r.revision <= n
    BY DEF RowsBounded
  <2>1. PICK n \in Nat : \A r \in RowsOf(u) : r.revision <= n
    BY DEF BaseInv, RowsBounded
  <2>2. \A r \in RowsOf(u)' : (r \in RowsOf(u) \/ r = rev) /\ r.revision \in Nat
    BY <1>1, <1>2 DEF RowsOf, BaseInv, TypeOK, StoreTypeOK, Revision
  <2>3. n + rev.revision \in Nat
    BY <1>1
  <2>4. \A r \in RowsOf(u)' : r.revision <= n + rev.revision
    BY <1>1, <2>1, <2>2
  <2> QED BY <2>3, <2>4
<1> QED BY <1>4, <1>5, <1>6, <1>7, <1>8 DEF BaseInv

LEMMA PublishBase ==
    ASSUME BaseInv, NEW h \in Watchers, pc[h] = "index", Return(h),
           IF job[h].event = "DELETED"
           THEN MarkDeleted(job[h].uid)
           ELSE UpsertTrackedResource(job[h].uid, job[h].revision),
           UNCHANGED faults,
           UNCHANGED <<clusterVars, informerVars, reconciles>>
    PROVE  /\ BaseInv'
           /\ rows' = rows
           /\ job[h].event = "DELETED" => current' = current
           /\ job[h].event # "DELETED" =>
                  current' = [current EXCEPT ![job[h].uid] = job[h].revision]
<1> USE DEF clusterVars, informerVars
<1> DEFINE u == job[h].uid
<1>1. /\ u \in UIDs /\ job[h].revision \in Nat
      /\ current \in [UIDs -> Nat] /\ deleted \in [UIDs -> BOOLEAN]
  BY DEF BaseInv, TypeOK, StoreTypeOK, Job
<1>2. rows' = rows
  BY DEF MarkDeleted, UpsertTrackedResource
<1>3. /\ job[h].event = "DELETED" => current' = current
      /\ job[h].event # "DELETED" => current' = [current EXCEPT ![u] = job[h].revision]
  BY DEF MarkDeleted, UpsertTrackedResource
<1>4. deleted' \in [UIDs -> BOOLEAN]
  <2>1. (deleted[u] \/ current[u] > 0) \in BOOLEAN
    OBVIOUS
  <2> QED BY <1>1, <2>1 DEF MarkDeleted, UpsertTrackedResource
<1>5. \A g \in Watchers : pc'[g] = "idle" \/ (pc'[g] = pc[g] /\ job'[g] = job[g])
  BY DEF Return, BaseInv, TypeOK
<1>6. TypeOK'
  <2>1. current' \in [UIDs -> Nat]
    BY <1>1, <1>3
  <2> HIDE DEF u
  <2> QED BY <1>2, <1>4, <2>1, NoJobType DEF Return, BaseInv, TypeOK, StoreTypeOK
<1>7. InformersBehind'
  BY DEF BaseInv, InformersBehind, Newer, Cached
<1>8. JobsFormed'
  BY <1>5 DEF BaseInv, JobsFormed
<1>9. KeysUnique' /\ RowsBounded'
  BY <1>2 DEF BaseInv, KeysUnique, RowsBounded, RowsOf
<1> QED BY <1>2, <1>3, <1>6, <1>7, <1>8, <1>9 DEF BaseInv

\* What a handler's INSERT does to the store and to the handler.
LEMMA SaveForm ==
    ASSUME BaseInv, NEW h \in Watchers, Save(h)
    PROVE  /\ pc[h] = "store"
           /\ UNCHANGED <<clusterVars, informerVars, reconciles>>
           /\ \/ /\ StoreRevision(RevisionOf(h)) /\ Goto(h, "index")
                 /\ UNCHANGED <<job, faults>>
              \/ /\ Return(h) /\ faults' \in Nat /\ UNCHANGED storeVars
                 /\ Conflicts(RevisionOf(h)) \/ Fault("store")
BY DEF Save, Fault, BaseInv, TypeOK

\* And its write of the index.
LEMMA IndexForm ==
    ASSUME BaseInv, NEW h \in Watchers, Index(h)
    PROVE  /\ pc[h] = "index"
           /\ Return(h)
           /\ UNCHANGED <<clusterVars, informerVars, reconciles>>
           /\ \/ /\ IF job[h].event = "DELETED"
                    THEN MarkDeleted(job[h].uid)
                    ELSE UpsertTrackedResource(job[h].uid, job[h].revision)
                 /\ UNCHANGED faults
              \/ Fault("index") /\ faults' \in Nat /\ UNCHANGED storeVars
BY DEF Index, Fault, BaseInv, TypeOK

LEMMA HandleBase ==
    ASSUME BaseInv, NEW h \in Watchers, Handle(h)
    PROVE  BaseInv'
<1>1. CASE Lookup(h)
  <2>1. \E found \in Nat : Proceed(h, found)
    <3>1. current[job[h].uid] \in Nat
      BY DEF BaseInv, TypeOK, StoreTypeOK, Job
    <3> QED BY <1>1, <3>1, LookupForm
  <2> QED BY <1>1, <2>1, LookupForm, ProceedForm, ChooseBase, ReturnBase
<1>2. CASE ReadLatest(h)
  BY <1>2, ReadLatestForm, ChooseBase, ReturnBase
<1>3. CASE Save(h)
  BY <1>3, SaveForm, InsertBase, ReturnBase
<1>4. CASE Index(h)
  BY <1>4, IndexForm, PublishBase, ReturnBase
<1> QED BY <1>1, <1>2, <1>3, <1>4 DEF Handle

\* Every step but a handler's call is calm.
LEMMA OutsideBase ==
    ASSUME BaseInv, [Next]_vars, ~(\E h \in Watchers : Handle(h))
    PROVE  BaseInv' /\ Calm
BY ClusterBase, StopPolicyBase, ReconcileBase, ListBase, ExitBase, DeliverBase,
   CrashBase, StutterBase DEF Next

LEMMA NextBase == BaseInv /\ [Next]_vars => BaseInv'
BY HandleBase, OutsideBase

-----------------------------------------------------------------------------
(* The inductive invariant *)

LEMMA IndHasBase == IndInv => BaseInv
<1> SUFFICES ASSUME IndInv PROVE BaseInv
  OBVIOUS
<1>1. JobsFormed
  BY DEF IndInv, JobsChosen, JobsFormed
<1>2. RowsBounded
  <2> SUFFICES ASSUME NEW u \in UIDs
               PROVE  \E n \in Nat : \A r \in RowsOf(u) : r.revision <= n
    BY DEF RowsBounded
  <2>1. current[u] \in Nat /\ current[u] + 1 \in Nat
    BY DEF IndInv, TypeOK, StoreTypeOK
  <2>2. \A r \in RowsOf(u) : r.revision \in Revisions(u)
    BY DEF Revisions
  <2>3. \A r \in RowsOf(u) : r.revision <= current[u] + 1
    BY <2>1, <2>2 DEF IndInv, Gapless
  <2> QED BY <2>1, <2>3
<1> QED BY <1>1, <1>2 DEF IndInv, BaseInv

LEMMA InitInv == Init => IndInv
<1> SUFFICES ASSUME Init PROVE IndInv
  OBVIOUS
<1>1. BaseInv
  BY InitBase
<1> USE DEF Init, StoreInit
<1>2. Gapless
  <2>1. 1..0 = {}
    OBVIOUS
  <2> QED BY <2>1 DEF Gapless, Revisions, RowsOf
<1>3. DeletionHoldsRevision /\ DeletedHasRow
  BY DEF DeletionHoldsRevision, DeletedHasRow
<1>4. JobsChosen /\ CommitterHoldsRow /\ SingleCommitter
  BY DEF JobsChosen, CommitterHoldsRow, SingleCommitter
<1> QED BY <1>1, <1>2, <1>3, <1>4 DEF IndInv, BaseInv

LEMMA CalmStep ==
    ASSUME IndInv, BaseInv', Calm
    PROVE  IndInv'
<1> USE DEF IndInv, Calm, storeVars
<1>1. Gapless' /\ DeletionHoldsRevision' /\ DeletedHasRow'
  BY DEF Gapless, Revisions, RowsOf, DeletionHoldsRevision, DeletedHasRow
<1>2. JobsChosen'
  BY DEF JobsChosen
<1>3. CommitterHoldsRow'
  BY DEF CommitterHoldsRow, RevisionOf
<1>4. SingleCommitter'
  BY DEF SingleCommitter
<1> QED BY <1>1, <1>2, <1>3, <1>4 DEF BaseInv

(***************************************************************************)
(* A handler that has just chosen a revision no greater than current + 1,  *)
(* before its INSERT.                                                      *)
(***************************************************************************)
LEMMA ChooseStep ==
    ASSUME IndInv, NEW h \in Watchers, NEW label, Chooses(h, label),
           job'[h].revision \in 1..(current[job[h].uid] + 1),
           faults' \in Nat,
           UNCHANGED <<clusterVars, informerVars, storeVars, reconciles>>
    PROVE  IndInv'
<1>1. /\ BaseInv'
      /\ pc'[h] = label
      /\ \A g \in Watchers \ {h} : pc'[g] = pc[g] /\ job'[g] = job[g]
  BY IndHasBase, ChooseBase
<1> USE DEF storeVars
<1>2. Gapless' /\ DeletionHoldsRevision' /\ DeletedHasRow'
  BY DEF IndInv, Gapless, Revisions, RowsOf, DeletionHoldsRevision, DeletedHasRow
<1>3. JobsChosen'
  BY <1>1 DEF IndInv, JobsChosen, Chooses
<1>4. CommitterHoldsRow'
  BY <1>1 DEF IndInv, CommitterHoldsRow, RevisionOf, Chooses
<1>5. SingleCommitter'
  BY <1>1 DEF IndInv, SingleCommitter, Chooses
<1> QED BY <1>1, <1>2, <1>3, <1>4, <1>5 DEF IndInv, BaseInv

LEMMA LookupStep ==
    ASSUME IndInv, NEW h \in Watchers, Lookup(h)
    PROVE  IndInv'
<1>1. PICK found \in 0..current[job[h].uid] : Proceed(h, found)
  BY IndHasBase, LookupForm
<1>2. found \in Nat /\ found + 1 \in 1..(current[job[h].uid] + 1)
  BY DEF IndInv, TypeOK, StoreTypeOK, Job
<1> QED BY <1>1, <1>2, IndHasBase, LookupForm, ProceedForm, ReturnBase, CalmStep, ChooseStep

LEMMA ReadLatestStep ==
    ASSUME IndInv, NEW h \in Watchers, ReadLatest(h)
    PROVE  IndInv'
<1>1. pc[h] = "latest" => job[h].revision \in 1..(current[job[h].uid] + 1)
  BY DEF IndInv, JobsChosen
<1> QED BY <1>1, IndHasBase, ReadLatestForm, ReturnBase, CalmStep, ChooseStep

(***************************************************************************)
(* An INSERT that succeeds takes revision current + 1: every lower one is  *)
(* there already, so it meets no other handler in the middle of its write, *)
(* and no deletion.                                                        *)
(***************************************************************************)
LEMMA InsertIsNext ==
    ASSUME IndInv, NEW h \in Watchers, pc[h] = "store", ~Conflicts(RevisionOf(h))
    PROVE  LET u == job[h].uid IN
           /\ job[h].revision = current[u] + 1
           /\ Revisions(u) = 1..current[u]
           /\ \A g \in Watchers : pc[g] = "index" => job[g].uid # u
           /\ \A r \in RowsOf(u) : r.event # "DELETED"
<1> DEFINE u == job[h].uid
           n == job[h].revision
<1>1. u \in UIDs /\ current[u] \in Nat /\ n \in 1..(current[u] + 1)
  BY DEF IndInv, TypeOK, StoreTypeOK, Job, JobsChosen
<1>2. n \notin Revisions(u)
  BY IndHasBase, RevisionOfType DEF Conflicts, Revisions, RowsOf
<1>3. Revisions(u) \in {1..current[u], 1..(current[u] + 1)}
  BY <1>1 DEF IndInv, Gapless
<1>4. n = current[u] + 1 /\ Revisions(u) = 1..current[u]
  BY <1>1, <1>2, <1>3
<1>5. \A r \in RowsOf(u) : r.revision # current[u] + 1
  BY <1>2, <1>4 DEF Revisions
<1>6. ASSUME NEW g \in Watchers, pc[g] = "index", job[g].uid = u
      PROVE  FALSE
  <2>1. RevisionOf(g) \in RowsOf(u) /\ RevisionOf(g).revision = current[u] + 1
    BY <1>6, IndHasBase, RevisionOfType DEF IndInv, CommitterHoldsRow, RowsOf
  <2> QED BY <2>1, <1>5
<1>7. \A r \in RowsOf(u) : r.event # "DELETED"
  BY <1>5 DEF IndInv, DeletionHoldsRevision, RowsOf
<1> QED BY <1>4, <1>6, <1>7

LEMMA InsertStep ==
    ASSUME IndInv, NEW h \in Watchers, pc[h] = "store",
           StoreRevision(RevisionOf(h)), Goto(h, "index"),
           UNCHANGED <<job, faults>>,
           UNCHANGED <<clusterVars, informerVars, reconciles>>
    PROVE  IndInv'
<1>0. BaseInv /\ BaseInv'
  BY IndHasBase, InsertBase
<1> DEFINE u == job[h].uid
           n == job[h].revision
           rev == RevisionOf(h)
<1>1. rev.uid = u /\ rev.revision = n /\ rev.event = job[h].event
  BY <1>0, RevisionOfType
<1>2. /\ n = current[u] + 1
      /\ Revisions(u) = 1..current[u]
      /\ \A g \in Watchers : pc[g] = "index" => job[g].uid # u
      /\ \A r \in RowsOf(u) : r.event # "DELETED"
  BY InsertIsNext DEF StoreRevision
<1>3. u \in UIDs /\ current \in [UIDs -> Nat]
  BY DEF IndInv, TypeOK, StoreTypeOK, Job
<1>4. rows' = rows \cup {rev} /\ current' = current /\ deleted' = deleted
  BY DEF StoreRevision
<1>5. /\ job' = job /\ pc'[h] = "index"
      /\ \A g \in Watchers \ {h} : pc'[g] = pc[g]
  BY DEF Goto, IndInv, TypeOK
<1> HIDE DEF rev, u, n
<1>6. Gapless'
  <2>1. ASSUME NEW v \in UIDs
        PROVE  Revisions(v)' \in {1..current'[v], 1..(current'[v] + 1)}
    <3>1. CASE v = u
      <4>1. Revisions(v)' = Revisions(v) \cup {current[u] + 1}
        BY <1>1, <1>2, <1>4, <3>1 DEF Revisions, RowsOf
      <4>2. (1..current[u]) \cup {current[u] + 1} = 1..(current[u] + 1)
        BY <1>3
      <4> QED BY <1>2, <1>4, <3>1, <4>1, <4>2
    <3>2. CASE v # u
      <4>1. Revisions(v)' = Revisions(v)
        BY <1>1, <1>4, <3>2 DEF Revisions, RowsOf
      <4> QED BY <1>4, <4>1 DEF IndInv, Gapless
    <3> QED BY <3>1, <3>2
  <2> QED BY <2>1 DEF Gapless
<1>7. JobsChosen'
  BY <1>4, <1>5 DEF IndInv, JobsChosen
<1>8. CommitterHoldsRow'
  BY <1>2, <1>4, <1>5 DEF IndInv, CommitterHoldsRow, RevisionOf, rev, u, n
<1>9. SingleCommitter'
  BY <1>2, <1>5 DEF IndInv, SingleCommitter, u
<1>10. DeletionHoldsRevision'
  BY <1>1, <1>2, <1>4 DEF IndInv, DeletionHoldsRevision
<1>11. DeletedHasRow'
  BY <1>4 DEF IndInv, DeletedHasRow, RowsOf
<1> QED BY <1>0, <1>6, <1>7, <1>8, <1>9, <1>10, <1>11 DEF IndInv, BaseInv

LEMMA SaveStep ==
    ASSUME IndInv, NEW h \in Watchers, Save(h)
    PROVE  IndInv'
BY IndHasBase, SaveForm, InsertStep, ReturnBase, CalmStep

\* The handler's own row, and the only handler in the middle of a write to u.
LEMMA PublishStep ==
    ASSUME IndInv, NEW h \in Watchers, pc[h] = "index", Return(h),
           IF job[h].event = "DELETED"
           THEN MarkDeleted(job[h].uid)
           ELSE UpsertTrackedResource(job[h].uid, job[h].revision),
           UNCHANGED faults,
           UNCHANGED <<clusterVars, informerVars, reconciles>>
    PROVE  IndInv'
<1> DEFINE u == job[h].uid
           n == job[h].revision
           rev == RevisionOf(h)
<1>1. u \in UIDs /\ current \in [UIDs -> Nat] /\ deleted \in [UIDs -> BOOLEAN]
  BY DEF IndInv, TypeOK, StoreTypeOK, Job
<1>2. /\ n = current[u] + 1
      /\ rev \in RowsOf(u) /\ rev.revision = n /\ rev.event = job[h].event
  BY IndHasBase, RevisionOfType DEF IndInv, CommitterHoldsRow, RowsOf
<1>3. Revisions(u) = 1..(current[u] + 1)
  <2>1. current[u] + 1 \in Revisions(u) /\ current[u] \in Nat
    BY <1>1, <1>2 DEF Revisions
  <2> QED BY <1>1, <2>1 DEF IndInv, Gapless
<1>4. /\ pc'[h] = "idle"
      /\ \A g \in Watchers \ {h} : pc'[g] = pc[g] /\ job'[g] = job[g]
  BY DEF Return, IndInv, TypeOK
<1>5. /\ BaseInv'
      /\ rows' = rows
      /\ job[h].event = "DELETED" => current' = current
      /\ job[h].event # "DELETED" => current' = [current EXCEPT ![u] = n]
  BY IndHasBase, PublishBase
<1>6. \A v \in UIDs \ {u} : current'[v] = current[v] /\ deleted'[v] = deleted[v]
  BY <1>1 DEF MarkDeleted, UpsertTrackedResource
<1> HIDE DEF rev, u, n
<1>7. current'[u] \in {current[u], current[u] + 1} /\ current[u] \in Nat
  BY <1>1, <1>2, <1>5
<1>8. Gapless'
  <2>1. ASSUME NEW v \in UIDs
        PROVE  Revisions(v)' \in {1..current'[v], 1..(current'[v] + 1)}
    <3>1. Revisions(v)' = Revisions(v)
      BY <1>5 DEF Revisions, RowsOf
    <3>2. CASE v = u
      BY <1>3, <1>7, <3>1, <3>2
    <3>3. CASE v # u
      BY <1>6, <3>1, <3>3 DEF IndInv, Gapless
    <3> QED BY <3>2, <3>3
  <2> QED BY <2>1 DEF Gapless
<1>9. JobsChosen'
  <2>1. ASSUME NEW g \in Watchers, pc'[g] # "idle"
        PROVE  pc'[g] = pc[g] /\ job'[g] = job[g] /\ job[g].uid \in UIDs
    BY <2>1, <1>4 DEF IndInv, TypeOK, Job
  <2>2. \A v \in UIDs : 1..(current[v] + 1) \subseteq 1..(current'[v] + 1)
    BY <1>1, <1>6, <1>7
  <2> QED BY <2>1, <2>2 DEF IndInv, JobsChosen
<1>10. ASSUME NEW g \in Watchers, pc'[g] = "index"
       PROVE  g # h /\ pc[g] = "index" /\ job'[g] = job[g] /\ job[g].uid \in UIDs \ {u}
  BY <1>10, <1>4 DEF IndInv, SingleCommitter, TypeOK, Job, u
<1>11. CommitterHoldsRow'
  BY <1>5, <1>6, <1>10 DEF IndInv, CommitterHoldsRow, RevisionOf
<1>12. SingleCommitter'
  BY <1>10 DEF IndInv, SingleCommitter
<1>13. DeletionHoldsRevision'
  <2>1. CASE job[h].event = "DELETED"
    BY <2>1, <1>5 DEF IndInv, DeletionHoldsRevision
  <2>2. CASE job[h].event # "DELETED"
    <3>1. \A r \in RowsOf(u) : r.event # "DELETED"
      BY <2>2, <1>2 DEF IndInv, DeletionHoldsRevision, RowsOf, KeysUnique
    <3> QED BY <3>1, <1>5, <1>6 DEF IndInv, DeletionHoldsRevision, RowsOf, TypeOK,
                                    StoreTypeOK, Revision
  <2> QED BY <2>1, <2>2
<1>14. DeletedHasRow'
  <2>1. CASE job[h].event = "DELETED"
    BY <2>1, <1>2, <1>5, <1>6 DEF IndInv, DeletedHasRow, RowsOf, u
  <2>2. CASE job[h].event # "DELETED"
    BY <2>2, <1>1, <1>5, <1>6 DEF IndInv, DeletedHasRow, RowsOf, UpsertTrackedResource, u
  <2> QED BY <2>1, <2>2
<1> QED BY <1>5, <1>8, <1>9, <1>11, <1>12, <1>13, <1>14 DEF IndInv, BaseInv

LEMMA IndexStep ==
    ASSUME IndInv, NEW h \in Watchers, Index(h)
    PROVE  IndInv'
BY IndHasBase, IndexForm, PublishStep, ReturnBase, CalmStep

LEMMA NextInv == IndInv /\ [Next]_vars => IndInv'
<1> SUFFICES ASSUME IndInv, [Next]_vars PROVE IndInv'
  OBVIOUS
<1>1. CASE \E h \in Watchers : Handle(h)
  BY <1>1, LookupStep, ReadLatestStep, SaveStep, IndexStep DEF Handle
<1>2. CASE ~(\E h \in Watchers : Handle(h))
  BY <1>2, IndHasBase, OutsideBase, CalmStep
<1> QED BY <1>1, <1>2

\* The inductive invariant holds: no interleaving of handlers, restart, fault
\* or crash leads out of it.
THEOREM Invariance == Spec => []IndInv
BY InitInv, NextInv, PTL DEF Spec

\* Every variable keeps its type.
THEOREM TypeCorrect == Spec => []TypeOK
<1>1. IndInv => TypeOK
  BY DEF IndInv
<1> QED BY <1>1, Invariance, PTL

\* The history of an object has no gaps and the index is at most one behind.
THEOREM HistoryGapless == Spec => []Gapless
<1>1. IndInv => Gapless
  BY DEF IndInv
<1> QED BY <1>1, Invariance, PTL

\* Mutual exclusion by revision number between handlers that take no lock.
THEOREM OneCommitter == Spec => []SingleCommitter
<1>1. IndInv => SingleCommitter
  BY DEF IndInv
<1> QED BY <1>1, Invariance, PTL

\* Only Save adds rows, and only Index moves the index.
LEMMA StoreUntouched ==
    ASSUME [Next]_vars, ~(\E h \in Watchers : Save(h) \/ Index(h))
    PROVE  UNCHANGED storeVars
<1> USE DEF storeVars
<1>1. CASE Cluster
  BY <1>1 DEF Cluster, Write, Remove
<1>2. CASE \E p \in Policies : StopPolicy(p)
  BY <1>2 DEF StopPolicy
<1>3. CASE \E h \in Watchers : Reconcile(h) \/ List(h) \/ Exit(h)
  BY <1>3 DEF Reconcile, List, Exit
<1>4. CASE \E h \in Watchers : Deliver(h)
  BY <1>4 DEF Deliver, OnAddInitial, OnAdd, OnUpdate, OnDelete, Observe
<1>5. CASE \E h \in Watchers : Lookup(h) \/ ReadLatest(h)
  BY <1>5 DEF Lookup, ReadLatest
<1>6. CASE Crash
  BY <1>6 DEF Crash
<1>7. CASE UNCHANGED vars
  BY <1>7 DEF vars
<1> QED BY <1>1, <1>2, <1>3, <1>4, <1>5, <1>6, <1>7 DEF Next, Handle

\* The index moves one revision at a time and never back: the publishing
\* handler holds current + 1 (CommitterHoldsRow).
THEOREM CurrentNeverRegresses == Spec => CurrentSteps
<1> DEFINE A == \A u \in UIDs : current'[u] \in {current[u], current[u] + 1}
<1>1. IndInv /\ [Next]_vars => [A]_vars
  <2> SUFFICES ASSUME IndInv, [Next]_vars PROVE A
    OBVIOUS
  <2>1. CASE \E h \in Watchers : Index(h)
    <3>1. PICK h \in Watchers : Index(h)
      BY <2>1
    <3>2. job[h].revision = current[job[h].uid] + 1
      BY <3>1 DEF Index, IndInv, CommitterHoldsRow
    <3>3. current \in [UIDs -> Nat]
      BY DEF IndInv, TypeOK, StoreTypeOK
    <3> QED BY <3>1, <3>2, <3>3 DEF Index, MarkDeleted, UpsertTrackedResource, storeVars
  <2>2. CASE \E h \in Watchers : Save(h)
    BY <2>2 DEF Save, StoreRevision, storeVars
  <2>3. CASE ~(\E h \in Watchers : Save(h) \/ Index(h))
    BY <2>3, StoreUntouched DEF storeVars
  <2> QED BY <2>1, <2>2, <2>3
<1> QED BY <1>1, Invariance, PTL DEF Spec, CurrentSteps

\* A recorded deletion ends an object's history: its row keeps current + 1
\* taken for ever (DeletionHoldsRevision), so no later INSERT succeeds and no
\* handler reaches UpsertTrackedResource.
THEOREM DeletionIsFinal == Spec => SealedByDeletion
<1> DEFINE sealed(u) == \E r \in RowsOf(u) : r.event = "DELETED"
           A == \A u \in UIDs : sealed(u) =>
                    /\ Revisions(u)' = Revisions(u)
                    /\ current'[u] = current[u]
                    /\ deleted[u] => deleted'[u]
<1>1. IndInv /\ [Next]_vars => [A]_vars
  <2> SUFFICES ASSUME IndInv, [Next]_vars, NEW u \in UIDs, sealed(u)
               PROVE  /\ Revisions(u)' = Revisions(u)
                      /\ current'[u] = current[u]
                      /\ deleted[u] => deleted'[u]
    OBVIOUS
  <2>1. ASSUME NEW h \in Watchers, Index(h)
        PROVE  /\ Revisions(u)' = Revisions(u)
               /\ current'[u] = current[u]
               /\ deleted[u] => deleted'[u]
    <3> USE <2>1
    <3>1. rows' = rows
      BY DEF Index, MarkDeleted, UpsertTrackedResource, storeVars
    <3>2. Revisions(u)' = Revisions(u)
      BY <3>1 DEF Revisions, RowsOf
    <3>3. CASE UNCHANGED storeVars
      BY <3>2, <3>3 DEF storeVars
    <3>4. CASE job[h].event = "DELETED" /\ MarkDeleted(job[h].uid)
      BY <3>2, <3>4 DEF MarkDeleted, IndInv, TypeOK, StoreTypeOK
    <3>5. CASE /\ job[h].event # "DELETED"
               /\ UpsertTrackedResource(job[h].uid, job[h].revision)
      <4>1. /\ RevisionOf(h) \in rows
            /\ RevisionOf(h).uid = job[h].uid
            /\ RevisionOf(h).revision = current[job[h].uid] + 1
            /\ RevisionOf(h).event # "DELETED"
        BY <3>5 DEF Index, IndInv, CommitterHoldsRow, RevisionOf
      <4>2. job[h].uid # u
        BY <4>1 DEF IndInv, KeysUnique, DeletionHoldsRevision, RowsOf
      <4> QED BY <3>2, <3>5, <4>2 DEF UpsertTrackedResource, IndInv, TypeOK, StoreTypeOK
    <3> QED BY <3>3, <3>4, <3>5 DEF Index
  <2>2. ASSUME NEW h \in Watchers, Save(h)
        PROVE  /\ Revisions(u)' = Revisions(u)
               /\ current'[u] = current[u]
               /\ deleted[u] => deleted'[u]
    <3>1. CASE StoreRevision(RevisionOf(h))
      <4>1. job[h].uid # u
        BY <2>2, <3>1, InsertIsNext DEF Save, StoreRevision
      <4>2. RevisionOf(h).uid = job[h].uid
        BY DEF RevisionOf
      <4>3. RowsOf(u)' = RowsOf(u)
        BY <3>1, <4>1, <4>2 DEF StoreRevision, RowsOf
      <4> QED BY <3>1, <4>3 DEF StoreRevision, Revisions
    <3>2. CASE UNCHANGED storeVars
      BY <3>2 DEF storeVars, Revisions, RowsOf
    <3> QED BY <2>2, <3>1, <3>2 DEF Save
  <2>3. CASE ~(\E h \in Watchers : Save(h) \/ Index(h))
    BY <2>3, StoreUntouched DEF storeVars, Revisions, RowsOf
  <2> QED BY <2>1, <2>2, <2>3
<1> QED BY <1>1, Invariance, PTL DEF Spec, SealedByDeletion

-----------------------------------------------------------------------------
(* Bounded replay *)

LEMMA ModFacts ==
    ASSUME NEW n \in Nat \ {0}, NEW m \in Nat
    PROVE  /\ m % n \in 0..(n - 1)
           /\ (m % n) <= m
           /\ (m - (m % n)) % n = 0
<1>1. m % n \in 0..(n - 1) /\ (m % n) <= m
  OBVIOUS
<1>2. m = (n * (m \div n)) + (m % n)
  OBVIOUS
<1>3. m - (m % n) = n * (m \div n)
  BY <1>1, <1>2
<1>4. m \div n \in Nat
  OBVIOUS
<1>5. \A q \in Nat : (n * q) % n = 0
  OBVIOUS
<1> QED BY <1>1, <1>3, <1>4, <1>5

LEMMA SnapshotEveryType ==
    ASSUME NEW h \in Watchers
    PROVE  SnapshotEvery(h) \in Nat \ {0}
<1>1. PolicySpec[h].snapshotEvery \in Nat
  BY PolicyAssumption DEF Specs
<1> QED BY <1>1 DEF SnapshotEvery

\* Where every handler has the same snapshotEvery N, its multiples are stored
\* as snapshots.
OnBeat ==
    \A h \in Watchers :
        (\A g \in Watchers : SnapshotEvery(g) = SnapshotEvery(h)) =>
            \A r \in rows : IsSnapshotTime(h, r.revision) => r.isSnapshot

LEMMA OnBeatInvariant == Spec => []OnBeat
<1>1. Init => OnBeat
  BY DEF Init, StoreInit, OnBeat
<1>2. OnBeat /\ [Next]_vars => OnBeat'
  <2> SUFFICES ASSUME OnBeat, [Next]_vars,
                      NEW h \in Watchers,
                      \A g \in Watchers : SnapshotEvery(g) = SnapshotEvery(h),
                      NEW r \in rows', IsSnapshotTime(h, r.revision)
               PROVE  r.isSnapshot
    BY DEF OnBeat, IsSnapshotTime, SnapshotEvery
  <2>1. CASE r \in rows
    BY <2>1 DEF OnBeat
  <2>2. CASE r \notin rows
    <3>1. PICK g \in Watchers : Save(g) \/ Index(g)
      BY <2>2, StoreUntouched DEF storeVars
    <3>2. rows' = rows \cup {RevisionOf(g)}
      BY <2>2, <3>1 DEF Save, Index, StoreRevision, MarkDeleted, UpsertTrackedResource,
                        storeVars
    <3>3. r = RevisionOf(g)
      BY <2>2, <3>2
    <3>4. r.revision = job[g].revision
      BY <3>3 DEF RevisionOf
    <3>5. IsSnapshotTime(g, job[g].revision)
      BY <3>4 DEF IsSnapshotTime
    <3> QED BY <3>3, <3>5 DEF RevisionOf
  <2> QED BY <2>1, <2>2
<1> QED BY <1>1, <1>2, PTL DEF Spec

\* The multiple of N at or below a revision was stored, because the history
\* has no gaps, and stored as a snapshot; fewer than N revisions follow it.
THEOREM ReplayBounded == Spec => []BoundedReplay
<1>1. IndInv /\ OnBeat => BoundedReplay
  <2> SUFFICES ASSUME IndInv, OnBeat,
                      NEW h \in Watchers,
                      \A g \in Watchers : SnapshotEvery(g) = SnapshotEvery(h),
                      NEW r \in rows, ~(r.revision < SnapshotEvery(h))
               PROVE  \E s \in SnapshotsUpTo(r.uid, r.revision) :
                          r.revision - s.revision < SnapshotEvery(h)
    BY DEF BoundedReplay
  <2> DEFINE n == SnapshotEvery(h)
             m == r.revision - (r.revision % n)
  <2>1. n \in Nat \ {0}
    BY SnapshotEveryType
  <2>2. r.uid \in UIDs /\ r.revision \in Nat \ {0} /\ current[r.uid] \in Nat
    BY DEF IndInv, TypeOK, StoreTypeOK, Revision
  <2>3. r.revision % n \in 0..(n - 1) /\ (r.revision % n) <= r.revision /\ m % n = 0
    BY <2>1, <2>2, ModFacts
  <2>4. m \in 1..r.revision
    BY <2>1, <2>2, <2>3
  <2>5. m \in Revisions(r.uid)
    <3>1. r.revision \in Revisions(r.uid)
      BY DEF Revisions, RowsOf
    <3> HIDE DEF m
    <3> QED BY <2>2, <2>4, <3>1 DEF IndInv, Gapless
  <2>6. PICK s \in RowsOf(r.uid) : s.revision = m
    BY <2>5 DEF Revisions
  <2>7. s.isSnapshot
    BY <2>3, <2>6 DEF OnBeat, IsSnapshotTime, RowsOf
  <2>8. r.revision - s.revision < n
    BY <2>1, <2>2, <2>3, <2>6
  <2> QED BY <2>4, <2>6, <2>7, <2>8 DEF SnapshotsUpTo
<1> QED BY <1>1, Invariance, OnBeatInvariant, PTL
=============================================================================
