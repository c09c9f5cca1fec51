--------------------------- MODULE FidelityProofs ---------------------------
(***************************************************************************)
(* What is recorded of an object is exact and complete, where one recorder *)
(* is at work on it under the conditions of Fidelity, for any number of    *)
(* objects, versions and restarts, any fields and any snapshotEvery.       *)
(***************************************************************************)
EXTENDS Fidelity, RecorderProofs

-----------------------------------------------------------------------------
(* Replay *)

\* The loop of reconstructResource, one turn.
DocAt(base, patches, doc, i) ==
    IF i = base.revision THEN base.data
    ELSE LET at == {r \in patches : r.revision = i} IN
         IF at = {} THEN doc[i - 1]
         ELSE LET p == CHOOSE r \in at : TRUE IN
              IF p.isSnapshot THEN p.data ELSE ApplyMergePatch(doc[i - 1], p.data)

\* A document for every revision, each the loop's next, is what the loop computes.
LEMMA ReplayIs ==
    ASSUME NEW base, NEW n \in Nat, base.revision \in Nat, base.revision <= n, NEW patches,
           NEW f, f = [i \in base.revision..n |-> DocAt(base, patches, f, i)]
    PROVE  Replayed(base, n, patches) = f[n]
<1> DEFINE I == base.revision..n
           P(g) == g = [i \in I |-> DocAt(base, patches, g, i)]
           D == CHOOSE g : P(g)
<1>1. Replayed(base, n, patches) = D[n]
  BY DEF Replayed, DocAt
<1>2. P(D)
  <2>1. P(f)
    OBVIOUS
  <2> HIDE DEF P
  <2> QED BY <2>1
<1> HIDE DEF D
<1>3. \A i \in I : D[i] = DocAt(base, patches, D, i) /\ f[i] = DocAt(base, patches, f, i)
  BY <1>2
<1>4. \A i \in I : D[i] = f[i]
  <2> DEFINE S == {i \in I : D[i] # f[i]}
  <2> SUFFICES ASSUME S # {} PROVE FALSE
    OBVIOUS
  <2>1. S \in SUBSET Nat
    OBVIOUS
  <2>2. PICK m \in S : \A i \in S : m <= i
    BY <2>1, LeastElement
  <2>3. m # base.revision
    BY <1>3 DEF DocAt
  <2>4. m - 1 \in I /\ m - 1 \notin S
    <3>1. m \in base.revision..n
      OBVIOUS
    <3>2. m - 1 \in I /\ m \in Nat
      BY <2>3, <3>1
    <3>3. m - 1 \in S => m <= m - 1
      BY <2>2
    <3> HIDE DEF S
    <3> QED BY <3>2, <3>3
  <2>5. D[m - 1] = f[m - 1]
    BY <2>4
  <2>6. DocAt(base, patches, D, m) = DocAt(base, patches, f, m)
    BY <2>5 DEF DocAt
  <2> QED BY <1>3, <2>6
<1>5. n \in I
  OBVIOUS
<1> QED BY <1>1, <1>4, <1>5

\* Rows that follow each other from a snapshot on, without a gap, replay to the
\* document of the last of them.
LEMMA ReplayExact ==
    ASSUME NEW patches, NEW base, NEW target \in patches \cup {base},
           base.data = base.seen,
           \A r \in patches \cup {base} : r.revision \in Nat /\ r.seen \in Doc,
           \A r \in patches : r.isSnapshot => r.data = r.seen,
           \A r \in patches : base.revision < r.revision,
           \A r, s \in patches : r.revision = s.revision => r = s,
           \A i \in (base.revision + 1)..target.revision : \E r \in patches : r.revision = i,
           \A r \in patches \cup {base} : \A s \in patches :
               s.revision = r.revision + 1 /\ ~s.isSnapshot =>
                   ApplyMergePatch(r.seen, s.data) = s.seen
    PROVE  Replayed(base, target.revision, patches) = target.seen
<1> DEFINE b == base.revision
           n == target.revision
           row(i) == IF i = b THEN base ELSE CHOOSE r \in patches : r.revision = i
           f == [i \in b..n |-> row(i).seen]
<1>1. b \in Nat /\ n \in Nat /\ b <= n
  OBVIOUS
<1>2. \A i \in b..n : /\ row(i) \in patches \cup {base}
                      /\ row(i).revision = i
                      /\ i # b => row(i) \in patches
  OBVIOUS
<1>3. row(n) = target
  <2>1. CASE target = base
    BY <2>1
  <2>2. CASE target \in patches
    BY <1>1, <1>2, <2>2
  <2> QED BY <2>1, <2>2
<1> HIDE DEF row
<1>4. \A i \in b..n : f[i] = DocAt(base, patches, f, i)
  <2> SUFFICES ASSUME NEW i \in b..n PROVE row(i).seen = DocAt(base, patches, f, i)
    OBVIOUS
  <2>1. CASE i = b
    BY <2>1 DEF DocAt, row
  <2>2. CASE i # b
    <3>1. {r \in patches : r.revision = i} = {row(i)}
      BY <1>2, <2>2
    <3>2. (CHOOSE r \in {row(i)} : TRUE) = row(i)
      OBVIOUS
    <3>3. i - 1 \in b..n /\ row(i - 1).revision + 1 = row(i).revision
      BY <1>1, <1>2, <2>2
    <3>4. f[i - 1] = row(i - 1).seen
      BY <3>3
    <3>5. DocAt(base, patches, f, i) = IF row(i).isSnapshot THEN row(i).data
                                       ELSE ApplyMergePatch(f[i - 1], row(i).data)
      BY <2>2, <3>1, <3>2 DEF DocAt
    <3> HIDE DEF f
    <3> QED BY <1>2, <2>2, <3>3, <3>4, <3>5
  <2> QED BY <2>1, <2>2
<1>5. f = [i \in b..n |-> DocAt(base, patches, f, i)]
  BY <1>4
<1>6. f[n] = target.seen
  BY <1>1, <1>3
<1> HIDE DEF f
<1> QED BY <1>1, <1>5, <1>6, ReplayIs

-----------------------------------------------------------------------------
(* Steps, as an object's history sees them *)

\* Nobody touches the store or an event: each handler is where it was, with the
\* same objects in its informer's cache, or at rest with nothing delivered.
Quiet ==
    /\ UNCHANGED <<rows, current, replaced>>
    /\ \A h \in Watchers :
           \/ /\ pc'[h] = "idle"
              /\ \A u \in UIDs : ~Delivered(h, u)'
           \/ /\ pc'[h] = pc[h] /\ job'[h] = job[h] /\ initial'[h] = initial[h]
              /\ \A u \in UIDs : /\ Cached(h, u)' <=> Cached(h, u)
                                 /\ Cached(h, u) => Held(h, u)' = Held(h, u)

LEMMA ClusterQuiet == ASSUME BaseInv, Cluster PROVE Quiet
<1>1. PICK u \in UIDs, d \in Doc \cup {Gone} :
        /\ versions' = [versions EXCEPT ![u] = Append(@, d)]
        /\ UNCHANGED <<informerVars, handlerVars, storeVars>>
  BY DEF Cluster, Write, Remove
<1>2. ASSUME NEW h \in Watchers, NEW v \in UIDs
      PROVE  /\ Cached(h, v)' <=> Cached(h, v)
             /\ Cached(h, v) => Held(h, v)' = Held(h, v)
  <2>1. versions[v] \in Seq(Doc \cup {Gone}) /\ versions[u] \in Seq(Doc \cup {Gone})
        /\ pos[h][v] \in 0..Len(versions[v])
    BY DEF BaseInv, TypeOK, InformersBehind, Newer
  <2>2. \A i \in 1..Len(versions[v]) : versions'[v][i] = versions[v][i]
    BY <1>1, <2>1 DEF BaseInv, TypeOK
  <2> QED BY <1>1, <2>1, <2>2 DEF Cached, Held, informerVars
<1> QED BY <1>1, <1>2 DEF Quiet, informerVars, handlerVars, storeVars

LEMMA OutsideQuiet ==
    ASSUME BaseInv, IdleUntilListed, [Next]_vars,
           ~(\E h \in Watchers : Deliver(h) \/ Handle(h))
    PROVE  Quiet
<1> USE DEF clusterVars, handlerVars, storeVars
<1>1. CASE \E p \in Policies : StopPolicy(p)
  BY <1>1 DEF StopPolicy, Quiet, Cached, Held
<1>2. CASE \E h \in Watchers : Reconcile(h)
  BY <1>2 DEF Reconcile, Quiet, Cached, Held
<1>3. ASSUME NEW h \in Watchers, List(h) PROVE Quiet
  <2>1. UNCHANGED <<rows, current, replaced, pc, job, versions>> /\ pc[h] = "idle"
    BY <1>3 DEF List, IdleUntilListed
  <2>2. \A u \in UIDs : ~Delivered(h, u)'
    BY <1>3 DEF List, BaseInv, TypeOK, Delivered, Cached, Live, Last, Newer
  <2>3. \A g \in Watchers \ {h} : pos'[g] = pos[g] /\ initial'[g] = initial[g]
    BY <1>3 DEF List, BaseInv, TypeOK
  <2> QED BY <2>1, <2>2, <2>3 DEF Quiet, Cached, Held
<1>4. ASSUME NEW h \in Watchers, Exit(h) PROVE Quiet
  <2>1. UNCHANGED <<rows, current, replaced, pc, job, versions>> /\ pc[h] = "idle"
    BY <1>4 DEF Exit
  <2>2. \A u \in UIDs : ~Delivered(h, u)'
    BY <1>4 DEF Exit, BaseInv, TypeOK, Delivered, Cached, NotCached
  <2>3. \A g \in Watchers \ {h} : pos'[g] = pos[g] /\ initial'[g] = initial[g]
    BY <1>4 DEF Exit, BaseInv, TypeOK
  <2> QED BY <2>1, <2>2, <2>3 DEF Quiet, Cached, Held
<1>5. CASE Crash
  BY <1>5 DEF Crash, Quiet, Delivered, Cached, NotCached
<1>6. CASE UNCHANGED vars
  BY <1>6 DEF vars, Quiet, Cached, Held
<1> QED BY <1>1, <1>2, <1>3, <1>4, <1>5, <1>6, ClusterQuiet DEF Next

\* u takes the place of a former owner of its name.
Inherits(h, u) == \E w \in Former(u) : Cached(h, w) /\ <<w, u>> \in replaced'

\* And looks like it.
Resembles(h, u) ==
    \E w \in Former(u) :
        Cached(h, w) /\ <<w, u>> \in replaced' /\ Strip(h, Held(h, u)') = Strip(h, Held(h, w))

\* An event of u is dropped, as it says nothing new of a tracked object, or a
\* handler's call begins with it.
Dropped(h, u) ==
    /\ UNCHANGED <<pc, job>>
    /\ \/ ~Cached(h, u)'
       \/ ~ShouldTrack(h, u, Held(h, u)')
       \/ /\ Delivered(h, u)
          /\ PolicySpec[h].updates => Strip(h, Held(h, u)') = Strip(h, Held(h, u))
       \/ Inherits(h, u) /\ (PolicySpec[h].updates => Resembles(h, u))

Called(h, u) ==
    /\ pc' = [pc EXCEPT ![h] = "get"]
    /\ job' = [job EXCEPT ![h] = job'[h]]
    /\ job'[h].uid = u
    /\ \/ /\ job'[h].event = "DELETED"
          /\ versions[u][pos'[h][u]] = Gone
       \/ /\ job'[h].event \in {"LISTED", "CREATED", "UPDATED"}
          /\ Cached(h, u)' /\ u \notin initial'[h]
          /\ job'[h].new = Strip(h, Held(h, u)')
          /\ job'[h].event = "LISTED" => u \in initial[h]
          /\ job'[h].event = "UPDATED" =>
                 /\ ShouldTrack(h, u, Held(h, u)')
                 /\ PolicySpec[h].updates
                 /\ \/ (Delivered(h, u) /\ job'[h].old = Strip(h, Held(h, u)))
                    \/ Inherits(h, u)

LEMMA DeliverForm ==
    ASSUME BaseInv, NEW h \in Watchers, Deliver(h)
    PROVE  /\ UNCHANGED <<clusterVars, storeVars, phase, faults, reconciles>>
           /\ Ready(h) /\ replaced \subseteq replaced'
           /\ \A g \in Watchers \ {h} : pos'[g] = pos[g] /\ initial'[g] = initial[g]
           /\ \E u \in UIDs :
                  /\ \A v \in UIDs \ {u} :
                         /\ pos'[h][v] = pos[h][v] \/ (v \in Former(u) /\ pos'[h][v] = Newer(v))
                         /\ v \in initial'[h] <=> v \in initial[h]
                  /\ u \notin initial'[h]
                  /\ pos'[h][u] \in 1..Newer(u) /\ pos'[h][u] >= pos[h][u]
                  /\ Dropped(h, u) \/ Called(h, u)
<1> USE DEF clusterVars, storeVars, handlerVars
<1>1. ASSUME NEW u \in UIDs, OnAddInitial(h, u)
      PROVE  /\ \A v \in UIDs \ {u} : v \in initial'[h] <=> v \in initial[h]
             /\ u \notin initial'[h] /\ UNCHANGED pos
             /\ \A g \in Watchers \ {h} : initial'[g] = initial[g]
             /\ pos[h][u] \in 1..Newer(u)
             /\ Dropped(h, u) \/ Called(h, u)
  <2>1. /\ \A v \in UIDs \ {u} : v \in initial'[h] <=> v \in initial[h]
        /\ u \notin initial'[h] /\ UNCHANGED <<pos, versions>>
        /\ \A g \in Watchers \ {h} : initial'[g] = initial[g]
    BY <1>1 DEF OnAddInitial, BaseInv, TypeOK
  <2>2. Cached(h, u) /\ pos[h][u] \in 1..Newer(u)
    BY <1>1 DEF OnAddInitial, BaseInv, TypeOK, InformersBehind, Cached, Newer
  <2>3. Cached(h, u)' /\ Held(h, u)' = versions[u][pos[h][u]]
    BY <2>1, <2>2 DEF Cached, Held
  <2>4. CASE UNCHANGED <<pc, job>> /\ ~ShouldTrack(h, u, versions[u][pos[h][u]])
    BY <2>1, <2>2, <2>3, <2>4 DEF Dropped
  <2>5. CASE Begin(h, "LISTED", u, versions[u][pos[h][u]], versions[u][pos[h][u]])
    <3>1. Called(h, u)
      BY <1>1, <2>1, <2>3, <2>5 DEF Called, Begin, OnAddInitial, BaseInv, TypeOK
    <3> QED BY <2>1, <2>2, <3>1
  <2> QED BY <1>1, <2>4, <2>5 DEF OnAddInitial
<1>2. ASSUME NEW u \in UIDs, NEW j \in 1..Newer(u),
             OnAdd(h, u, j) \/ (\E w \in UIDs : OnUpdate(h, w, u, j)) \/ OnDelete(h, u, j)
      PROVE  /\ \A v \in UIDs \ {u} :
                   pos'[h][v] = pos[h][v] \/ (v \in Former(u) /\ pos'[h][v] = Newer(v))
             /\ \A g \in Watchers \ {h} : pos'[g] = pos[g]
             /\ UNCHANGED initial /\ u \notin initial[h]
             /\ pos'[h][u] = j /\ j >= pos[h][u]
             /\ Dropped(h, u) \/ Called(h, u)
  <2>1. Observe(h, u, j)
    BY <1>2 DEF OnAdd, OnUpdate, OnDelete
  <2>2. /\ \A v \in UIDs \ {u} :
              pos'[h][v] = pos[h][v] \/ (v \in Former(u) /\ pos'[h][v] = Newer(v))
        /\ \A g \in Watchers \ {h} : pos'[g] = pos[g]
        /\ pos'[h][u] = j
    BY <2>1, Observed
  <2>0. /\ UNCHANGED <<initial, versions>> /\ u \notin initial[h]
        /\ j >= pos[h][u] /\ j > 0 /\ pc[h] = "idle"
    BY <2>1 DEF Observe, Ready, BaseInv, TypeOK, Newer
  <2>3. Held(h, u)' = versions[u][j] /\ (Cached(h, u)' <=> versions[u][j] # Gone)
    BY <2>0, <2>2 DEF Held, Cached
  <2>4. CASE OnAdd(h, u, j)
    <3>1. CASE UNCHANGED <<pc, job>> /\ ~ShouldTrack(h, u, versions[u][j])
      BY <2>0, <2>2, <2>3, <3>1 DEF Dropped
    <3>2. CASE Begin(h, "CREATED", u, versions[u][j], versions[u][j])
      <4>1. Called(h, u)
        BY <2>0, <2>2, <2>3, <2>4, <3>2 DEF Called, Begin, OnAdd, BaseInv, TypeOK
      <4> QED BY <2>0, <2>2, <4>1
    <3> QED BY <2>4, <3>1, <3>2 DEF OnAdd
  <2>5. CASE \E w \in UIDs : OnUpdate(h, w, u, j)
    <3> PICK w \in UIDs : OnUpdate(h, w, u, j)
      BY <2>5
    <3> DEFINE old == versions[w][pos[h][w]]
               new == versions[u][j]
    <3>1. /\ \/ Delivered(h, u) /\ Held(h, u) = old
             \/ Inherits(h, u) /\ (Strip(h, new) = Strip(h, old) => Resembles(h, u))
          /\ old \in Doc /\ new \in Doc
      <4>0. w \in {u} \cup Former(u) /\ Cached(h, w)
        BY DEF OnUpdate, CachedByName
      <4>1. old \in Doc
        BY <4>0, CachedIsDoc
      <4>2. new \in Doc
        BY DEF OnUpdate, BaseInv, TypeOK, Newer
      <4>3. w = u => Delivered(h, u) /\ Held(h, u) = old
        BY <2>0, <4>0 DEF Delivered, Busy, Held
      <4>4. CASE w # u
        <5>1. w \in Former(u) /\ Cached(h, w) /\ <<w, u>> \in replaced'
          BY <4>0, <4>4 DEF OnUpdate
        <5>2. Held(h, w) = old /\ Held(h, u)' = new
          BY <2>3 DEF Held
        <5> QED BY <4>1, <4>2, <5>1, <5>2 DEF Inherits, Resembles
      <4> QED BY <4>1, <4>2, <4>3, <4>4
    <3>2. CASE UNCHANGED <<pc, job>>
               /\ ~( /\ ShouldTrack(h, u, new) /\ PolicySpec[h].updates
                     /\ ~IsEmpty(ComputeMergePatch(Strip(h, old), Strip(h, new))))
      <4>1. IsEmpty(ComputeMergePatch(Strip(h, old), Strip(h, new)))
               => Strip(h, old) = Strip(h, new)
        BY <3>1, StripType, EmptyPatch DEF Strip
      <4>2. Dropped(h, u)
        BY <2>3, <3>1, <3>2, <4>1 DEF Dropped
      <4> QED BY <2>0, <2>2, <4>2
    <3>3. CASE /\ Begin(h, "UPDATED", u, old, new)
               /\ ShouldTrack(h, u, new) /\ PolicySpec[h].updates
      <4>1. Called(h, u)
        BY <2>0, <2>2, <2>3, <3>1, <3>3 DEF Called, Begin, OnUpdate, BaseInv, TypeOK
      <4> QED BY <2>0, <2>2, <4>1
    <3> QED BY <3>2, <3>3 DEF OnUpdate, handlerVars
  <2>6. CASE OnDelete(h, u, j)
    <3>1. CASE UNCHANGED <<pc, job>>
      BY <2>0, <2>2, <2>3, <2>6, <3>1 DEF OnDelete, Dropped
    <3>2. CASE Begin(h, "DELETED", u, versions[u][pos[h][u]], versions[u][pos[h][u]])
      <4>1. Called(h, u)
        BY <2>0, <2>2, <2>3, <2>6, <3>2 DEF Called, Begin, OnDelete, BaseInv, TypeOK
      <4> QED BY <2>0, <2>2, <4>1
    <3> QED BY <2>6, <3>1, <3>2 DEF OnDelete
  <2> QED BY <1>2, <2>4, <2>5, <2>6
<1>3. /\ UNCHANGED <<clusterVars, storeVars, phase, faults, reconciles>>
      /\ Ready(h) /\ replaced \subseteq replaced'
  BY DEF Deliver, OnAddInitial, OnAdd, OnUpdate, OnDelete, Observe
<1>4. CASE \E u \in UIDs : OnAddInitial(h, u)
  <2>1. PICK u \in UIDs : OnAddInitial(h, u)
    BY <1>4
  <2>2. pos[h][u] \in Nat
    BY DEF BaseInv, TypeOK
  <2> QED BY <1>1, <1>3, <2>1, <2>2
<1>5. CASE \E u \in UIDs : \E j \in 1..Newer(u) :
               OnAdd(h, u, j) \/ (\E w \in UIDs : OnUpdate(h, w, u, j)) \/ OnDelete(h, u, j)
  BY <1>2, <1>3, <1>5
<1> QED BY <1>4, <1>5 DEF Deliver

\* A handler at work touches no informer and no other handler.
LEMMA HandleFrame ==
    ASSUME BaseInv, NEW h \in Watchers, Handle(h)
    PROVE  /\ UNCHANGED <<versions, phase, initial, pos, replaced, reconciles>>
           /\ pc[h] # "idle"
           /\ \A g \in Watchers \ {h} : pc'[g] = pc[g] /\ job'[g] = job[g]
           /\ \A g \in Watchers : \A u \in UIDs :
                  (Cached(g, u)' <=> Cached(g, u)) /\ Held(g, u)' = Held(g, u)
<1>1. UNCHANGED <<versions, phase, initial, pos, replaced, reconciles>> /\ pc[h] # "idle"
  BY DEF Handle, Lookup, ReadLatest, Save, Index, clusterVars, informerVars
<1>2. \A g \in Watchers \ {h} : pc'[g] = pc[g] /\ job'[g] = job[g]
  <2>1. CASE \E label : Chooses(h, label)
    BY <2>1 DEF Chooses, BaseInv, TypeOK
  <2>2. CASE Return(h)
    BY <2>2 DEF Return, BaseInv, TypeOK
  <2>3. CASE Goto(h, "index") /\ UNCHANGED job
    BY <2>3 DEF Goto, BaseInv, TypeOK
  <2>4. CASE Lookup(h)
    <3>1. current[job[h].uid] \in Nat
      BY DEF BaseInv, TypeOK, StoreTypeOK, Job
    <3>2. PICK found \in Nat : pc[h] = "get" /\ Proceed(h, found)
      BY <2>4, <3>1, LookupForm
    <3>3. Return(h) \/ \E label : Chooses(h, label)
      BY <3>2, ProceedForm
    <3> QED BY <2>1, <2>2, <3>3
  <2>5. CASE ReadLatest(h)
    BY <2>1, <2>2, <2>5, ReadLatestForm
  <2>6. CASE Save(h)
    BY <2>2, <2>3, <2>6 DEF Save
  <2>7. CASE Index(h)
    BY <2>2, <2>7 DEF Index
  <2> QED BY <2>4, <2>5, <2>6, <2>7 DEF Handle
<1> QED BY <1>1, <1>2 DEF Cached, Held

\* The handlers move from one object to another only with an event.
LEMMA HandleUid ==
    ASSUME BaseInv, NEW h \in Watchers, Handle(h)
    PROVE  /\ pc'[h] # "idle" => job'[h].uid = job[h].uid
           /\ rows' \subseteq rows \cup {RevisionOf(h)}
           /\ RevisionOf(h).uid = job[h].uid
<1>1. pc'[h] # "idle" => ~Return(h)
  BY DEF Return, BaseInv, TypeOK
<1>2. CASE Lookup(h)
  <2>1. current[job[h].uid] \in Nat
    BY DEF BaseInv, TypeOK, StoreTypeOK, Job
  <2>2. PICK found \in Nat : pc[h] = "get" /\ Proceed(h, found)
    BY <1>2, <2>1, LookupForm
  <2>3. Return(h) \/ \E label : Chooses(h, label)
    BY <2>2, ProceedForm
  <2> QED BY <1>1, <1>2, <2>3, LookupForm DEF Chooses, RevisionOf, storeVars
<1>3. CASE ReadLatest(h)
  <2>1. Return(h) \/ Chooses(h, "store")
    BY <1>3, ReadLatestForm
  <2> QED BY <1>1, <1>3, <2>1, ReadLatestForm DEF Chooses, RevisionOf, storeVars
<1>4. CASE Save(h)
  BY <1>1, <1>4 DEF Save, StoreRevision, RevisionOf, storeVars
<1>5. CASE Index(h)
  BY <1>1, <1>5 DEF Index, MarkDeleted, UpsertTrackedResource, RevisionOf, storeVars
<1> QED BY <1>2, <1>3, <1>4, <1>5 DEF Handle

\* Only clients of the cluster write versions.
LEMMA VersionsKept ==
    ASSUME BaseInv, [Next]_vars, ~Cluster
    PROVE  UNCHANGED versions
<1>1. CASE \E h \in Watchers : Handle(h)
  BY <1>1, HandleFrame
<1>2. CASE \E h \in Watchers : Deliver(h)
  BY <1>2, DeliverForm DEF clusterVars
<1> QED BY <1>1, <1>2
        DEF Next, StopPolicy, Reconcile, List, Exit, Crash, clusterVars, vars

\* A step of the cluster: one version more of an object whose name nobody else has.
LEMMA ClusterForm ==
    ASSUME BaseInv, Cluster
    PROVE  /\ UNCHANGED <<informerVars, handlerVars, storeVars>>
           /\ \E u \in UIDs, d \in Doc \cup {Gone} :
                  /\ versions' = [versions EXCEPT ![u] = Append(@, d)]
                  /\ Newer(u)' = Newer(u) + 1 /\ Newer(u) \in Nat
                  /\ d # Gone => /\ \A w \in Former(u) : ~Live(w)
                                 /\ \A w \in Later(u) : Newer(w) = 0
                  /\ d = Gone => Live(u) /\ Last(u)' = Gone
<1>1. ASSUME NEW u \in UIDs, NEW d \in Doc \cup {Gone},
             versions' = [versions EXCEPT ![u] = Append(@, d)]
      PROVE  Newer(u)' = Newer(u) + 1 /\ Newer(u) \in Nat /\ Last(u)' = d
  <2>1. versions[u] \in Seq(Doc \cup {Gone}) /\ versions'[u] = Append(versions[u], d)
    BY <1>1 DEF BaseInv, TypeOK
  <2> QED BY <2>1 DEF Newer, Last
<1>2. ASSUME NEW u \in UIDs, NEW d \in Doc, Write(u, d)
      PROVE  /\ versions' = [versions EXCEPT ![u] = Append(@, d)] /\ d # Gone
             /\ \A w \in Former(u) : ~Live(w)
             /\ \A w \in Later(u) : Newer(w) = 0
  BY <1>2, GoneAssumption DEF Write
<1>3. ASSUME NEW u \in UIDs, Remove(u)
      PROVE  versions' = [versions EXCEPT ![u] = Append(@, Gone)] /\ Live(u)
  BY <1>3 DEF Remove
<1>4. UNCHANGED <<informerVars, handlerVars, storeVars>>
  BY DEF Cluster, Write, Remove
<1>5. CASE \E u \in UIDs : \E d \in Doc : Write(u, d)
  <2> PICK u \in UIDs, d \in Doc : Write(u, d)
    BY <1>5
  <2> QED BY <1>1, <1>2, <1>4
<1>6. CASE \E u \in UIDs : Remove(u)
  <2> PICK u \in UIDs : Remove(u)
    BY <1>6
  <2> DEFINE d == Gone
  <2>1. d \in Doc \cup {Gone} /\ d = Gone
    OBVIOUS
  <2>2. versions' = [versions EXCEPT ![u] = Append(@, d)] /\ Live(u)
    BY <1>3
  <2> HIDE DEF d
  <2>3. Newer(u)' = Newer(u) + 1 /\ Newer(u) \in Nat /\ Last(u)' = d
    BY <1>1, <2>1, <2>2
  <2> QED BY <1>4, <2>1, <2>2, <2>3
<1> QED BY <1>5, <1>6 DEF Cluster

LEMMA OwnersSucceedStep ==
    ASSUME BaseInv, OwnersSucceed, [Next]_vars
    PROVE  OwnersSucceed'
<1>1. CASE ~Cluster
  BY <1>1, VersionsKept DEF OwnersSucceed, Newer, Live, Last, Former
<1>2. CASE Cluster
  <2>1. PICK u \in UIDs, d \in Doc \cup {Gone} :
          /\ versions' = [versions EXCEPT ![u] = Append(@, d)]
          /\ d # Gone => /\ \A w \in Former(u) : ~Live(w)
                         /\ \A w \in Later(u) : Newer(w) = 0
          /\ d = Gone => Live(u) /\ Last(u)' = Gone
    BY <1>2, ClusterForm
  <2>2. \A v \in UIDs \ {u} : versions'[v] = versions[v]
    BY <2>1 DEF BaseInv, TypeOK
  <2>3. \A v \in UIDs \ {u} : Newer(v)' = Newer(v) /\ (Live(v)' <=> Live(v))
    BY <2>2 DEF Newer, Live, Last
  <2> SUFFICES ASSUME NEW v \in UIDs, NEW w \in Former(v), Newer(v)' > 0
               PROVE  ~Live(w)'
    BY DEF OwnersSucceed, Former
  <2>4. w \in UIDs /\ w # v /\ v \in Later(w)
    BY IncarnationAssumption DEF Former, Later, SameName
  <2>5. CASE w = u
    BY <2>1, <2>3, <2>4, <2>5 DEF Live, OwnersSucceed
  <2>6. CASE v = u
    BY <2>1, <2>3, <2>4, <2>6 DEF Live, OwnersSucceed
  <2>7. CASE v # u /\ w # u
    BY <2>3, <2>4, <2>7 DEF OwnersSucceed
  <2> QED BY <2>5, <2>6, <2>7
<1> QED BY <1>1, <1>2

\* An event leaves an informer's cache as it is, or moves it on by one name.
LEMMA DeliverMoves ==
    ASSUME BaseInv, CachesSucceed, NEW h \in Watchers, Deliver(h)
    PROVE  \A u \in UIDs : \A w \in Former(u) : pos'[h][u] > 0 => pos'[h][w] = Newer(w)
<1>1. CASE UNCHANGED pos
  BY <1>1 DEF CachesSucceed
<1>2. ASSUME NEW v \in UIDs, NEW j \in 1..Newer(v), Observe(h, v, j),
             NEW u \in UIDs, NEW w \in Former(u), pos'[h][u] > 0
      PROVE  pos'[h][w] = Newer(w)
  <2>1. /\ pos'[h][v] = j
        /\ \A x \in Former(v) : pos'[h][x] = Newer(x)
        /\ \A x \in UIDs \ ({v} \cup Former(v)) : pos'[h][x] = pos[h][x]
    BY <1>2, Observed
  <2>2. pos[h][v] < j /\ j <= Newer(v) /\ pos[h][v] \in Nat /\ Newer(v) \in Nat
    BY <1>2 DEF Observe, BaseInv, TypeOK, Newer
  <2>3. w \in UIDs /\ SameName(w, u) /\ Incarnation[w] < Incarnation[u]
        /\ \A x \in UIDs : Incarnation[x] \in Nat
    BY IncarnationAssumption DEF Former
  <2>4. CASE w \in Former(v)
    BY <2>1, <2>4
  <2>5. CASE u \in {v} \cup Former(v)
    <3>1. w \in Former(v)
      BY <2>3, <2>5 DEF Former, SameName
    <3> QED BY <2>1, <3>1
  <2>6. CASE u \notin {v} \cup Former(v) /\ w \notin Former(v)
    <3>1. pos[h][w] = Newer(w)
      BY <1>2, <2>1, <2>6 DEF CachesSucceed
    <3>2. w # v
      BY <2>2, <3>1
    <3> QED BY <2>1, <2>3, <2>6, <3>1, <3>2
  <2> QED BY <2>4, <2>5, <2>6
<1>3. UNCHANGED pos \/ \E v \in UIDs : \E j \in 1..Newer(v) : Observe(h, v, j)
  BY DEF Deliver, OnAddInitial, OnAdd, OnUpdate, OnDelete
<1> QED BY <1>1, <1>2, <1>3

LEMMA CachesSucceedStep ==
    ASSUME BaseInv, OwnersSucceed, CachesSucceed, [Next]_vars
    PROVE  CachesSucceed'
<1> SUFFICES ASSUME NEW h \in Watchers, NEW u \in UIDs, NEW w \in Former(u), pos'[h][u] > 0
             PROVE  pos'[h][w] = Newer(w)'
  BY DEF CachesSucceed, Former
<1>0. w \in UIDs /\ w # u /\ u \in Later(w)
  BY IncarnationAssumption DEF Former, Later, SameName
<1>1. CASE Cluster
  <2>1. PICK v \in UIDs, d \in Doc \cup {Gone} :
          /\ versions' = [versions EXCEPT ![v] = Append(@, d)]
          /\ d # Gone => \A x \in Later(v) : Newer(x) = 0
          /\ d = Gone => Live(v)
    BY <1>1, ClusterForm
  <2>2. UNCHANGED pos
    BY <1>1, ClusterForm DEF informerVars
  <2>3. pos[h][w] = Newer(w) /\ Newer(u) > 0
    BY <2>2 DEF CachesSucceed, BaseInv, TypeOK, InformersBehind, Newer
  <2>4. v # w
    BY <1>0, <2>1, <2>3 DEF OwnersSucceed
  <2>5. Newer(w)' = Newer(w)
    BY <1>0, <2>1, <2>4 DEF Newer, BaseInv, TypeOK
  <2> QED BY <2>2, <2>3, <2>5
<1>2. CASE ~Cluster /\ pos'[h] = pos[h]
  BY <1>2, VersionsKept DEF CachesSucceed, Newer
<1>3. CASE \E g \in Watchers : Deliver(g)
  <2>1. PICK g \in Watchers : Deliver(g)
    BY <1>3
  <2>2. UNCHANGED versions /\ (g # h => pos'[h] = pos[h])
    BY <2>1, DeliverForm DEF clusterVars
  <2>3. CASE g = h
    BY <2>1, <2>2, <2>3, DeliverMoves DEF Newer
  <2>4. CASE g # h
    BY <2>2, <2>4 DEF CachesSucceed, Newer
  <2> QED BY <2>3, <2>4
<1>4. CASE \E g \in Watchers : Handle(g)
  BY <1>4, HandleFrame DEF CachesSucceed, Newer
<1>5. CASE \E g \in Watchers : List(g)
  <2>1. PICK g \in Watchers : List(g)
    BY <1>5
  <2>2. UNCHANGED versions /\ pos'[h] \in {pos[h], [x \in UIDs |-> Newer(x)]}
    BY <2>1 DEF List, clusterVars, BaseInv, TypeOK
  <2> QED BY <1>0, <2>2 DEF CachesSucceed, Newer
<1>6. CASE (\E g \in Watchers : Exit(g)) \/ Crash
  <2>1. UNCHANGED versions /\ pos'[h] \in {pos[h], NotCached}
    BY <1>6 DEF Exit, Crash, clusterVars, BaseInv, TypeOK
  <2> QED BY <2>1 DEF CachesSucceed, Newer, NotCached
<1> QED BY <1>1, <1>2, <1>3, <1>4, <1>5, <1>6 DEF Next, StopPolicy, Reconcile, vars

LEMMA RecordedIsSeenStep ==
    ASSUME OneRecorder, BaseInv, IdleUntilListed, RecordedIsSeen, [Next]_vars
    PROVE  RecordedIsSeen'
<1> SUFFICES ASSUME NEW h \in Watchers, NEW u \in UIDs, (RowsOf(u) # {} \/ Busy(h, u))'
             PROVE  Newer(u)' > 0 /\ (Listed(h)' => pos'[h][u] > 0)
  BY DEF RecordedIsSeen
<1>0. /\ \A v \in UIDs : Newer(v) \in Nat /\ pos[h][v] \in Nat
      /\ \A g \in Watchers : g = h
      /\ job[h].uid \in UIDs
  BY DEF OneRecorder, BaseInv, TypeOK, Newer, Job
<1>1. CASE Cluster
  <2>1. PICK v \in UIDs, d \in Doc \cup {Gone} :
          /\ versions' = [versions EXCEPT ![v] = Append(@, d)]
          /\ Newer(v)' = Newer(v) + 1
    BY <1>1, ClusterForm
  <2>2. UNCHANGED <<phase, pos, pc, job, rows>>
    BY <1>1, ClusterForm DEF informerVars, handlerVars, storeVars
  <2>3. Newer(u) > 0 /\ (Listed(h) => pos[h][u] > 0)
    BY <2>2 DEF RecordedIsSeen, Busy, RowsOf
  <2>4. Newer(u)' > 0
    <3>1. Newer(u)' = Newer(u) \/ Newer(u)' = Newer(u) + 1
      BY <2>1 DEF Newer, BaseInv, TypeOK
    <3> QED BY <1>0, <2>3, <3>1
  <2> QED BY <1>0, <2>2, <2>3, <2>4 DEF Listed
<1>2. CASE \E g \in Watchers : Handle(g)
  <2>1. Handle(h)
    BY <1>0, <1>2
  <2>2. UNCHANGED <<versions, phase, pos>> /\ pc[h] # "idle"
    BY <2>1, HandleFrame
  <2>3. RowsOf(u) # {} \/ Busy(h, u)
    <3>1. /\ pc'[h] # "idle" => job'[h].uid = job[h].uid
          /\ rows' \subseteq rows \cup {RevisionOf(h)}
          /\ RevisionOf(h).uid = job[h].uid
      BY <2>1, HandleUid
    <3> HIDE DEF RevisionOf
    <3> QED BY <2>2, <3>1 DEF RowsOf, Busy
  <2> QED BY <2>2, <2>3 DEF RecordedIsSeen, Newer, Listed
<1>3. CASE \E g \in Watchers : Deliver(g)
  <2>1. Deliver(h)
    BY <1>0, <1>3
  <2>2. UNCHANGED <<versions, phase, rows>> /\ Listed(h) /\ pc[h] = "idle"
    BY <2>1, DeliverForm DEF clusterVars, storeVars, Ready, Listed
  <2>3. PICK v \in UIDs :
          /\ \A x \in UIDs \ {v} :
                 pos'[h][x] = pos[h][x] \/ (x \in Former(v) /\ pos'[h][x] = Newer(x))
          /\ pos'[h][v] \in 1..Newer(v)
          /\ Dropped(h, v) \/ Called(h, v)
    BY <2>1, DeliverForm
  <2>4. CASE u = v
    BY <1>0, <2>2, <2>3, <2>4 DEF Newer
  <2>5. CASE u # v
    <3>1. ~Busy(h, u)'
      <4>1. CASE Dropped(h, v)
        BY <2>2, <4>1 DEF Dropped, Busy
      <4>2. CASE Called(h, v)
        BY <2>5, <4>2 DEF Called, Busy
      <4> QED BY <2>3, <4>1, <4>2
    <3>2. Newer(u) > 0 /\ pos[h][u] > 0
      BY <2>2, <3>1 DEF RecordedIsSeen, RowsOf
    <3> QED BY <2>2, <2>3, <2>5, <3>2 DEF Newer
  <2> QED BY <2>4, <2>5
<1>4. CASE ~Cluster /\ ~(\E g \in Watchers : Deliver(g) \/ Handle(g))
  <2>1. UNCHANGED <<versions, rows>>
    BY <1>4, VersionsKept, OutsideQuiet DEF Quiet
  <2>2. Busy(h, u)' => Busy(h, u)
    BY <1>4, OutsideQuiet DEF Quiet, Busy
  <2>3. Newer(u) > 0 /\ (Listed(h) => pos[h][u] > 0)
    BY <2>1, <2>2 DEF RecordedIsSeen, RowsOf
  <2>4. Listed(h)' => pos'[h][u] > 0
    <3>1. CASE UNCHANGED <<phase, pos>>
      BY <2>3, <3>1 DEF Listed
    <3>2. CASE (\E p \in Policies : StopPolicy(p)) \/ (\E g \in Watchers : Reconcile(g))
      <4>1. \A x : Cancelled(x) \in {"running", "draining"} => x \in {"running", "draining"}
        BY DEF Cancelled
      <4>2. UNCHANGED pos /\ (Listed(h)' => Listed(h))
        BY <3>2, <4>1 DEF StopPolicy, Reconcile, Listed
      <4> QED BY <2>3, <4>2
    <3>3. CASE \E g \in Watchers : List(g)
      <4>1. List(h)
        BY <1>0, <3>3
      <4>2. pos'[h][u] = Newer(u)
        BY <4>1 DEF List, BaseInv, TypeOK
      <4> QED BY <2>3, <4>2
    <3>4. CASE \E g \in Watchers : Exit(g)
      <4>1. phase'[h] = "stopped"
        BY <1>0, <3>4 DEF Exit, BaseInv, TypeOK
      <4> QED BY <4>1 DEF Listed
    <3>5. CASE Crash
      BY <3>5 DEF Crash, Listed
    <3> QED BY <1>4, <3>1, <3>2, <3>3, <3>4, <3>5 DEF Next, vars
  <2> QED BY <2>1, <2>3, <2>4 DEF Newer
<1> QED BY <1>1, <1>2, <1>3, <1>4

LEMMA OrderlyStep ==
    ASSUME OneRecorder, BaseInv, Orderly, [Next]_vars
    PROVE  Orderly'
<1> USE DEF Orderly
<1>0. Succession'
  BY OwnersSucceedStep, CachesSucceedStep, RecordedIsSeenStep DEF Succession
<1>1. CASE \E h \in Watchers : Handle(h)
  <2>1. PICK h \in Watchers : Handle(h)
    BY <1>1
  <2>2. IdleUntilListed'
    BY <2>1, HandleFrame DEF IdleUntilListed
  <2>3. pc'[h] = "latest" => job'[h].event = "LISTED"
    <3>1. CASE Lookup(h)
      <4>1. current[job[h].uid] \in Nat
        BY DEF BaseInv, TypeOK, StoreTypeOK, Job
      <4>2. PICK found \in Nat : pc[h] = "get" /\ Proceed(h, found)
        BY <3>1, <4>1, LookupForm
      <4> QED BY <4>2, ProceedForm DEF Return, Chooses, BaseInv, TypeOK
    <3>2. CASE ReadLatest(h)
      <4>1. pc[h] = "latest" /\ (Return(h) \/ Chooses(h, "store"))
        BY <3>2, ReadLatestForm
      <4> QED BY <4>1 DEF Return, Chooses, BaseInv, TypeOK
    <3>3. CASE Save(h) \/ Index(h)
      BY <3>3 DEF Save, Index, Return, Goto, BaseInv, TypeOK
    <3> QED BY <2>1, <3>1, <3>2, <3>3 DEF Handle
  <2> QED BY <1>0, <2>1, <2>2, <2>3, HandleFrame DEF LatestIsListed
<1>2. CASE \E h \in Watchers : Deliver(h)
  <2>1. PICK h \in Watchers : Deliver(h)
    BY <1>2
  <2>2. /\ UNCHANGED phase /\ phase[h] \in {"running", "draining"}
        /\ \A g \in Watchers \ {h} : pos'[g] = pos[g]
        /\ \/ UNCHANGED <<pc, job>>
           \/ pc' = [pc EXCEPT ![h] = "get"] /\ job' = [job EXCEPT ![h] = job'[h]]
    BY <2>1, DeliverForm DEF Ready, Dropped, Called
  <2>3. IdleUntilListed'
    BY <2>2 DEF IdleUntilListed, BaseInv, TypeOK
  <2>4. LatestIsListed'
    BY <2>2 DEF LatestIsListed, BaseInv, TypeOK
  <2> QED BY <1>0, <2>3, <2>4
<1>3. CASE ~(\E h \in Watchers : Deliver(h) \/ Handle(h))
  <2>1. LatestIsListed'
    <3>1. Calm
      BY <1>3, OutsideBase
    <3> QED BY <3>1 DEF Calm, LatestIsListed
  <2>2. IdleUntilListed'
    <3> USE DEF IdleUntilListed, handlerVars
    <3>1. CASE Cluster \/ UNCHANGED vars
      BY <3>1 DEF Cluster, Write, Remove, informerVars, vars
    <3>2. \A x : Cancelled(x) \in {"stopped", "starting"} => x \in {"stopped", "starting"}
      BY DEF Cancelled
    <3>3. CASE \E p \in Policies : StopPolicy(p)
      BY <3>2, <3>3 DEF StopPolicy
    <3>4. CASE \E h \in Watchers : Reconcile(h)
      BY <3>2, <3>4 DEF Reconcile
    <3>5. CASE \E h \in Watchers : List(h)
      BY <3>5 DEF List, BaseInv, TypeOK
    <3>6. CASE \E h \in Watchers : Exit(h)
      BY <3>6 DEF Exit, BaseInv, TypeOK
    <3>7. CASE Crash
      BY <3>7 DEF Crash
    <3> QED BY <1>3, <3>1, <3>3, <3>4, <3>5, <3>6, <3>7 DEF Next
  <2> QED BY <1>0, <2>1, <2>2
<1> QED BY <1>1, <1>2, <1>3

LEMMA NextChosenStep ==
    ASSUME OneRecorder, ReadsSucceed, BaseInv, NextChosen, [Next]_vars
    PROVE  NextChosen'
<1>1. CASE \E h \in Watchers : Handle(h)
  <2>1. PICK h \in Watchers : Handle(h)
    BY <1>1
  <2> SUFFICES ASSUME pc'[h] \in {"latest", "store", "index"}
               PROVE  job'[h].revision = current'[job'[h].uid] + 1
    BY <2>1, HandleFrame DEF NextChosen, OneRecorder
  <2>2. ~Return(h)
    BY DEF Return, BaseInv, TypeOK
  <2>3. CASE Lookup(h)
    <3>1. UNCHANGED current /\ pc[h] = "get"
      BY <2>3, LookupForm DEF storeVars
    <3>2. Proceed(h, current[job[h].uid]) /\ current[job[h].uid] \in Nat
      BY <2>3, LookupForm DEF ReadsSucceed, Fault, BaseInv, TypeOK, StoreTypeOK, Job
    <3> QED BY <2>2, <3>1, <3>2, ProceedForm DEF Chooses
  <2>4. CASE ReadLatest(h)
    BY <2>2, <2>4, ReadLatestForm DEF NextChosen, Chooses, storeVars
  <2>5. CASE Save(h)
    BY <2>2, <2>5, SaveForm DEF NextChosen, StoreRevision
  <2>6. CASE Index(h)
    BY <2>2, <2>6 DEF Index
  <2> QED BY <2>1, <2>3, <2>4, <2>5, <2>6 DEF Handle
<1>2. CASE ~(\E h \in Watchers : Handle(h))
  BY <1>2, OutsideBase DEF Calm, NextChosen, storeVars
<1> QED BY <1>1, <1>2

-----------------------------------------------------------------------------
(* The chain *)

Ground ==
    /\ BaseInv
    /\ Orderly
    /\ NextChosen
    /\ UnpublishedIsLast
    /\ EndsAtIndex

LEMMA TracksByName ==
    ASSUME SelectsByName, NEW h \in Watchers, NEW u, NEW d, NEW e, ShouldTrack(h, u, d)
    PROVE  ShouldTrack(h, u, e)
BY DEF SelectsByName, ShouldTrack

\* The newest row is the one the next patch will follow.
LEMMA LatestEnds ==
    ASSUME Ground, NEW u \in UIDs, RowsOf(u) # {}
    PROVE  /\ GetLatestRevision(u) \in RowsOf(u)
           /\ LatestSeen(u) = GetLatestRevision(u).seen
           /\ EndsWith(u, LatestSeen(u))
<1> DEFINE last == GetLatestRevision(u)
<1>1. last \in RowsOf(u) /\ \A r \in RowsOf(u) : r.revision <= last.revision
  BY LatestOf DEF Ground
<1>2. LatestSeen(u) = last.seen
  BY DEF LatestSeen, GetLatestRevision
<1> HIDE DEF last
<1>3. PICK top \in RowsOf(u) : /\ top.revision \in {current[u], current[u] + 1}
                               /\ \A s \in RowsOf(u) : s.revision <= top.revision
  BY DEF Ground, EndsAtIndex
<1>4. last.revision = top.revision
  <2>1. last.revision \in Nat /\ top.revision \in Nat
    BY <1>1, <1>3 DEF Ground, BaseInv, TypeOK, StoreTypeOK, Revision, RowsOf
  <2> QED BY <1>1, <1>3, <2>1
<1>5. ~Taken(u) => last.revision = current[u]
  BY <1>1, <1>3, <1>4 DEF Taken
<1>6. EndsWith(u, last.seen)
  BY <1>1, <1>5 DEF EndsWith, Ground, BaseInv, KeysUnique, RowsOf
<1> QED BY <1>1, <1>2, <1>6 DEF last

LEMMA PublishingTakes ==
    ASSUME Ground, NEW h \in Watchers, pc[h] = "index", RowsOf(job[h].uid) # {}
    PROVE  Taken(job[h].uid)
BY DEF Ground, UnpublishedIsLast, NextChosen, Taken

LEMMA ChainQuiet ==
    ASSUME Ground, ChainInv, Quiet
    PROVE  ChainInv'
<1> USE DEF ChainInv
<1>1. UNCHANGED <<rows, current>>
  BY DEF Quiet
<1>2. SnapshotTellsAll' /\ PatchesFollow'
  BY <1>1 DEF SnapshotTellsAll, PatchesFollow
<1>3. ASSUME NEW h \in Watchers, NEW u \in UIDs, Delivered(h, u)'
      PROVE  Delivered(h, u) /\ Held(h, u)' = Held(h, u)
  BY <1>3 DEF Quiet, Delivered, Busy
<1>4. CacheFollowed'
  BY <1>1, <1>3 DEF CacheFollowed, EndsWith, Taken, RowsOf
<1>5. ASSUME NEW h \in Watchers, pc'[h] # "idle"
      PROVE  /\ pc'[h] = pc[h] /\ job'[h] = job[h] /\ initial'[h] = initial[h]
             /\ job[h].uid \in UIDs
             /\ Cached(h, job[h].uid) =>
                    Cached(h, job[h].uid)' /\ Held(h, job[h].uid)' = Held(h, job[h].uid)
  <2>1. job[h].uid \in UIDs
    BY DEF Ground, BaseInv, TypeOK, Job
  <2>2. /\ pc'[h] = pc[h] /\ job'[h] = job[h] /\ initial'[h] = initial[h]
        /\ \A u \in UIDs : /\ Cached(h, u)' <=> Cached(h, u)
                           /\ Cached(h, u) => Held(h, u)' = Held(h, u)
    BY <1>5 DEF Quiet
  <2> DEFINE u == job[h].uid
  <2>3. Cached(h, u) => Cached(h, u)' /\ Held(h, u)' = Held(h, u)
    BY <2>1, <2>2
  <2> QED BY <2>1, <2>2, <2>3
<1>6. JobsOfCache'
  BY <1>5 DEF JobsOfCache, Cached, Held
<1>7. JobsFollow'
  BY <1>1, <1>5 DEF JobsFollow, EndsWith, Taken, RowsOf
<1> QED BY <1>2, <1>4, <1>6, <1>7

\* What an event does to an informer's objects.
LEMMA DeliverEffect ==
    ASSUME BaseInv, Orderly, NEW h \in Watchers, Deliver(h)
    PROVE  /\ UNCHANGED <<rows, current, versions, phase>>
           /\ pc[h] = "idle" /\ replaced \subseteq replaced'
           /\ \A g \in Watchers \ {h} : pc'[g] = pc[g] /\ job'[g] = job[g]
           /\ \E u \in UIDs :
                  /\ \A v \in UIDs \ {u} :
                         Delivered(h, v)' => Delivered(h, v) /\ Held(h, v)' = Held(h, v)
                  /\ Inherits(h, u) => RowsOf(u) = {} /\ TookOver(u)'
                  /\ \/ /\ Dropped(h, u)
                        /\ pc'[h] = "idle"
                     \/ /\ Called(h, u)
                        /\ pc'[h] = "get"
                        /\ ~Delivered(h, u)'
<1>1. PICK u \in UIDs :
        /\ \A v \in UIDs \ {u} :
               /\ pos'[h][v] = pos[h][v] \/ (v \in Former(u) /\ pos'[h][v] = Newer(v))
               /\ v \in initial'[h] <=> v \in initial[h]
        /\ pos'[h][u] \in 1..Newer(u) /\ pos'[h][u] >= pos[h][u]
        /\ Dropped(h, u) \/ Called(h, u)
  BY DeliverForm
<1>2. /\ UNCHANGED <<rows, current, versions, phase>> /\ replaced \subseteq replaced'
      /\ pc[h] = "idle" /\ Listed(h)
  BY DeliverForm DEF clusterVars, storeVars, Ready, Listed
<1>3. OwnersSucceed /\ CachesSucceed /\ RecordedIsSeen
  BY DEF Orderly, Succession
<1>4. Newer(u) \in Nat /\ Newer(u) > 0 /\ \A w \in Former(u) : ~Live(w)
  <2>1. Newer(u) \in Nat
    BY DEF BaseInv, TypeOK, Newer
  <2> QED BY <1>1, <1>3, <2>1 DEF OwnersSucceed
<1>5. \A v \in UIDs \ {u} : Cached(h, v)' => pos'[h][v] = pos[h][v]
  BY <1>1, <1>2, <1>4 DEF Cached, Live, Last
<1>6. Inherits(h, u) => RowsOf(u) = {} /\ TookOver(u)'
  <2> SUFFICES ASSUME NEW w \in Former(u), Cached(h, w), <<w, u>> \in replaced'
               PROVE  RowsOf(u) = {} /\ TookOver(u)'
    BY DEF Inherits
  <2>1. w \in UIDs /\ TookOver(u)'
    BY DEF Former, TookOver
  <2>2. pos[h][u] > 0 => pos[h][w] = Newer(w)
    BY <1>3 DEF CachesSucceed
  <2>3. ~(pos[h][u] > 0)
    BY <1>4, <2>1, <2>2 DEF Cached, Live, Last
  <2> QED BY <1>2, <1>3, <2>1, <2>3 DEF RecordedIsSeen
<1>7. CASE Dropped(h, u)
  <2>1. \A v \in UIDs \ {u} :
            Delivered(h, v)' => Delivered(h, v) /\ Held(h, v)' = Held(h, v)
    BY <1>1, <1>2, <1>5, <1>7 DEF Dropped, Delivered, Cached, Held, Busy
  <2> QED BY <1>2, <1>6, <1>7, <2>1 DEF Dropped
<1>8. CASE Called(h, u)
  <2>1. /\ pc'[h] = "get" /\ job'[h].uid = u
        /\ \A g \in Watchers \ {h} : pc'[g] = pc[g] /\ job'[g] = job[g]
    BY <1>8 DEF Called, BaseInv, TypeOK
  <2>2. \A v \in UIDs \ {u} :
            Delivered(h, v)' => Delivered(h, v) /\ Held(h, v)' = Held(h, v)
    BY <1>1, <1>2, <1>5 DEF Delivered, Cached, Held, Busy
  <2>3. ~Delivered(h, u)'
    BY <2>1 DEF Delivered, Busy
  <2> QED BY <1>2, <1>6, <1>8, <2>1, <2>2, <2>3
<1> QED BY <1>1, <1>7, <1>8

LEMMA ChainDeliver ==
    ASSUME OneRecorder, SelectsByName, Ground, ChainInv, NEW h \in Watchers, Deliver(h)
    PROVE  ChainInv'
<1> USE DEF ChainInv
<1>1. /\ UNCHANGED <<rows, current>> /\ pc[h] = "idle"
      /\ \A g \in Watchers : g = h
  BY DeliverEffect DEF Ground, OneRecorder
<1>2. PICK u \in UIDs :
        /\ \A v \in UIDs \ {u} :
               Delivered(h, v)' => Delivered(h, v) /\ Held(h, v)' = Held(h, v)
        /\ Inherits(h, u) => RowsOf(u) = {}
        /\ \/ Dropped(h, u) /\ pc'[h] = "idle"
           \/ Called(h, u) /\ pc'[h] = "get" /\ ~Delivered(h, u)'
  BY DeliverEffect DEF Ground
<1>3. SnapshotTellsAll' /\ PatchesFollow'
  BY <1>1 DEF SnapshotTellsAll, PatchesFollow
<1>4. ASSUME NEW v \in UIDs, Delivered(h, v)', ShouldTrack(h, v, Held(h, v))', PolicySpec[h].updates
      PROVE  \/ RowsOf(v) = {}
             \/ Delivered(h, v) /\ Strip(h, Held(h, v)') = Strip(h, Held(h, v))
  <2>1. ShouldTrack(h, v, Held(h, v)')
    BY <1>4 DEF ShouldTrack
  <2> QED BY <1>2, <1>4, <2>1 DEF Dropped, Delivered
<1>5. ASSUME NEW v \in UIDs, Delivered(h, v), PolicySpec[h].updates,
             ShouldTrack(h, v, Held(h, v)')
      PROVE  EndsWith(v, Strip(h, Held(h, v)))
  <2>1. ShouldTrack(h, v, Held(h, v))
    BY <1>5, TracksByName
  <2> QED BY <1>5, <2>1 DEF CacheFollowed
<1>6. CacheFollowed'
  <2> SUFFICES ASSUME NEW v \in UIDs, Delivered(h, v)', ShouldTrack(h, v, Held(h, v))',
                      PolicySpec[h].updates
               PROVE  EndsWith(v, Strip(h, Held(h, v)))'
    BY <1>1 DEF CacheFollowed
  <2>1. ShouldTrack(h, v, Held(h, v)')
    BY DEF ShouldTrack
  <2>2. EndsWith(v, Strip(h, Held(h, v)'))
    BY <1>4, <1>5, <2>1 DEF EndsWith
  <2> QED BY <1>1, <2>2 DEF EndsWith, Taken, RowsOf, Strip
<1>7. JobsOfCache'
  BY <1>1, <1>2 DEF JobsOfCache, Called, Strip
<1>8. LatestIsListed'
  BY <1>1, <1>2 DEF LatestIsListed
<1>9. JobsFollow'
  <2> SUFFICES ASSUME pc'[h] = "get", job'[h].event = "UPDATED"
               PROVE  EndsWith(job[h].uid, job[h].old)'
    BY <1>1, <1>2 DEF JobsFollow
  <2>1. job'[h].uid = u /\ EndsWith(u, job'[h].old)
    BY <1>2, <1>5 DEF Called, EndsWith
  <2> QED BY <1>1, <2>1 DEF EndsWith, Taken, RowsOf
<1> QED BY <1>3, <1>6, <1>7, <1>9

\* A handler that stays with its event, the store untouched.
LEMMA ChainGoesOn ==
    ASSUME OneRecorder, Ground, ChainInv, NEW h \in Watchers, Handle(h),
           UNCHANGED <<rows, current>>,
           NEW label, Chooses(h, label),
           job'[h].event = "DELETED" \/ job[h].event # "DELETED",
           label = "store" /\ job'[h].event = "UPDATED" => EndsWith(job[h].uid, job'[h].old)
    PROVE  ChainInv'
<1> USE DEF ChainInv
<1>1. /\ \A g \in Watchers : g = h
      /\ UNCHANGED initial
      /\ \A u \in UIDs : (Cached(h, u)' <=> Cached(h, u)) /\ Held(h, u)' = Held(h, u)
      /\ pc[h] # "idle"
  BY HandleFrame DEF Ground, OneRecorder
<1>2. /\ pc'[h] = label /\ label \in {"latest", "store"}
      /\ job'[h].uid = job[h].uid /\ job'[h].new = job[h].new /\ job[h].uid \in UIDs
  BY DEF Chooses, Ground, BaseInv, TypeOK, Job
<1>3. SnapshotTellsAll' /\ PatchesFollow'
  BY DEF SnapshotTellsAll, PatchesFollow
<1>4. \A u \in UIDs : Delivered(h, u)' => Delivered(h, u)
  BY <1>1, <1>2 DEF Delivered, Busy
<1>5. CacheFollowed'
  BY <1>1, <1>4 DEF CacheFollowed, EndsWith, Taken, RowsOf, ShouldTrack, Strip
<1>6. JobsOfCache'
  BY <1>1, <1>2 DEF JobsOfCache, Strip
<1>7. JobsFollow'
  BY <1>1, <1>2 DEF JobsFollow, EndsWith, Taken, RowsOf
<1> QED BY <1>3, <1>5, <1>6, <1>7

\* A handler that is done with u, where nothing is to be said of u, or where
\* what it saw is what the next patch will follow.
LEMMA ChainReturns ==
    ASSUME OneRecorder, Ground, ChainInv, NEW h \in Watchers, Handle(h), Return(h),
           UNCHANGED rows,
           \A v \in UIDs \ {job[h].uid} : current'[v] = current[v],
           \A v \in UIDs : v = job[h].uid /\ Cached(h, v) /\ PolicySpec[h].updates =>
               EndsWith(v, Strip(h, Held(h, v)))'
    PROVE  ChainInv'
<1> USE DEF ChainInv
<1> DEFINE u == job[h].uid
<1>1. /\ \A g \in Watchers : g = h
      /\ UNCHANGED initial
      /\ \A v \in UIDs : (Cached(h, v)' <=> Cached(h, v)) /\ Held(h, v)' = Held(h, v)
  BY HandleFrame DEF Ground, OneRecorder
<1>2. pc'[h] = "idle" /\ u \in UIDs
  BY DEF Return, Ground, BaseInv, TypeOK, Job
<1>3. SnapshotTellsAll' /\ PatchesFollow'
  BY DEF SnapshotTellsAll, PatchesFollow
<1>4. JobsOfCache' /\ JobsFollow'
  BY <1>1, <1>2 DEF JobsOfCache, JobsFollow
<1>5. CacheFollowed'
  <2> SUFFICES ASSUME NEW v \in UIDs, Delivered(h, v)', ShouldTrack(h, v, Held(h, v))',
                      PolicySpec[h].updates
               PROVE  EndsWith(v, Strip(h, Held(h, v)))'
    BY <1>1 DEF CacheFollowed
  <2>1. CASE v # u
    <3>1. Delivered(h, v) /\ ShouldTrack(h, v, Held(h, v))
      BY <1>1, <2>1 DEF Delivered, Busy, ShouldTrack
    <3> QED BY <1>1, <2>1, <3>1 DEF CacheFollowed, EndsWith, Taken, RowsOf, Strip
  <2>2. CASE v = u
    BY <1>1, <2>2 DEF Delivered
  <2> QED BY <2>1, <2>2
<1> QED BY <1>3, <1>4, <1>5

LEMMA ChainLookup ==
    ASSUME OneRecorder, ReadsSucceed, RecordsCreations, Ground, ChainInv,
           NEW h \in Watchers, Lookup(h)
    PROVE  ChainInv'
<1> DEFINE found == current[job[h].uid]
<1>1. Handle(h) /\ pc[h] = "get" /\ UNCHANGED <<rows, current>>
  BY LookupForm DEF Ground, Handle, storeVars
<1>2. found \in Nat /\ Proceed(h, found)
  <2>1. job[h].uid \in UIDs /\ current \in [UIDs -> Nat]
    BY DEF Ground, BaseInv, TypeOK, StoreTypeOK, Job
  <2>2. Proceed(h, found)
    BY LookupForm DEF Ground, ReadsSucceed, Fault
  <2> QED BY <2>1, <2>2
<1>3. PICK label :
        /\ Chooses(h, label)
        /\ label = "store" \/ job[h].event = "LISTED"
        /\ job'[h].old = job[h].old
        /\ job'[h].event = job[h].event \/ job'[h].event = "CREATED"
        /\ job[h].event # "DELETED" \/ job'[h].event = job[h].event
  BY <1>1, <1>2, ProceedForm DEF RecordsCreations, Ground
<1>4. label = "store" /\ job'[h].event = "UPDATED" => EndsWith(job[h].uid, job'[h].old)
  BY <1>1, <1>3 DEF ChainInv, JobsFollow
<1> QED BY <1>1, <1>3, <1>4, ChainGoesOn

LEMMA ChainReadLatest ==
    ASSUME OneRecorder, ReadsSucceed, Ground, ChainInv,
           NEW h \in Watchers, ReadLatest(h), CatchesDrift(h)
    PROVE  ChainInv'
<1>0. PICK u \in UIDs : u = job[h].uid
  BY DEF Ground, BaseInv, TypeOK, Job
<1> DEFINE last == GetLatestRevision(u)
<1>1. /\ Handle(h) /\ pc[h] = "latest" /\ UNCHANGED <<rows, current>>
      /\ job[h].event = "LISTED"
  BY ReadLatestForm DEF Ground, Orderly, LatestIsListed, Handle, storeVars
<1>2. CASE Return(h)
  <2>1. pc'[h] = "idle"
    BY <1>2 DEF Return, Ground, BaseInv, TypeOK
  <2>2. PolicySpec[h].updates => RowsOf(u) = {} \/ LatestSeen(u) = job[h].new
    BY <1>0, <2>1 DEF CatchesDrift
  <2>3. PolicySpec[h].updates => EndsWith(u, job[h].new)
    BY <1>1, <2>2, LatestEnds DEF EndsWith
  <2>4. job[h].new = Strip(h, Held(h, u)) /\ Held(h, u)' = Held(h, u)
    BY <1>0, <1>1, HandleFrame DEF ChainInv, JobsOfCache, Ground
  <2>5. \A v \in UIDs : v = job[h].uid /\ Cached(h, v) /\ PolicySpec[h].updates =>
            EndsWith(v, Strip(h, Held(h, v)))'
    BY <1>0, <1>1, <2>3, <2>4 DEF EndsWith, Taken, RowsOf, Strip
  <2> QED BY <1>1, <1>2, <2>5, ChainReturns
<1>3. CASE ~Return(h)
  <2>1. /\ Chooses(h, "store")
        /\ job'[h].event = "UPDATED" /\ job'[h].old = last.data
        /\ RowsOf(u) # {} /\ last.isSnapshot
    BY <1>0, <1>3, ReadLatestForm DEF Ground
  <2>2. last \in RowsOf(u) /\ EndsWith(u, last.seen)
    BY <1>1, <2>1, LatestEnds
  <2>3. last.data = last.seen
    BY <2>1, <2>2 DEF ChainInv, SnapshotTellsAll, RowsOf
  <2> HIDE DEF last
  <2>4. EndsWith(u, job'[h].old)
    BY <2>1, <2>2, <2>3
  <2> QED BY <1>0, <1>1, <2>1, <2>4, ChainGoesOn
<1> QED BY <1>2, <1>3

\* The row that is added follows the one before it.
LEMMA ChainInsert ==
    ASSUME OneRecorder, Ground, ChainInv, NEW h \in Watchers, Save(h),
           StoreRevision(RevisionOf(h)), Goto(h, "index"), UNCHANGED job
    PROVE  ChainInv'
<1> USE DEF ChainInv
<1> DEFINE u == job[h].uid
           rev == RevisionOf(h)
<1>1. /\ Handle(h) /\ pc[h] = "store" /\ UNCHANGED current /\ rows' = rows \cup {rev}
      /\ \A r \in rows : ~(r.uid = rev.uid /\ r.revision = rev.revision)
  BY DEF Handle, Save, StoreRevision, Conflicts
<1>2. /\ rev \in Revision /\ rev.uid = u /\ rev.seen = job[h].new /\ rev.revision = current[u] + 1
      /\ rev.isSnapshot => rev.data = job[h].new
      /\ ~rev.isSnapshot => /\ job[h].event = "UPDATED"
                            /\ rev.data = ComputeMergePatch(job[h].old, job[h].new)
      /\ u \in UIDs /\ job[h].old \in Doc /\ job[h].new \in Doc /\ current[u] \in Nat
  BY <1>1, RevisionOfType DEF Ground, NextChosen, BaseInv, TypeOK, StoreTypeOK, Job
<1>3. /\ \A g \in Watchers : g = h
      /\ UNCHANGED initial
      /\ \A v \in UIDs : (Cached(h, v)' <=> Cached(h, v)) /\ Held(h, v)' = Held(h, v)
      /\ pc'[h] = "index"
  BY <1>1, HandleFrame DEF Ground, OneRecorder, Goto, BaseInv, TypeOK
<1> HIDE DEF rev
<1>4. SnapshotTellsAll'
  BY <1>1, <1>2 DEF SnapshotTellsAll
<1>5. ~Taken(u)
  BY <1>1, <1>2 DEF Taken, RowsOf
<1>6. ASSUME NEW r \in RowsOf(u)
      PROVE  r.revision \in Nat /\ r.revision <= current[u] + 1
  <2>1. \A s \in RowsOf(u) : s.revision \in Nat
    BY DEF Ground, BaseInv, TypeOK, StoreTypeOK, Revision, RowsOf
  <2>2. PICK top \in RowsOf(u) : top.revision \in {current[u], current[u] + 1}
                                 /\ r.revision <= top.revision
    BY <1>2 DEF Ground, EndsAtIndex
  <2> QED BY <1>2, <2>1, <2>2
<1>7. PatchesFollow'
  <2> SUFFICES ASSUME NEW r \in rows', NEW s \in rows',
                      r.uid = s.uid, s.revision = r.revision + 1, ~s.isSnapshot
               PROVE  ApplyMergePatch(r.seen, s.data) = s.seen
    BY DEF PatchesFollow
  <2>1. CASE r \in rows /\ s \in rows
    BY <2>1 DEF PatchesFollow
  <2>2. CASE s = rev /\ r \in rows
    <3>1. r \in RowsOf(u) /\ r.revision = current[u]
      BY <1>2, <1>6, <2>2 DEF RowsOf
    <3>2. EndsWith(u, job[h].old)
      BY <1>1, <1>2, <2>2 DEF JobsFollow
    <3>3. r.seen = job[h].old
      BY <1>5, <3>1, <3>2 DEF EndsWith
    <3> QED BY <1>2, <2>2, <3>3, PatchRoundTrip
  <2>3. CASE r = rev /\ s \in rows
    BY <1>2, <1>6, <2>3 DEF RowsOf
  <2>4. CASE r = rev /\ s = rev
    BY <1>2, <2>4
  <2> QED BY <1>1, <2>1, <2>2, <2>3, <2>4
<1>8. \A v \in UIDs : Delivered(h, v)' => v # u /\ Delivered(h, v)
  BY <1>1, <1>3 DEF Delivered, Busy
<1>9. CacheFollowed'
  <2>1. \A v \in UIDs \ {u} : RowsOf(v)' = RowsOf(v)
    BY <1>1, <1>2 DEF RowsOf
  <2> QED BY <1>1, <1>3, <1>8, <2>1 DEF CacheFollowed, EndsWith, Taken, ShouldTrack, Strip
<1>10. JobsOfCache'
  BY <1>1, <1>2, <1>3 DEF JobsOfCache, Strip
<1>11. JobsFollow'
  BY <1>1, <1>2, <1>3 DEF JobsFollow, RowsOf, Ground, NextChosen
<1> QED BY <1>4, <1>7, <1>9, <1>10, <1>11

LEMMA ChainSave ==
    ASSUME OneRecorder, InsertsSucceed, Ground, ChainInv, NEW h \in Watchers, Save(h)
    PROVE  ChainInv'
<1> DEFINE u == job[h].uid
           rev == RevisionOf(h)
<1>1. CASE StoreRevision(rev) /\ Goto(h, "index") /\ UNCHANGED job
  BY <1>1, ChainInsert
<1>2. CASE Conflicts(rev) /\ Return(h) /\ UNCHANGED storeVars
  <2>1. Handle(h) /\ pc[h] = "store" /\ UNCHANGED <<rows, current>>
    BY <1>2 DEF Handle, Save, storeVars
  <2>2. Taken(u)
    <3>1. rev.uid = u /\ rev.revision = current[u] + 1
      BY <2>1, RevisionOfType DEF Ground, NextChosen
    <3> HIDE DEF rev
    <3> QED BY <1>2, <3>1 DEF Conflicts, Taken, RowsOf
  <2>3. \A v \in UIDs : v = u => EndsWith(v, Strip(h, Held(h, v)))'
    BY <2>1, <2>2 DEF EndsWith, Taken, RowsOf
  <2> QED BY <1>2, <2>1, <2>3, ChainReturns
<1> QED BY <1>1, <1>2, SaveForm DEF Ground, InsertsSucceed, Fault, Save

LEMMA ChainIndex ==
    ASSUME OneRecorder, Ground, ChainInv, NEW h \in Watchers, Index(h)
    PROVE  ChainInv'
<1>0. PICK u \in UIDs : u = job[h].uid
  BY DEF Ground, BaseInv, TypeOK, Job
<1>1. Handle(h) /\ pc[h] = "index" /\ Return(h)
  BY DEF Handle, Index
<1>2. CASE UNCHANGED <<rows, current>>
  <2>1. \A v \in UIDs : v = u => EndsWith(v, Strip(h, Held(h, v)))'
    BY <1>0, <1>1, <1>2, PublishingTakes DEF EndsWith, Taken, RowsOf
  <2> QED BY <1>0, <1>1, <1>2, <2>1, ChainReturns
<1>3. CASE job[h].event # "DELETED" /\ UpsertTrackedResource(u, job[h].revision)
  <2>1. /\ UNCHANGED rows /\ current'[u] = job[h].revision
        /\ \A v \in UIDs \ {u} : current'[v] = current[v]
    BY <1>0, <1>1, <1>3 DEF UpsertTrackedResource, Ground, BaseInv, TypeOK, StoreTypeOK
  <2>2. job[h].new = Strip(h, Held(h, u)) /\ Held(h, u)' = Held(h, u)
    BY <1>0, <1>1, <1>3, HandleFrame DEF ChainInv, JobsOfCache, Ground
  <2>3. \A r \in RowsOf(u) : r.revision = job[h].revision => r.seen = job[h].new
    BY <1>0, <1>1 DEF ChainInv, JobsFollow
  <2>4. \A v \in UIDs : v = u => EndsWith(v, Strip(h, Held(h, v)))'
    BY <2>1, <2>2, <2>3 DEF EndsWith, RowsOf, Strip
  <2> QED BY <1>0, <1>1, <2>1, <2>4, ChainReturns
<1> QED BY <1>0, <1>2, <1>3 DEF Index, MarkDeleted, storeVars

LEMMA ChainStep ==
    ASSUME OneRecorder, ReadsSucceed, InsertsSucceed, RecordsCreations, SelectsByName,
           Ground, ChainInv, [Next]_vars, \A h \in Watchers : CatchesDrift(h)
    PROVE  ChainInv'
<1>1. CASE \E h \in Watchers : Handle(h)
  BY <1>1, ChainLookup, ChainReadLatest, ChainSave, ChainIndex DEF Handle
<1>2. CASE \E h \in Watchers : Deliver(h)
  BY <1>2, ChainDeliver
<1>3. CASE ~(\E h \in Watchers : Deliver(h) \/ Handle(h))
  BY <1>3, OutsideQuiet, ChainQuiet DEF Ground, Orderly
<1> QED BY <1>1, <1>2, <1>3

-----------------------------------------------------------------------------
(* The beginning *)

\* The recorder has what the chain's steps ask for.
LEMMA GroundOf ==
    ASSUME IndInv, Orderly, NextChosen
    PROVE  Ground
<1>1. BaseInv
  BY IndHasBase
<1>2. UnpublishedIsLast
  <2> SUFFICES ASSUME NEW h \in Watchers, pc[h] = "index"
               PROVE  \E r \in RowsOf(job[h].uid) : r.revision = job[h].revision
    BY DEF UnpublishedIsLast
  <2>1. RevisionOf(h) \in rows
    BY DEF IndInv, CommitterHoldsRow
  <2>2. RevisionOf(h).uid = job[h].uid /\ RevisionOf(h).revision = job[h].revision
    BY <1>1, RevisionOfType
  <2> QED BY <2>1, <2>2 DEF RowsOf
<1>3. EndsAtIndex
  <2> SUFFICES ASSUME NEW u \in UIDs, RowsOf(u) # {}
               PROVE  \E r \in RowsOf(u) :
                          /\ r.revision \in {current[u], current[u] + 1}
                          /\ \A s \in RowsOf(u) : s.revision <= r.revision
    BY DEF EndsAtIndex
  <2>1. current[u] \in Nat /\ Revisions(u) # {}
    <3>1. current[u] \in Nat
      BY DEF IndInv, TypeOK, StoreTypeOK
    <3> QED BY <3>1 DEF Revisions
  <2>2. PICK n \in {current[u], current[u] + 1} : Revisions(u) = 1..n
    BY DEF IndInv, Gapless
  <2>3. n \in Revisions(u)
    BY <2>1, <2>2
  <2>4. \A s \in RowsOf(u) : s.revision \in 1..n
    BY <2>2 DEF Revisions
  <2>5. PICK r \in RowsOf(u) : r.revision = n
    BY <2>3 DEF Revisions
  <2> QED BY <2>1, <2>4, <2>5
<1> QED BY <1>1, <1>2, <1>3 DEF Ground

\* An object with a row has a first one, and one with a number has a row.
LEMMA FirstRow ==
    ASSUME IndInv, NEW u \in UIDs
    PROVE  /\ current[u] > 0 => RowsOf(u) # {}
           /\ RowsOf(u) # {} => \E r \in RowsOf(u) : r.revision = 1
<1>1. current[u] \in Nat
  BY DEF IndInv, TypeOK, StoreTypeOK
<1>2. PICK n \in {current[u], current[u] + 1} : Revisions(u) = 1..n
  BY DEF IndInv, Gapless
<1>3. n \in Nat /\ (n > 0 => 1 \in Revisions(u))
  BY <1>1, <1>2
<1>4. RowsOf(u) # {} => n > 0
  <2> SUFFICES ASSUME RowsOf(u) # {} PROVE n > 0
    OBVIOUS
  <2>1. PICK r \in RowsOf(u) : r.revision \in 1..n
    BY <1>2 DEF Revisions
  <2> QED BY <1>3, <2>1
<1>5. 1 \in Revisions(u) => \E r \in RowsOf(u) : r.revision = 1
  BY DEF Revisions
<1> QED BY <1>1, <1>3, <1>4, <1>5

LEMMA FirstHandle ==
    ASSUME OneRecorder, ReadsSucceed, InsertsSucceed, RecordsCreations,
           IndInv, FirstInv, NEW h \in Watchers, Handle(h)
    PROVE  FirstInv'
<1>0. BaseInv
  BY IndHasBase
<1>1. PICK u \in UIDs : u = job[h].uid
  BY <1>0 DEF BaseInv, TypeOK, Job
<1>2. /\ \A g \in Watchers : g = h
      /\ UNCHANGED initial
      /\ \A v \in UIDs : (Cached(h, v)' <=> Cached(h, v)) /\ Held(h, v)' = Held(h, v)
  BY <1>0, HandleFrame DEF OneRecorder
<1>9. UNCHANGED replaced
  BY <1>0, HandleFrame
<1>3. ASSUME rows \subseteq rows',
             HasBegun(u)' \/ (pc'[h] # "idle" /\ job'[h].uid = u)
      PROVE  CacheRecorded'
  <2> SUFFICES ASSUME NEW v \in UIDs, Delivered(h, v)', ShouldTrack(h, v, Held(h, v))'
               PROVE  HasBegun(v)'
    BY <1>2 DEF CacheRecorded
  <2>1. CASE v = u
    BY <1>3, <2>1 DEF Delivered, Busy
  <2>2. CASE v # u
    <3>1. Delivered(h, v) /\ ShouldTrack(h, v, Held(h, v))
      BY <1>1, <1>2, <2>2 DEF Delivered, Busy, ShouldTrack
    <3>2. HasBegun(v)
      BY <3>1 DEF FirstInv, CacheRecorded
    <3> QED BY <1>9, <1>3, <3>2 DEF HasBegun, TookOver, RowsOf
  <2> QED BY <2>1, <2>2
<1>4. CASE Lookup(h)
  <2>1. /\ pc[h] = "get" /\ UNCHANGED rows
        /\ Proceed(h, current[u]) /\ current[u] \in Nat
    BY <1>0, <1>1, <1>4, LookupForm
       DEF ReadsSucceed, Fault, storeVars, BaseInv, TypeOK, StoreTypeOK
  <2>2. PICK label :
          /\ Chooses(h, label)
          /\ label = "latest" => current[u] > 0
          /\ job'[h].event = job[h].event \/ job'[h].event = "CREATED"
    BY <1>0, <1>1, <2>1, ProceedForm DEF RecordsCreations
  <2>3. /\ pc'[h] = label /\ job'[h].uid = u /\ label \in {"latest", "store"}
    BY <1>0, <1>1, <2>2 DEF Chooses, BaseInv, TypeOK
  <2>4. JobsRecorded'
    BY <1>1, <1>2, <1>9, <2>1, <2>2, <2>3, FirstRow
       DEF JobsRecorded, FirstInv, HasBegun, TookOver, RowsOf
  <2> QED BY <1>3, <1>9, <2>1, <2>3, <2>4 DEF FirstInv, FirstIsSnapshot, TookOver
<1>5. CASE ReadLatest(h)
  <2>1. HasBegun(u)' /\ UNCHANGED rows
    BY <1>0, <1>1, <1>5, <1>9, ReadLatestForm
       DEF FirstInv, JobsRecorded, HasBegun, TookOver, RowsOf, storeVars
  <2>2. pc'[h] # "idle" => job'[h].uid = u
    BY <1>0, <1>1, <1>5, ReadLatestForm DEF Return, Chooses, BaseInv, TypeOK
  <2>3. JobsRecorded'
    BY <1>2, <2>1, <2>2 DEF JobsRecorded
  <2> QED BY <1>3, <1>9, <2>1, <2>3 DEF FirstInv, FirstIsSnapshot, TookOver
<1>6. CASE Save(h)
  <2>1. /\ RevisionOf(h).uid = u /\ RevisionOf(h).revision = job[h].revision
        /\ pc[h] = "store"
        /\ ~RevisionOf(h).isSnapshot => job[h].event = "UPDATED"
    BY <1>0, <1>1, <1>6, SaveForm, RevisionOfType
  <2>2. CASE StoreRevision(RevisionOf(h)) /\ Goto(h, "index")
    <3>1. /\ rows' = rows \cup {RevisionOf(h)} /\ RevisionOf(h) \in RowsOf(u)'
          /\ pc'[h] = "index"
      BY <1>0, <2>1, <2>2 DEF StoreRevision, RowsOf, Goto, BaseInv, TypeOK
    <3>2. RevisionOf(h).revision = 1 => RevisionOf(h).isSnapshot \/ TookOver(u)
      <4> SUFFICES ASSUME RevisionOf(h).revision = 1, ~RevisionOf(h).isSnapshot, ~TookOver(u)
                   PROVE  FALSE
        OBVIOUS
      <4>1. RowsOf(u) # {}
        BY <1>1, <2>1 DEF FirstInv, JobsRecorded, HasBegun
      <4>2. PICK r \in RowsOf(u) : r.revision = 1
        BY <4>1, FirstRow
      <4> QED BY <2>1, <2>2, <4>2 DEF StoreRevision, Conflicts, RowsOf
    <3>3. FirstIsSnapshot'
      BY <1>9, <2>1, <3>1, <3>2 DEF FirstInv, FirstIsSnapshot, TookOver
    <3>4. JobsRecorded'
      BY <1>2, <3>1 DEF JobsRecorded
    <3> QED BY <1>3, <3>1, <3>3, <3>4 DEF FirstInv, HasBegun
  <2>3. CASE Return(h) /\ Conflicts(RevisionOf(h)) /\ UNCHANGED storeVars
    <3>1. RowsOf(u)' # {} /\ UNCHANGED rows /\ pc'[h] = "idle"
      BY <1>0, <2>1, <2>3 DEF Conflicts, RowsOf, storeVars, Return, BaseInv, TypeOK
    <3>2. JobsRecorded'
      BY <1>2, <3>1 DEF JobsRecorded
    <3> QED BY <1>3, <1>9, <3>1, <3>2 DEF FirstInv, FirstIsSnapshot, HasBegun, TookOver
  <2> QED BY <1>0, <1>6, <2>2, <2>3, SaveForm DEF InsertsSucceed, Fault
<1>7. CASE Index(h)
  <2>1. /\ pc[h] = "index" /\ pc'[h] = "idle" /\ UNCHANGED rows
    BY <1>0, <1>7, IndexForm
       DEF Return, MarkDeleted, UpsertTrackedResource, storeVars, BaseInv, TypeOK
  <2>2. RevisionOf(h) \in rows /\ RevisionOf(h).uid = u
    BY <1>0, <1>1, <2>1, RevisionOfType DEF IndInv, CommitterHoldsRow
  <2>3. RowsOf(u)' # {}
    BY <2>1, <2>2 DEF RowsOf
  <2>4. JobsRecorded'
    BY <1>2, <2>1 DEF JobsRecorded
  <2> QED BY <1>3, <1>9, <2>1, <2>3, <2>4 DEF FirstInv, FirstIsSnapshot, HasBegun, TookOver
<1> QED BY <1>4, <1>5, <1>6, <1>7 DEF Handle

LEMMA FirstDeliver ==
    ASSUME OneRecorder, SelectsByName, BaseInv, Orderly, FirstInv,
           NEW h \in Watchers, Deliver(h)
    PROVE  FirstInv'
<1>1. UNCHANGED rows /\ \A g \in Watchers : g = h
  BY DeliverEffect DEF OneRecorder
<1>6. \A v \in UIDs : (HasBegun(v) => HasBegun(v)') /\ (TookOver(v) => TookOver(v)')
  BY <1>1, DeliverEffect DEF HasBegun, TookOver, RowsOf
<1>2. PICK u \in UIDs :
        /\ \A v \in UIDs \ {u} :
               Delivered(h, v)' => Delivered(h, v) /\ Held(h, v)' = Held(h, v)
        /\ Inherits(h, u) => TookOver(u)'
        /\ \/ Dropped(h, u) /\ pc'[h] = "idle"
           \/ Called(h, u) /\ pc'[h] = "get" /\ ~Delivered(h, u)'
  BY DeliverEffect
<1>3. ASSUME NEW v \in UIDs, Delivered(h, v), ShouldTrack(h, v, Held(h, v)')
      PROVE  HasBegun(v)'
  <2>1. ShouldTrack(h, v, Held(h, v))
    BY <1>3, TracksByName
  <2> QED BY <1>3, <1>6, <2>1 DEF FirstInv, CacheRecorded
<1>4. CacheRecorded'
  <2> SUFFICES ASSUME NEW v \in UIDs, Delivered(h, v)', ShouldTrack(h, v, Held(h, v))'
               PROVE  HasBegun(v)'
    BY <1>1 DEF CacheRecorded
  <2>1. ShouldTrack(h, v, Held(h, v)')
    BY DEF ShouldTrack
  <2>2. Delivered(h, v) \/ TookOver(v)'
    BY <1>2, <2>1 DEF Dropped, Delivered
  <2> QED BY <1>3, <2>1, <2>2 DEF HasBegun
<1>5. JobsRecorded'
  <2>1. pc'[h] = "get" /\ job'[h].event = "UPDATED" => job'[h].uid = u /\ HasBegun(u)'
    BY <1>1, <1>2, <1>3 DEF Dropped, Called, HasBegun
  <2> QED BY <1>1, <1>2, <2>1 DEF JobsRecorded
<1> QED BY <1>1, <1>4, <1>5, <1>6 DEF FirstInv, FirstIsSnapshot, BaseInv, TypeOK, StoreTypeOK, Revision

LEMMA FirstQuiet ==
    ASSUME BaseInv, FirstInv, Quiet
    PROVE  FirstInv'
<1>1. UNCHANGED <<rows, replaced>>
  BY DEF Quiet
<1>2. ASSUME NEW h \in Watchers, NEW u \in UIDs, Delivered(h, u)'
      PROVE  Delivered(h, u) /\ Held(h, u)' = Held(h, u)
  BY <1>2 DEF Quiet, Delivered, Busy
<1>3. CacheRecorded'
  BY <1>1, <1>2 DEF FirstInv, CacheRecorded, HasBegun, TookOver, RowsOf, ShouldTrack
<1>4. JobsRecorded'
  BY <1>1 DEF Quiet, FirstInv, JobsRecorded, HasBegun, TookOver, RowsOf
<1> QED BY <1>1, <1>3, <1>4 DEF FirstInv, FirstIsSnapshot, TookOver

LEMMA FirstStep ==
    ASSUME OneRecorder, ReadsSucceed, InsertsSucceed, RecordsCreations, SelectsByName,
           IndInv, Orderly, FirstInv, [Next]_vars
    PROVE  FirstInv'
<1>0. BaseInv
  BY IndHasBase
<1>1. CASE \E h \in Watchers : Handle(h)
  BY <1>1, FirstHandle
<1>2. CASE \E h \in Watchers : Deliver(h)
  BY <1>0, <1>2, FirstDeliver
<1>3. CASE ~(\E h \in Watchers : Deliver(h) \/ Handle(h))
  BY <1>0, <1>3, OutsideQuiet, FirstQuiet DEF Orderly
<1> QED BY <1>1, <1>2, <1>3

-----------------------------------------------------------------------------
(* What is recorded is exact *)

\* A revision is reconstructed as it was seen, if there is a snapshot at or
\* below it and no gap between the two.
LEMMA ReconstructIs ==
    ASSUME BaseInv, SnapshotTellsAll, PatchesFollow,
           NEW u \in UIDs, NEW target \in RowsOf(u), NEW first \in RowsOf(u),
           first.isSnapshot, first.revision <= target.revision,
           first.revision..target.revision \subseteq Revisions(u)
    PROVE  /\ SnapshotsUpTo(u, target.revision) # {}
           /\ Reconstruct(u, target.revision) = target.seen
<1> DEFINE n == target.revision
           base == GetNearestSnapshot(u, n)
           patches == GetPatchesBetween(u, base.revision, n)
<1>1. first \in SnapshotsUpTo(u, n) /\ SnapshotsUpTo(u, n) \in SUBSET RowsOf(u)
  BY DEF SnapshotsUpTo
<1>2. base \in SnapshotsUpTo(u, n) /\ first.revision <= base.revision
  BY <1>1, NewestOf DEF GetNearestSnapshot
<1>3. base \in RowsOf(u) /\ base.isSnapshot /\ base.revision <= n
  BY <1>2 DEF SnapshotsUpTo
<1>4. \A r \in RowsOf(u) : r \in rows /\ r.revision \in Nat /\ r.seen \in Doc /\ r.uid = u
  BY DEF BaseInv, TypeOK, StoreTypeOK, Revision, RowsOf
<1>5. Reconstruct(u, n) = Replayed(base, n, patches)
  BY DEF Reconstruct
<1> HIDE DEF base
<1>6. \A r \in patches : r \in RowsOf(u) /\ base.revision < r.revision /\ r.revision <= n
  BY DEF GetPatchesBetween
<1>7. \A r, s \in RowsOf(u) : r.revision = s.revision => r = s
  BY <1>4 DEF BaseInv, KeysUnique
<1>8. target \in patches \cup {base}
  BY <1>3, <1>4, <1>7 DEF GetPatchesBetween
<1>9. \A i \in (base.revision + 1)..n : \E r \in patches : r.revision = i
  <2> SUFFICES ASSUME NEW i \in (base.revision + 1)..n
               PROVE  \E r \in patches : r.revision = i
    OBVIOUS
  <2>1. i \in Revisions(u)
    BY <1>2, <1>3, <1>4
  <2>2. PICK r \in RowsOf(u) : r.revision = i
    BY <2>1 DEF Revisions
  <2> QED BY <1>3, <1>4, <2>2 DEF GetPatchesBetween
<1>10. \A r \in RowsOf(u) : r.isSnapshot => r.data = r.seen
  BY <1>4 DEF SnapshotTellsAll
<1>11. \A r, s \in RowsOf(u) : s.revision = r.revision + 1 /\ ~s.isSnapshot =>
           ApplyMergePatch(r.seen, s.data) = s.seen
  BY <1>4 DEF PatchesFollow
<1> HIDE DEF patches
<1>12. Replayed(base, n, patches) = target.seen
  <2>1. \A r \in patches \cup {base} : r \in RowsOf(u)
    BY <1>3, <1>6
  <2>2. /\ base.data = base.seen
        /\ \A r \in patches \cup {base} : r.revision \in Nat /\ r.seen \in Doc
        /\ \A r \in patches : r.isSnapshot => r.data = r.seen
        /\ \A r \in patches : base.revision < r.revision
        /\ \A r, s \in patches : r.revision = s.revision => r = s
        /\ \A r \in patches \cup {base} : \A s \in patches :
               s.revision = r.revision + 1 /\ ~s.isSnapshot =>
                   ApplyMergePatch(r.seen, s.data) = s.seen
    BY <1>3, <1>4, <1>6, <1>7, <1>10, <1>11, <2>1
  <2>3. PICK b, p : b = base /\ p = patches
    OBVIOUS
  <2>4. Replayed(b, target.revision, p) = target.seen
    BY <1>8, <1>9, <2>2, <2>3, ReplayExact, ZenonT(60)
  <2> QED BY <2>3, <2>4
<1> QED BY <1>1, <1>5, <1>12

LEMMA ChainIsExact ==
    ASSUME IndInv, ChainInv, FirstInv
    PROVE  ExactReconstruction
<1> SUFFICES ASSUME NEW r \in rows, NEW u \in UIDs, u = r.uid
             PROVE  IF SnapshotsUpTo(u, r.revision) = {} THEN TookOver(u)
                    ELSE Reconstruct(u, r.revision) = r.seen
  BY DEF ExactReconstruction, IndInv, TypeOK, StoreTypeOK, Revision
<1>1. r \in RowsOf(u) /\ r.revision \in Nat \ {0} /\ current[u] \in Nat
  BY DEF RowsOf, IndInv, TypeOK, StoreTypeOK, Revision
<1>2. CASE SnapshotsUpTo(u, r.revision) = {}
  <2>1. PICK first \in RowsOf(u) : first.revision = 1
    BY <1>1, FirstRow
  <2>2. ~first.isSnapshot
    BY <1>1, <1>2, <2>1 DEF SnapshotsUpTo
  <2> QED BY <1>2, <2>1, <2>2 DEF FirstInv, FirstIsSnapshot, RowsOf
<1>3. CASE SnapshotsUpTo(u, r.revision) # {}
  <2>1. PICK from \in RowsOf(u) : from.isSnapshot /\ from.revision <= r.revision
    BY <1>3 DEF SnapshotsUpTo
  <2>2. from.revision \in Nat \ {0} /\ r.revision \in Revisions(u)
    BY <1>1 DEF RowsOf, IndInv, TypeOK, StoreTypeOK, Revision, Revisions
  <2>3. from.revision..r.revision \subseteq Revisions(u)
    BY <1>1, <2>2 DEF IndInv, Gapless
  <2> QED BY <1>1, <1>3, <2>1, <2>3, IndHasBase, ReconstructIs DEF ChainInv
<1> QED BY <1>2, <1>3

LEMMA InitFidelity ==
    ASSUME Init
    PROVE  Orderly /\ NextChosen /\ ChainInv /\ FirstInv
<1>1. /\ rows = {} /\ versions = [u \in UIDs |-> <<>>]
      /\ \A h \in Watchers : pc[h] = "idle" /\ pos[h] = NotCached
  BY DEF Init, StoreInit
<1>2. \A h \in Watchers : \A u \in UIDs : ~Cached(h, u)
  BY <1>1 DEF Cached, NotCached
<1>6. Succession
  BY <1>1 DEF Succession, OwnersSucceed, CachesSucceed, RecordedIsSeen, Busy, RowsOf, Newer,
              NotCached, Former
<1>3. Orderly /\ NextChosen
  BY <1>1, <1>6 DEF Orderly, IdleUntilListed, LatestIsListed, NextChosen
<1>4. ChainInv
  BY <1>1, <1>2 DEF ChainInv, SnapshotTellsAll, PatchesFollow, CacheFollowed, JobsOfCache,
                    JobsFollow, Delivered
<1>5. FirstInv
  BY <1>1, <1>2 DEF FirstInv, FirstIsSnapshot, CacheRecorded, JobsRecorded, Delivered
<1> QED BY <1>3, <1>4, <1>5

\* A step that changes nothing drops nothing.
LEMMA StutterCatches ==
    ASSUME BaseInv, UNCHANGED vars, NEW h \in Watchers
    PROVE  CatchesDrift(h)
<1>1. ~ReadLatest(h)
  <2>1. ReadLatest(h) => pc[h] = "latest" /\ (Return(h) \/ Chooses(h, "store"))
    BY ReadLatestForm
  <2> QED BY <2>1 DEF vars, Return, Chooses, BaseInv, TypeOK
<1> QED BY <1>1 DEF CatchesDrift

\* The chain and its beginning hold throughout.
LEMMA ChainInvariance ==
    ASSUME OneRecorder, ReadsSucceed, InsertsSucceed, RecordsCreations, SelectsByName
    PROVE  Spec /\ DriftCaught => [](IndInv /\ Orderly /\ NextChosen /\ ChainInv /\ FirstInv)
<1> DEFINE D == \A h \in Watchers : CatchesDrift(h)
           P == IndInv /\ Orderly /\ NextChosen /\ ChainInv /\ FirstInv
<1>1. Init => P
  BY InitInv, InitFidelity
<1>2. P /\ [Next]_vars /\ [D]_vars => P'
  <2> SUFFICES ASSUME P, [Next]_vars, [D]_vars PROVE P'
    OBVIOUS
  <2>1. BaseInv /\ Ground
    BY IndHasBase, GroundOf
  <2>2. \A h \in Watchers : CatchesDrift(h)
    BY <2>1, StutterCatches
  <2>3. IndInv'
    BY NextInv
  <2>4. Orderly' /\ NextChosen'
    BY <2>1, OrderlyStep, NextChosenStep
  <2>5. ChainInv'
    BY <2>1, <2>2, ChainStep
  <2>6. FirstInv'
    BY FirstStep
  <2> QED BY <2>3, <2>4, <2>5, <2>6
<1> QED BY <1>1, <1>2, PTL DEF Spec, DriftCaught

\* Every stored revision is reconstructed as the document its handler saw, for
\* one recorder of the objects whose reads and INSERTs succeed and whose policy
\* selects by name and records creations, over any number of restarts that do
\* not meet a change behind a patch.  Of an object that took over its name in an
\* update this is said from its first snapshot on.
THEOREM HistoryIsExact ==
    ASSUME OneRecorder, ReadsSucceed, InsertsSucceed, RecordsCreations, SelectsByName
    PROVE  Spec /\ DriftCaught => []ExactReconstruction
BY ChainInvariance, ChainIsExact, PTL

-----------------------------------------------------------------------------
(* Snapshots *)

\* A row that is added is the one its handler has built.
LEMMA NewRow ==
    ASSUME [Next]_vars, NEW r \in rows', r \notin rows
    PROVE  \E h \in Watchers : pc[h] = "store" /\ r = RevisionOf(h)
<1>1. PICK h \in Watchers : Save(h) \/ Index(h)
  BY StoreUntouched DEF storeVars
<1>2. rows' = rows \cup {RevisionOf(h)} /\ pc[h] = "store"
  BY <1>1 DEF Save, Index, StoreRevision, MarkDeleted, UpsertTrackedResource, storeVars
<1> QED BY <1>2

\* A snapshot is the stripped object, whoever stored it and whatever failed.
LEMMA SnapshotsTellStep ==
    ASSUME BaseInv, SnapshotTellsAll, [Next]_vars
    PROVE  SnapshotTellsAll'
<1> SUFFICES ASSUME NEW r \in rows', r \notin rows, r.isSnapshot PROVE r.data = r.seen
  BY DEF SnapshotTellsAll
<1>1. PICK h \in Watchers : pc[h] = "store" /\ r = RevisionOf(h)
  BY NewRow
<1> QED BY <1>1, RevisionOfType

LEMMA SnapshotsTell == Spec => []SnapshotTellsAll
<1>1. Init => SnapshotTellsAll
  BY DEF Init, StoreInit, SnapshotTellsAll
<1>2. IndInv /\ SnapshotTellsAll /\ [Next]_vars => SnapshotTellsAll'
  BY IndHasBase, SnapshotsTellStep
<1> QED BY <1>1, <1>2, Invariance, PTL DEF Spec

AllSnapshots == \A r \in rows : r.isSnapshot

LEMMA AllSnapshotsStep ==
    ASSUME EverySnapshot, BaseInv, AllSnapshots, [Next]_vars
    PROVE  AllSnapshots'
<1> SUFFICES ASSUME NEW r \in rows', r \notin rows PROVE r.isSnapshot
  BY DEF AllSnapshots
<1>1. PICK h \in Watchers : pc[h] = "store" /\ r = RevisionOf(h)
  BY NewRow
<1>2. job[h].revision \in Nat /\ SnapshotEvery(h) = 1
  BY DEF BaseInv, TypeOK, Job, EverySnapshot
<1>3. IsSnapshotTime(h, job[h].revision)
  BY <1>2 DEF IsSnapshotTime
<1> QED BY <1>1, <1>3 DEF RevisionOf

LEMMA OnlySnapshots ==
    ASSUME EverySnapshot
    PROVE  Spec => []AllSnapshots
<1>1. Init => AllSnapshots
  BY DEF Init, StoreInit, AllSnapshots
<1>2. IndInv /\ AllSnapshots /\ [Next]_vars => AllSnapshots'
  BY IndHasBase, AllSnapshotsStep
<1> QED BY <1>1, <1>2, Invariance, PTL DEF Spec

\* Where every revision is a snapshot nothing is replayed, and every revision
\* is exact: any policies, any number of recorders, and every fault.
THEOREM SnapshotsAreExact ==
    ASSUME EverySnapshot
    PROVE  Spec => []ExactReconstruction
<1>1. IndInv /\ AllSnapshots /\ SnapshotTellsAll => ExactReconstruction
  <2> SUFFICES ASSUME IndInv, AllSnapshots, SnapshotTellsAll, NEW r \in rows
               PROVE  /\ SnapshotsUpTo(r.uid, r.revision) # {}
                      /\ Reconstruct(r.uid, r.revision) = r.seen
    BY DEF ExactReconstruction
  <2>1. PICK u \in UIDs : u = r.uid
    BY DEF IndInv, TypeOK, StoreTypeOK, Revision
  <2>2. r \in RowsOf(u) /\ r.isSnapshot /\ r.revision \in Nat
    BY <2>1 DEF AllSnapshots, RowsOf, IndInv, TypeOK, StoreTypeOK, Revision
  <2>3. r.revision..r.revision \subseteq Revisions(u)
    BY <2>2 DEF Revisions
  <2>4. PatchesFollow
    BY DEF AllSnapshots, PatchesFollow
  <2>5. r.revision <= r.revision /\ BaseInv
    BY <2>2, IndHasBase
  <2> QED BY <2>1, <2>2, <2>3, <2>4, <2>5, ReconstructIs
<1> QED BY <1>1, Invariance, OnlySnapshots, SnapshotsTell, PTL

-----------------------------------------------------------------------------
(* When no restart misses a change *)

\* The newest revision is a snapshot, so a re-listed object is compared with it.
LEMMA SnapshotCatches ==
    ASSUME ReadsSucceed, BaseInv, AllSnapshots, SnapshotTellsAll, NEW h \in Watchers
    PROVE  CatchesDrift(h)
<1> SUFFICES ASSUME ReadLatest(h), PolicySpec[h].updates,
                    NEW u \in UIDs, u = job[h].uid
             PROVE  pc'[h] = "store" \/ RowsOf(u) = {} \/ LatestSeen(u) = job[h].new
  BY DEF CatchesDrift, BaseInv, TypeOK, Job
<1> DEFINE last == GetLatestRevision(u)
<1>1. CASE Goto(h, "store")
  BY <1>1 DEF Goto, BaseInv, TypeOK
<1>2. CASE RowsOf(u) # {} /\ ~Drifted(h, last)
  <2>1. last \in RowsOf(u)
    BY <1>2, LatestOf
  <2>2. LatestSeen(u) = last.seen
    BY DEF LatestSeen, GetLatestRevision
  <2> HIDE DEF last
  <2>3. last \in rows /\ last.isSnapshot /\ last.data = last.seen /\ last.data \in Doc
    BY <2>1 DEF AllSnapshots, RowsOf, SnapshotTellsAll, BaseInv, TypeOK, StoreTypeOK
  <2>4. job[h].new \in Doc
    BY DEF BaseInv, TypeOK, Job
  <2>5. IsEmpty(ComputeMergePatch(last.data, job[h].new))
    BY <1>2, <2>3 DEF Drifted
  <2> QED BY <2>2, <2>3, <2>4, <2>5, EmptyPatch
<1> QED BY <1>1, <1>2 DEF ReadLatest, ReadsSucceed, Fault

\* Where every revision is a snapshot no restart misses a change: the premise
\* of HistoryIsExact and NothingIsMissed holds.
THEOREM SnapshotsCatchDrift ==
    ASSUME EverySnapshot, ReadsSucceed
    PROVE  Spec => DriftCaught
<1> DEFINE D == \A h \in Watchers : CatchesDrift(h)
<1>1. IndInv /\ AllSnapshots /\ SnapshotTellsAll /\ [Next]_vars => [D]_vars
  BY IndHasBase, SnapshotCatches
<1> QED BY <1>1, Invariance, OnlySnapshots, SnapshotsTell, PTL DEF Spec, DriftCaught

(***************************************************************************)
(* A watcher that has never been restarted lists its objects before any of *)
(* them has a row, so that none is compared with what is recorded.         *)
(***************************************************************************)
NothingOf(u) == RowsOf(u) = {} /\ current[u] = 0

OnceInv ==
    \A h \in Watchers :
        /\ reconciles = 0 => phase[h] = "stopped"
        /\ reconciles = 0 \/ phase[h] = "starting" => \A u \in UIDs : NothingOf(u)
        /\ \A u \in initial[h] : NothingOf(u)
        /\ pc[h] # "idle" => job[h].uid \notin initial[h]
        /\ pc[h] # "idle" /\ job[h].event = "LISTED" => NothingOf(job[h].uid)
        /\ pc[h] # "latest"

LEMMA OnceHandle ==
    ASSUME OneRecorder, BaseInv, Orderly, OnceInv, NEW h \in Watchers, Handle(h)
    PROVE  OnceInv'
<1>1. PICK u \in UIDs : u = job[h].uid
  BY DEF BaseInv, TypeOK, Job
<1>2. /\ UNCHANGED <<phase, initial, reconciles>> /\ pc[h] # "idle"
      /\ \A g \in Watchers : g = h
  BY HandleFrame DEF OneRecorder
<1>3. phase[h] \notin {"stopped", "starting"} /\ reconciles # 0 /\ u \notin initial[h]
  BY <1>1, <1>2 DEF Orderly, IdleUntilListed, OnceInv
<1>4. \A v \in UIDs \ {u} : NothingOf(v) => NothingOf(v)'
  <2>1. /\ rows' \ rows \subseteq {RevisionOf(h)}
        /\ RevisionOf(h).uid = u
        /\ \A v \in UIDs \ {u} : current'[v] = current[v]
    <3>1. RevisionOf(h).uid = u
      BY <1>1 DEF RevisionOf
    <3> HIDE DEF RevisionOf
    <3> QED BY <1>1, <3>1 DEF Handle, Lookup, ReadLatest, Save, Index, StoreRevision, MarkDeleted,
                         UpsertTrackedResource, storeVars, RevisionOf, BaseInv, TypeOK, StoreTypeOK
  <2> HIDE DEF RevisionOf
  <2> QED BY <2>1 DEF NothingOf, RowsOf
<1>5. \A v \in initial'[h] : NothingOf(v)'
  BY <1>2, <1>3, <1>4 DEF OnceInv, BaseInv, TypeOK
<1>6. pc'[h] # "idle" => job'[h].uid = u /\ job'[h].event # "LISTED" /\ pc'[h] # "latest"
  <2>1. CASE Lookup(h)
    <3>1. PICK found \in 0..current[u] : Proceed(h, found) /\ pc[h] = "get"
      BY <1>1, <2>1, LookupForm
    <3>2. found \in Nat /\ (job[h].event = "LISTED" => found = 0)
      <4>1. job[h].event = "LISTED" => current[u] = 0
        BY <1>1, <1>2 DEF OnceInv, NothingOf
      <4> QED BY <4>1
    <3> QED BY <1>1, <3>1, <3>2, ProceedForm DEF Return, Chooses, BaseInv, TypeOK
  <2>2. ~ReadLatest(h)
    BY DEF ReadLatest, OnceInv
  <2>3. CASE Save(h)
    <3>1. pc[h] = "store" => job[h].event \in EventTypes
      BY DEF BaseInv, JobsFormed
    <3> QED BY <1>1, <2>3, <3>1 DEF Save, Return, Goto, EventTypes, BaseInv, TypeOK
  <2>4. CASE Index(h)
    BY <2>4 DEF Index, Return, BaseInv, TypeOK
  <2> QED BY <2>1, <2>2, <2>3, <2>4 DEF Handle
<1> QED BY <1>2, <1>3, <1>5, <1>6 DEF OnceInv

LEMMA OnceDeliver ==
    ASSUME OneRecorder, BaseInv, Orderly, OnceInv, NEW h \in Watchers, Deliver(h)
    PROVE  OnceInv'
<1>1. /\ UNCHANGED <<rows, current, phase, reconciles>>
      /\ phase[h] \in {"running", "draining"}
      /\ \A g \in Watchers : g = h
  BY DeliverForm DEF OneRecorder, storeVars, Ready
<1>2. PICK u \in UIDs :
        /\ \A v \in UIDs \ {u} : v \in initial'[h] <=> v \in initial[h]
        /\ u \notin initial'[h]
        /\ Dropped(h, u) \/ Called(h, u)
  BY DeliverForm
<1>3. \A v : NothingOf(v)' <=> NothingOf(v)
  BY <1>1 DEF NothingOf, RowsOf
<1>4. initial'[h] \in SUBSET UIDs
  BY DeliverBase DEF BaseInv, TypeOK
<1>5. pc[h] = "idle"
  BY DeliverForm DEF Ready
<1>6. CASE Dropped(h, u)
  BY <1>1, <1>2, <1>3, <1>4, <1>5, <1>6 DEF Dropped, OnceInv
<1>7. CASE Called(h, u)
  <2>1. pc'[h] = "get" /\ job'[h].uid = u /\ (job'[h].event = "LISTED" => u \in initial[h])
    BY <1>7 DEF Called, BaseInv, TypeOK
  <2> QED BY <1>1, <1>2, <1>3, <1>4, <2>1 DEF OnceInv
<1> QED BY <1>2, <1>6, <1>7

LEMMA OnceOutside ==
    ASSUME OneRecorder, BaseInv, Orderly, OnceInv, StartedOnce', [Next]_vars,
           ~(\E h \in Watchers : Deliver(h) \/ Handle(h))
    PROVE  OnceInv'
<1>0. reconciles \in Nat /\ initial \in [Watchers -> SUBSET UIDs]
  BY DEF BaseInv, TypeOK
<1>1. CASE Cluster \/ UNCHANGED vars
  <2>1. UNCHANGED <<phase, initial, pc, job, rows, current, reconciles>>
    BY <1>1 DEF Cluster, Write, Remove, informerVars, handlerVars, storeVars, vars
  <2> QED BY <2>1 DEF OnceInv, NothingOf, RowsOf
<1>2. ~(\E p \in Policies : StopPolicy(p))
  BY <1>0 DEF StopPolicy, StartedOnce, OnceInv
<1>3. CASE \E h \in Watchers : Reconcile(h)
  <2>1. PICK h \in Watchers : Reconcile(h)
    BY <1>3
  <2>2. /\ UNCHANGED <<initial, pc, job, rows, current>>
        /\ reconciles = 0 /\ reconciles' # 0
    BY <1>0, <2>1 DEF Reconcile, StartedOnce, handlerVars, storeVars
  <2> QED BY <2>2 DEF OnceInv, NothingOf, RowsOf
<1>4. CASE \E h \in Watchers : List(h)
  <2>1. PICK h \in Watchers : List(h)
    BY <1>4
  <2>2. /\ UNCHANGED <<pc, job, rows, current, reconciles>>
        /\ phase[h] = "starting" /\ pc[h] = "idle"
        /\ phase'[h] = "running" /\ initial'[h] \subseteq UIDs
        /\ \A g \in Watchers : g = h
    BY <1>0, <2>1 DEF List, handlerVars, storeVars, Orderly, IdleUntilListed, OneRecorder,
                      BaseInv, TypeOK
  <2> QED BY <2>2 DEF OnceInv, NothingOf, RowsOf
<1>5. CASE \E h \in Watchers : Exit(h)
  <2>1. PICK h \in Watchers : Exit(h)
    BY <1>5
  <2>2. /\ UNCHANGED <<pc, job, rows, current, reconciles>>
        /\ pc[h] = "idle" /\ phase'[h] = "stopped" /\ initial'[h] = {}
        /\ \A g \in Watchers : g = h
        /\ phase[h] = "draining"
    BY <1>0, <2>1 DEF Exit, handlerVars, storeVars, OneRecorder, BaseInv, TypeOK
  <2> QED BY <2>2 DEF OnceInv, NothingOf, RowsOf
<1>6. CASE Crash
  <2>1. /\ UNCHANGED <<rows, current, reconciles>>
        /\ \A h \in Watchers : pc'[h] = "idle" /\ phase'[h] = "stopped" /\ initial'[h] = {}
    BY <1>6 DEF Crash, storeVars
  <2> QED BY <2>1 DEF OnceInv, NothingOf, RowsOf
<1> QED BY <1>1, <1>2, <1>3, <1>4, <1>5, <1>6 DEF Next

\* A recorder that is started once compares nothing with the store.
THEOREM FirstStartCatchesDrift ==
    ASSUME OneRecorder
    PROVE  Spec /\ []StartedOnce => DriftCaught
<1> DEFINE D == \A h \in Watchers : CatchesDrift(h)
           P == BaseInv /\ Orderly /\ OnceInv
<1>1. Init => P
  BY InitBase, InitFidelity DEF Init, StoreInit, OnceInv, NothingOf, RowsOf
<1>2. P /\ StartedOnce' /\ [Next]_vars => P'
  BY NextBase, OrderlyStep, OnceHandle, OnceDeliver, OnceOutside
<1>3. P /\ [Next]_vars => [D]_vars
  BY DEF OnceInv, CatchesDrift, ReadLatest
<1> QED BY <1>1, <1>2, <1>3, PTL DEF Spec, DriftCaught

\* So the history of a watcher that is left running is exact, whatever its
\* snapshotEvery, and that of a restarted one if its revisions are snapshots;
\* with the same exception.
THEOREM FirstStartIsExact ==
    ASSUME OneRecorder, ReadsSucceed, InsertsSucceed, RecordsCreations, SelectsByName
    PROVE  Spec /\ []StartedOnce => []ExactReconstruction
BY HistoryIsExact, FirstStartCatchesDrift, PTL

-----------------------------------------------------------------------------
(* The end *)

\* An object is what the policy selects by the labels its documents keep.
LEMMA TracksByStripped ==
    ASSUME KeepsLabels, NEW h \in Watchers, NEW u \in UIDs, NEW d \in Doc, NEW e \in Doc,
           Strip(h, d) = Strip(h, e), ShouldTrack(h, u, d)
    PROVE  ShouldTrack(h, u, e)
<1>1. DOMAIN PolicySpec[h].matchLabels \subseteq Fields
  <2>1. PolicySpec[h].matchLabels \in UNION {[L -> Vals] : L \in SUBSET Fields}
    BY PolicyAssumption DEF Specs
  <2> QED BY <2>1
<1>2. ASSUME NEW l \in DOMAIN PolicySpec[h].matchLabels PROVE d[l] = e[l]
  <2>1. l \in Fields /\ l \notin PolicySpec[h].ignoreFields
    BY <1>1 DEF KeepsLabels
  <2>2. Strip(h, d)[l] = d[l] /\ Strip(h, e)[l] = e[l]
    BY <2>1 DEF Strip, StripFields
  <2> QED BY <2>2
<1> QED BY <1>2 DEF ShouldTrack

LEMMA LatestSeenIs ==
    ASSUME BaseInv, NEW u \in UIDs, NEW r \in RowsOf(u),
           \A s \in RowsOf(u) : s.revision <= r.revision
    PROVE  LatestSeen(u) = r.seen
<1>1. /\ Newest(RowsOf(u)) \in RowsOf(u)
      /\ \A s \in RowsOf(u) : s.revision <= Newest(RowsOf(u)).revision
  BY NewestOf
<1> DEFINE m == Newest(RowsOf(u))
<1>2. m \in RowsOf(u) /\ \A s \in RowsOf(u) : s.revision <= m.revision
  BY <1>1
<1>3. LatestSeen(u) = m.seen
  BY DEF LatestSeen
<1> HIDE DEF m
<1>4. m.revision \in Nat /\ r.revision \in Nat
  BY <1>2 DEF BaseInv, TypeOK, StoreTypeOK, Revision, RowsOf
<1>5. m.revision = r.revision
  BY <1>2, <1>4
<1>6. m = r
  BY <1>2, <1>5 DEF BaseInv, KeysUnique, RowsOf
<1> QED BY <1>3, <1>6

\* The object of a recorded deletion is in no cache.
LEMMA EndedNotCached ==
    ASSUME Orderly, NEW h \in Watchers, NEW u, pc[h] # "idle", SawTheEnd(h, u),
           phase[h] \in {"stopped", "starting", "running", "draining"}
    PROVE  ~Cached(h, u)
BY DEF Orderly, IdleUntilListed, SawTheEnd, Listed, Finished, Last, Cached

\* Only clients of the cluster write versions, and nothing follows Gone.
LEMMA GoneStays ==
    ASSUME BaseInv, GoneIsLast, [Next]_vars
    PROVE  /\ GoneIsLast'
           /\ \A u \in UIDs : Finished(u) => versions'[u] = versions[u]
<1>1. CASE ~Cluster
  BY <1>1, VersionsKept DEF GoneIsLast, Newer
<1>2. ASSUME NEW u \in UIDs, NEW d \in Doc \cup {Gone}, ~Finished(u),
             versions' = [versions EXCEPT ![u] = Append(@, d)]
      PROVE  /\ GoneIsLast'
             /\ \A v \in UIDs : Finished(v) => versions'[v] = versions[v]
  <2>1. /\ versions[u] \in Seq(Doc \cup {Gone})
        /\ versions'[u] = Append(versions[u], d)
        /\ \A v \in UIDs \ {u} : versions'[v] = versions[v]
    BY <1>2 DEF BaseInv, TypeOK
  <2>2. Newer(u)' = Newer(u) + 1 /\ Newer(u) \in Nat
    BY <2>1 DEF Newer
  <2>3. \A i \in 1..Newer(u) : versions'[u][i] = versions[u][i]
    BY <2>1 DEF Newer
  <2>4. \A i \in 1..Newer(u) : versions[u][i] # Gone
    BY <1>2, <2>2 DEF GoneIsLast, Finished, Last
  <2>5. \A i \in 1..(Newer(u)' - 1) : versions'[u][i] # Gone
    BY <2>2, <2>3, <2>4
  <2>6. GoneIsLast'
    BY <2>1, <2>5 DEF GoneIsLast, Newer
  <2> QED BY <1>2, <2>1, <2>6
<1>3. CASE Cluster
  BY <1>2, <1>3 DEF Cluster, Write, Remove, Live, Finished
<1> QED BY <1>1, <1>3

\* An informer that is past an object's last version stays there.
LEMMA EndStays ==
    ASSUME BaseInv, GoneIsLast, [Next]_vars,
           NEW h \in Watchers, NEW u \in UIDs, SawTheEnd(h, u)
    PROVE  SawTheEnd(h, u)'
<1>1. /\ versions'[u] = versions[u] /\ Finished(u)'
      /\ Newer(u)' = Newer(u) /\ Newer(u) \in Nat
  BY GoneStays DEF SawTheEnd, Finished, Newer, Last, BaseInv, TypeOK
<1>2. CASE phase'[h] = phase[h] /\ pos'[h] = pos[h]
  BY <1>1, <1>2 DEF SawTheEnd, Listed
<1>3. CASE \E g \in Watchers : Handle(g)
  BY <1>2, <1>3, HandleFrame
<1>4. CASE \E g \in Watchers : Deliver(g)
  <2>1. PICK g \in Watchers : Deliver(g)
    BY <1>4
  <2>2. CASE g # h
    BY <1>2, <2>1, <2>2, DeliverForm
  <2>3. CASE g = h
    <3>1. PICK v \in UIDs :
            /\ \A w \in UIDs \ {v} :
                   pos'[h][w] = pos[h][w] \/ (w \in Former(v) /\ pos'[h][w] = Newer(w))
            /\ pos'[h][v] \in 1..Newer(v) /\ pos'[h][v] >= pos[h][v]
      BY <2>1, <2>3, DeliverForm
    <3>2. UNCHANGED phase /\ phase[h] \in {"running", "draining"}
      BY <2>1, <2>3, DeliverForm DEF Ready
    <3>3. pos'[h][u] = Newer(u)
      BY <1>1, <3>1, <3>2 DEF SawTheEnd, Listed
    <3> QED BY <1>1, <3>3 DEF SawTheEnd, Listed
  <2> QED BY <2>2, <2>3
<1>5. CASE Cluster \/ UNCHANGED vars
  BY <1>2, <1>5 DEF Cluster, Write, Remove, informerVars, vars
<1>6. \A x \in {"stopped", "starting", "running", "draining"} :
          Cancelled(x) \in {"running", "draining"} => x \in {"running", "draining"}
  BY DEF Cancelled
<1>7. CASE (\E p \in Policies : StopPolicy(p)) \/ (\E g \in Watchers : Reconcile(g))
  <2>1. /\ pos'[h] = pos[h]
        /\ phase'[h] \in {"running", "draining"} => phase[h] \in {"running", "draining"}
    BY <1>6, <1>7 DEF StopPolicy, Reconcile, BaseInv, TypeOK
  <2> QED BY <1>1, <2>1 DEF SawTheEnd, Listed
<1>8. CASE \E g \in Watchers : List(g)
  <2>1. PICK g \in Watchers : List(g)
    BY <1>8
  <2>2. CASE g # h
    BY <1>2, <2>1, <2>2 DEF List, BaseInv, TypeOK
  <2>3. CASE g = h
    BY <1>1, <2>1, <2>3 DEF List, SawTheEnd, Listed, BaseInv, TypeOK
  <2> QED BY <2>2, <2>3
<1>9. CASE \E g \in Watchers : Exit(g)
  <2>1. PICK g \in Watchers : Exit(g)
    BY <1>9
  <2>2. CASE g # h
    BY <1>2, <2>1, <2>2 DEF Exit, BaseInv, TypeOK
  <2>3. CASE g = h
    BY <1>1, <2>1, <2>3 DEF Exit, SawTheEnd, Listed, BaseInv, TypeOK
  <2> QED BY <2>2, <2>3
<1>10. CASE Crash
  BY <1>1, <1>10 DEF Crash, SawTheEnd, Listed
<1> QED BY <1>3, <1>4, <1>5, <1>7, <1>8, <1>9, <1>10 DEF Next

\* A handler at work stays with its object and document, and with a deletion.
LEMMA HandleJob ==
    ASSUME BaseInv, Orderly, NEW h \in Watchers, Handle(h), pc'[h] # "idle"
    PROVE  /\ job'[h].uid = job[h].uid /\ job'[h].new = job[h].new
           /\ job'[h].event = "DELETED" <=> job[h].event = "DELETED"
<1>1. CASE Lookup(h)
  <2>1. current[job[h].uid] \in Nat
    BY DEF BaseInv, TypeOK, StoreTypeOK, Job
  <2>2. PICK found \in Nat : pc[h] = "get" /\ Proceed(h, found)
    BY <1>1, <2>1, LookupForm
  <2> QED BY <2>2, ProceedForm DEF Return, Chooses, BaseInv, TypeOK
<1>2. CASE ReadLatest(h)
  <2>1. job[h].event = "LISTED"
    BY <1>2, ReadLatestForm DEF Orderly, LatestIsListed
  <2> QED BY <1>2, <2>1, ReadLatestForm DEF Return, Chooses, BaseInv, TypeOK
<1>3. CASE Save(h)
  BY <1>3 DEF Save, Return, BaseInv, TypeOK
<1>4. CASE Index(h)
  BY <1>4 DEF Index, Return, BaseInv, TypeOK
<1> QED BY <1>1, <1>2, <1>3, <1>4 DEF Handle

LEMMA DeletionsSeenStep ==
    ASSUME OneRecorder, BaseInv, Orderly, GoneIsLast, DeletionsSeen, [Next]_vars
    PROVE  DeletionsSeen'
<1> SUFFICES ASSUME NEW h \in Watchers
             PROVE  /\ \A r \in rows' : r.event = "DELETED" => SawTheEnd(h, r.uid)'
                    /\ pc'[h] # "idle" /\ job'[h].event = "DELETED" =>
                           SawTheEnd(h, job[h].uid)'
  BY DEF DeletionsSeen
<1>1. ASSUME NEW r \in rows', r.event = "DELETED" PROVE SawTheEnd(h, r.uid)'
  <2>1. PICK u : u = r.uid
    OBVIOUS
  <2>2. CASE r \in rows
    <3>1. SawTheEnd(h, u) /\ u \in UIDs
      BY <1>1, <2>1, <2>2 DEF DeletionsSeen, BaseInv, TypeOK, StoreTypeOK, Revision
    <3> QED BY <2>1, <3>1, EndStays
  <2>3. CASE r \notin rows
    <3>1. PICK g \in Watchers : pc[g] = "store" /\ r = RevisionOf(g)
      BY <2>3, NewRow
    <3>2. job[h].event = "DELETED" /\ job[h].uid = u /\ u \in UIDs /\ pc[h] = "store"
      BY <1>1, <2>1, <3>1, RevisionOfType DEF OneRecorder, BaseInv, TypeOK, Job
    <3>3. SawTheEnd(h, u)
      BY <3>2 DEF DeletionsSeen
    <3> QED BY <2>1, <3>2, <3>3, EndStays
  <2> QED BY <2>2, <2>3
<1>2. ASSUME pc'[h] # "idle", job'[h].event = "DELETED" PROVE SawTheEnd(h, job[h].uid)'
  <2>1. ASSUME pc[h] # "idle", job[h].event = "DELETED", job'[h].uid = job[h].uid
        PROVE  SawTheEnd(h, job[h].uid)'
    <3>1. PICK u \in UIDs : u = job[h].uid
      BY DEF BaseInv, TypeOK, Job
    <3>2. SawTheEnd(h, u)
      BY <2>1, <3>1 DEF DeletionsSeen
    <3>3. SawTheEnd(h, u)'
      BY <3>2, EndStays
    <3> QED BY <2>1, <3>1, <3>3 DEF SawTheEnd, Finished, Newer, Last
  <2>2. CASE \E g \in Watchers : Handle(g)
    BY <1>2, <2>1, <2>2, HandleFrame, HandleJob DEF OneRecorder
  <2>3. CASE \E g \in Watchers : Deliver(g)
    <3>1. Deliver(h) /\ UNCHANGED <<versions, phase>>
      BY <2>3, DeliverEffect DEF OneRecorder
    <3>2. PICK u \in UIDs : pos'[h][u] \in 1..Newer(u) /\ (Dropped(h, u) \/ Called(h, u))
      BY <3>1, DeliverForm
    <3>3. CASE Dropped(h, u)
      BY <1>2, <2>1, <3>3 DEF Dropped
    <3>4. CASE Called(h, u)
      <4>1. versions[u][pos'[h][u]] = Gone /\ job'[h].uid = u
        BY <1>2, <3>4 DEF Called
      <4>2. pos'[h][u] = Newer(u) /\ Newer(u) > 0
        BY <3>2, <4>1 DEF GoneIsLast, Newer, BaseInv, TypeOK
      <4>3. SawTheEnd(h, u)'
        BY <3>1, <4>1, <4>2 DEF SawTheEnd, Finished, Last, Newer
      <4> QED BY <4>1, <4>3 DEF SawTheEnd, Finished, Newer, Last
    <3> QED BY <3>2, <3>3, <3>4
  <2>4. CASE ~(\E g \in Watchers : Deliver(g) \/ Handle(g))
    BY <1>2, <2>1, <2>4, OutsideQuiet DEF Quiet, Orderly
  <2> QED BY <2>2, <2>3, <2>4
<1> QED BY <1>1, <1>2

\* Where no process ends, a step outside the handlers leaves them as they are.
LEMMA OutsideHandlers ==
    ASSUME WritesComplete, BaseInv, IdleUntilListed, [Next]_vars,
           ~(\E h \in Watchers : Deliver(h) \/ Handle(h))
    PROVE  UNCHANGED <<rows, current, pc, job>>
<1>1. ~Crash
  BY DEF Crash, Fault, WritesComplete
<1> QED BY <1>1 DEF Next, Cluster, Write, Remove, StopPolicy, Reconcile, List, Exit, vars,
                    handlerVars, storeVars

\* A handler whose event ends says no more of its object than what is cached.
LEMMA EndReturns ==
    ASSUME OneRecorder, BaseInv, EndInv, NEW h \in Watchers, Handle(h), Return(h),
           UNCHANGED rows,
           \A v \in UIDs : v = job[h].uid /\ Cached(h, v) =>
               Shows(h, v, Strip(h, Held(h, v)))
    PROVE  JobsOfCache' /\ LatestHasRows' /\ CacheUpToDate'
<1>1. /\ \A g \in Watchers : g = h
      /\ UNCHANGED <<initial, replaced, versions>>
      /\ \A v \in UIDs : (Cached(h, v)' <=> Cached(h, v)) /\ Held(h, v)' = Held(h, v)
      /\ pc'[h] = "idle"
  BY HandleFrame DEF OneRecorder, Return, BaseInv, TypeOK
<1>2. JobsOfCache' /\ LatestHasRows'
  BY <1>1 DEF JobsOfCache, LatestHasRows
<1>3. CacheUpToDate'
  <2> SUFFICES ASSUME NEW v \in UIDs, Delivered(h, v)', ShouldTrack(h, v, Held(h, v))'
               PROVE  Shows(h, v, Strip(h, Held(h, v)))'
    BY <1>1 DEF CacheUpToDate
  <2>1. Shows(h, v, Strip(h, Held(h, v)))
    <3>1. CASE v = job[h].uid
      BY <1>1, <3>1 DEF Delivered
    <3>2. CASE v # job[h].uid
      <4>1. Delivered(h, v) /\ ShouldTrack(h, v, Held(h, v))
        BY <1>1, <3>2 DEF Delivered, Busy, ShouldTrack
      <4> QED BY <4>1 DEF EndInv, CacheUpToDate
    <3> QED BY <3>1, <3>2
  <2> QED BY <1>1, <2>1 DEF Shows, SameAsFormer, Newer, RowsOf, LatestSeen, Strip
<1> QED BY <1>2, <1>3

\* A handler that goes on still answers for its object.
LEMMA EndGoesOn ==
    ASSUME OneRecorder, BaseInv, Orderly, EndInv, NEW h \in Watchers, Handle(h), pc'[h] # "idle",
           \A v \in UIDs \ {job[h].uid} : RowsOf(v)' = RowsOf(v),
           pc'[h] = "latest" => \A v \in UIDs : v = job[h].uid => RowsOf(v)' # {}
    PROVE  JobsOfCache' /\ LatestHasRows' /\ CacheUpToDate'
<1>0. PICK u \in UIDs : u = job[h].uid
  BY DEF BaseInv, TypeOK, Job
<1>1. /\ \A g \in Watchers : g = h
      /\ UNCHANGED <<initial, replaced, versions>>
      /\ \A v \in UIDs : (Cached(h, v)' <=> Cached(h, v)) /\ Held(h, v)' = Held(h, v)
      /\ pc[h] # "idle"
  BY HandleFrame DEF OneRecorder
<1>2. /\ job'[h].uid = u /\ job'[h].new = job[h].new
      /\ job'[h].event = "DELETED" <=> job[h].event = "DELETED"
  BY <1>0, HandleJob
<1>3. JobsOfCache'
  BY <1>0, <1>1, <1>2 DEF EndInv, JobsOfCache, Strip
<1>4. LatestHasRows'
  BY <1>0, <1>1, <1>2 DEF LatestHasRows
<1>5. CacheUpToDate'
  <2> SUFFICES ASSUME NEW v \in UIDs, Delivered(h, v)', ShouldTrack(h, v, Held(h, v))'
               PROVE  Shows(h, v, Strip(h, Held(h, v)))'
    BY <1>1 DEF CacheUpToDate
  <2>1. v # u /\ Delivered(h, v) /\ ShouldTrack(h, v, Held(h, v))
    BY <1>0, <1>1, <1>2 DEF Delivered, Busy, ShouldTrack
  <2>2. Shows(h, v, Strip(h, Held(h, v))) /\ RowsOf(v)' = RowsOf(v)
    BY <1>0, <2>1 DEF EndInv, CacheUpToDate
  <2> QED BY <1>1, <2>2 DEF Shows, SameAsFormer, Newer, LatestSeen, Strip
<1> QED BY <1>3, <1>4, <1>5

\* A revision that is taken while nothing is being published is a deletion's.
LEMMA TakenByDeletion ==
    ASSUME OneRecorder, EndInv, NEW h \in Watchers, pc[h] # "index", NEW u \in UIDs, Taken(u)
    PROVE  \E r \in RowsOf(u) : r.event = "DELETED"
BY DEF OneRecorder, EndInv, TakenForAReason

LEMMA EndReading ==
    ASSUME OneRecorder, ReadsSucceed, RecordsCreations, RecordsUpdates,
           IndInv, Ground, EndInv, NEW h \in Watchers, Lookup(h) \/ ReadLatest(h),
           CatchesDrift(h)
    PROVE  JobsOfCache' /\ LatestHasRows' /\ CacheUpToDate' /\ TakenForAReason'
<1>0. PICK u \in UIDs : u = job[h].uid
  BY DEF Ground, BaseInv, TypeOK, Job
<1>1. Handle(h) /\ UNCHANGED <<rows, current>> /\ pc[h] # "index"
  BY LookupForm, ReadLatestForm DEF Ground, Handle, storeVars
<1>2. TakenForAReason'
  BY <1>1, TakenByDeletion DEF TakenForAReason, Taken, RowsOf
<1>3. CASE Lookup(h)
  <2>1. Proceed(h, current[u]) /\ current[u] \in Nat /\ pc[h] = "get"
    BY <1>0, <1>3, LookupForm DEF Ground, ReadsSucceed, Fault, BaseInv, TypeOK, StoreTypeOK
  <2>2. PICK label : Chooses(h, label) /\ (label = "latest" => current[u] > 0)
    BY <1>0, <2>1, ProceedForm DEF RecordsCreations, Ground
  <2>3. pc'[h] = label /\ label # "idle"
    BY <2>2 DEF Chooses, Ground, BaseInv, TypeOK
  <2>4. pc'[h] = "latest" => RowsOf(u)' # {}
    BY <1>1, <2>2, <2>3, FirstRow DEF RowsOf
  <2>5. \A v \in UIDs : RowsOf(v)' = RowsOf(v)
    BY <1>1 DEF RowsOf
  <2> QED BY <1>0, <1>1, <1>2, <2>3, <2>4, <2>5, EndGoesOn DEF Ground
<1>4. CASE ReadLatest(h)
  <2>1. /\ pc[h] = "latest" /\ job[h].event = "LISTED"
        /\ RowsOf(u) # {} /\ job[h].new = Strip(h, Held(h, u))
    BY <1>0, <1>4, ReadLatestForm
       DEF Ground, Orderly, LatestIsListed, EndInv, LatestHasRows, JobsOfCache
  <2>2. CASE Return(h)
    <3>1. pc'[h] = "idle"
      BY <2>2 DEF Return, Ground, BaseInv, TypeOK
    <3>2. Shows(h, u, job[h].new)
      BY <1>0, <1>4, <2>1, <3>1 DEF CatchesDrift, RecordsUpdates, Shows
    <3> QED BY <1>0, <1>1, <1>2, <2>1, <2>2, <3>2, EndReturns DEF Ground
  <2>3. CASE ~Return(h)
    <3>1. pc'[h] = "store"
      BY <1>4, <2>3, ReadLatestForm DEF Chooses, Ground, BaseInv, TypeOK
    <3> QED BY <1>0, <1>1, <1>2, <3>1, EndGoesOn DEF RowsOf, Ground
  <2> QED BY <2>2, <2>3
<1> QED BY <1>3, <1>4

LEMMA EndSave ==
    ASSUME OneRecorder, WritesComplete, Ground, EndInv, NEW h \in Watchers, Save(h)
    PROVE  JobsOfCache' /\ LatestHasRows' /\ CacheUpToDate' /\ TakenForAReason'
<1>0. PICK u \in UIDs : u = job[h].uid
  BY DEF Ground, BaseInv, TypeOK, Job
<1>1. /\ Handle(h) /\ pc[h] = "store"
      /\ RevisionOf(h).uid = u /\ RevisionOf(h).revision = current[u] + 1
  BY <1>0, RevisionOfType DEF Handle, Save, Ground, NextChosen
<1>2. CASE StoreRevision(RevisionOf(h)) /\ Goto(h, "index") /\ UNCHANGED job
  <2>1. /\ rows' = rows \cup {RevisionOf(h)} /\ UNCHANGED current
        /\ pc'[h] = "index"
    BY <1>2 DEF StoreRevision, Goto, Ground, BaseInv, TypeOK
  <2>2. \A v \in UIDs \ {u} : RowsOf(v)' = RowsOf(v)
    BY <1>1, <2>1 DEF RowsOf
  <2>3. TakenForAReason'
    <3> SUFFICES ASSUME NEW v \in UIDs, Taken(v)'
                 PROVE  \/ \E g \in Watchers : pc'[g] = "index" /\ job'[g].uid = v
                        \/ \E r \in RowsOf(v)' : r.event = "DELETED"
      BY DEF TakenForAReason
    <3>1. CASE v = u
      BY <1>0, <1>2, <2>1, <3>1
    <3>2. CASE v # u
      <4>1. Taken(v)
        BY <2>1, <2>2, <3>2 DEF Taken
      <4>2. \E r \in RowsOf(v) : r.event = "DELETED"
        BY <1>1, <4>1, TakenByDeletion
      <4> QED BY <2>2, <3>2, <4>2
    <3> QED BY <3>1, <3>2
  <2> QED BY <1>0, <1>1, <2>1, <2>2, <2>3, EndGoesOn DEF Ground
<1>3. CASE Conflicts(RevisionOf(h)) /\ Return(h) /\ UNCHANGED storeVars
  <2>1. Taken(u) /\ UNCHANGED <<rows, current>>
    BY <1>1, <1>3 DEF Conflicts, Taken, RowsOf, storeVars
  <2>2. PICK r \in RowsOf(u) : r.event = "DELETED"
    BY <1>1, <2>1, TakenByDeletion
  <2>3. SawTheEnd(h, u)
    BY <2>2 DEF EndInv, DeletionsSeen, RowsOf
  <2>4. ~Cached(h, u)
    BY <1>1, <2>3, EndedNotCached DEF Ground, BaseInv, TypeOK
  <2>5. TakenForAReason'
    BY <1>1, <2>1, TakenByDeletion DEF TakenForAReason, Taken, RowsOf
  <2> QED BY <1>0, <1>1, <1>3, <2>1, <2>4, <2>5, EndReturns DEF Ground
<1> QED BY <1>2, <1>3 DEF Save, Fault, WritesComplete

LEMMA EndIndex ==
    ASSUME OneRecorder, WritesComplete, IndInv, Ground, EndInv, NEW h \in Watchers, Index(h)
    PROVE  JobsOfCache' /\ LatestHasRows' /\ CacheUpToDate' /\ TakenForAReason'
<1>0. PICK u \in UIDs : u = job[h].uid
  BY DEF Ground, BaseInv, TypeOK, Job
<1>1. /\ Handle(h) /\ pc[h] = "index" /\ Return(h) /\ UNCHANGED rows
      /\ job[h].event = "DELETED" => UNCHANGED current
      /\ job[h].event # "DELETED" => current' = [current EXCEPT ![u] = job[h].revision]
  BY <1>0 DEF Handle, Index, MarkDeleted, UpsertTrackedResource, Fault, WritesComplete
<1> DEFINE rev == RevisionOf(h)
<1>2. /\ rev \in RowsOf(u) /\ rev.revision = current[u] + 1
      /\ rev.seen = job[h].new /\ rev.event = job[h].event
      /\ job[h].revision = current[u] + 1
  BY <1>0, <1>1, RevisionOfType DEF IndInv, CommitterHoldsRow, Ground, RowsOf
<1>3. current \in [UIDs -> Nat]
  BY DEF Ground, BaseInv, TypeOK, StoreTypeOK
<1> HIDE DEF rev
<1>4. \A r \in RowsOf(u) : r.revision <= current[u] + 1
  <2>1. \A r \in RowsOf(u) : r.revision \in Revisions(u)
    BY DEF Revisions
  <2> QED BY <1>3, <2>1 DEF IndInv, Gapless
<1>5. Shows(h, u, job[h].new)
  BY <1>2, <1>4, LatestSeenIs DEF Ground, Shows
<1>6. Cached(h, u) => job[h].new = Strip(h, Held(h, u))
  <2>1. job[h].event = "DELETED" => ~Cached(h, u)
    BY <1>0, <1>1, EndedNotCached DEF EndInv, DeletionsSeen, Ground, BaseInv, TypeOK
  <2>2. job[h].event # "DELETED" => job[h].new = Strip(h, Held(h, u))
    BY <1>0, <1>1 DEF EndInv, JobsOfCache
  <2> QED BY <2>1, <2>2
<1>7. TakenForAReason'
  <2> SUFFICES ASSUME NEW v \in UIDs, Taken(v)'
               PROVE  \E r \in RowsOf(v) : r.event = "DELETED"
    BY <1>1 DEF TakenForAReason, RowsOf
  <2>1. CASE v # u
    <3>1. Taken(v)
      BY <1>1, <1>3, <2>1 DEF Taken, RowsOf
    <3> QED BY <1>0, <2>1, <3>1 DEF EndInv, TakenForAReason, OneRecorder
  <2>2. CASE v = u /\ job[h].event = "DELETED"
    BY <1>2, <2>2
  <2>3. CASE v = u /\ job[h].event # "DELETED"
    <3>1. PICK r \in RowsOf(u) : r.revision = (current[u] + 1) + 1
      BY <1>1, <1>2, <1>3, <2>3 DEF Taken, RowsOf
    <3> QED BY <1>3, <1>4, <3>1
  <2> QED BY <2>1, <2>2, <2>3
<1> QED BY <1>0, <1>1, <1>5, <1>6, <1>7, EndReturns DEF Ground

\* What u resembles is a version of the object it took its name from.
LEMMA ResemblesFormer ==
    ASSUME BaseInv, Orderly, NEW h \in Watchers, Deliver(h), NEW u \in UIDs, Resembles(h, u),
           NEW d, d = Strip(h, Held(h, u)')
    PROVE  SameAsFormer(h, u, d)'
<1>1. PICK w \in Former(u) :
        Cached(h, w) /\ <<w, u>> \in replaced' /\ Strip(h, Held(h, u)') = Strip(h, Held(h, w))
  BY DEF Resembles
<1>2. UNCHANGED versions /\ w \in UIDs
  BY DeliverEffect DEF Former
<1>3. /\ pos[h][w] \in 1..Newer(w)
      /\ versions[w][pos[h][w]] # Gone
  BY <1>1, <1>2 DEF Cached, BaseInv, TypeOK, InformersBehind, Newer
<1>4. \E i \in 1..Newer(w) :
          versions[w][i] # Gone /\ Strip(h, versions[w][i]) = d
  BY <1>1, <1>3 DEF Held
<1> QED BY <1>1, <1>2, <1>4 DEF SameAsFormer, Newer, Strip

LEMMA EndDeliver ==
    ASSUME OneRecorder, RecordsUpdates, KeepsLabels, BaseInv, Orderly, EndInv,
           NEW h \in Watchers, Deliver(h)
    PROVE  JobsOfCache' /\ LatestHasRows' /\ CacheUpToDate' /\ TakenForAReason'
<1>1. /\ UNCHANGED <<rows, current>> /\ pc[h] = "idle"
      /\ \A g \in Watchers : g = h
  BY DeliverEffect DEF OneRecorder
<1>2. PICK u \in UIDs :
        /\ \A v \in UIDs \ {u} :
               Delivered(h, v)' => Delivered(h, v) /\ Held(h, v)' = Held(h, v)
        /\ Inherits(h, u) => RowsOf(u) = {}
        /\ \/ Dropped(h, u) /\ pc'[h] = "idle"
           \/ Called(h, u) /\ pc'[h] = "get" /\ ~Delivered(h, u)'
  BY DeliverEffect
<1>3. JobsOfCache' /\ LatestHasRows'
  BY <1>1, <1>2 DEF JobsOfCache, LatestHasRows, Called, Strip
<1>4. TakenForAReason'
  BY <1>1, TakenByDeletion DEF TakenForAReason, Taken, RowsOf
<1>7. \A v \in UIDs : \A d : SameAsFormer(h, v, d) => SameAsFormer(h, v, d)'
  BY DeliverEffect DEF SameAsFormer, Newer, Strip
<1>5. ASSUME NEW v \in UIDs, Delivered(h, v)', ShouldTrack(h, v, Held(h, v))',
             ~(RowsOf(v) = {} /\ Resembles(h, v))
      PROVE  /\ Delivered(h, v) /\ ShouldTrack(h, v, Held(h, v))
             /\ Strip(h, Held(h, v)') = Strip(h, Held(h, v))
  <2>1. ShouldTrack(h, v, Held(h, v)')
    BY <1>5 DEF ShouldTrack
  <2>2. Delivered(h, v) /\ Strip(h, Held(h, v)') = Strip(h, Held(h, v))
    BY <1>2, <1>5, <2>1 DEF Dropped, Delivered, RecordsUpdates
  <2>3. Held(h, v) \in Doc
    BY <2>2, CachedIsDoc DEF Delivered, Held
  <2>4. BaseInv' /\ Cached(h, v)'
    BY <1>5, DeliverBase DEF Delivered
  <2>5. Held(h, v)' \in Doc
    BY <2>4 DEF Held, BaseInv, InformersBehind, TypeOK, Cached, Newer
  <2> QED BY <2>1, <2>2, <2>3, <2>5, TracksByStripped
<1>6. CacheUpToDate'
  <2> SUFFICES ASSUME NEW v \in UIDs, Delivered(h, v)', ShouldTrack(h, v, Held(h, v))'
               PROVE  Shows(h, v, Strip(h, Held(h, v)))'
    BY <1>1 DEF CacheUpToDate
  <2>0. PICK d : d = Strip(h, Held(h, v)')
    OBVIOUS
  <2>1. CASE RowsOf(v) = {} /\ Resembles(h, v)
    <3>1. SameAsFormer(h, v, d)'
      BY <2>0, <2>1, ResemblesFormer
    <3> QED BY <1>1, <2>0, <2>1, <3>1 DEF Shows, RowsOf, Strip
  <2>2. CASE ~(RowsOf(v) = {} /\ Resembles(h, v))
    <3>1. Shows(h, v, d)
      BY <1>5, <2>0, <2>2 DEF EndInv, CacheUpToDate
    <3>2. SameAsFormer(h, v, d) => SameAsFormer(h, v, d)'
      BY <1>7
    <3> QED BY <1>1, <2>0, <3>1, <3>2 DEF Shows, RowsOf, LatestSeen, Strip
  <2> QED BY <2>1, <2>2
<1> QED BY <1>3, <1>4, <1>6

\* Versions are only added.
LEMMA FormerStays ==
    ASSUME BaseInv, [Next]_vars, UNCHANGED replaced,
           NEW h \in Watchers, NEW u \in UIDs, NEW d, SameAsFormer(h, u, d)
    PROVE  SameAsFormer(h, u, d)'
<1>0. PICK w \in UIDs : <<w, u>> \in replaced /\ \E i \in 1..Newer(w) :
        versions[w][i] # Gone /\ Strip(h, versions[w][i]) = d
  BY DEF SameAsFormer
<1>1. PICK i \in 1..Newer(w) : versions[w][i] # Gone /\ Strip(h, versions[w][i]) = d
  BY <1>0
<1>2. i \in 1..Newer(w)' /\ versions'[w][i] = versions[w][i]
  <2>1. CASE ~Cluster
    BY <2>1, VersionsKept DEF Newer
  <2>2. CASE Cluster
    <3>1. PICK v \in UIDs, e \in Doc \cup {Gone} :
            versions' = [versions EXCEPT ![v] = Append(@, e)]
      BY <2>2 DEF Cluster, Write, Remove
    <3>2. CASE v # w
      <4>1. versions'[w] = versions[w]
        BY <3>1, <3>2 DEF BaseInv, TypeOK
      <4> QED BY <4>1 DEF Newer
    <3>3. CASE v = w
      <4>1. versions[w] \in Seq(Doc \cup {Gone}) /\ versions'[w] = Append(versions[w], e)
        BY <3>1, <3>3 DEF BaseInv, TypeOK
      <4> QED BY <4>1 DEF Newer
    <3> QED BY <3>2, <3>3
  <2> QED BY <2>1, <2>2
<1> QED BY <1>0, <1>1, <1>2 DEF SameAsFormer, Strip

LEMMA EndOutside ==
    ASSUME WritesComplete, BaseInv, Orderly, EndInv, [Next]_vars,
           ~(\E h \in Watchers : Deliver(h) \/ Handle(h))
    PROVE  JobsOfCache' /\ LatestHasRows' /\ CacheUpToDate' /\ TakenForAReason'
<1>1. UNCHANGED <<rows, current, pc, job>> /\ Quiet
  BY OutsideHandlers, OutsideQuiet DEF Orderly
<1>2. TakenForAReason' /\ LatestHasRows'
  BY <1>1 DEF EndInv, TakenForAReason, LatestHasRows, Taken, RowsOf
<1>3. ASSUME NEW h \in Watchers, NEW u \in UIDs, Delivered(h, u)'
      PROVE  Delivered(h, u) /\ Held(h, u)' = Held(h, u)
  BY <1>1, <1>3 DEF Quiet, Delivered, Busy
<1>4. CacheUpToDate'
  <2> SUFFICES ASSUME NEW h \in Watchers, NEW u \in UIDs, Delivered(h, u)',
                      ShouldTrack(h, u, Held(h, u))'
               PROVE  Shows(h, u, Strip(h, Held(h, u)))'
    BY DEF CacheUpToDate
  <2>0. PICK d : d = Strip(h, Held(h, u))
    OBVIOUS
  <2>1. Delivered(h, u) /\ Held(h, u)' = Held(h, u)
    BY <1>3
  <2>2. Shows(h, u, d) /\ d = Strip(h, Held(h, u)')
    BY <2>0, <2>1 DEF EndInv, CacheUpToDate, ShouldTrack
  <2>3. SameAsFormer(h, u, d) => SameAsFormer(h, u, d)'
    BY <1>1, FormerStays DEF Quiet
  <2> QED BY <1>1, <2>2, <2>3 DEF Shows, RowsOf, LatestSeen, Strip
<1>5. JobsOfCache'
  <2> SUFFICES ASSUME NEW h \in Watchers, pc[h] # "idle", job[h].event # "DELETED"
               PROVE  LET u == job[h].uid IN
                      (Cached(h, u) /\ u \notin initial[h] /\ job[h].new = Strip(h, Held(h, u)))'
    BY <1>1 DEF JobsOfCache
  <2>1. PICK u \in UIDs : u = job[h].uid
    BY DEF BaseInv, TypeOK, Job
  <2>2. Cached(h, u) /\ u \notin initial[h] /\ job[h].new = Strip(h, Held(h, u))
    BY <2>1 DEF EndInv, JobsOfCache
  <2>3. /\ initial'[h] = initial[h]
        /\ Cached(h, u)' /\ Held(h, u)' = Held(h, u)
    BY <1>1, <2>2 DEF Quiet
  <2> QED BY <1>1, <2>1, <2>2, <2>3 DEF Strip, Cached, Held
<1> QED BY <1>2, <1>4, <1>5

LEMMA EndStep ==
    ASSUME OneRecorder, ReadsSucceed, WritesComplete, RecordsCreations, RecordsUpdates,
           KeepsLabels, IndInv, Ground, EndInv, [Next]_vars,
           \A h \in Watchers : CatchesDrift(h)
    PROVE  EndInv'
<1>1. GoneIsLast' /\ DeletionsSeen'
  BY GoneStays, DeletionsSeenStep DEF Ground, EndInv
<1>2. JobsOfCache' /\ LatestHasRows' /\ CacheUpToDate' /\ TakenForAReason'
  BY EndReading, EndSave, EndIndex, EndDeliver, EndOutside DEF Ground, Handle
<1> QED BY <1>1, <1>2 DEF EndInv

-----------------------------------------------------------------------------
(* What is recorded is complete *)

LEMMA InitEnd == ASSUME Init PROVE EndInv
<1>1. /\ rows = {} /\ versions = [u \in UIDs |-> <<>>]
      /\ \A h \in Watchers : pc[h] = "idle" /\ pos[h] = NotCached
  BY DEF Init, StoreInit
<1>2. \A h \in Watchers : \A u \in UIDs : ~Cached(h, u)
  BY <1>1 DEF Cached, NotCached
<1> QED BY <1>1, <1>2 DEF EndInv, GoneIsLast, DeletionsSeen, TakenForAReason, Taken, RowsOf,
                          JobsOfCache, LatestHasRows, CacheUpToDate, Delivered, Newer

\* The newest row is what the cache holds.
LEMMA EndInvariance ==
    ASSUME OneRecorder, ReadsSucceed, WritesComplete, RecordsCreations, RecordsUpdates,
           KeepsLabels
    PROVE  Spec /\ DriftCaught => [](IndInv /\ Orderly /\ NextChosen /\ EndInv)
<1> DEFINE D == \A h \in Watchers : CatchesDrift(h)
           P == IndInv /\ Orderly /\ NextChosen /\ EndInv
<1>1. Init => P
  BY InitInv, InitFidelity, InitEnd
<1>2. P /\ [Next]_vars /\ [D]_vars => P'
  <2> SUFFICES ASSUME P, [Next]_vars, [D]_vars PROVE P'
    OBVIOUS
  <2>1. BaseInv /\ Ground
    BY IndHasBase, GroundOf
  <2>2. \A h \in Watchers : CatchesDrift(h)
    BY <2>1, StutterCatches
  <2>3. IndInv'
    BY NextInv
  <2>4. Orderly' /\ NextChosen'
    BY <2>1, OrderlyStep, NextChosenStep
  <2>5. EndInv'
    BY <2>1, <2>2, EndStep
  <2> QED BY <2>3, <2>4, <2>5
<1> QED BY <1>1, <1>2, PTL DEF Spec, DriftCaught

\* A watcher with nothing left to do has recorded the present state of every
\* object it tracks: one recorder whose reads succeed and whose writes are not
\* cut short, and a policy that records creations and updates and ignores no
\* label it selects by, over restarts that do not meet a change behind a patch.
\* All that can go unrecorded is an object that took over its name in an update
\* and is still the same to the policy as the one before it was.
THEOREM NothingIsMissed ==
    ASSUME OneRecorder, ReadsSucceed, WritesComplete, RecordsCreations, RecordsUpdates,
           KeepsLabels
    PROVE  Spec /\ DriftCaught => []NothingMissed
<1>1. EndInv => NothingMissed
  <2> SUFFICES ASSUME EndInv, NEW h \in Watchers, CaughtUp(h), NEW u \in UIDs, Live(u)
               PROVE  UpToDate(h, u)
    BY DEF NothingMissed
  <2>1. pos[h][u] = Newer(u) /\ Newer(u) > 0 /\ Last(u) # Gone
    BY DEF CaughtUp, Live, Finished
  <2>2. Delivered(h, u) /\ Held(h, u) = Last(u)
    BY <2>1 DEF CaughtUp, Delivered, Cached, Busy, Held, Last
  <2> QED BY <2>2 DEF EndInv, CacheUpToDate, UpToDate
<1> QED BY <1>1, EndInvariance, PTL

\* With snapshotEvery 1 this holds over every restart, and for any
\* snapshotEvery as long as the watcher is not restarted.
THEOREM SnapshotsMissNothing ==
    ASSUME OneRecorder, ReadsSucceed, WritesComplete, RecordsCreations, RecordsUpdates,
           KeepsLabels, EverySnapshot
    PROVE  Spec => []NothingMissed
BY NothingIsMissed, SnapshotsCatchDrift, PTL

THEOREM FirstStartMissesNothing ==
    ASSUME OneRecorder, ReadsSucceed, WritesComplete, RecordsCreations, RecordsUpdates,
           KeepsLabels
    PROVE  Spec /\ []StartedOnce => []NothingMissed
BY NothingIsMissed, FirstStartCatchesDrift, PTL

\* Cache and store tell the same story throughout, for one recorder that is
\* started once, with any snapshotEvery, through every replacement of an object
\* by one of its name: owners of a name follow each other in every cache, and
\* only a successor's first row can be a patch.
THEOREM FidelityInvariance ==
    ASSUME OneRecorder, ReadsSucceed, WritesComplete, RecordsCreations, RecordsUpdates,
           SelectsByName
    PROVE  Spec /\ []StartedOnce => []FidelityInv
<1>1. InsertsSucceed /\ KeepsLabels
  BY DEF WritesComplete, InsertsSucceed, SelectsByName, KeepsLabels
<1>2. Spec /\ []StartedOnce => DriftCaught
  BY FirstStartCatchesDrift
<1>3. Spec /\ DriftCaught => [](Orderly /\ NextChosen /\ ChainInv /\ FirstInv)
  BY <1>1, ChainInvariance, PTL
<1>4. Spec /\ DriftCaught => []EndInv
  BY <1>1, EndInvariance, PTL
<1>5. Orderly /\ NextChosen /\ ChainInv /\ FirstInv /\ EndInv => FidelityInv
  BY DEF FidelityInv
<1> QED BY <1>2, <1>3, <1>4, <1>5, PTL
=============================================================================
