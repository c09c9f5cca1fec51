---------------------------- MODULE ReadersProofs ---------------------------
(***************************************************************************)
(* What the API's readers are told, whatever recorders and purges do to    *)
(* the store between two of their SELECTs: an answer is exact or an error, *)
(* and a client that scrolls down a history passes over nothing.           *)
(***************************************************************************)
EXTENDS Readers, RetentionProofs, FidelityProofs, FiniteSetTheorems

-----------------------------------------------------------------------------
(* Steps *)

\* What the store sees of a step: one of the recorder's, or a purge.
LEMMA StoreStep ==
    ASSUME [ReadersNext]_readersVars
    PROVE  [Next]_vars \/ \E p \in Policies : Purge(p)
<1>1. CASE RetentionNext
  BY <1>1 DEF RetentionNext, Tick, Receive, Work, Requeue, PolicyDeleted, ProcessEnds, Next
<1>2. CASE UNCHANGED vars
  BY <1>2
<1>3. CASE Client
  BY <1>2, <1>3
     DEF Client, HandleReconstruct, HandleDiff, Ask, Open, FindSnapshot, ApplyPatches,
         CountHistory, SelectHistory, LoadMore, QueryFails, Leave, allVars
<1> QED BY <1>1, <1>2, <1>3 DEF ReadersNext, readersVars, allVars

\* The recorder and its purges leave the readers alone, and are left alone.
LEMMA OneActs ==
    ASSUME [ReadersNext]_readersVars
    PROVE  \/ [RetentionNext]_allVars /\ UNCHANGED client
           \/ Client /\ UNCHANGED allVars
BY DEF ReadersNext, readersVars, Client, HandleReconstruct, HandleDiff, Ask, Open,
       FindSnapshot, ApplyPatches, CountHistory, SelectHistory, LoadMore, QueryFails, Leave

LEMMA PurgeBase ==
    ASSUME BaseInv, NEW p, Purge(p)
    PROVE  BaseInv'
<1>1. /\ rows' \subseteq rows /\ faults' \in Nat
      /\ UNCHANGED <<current, deleted, versions, phase, initial, pos, pc, job, reconciles>>
  BY DEF Purge, Fault, clusterVars, informerVars, handlerVars, BaseInv, TypeOK
<1>2. TypeOK'
  <2>1. UNCHANGED replaced
    BY DEF Purge, informerVars
  <2>2. StoreTypeOK'
    BY <1>1 DEF BaseInv, TypeOK, StoreTypeOK
  <2> QED BY <1>1, <2>1, <2>2 DEF BaseInv, TypeOK
<1>3. InformersBehind' /\ JobsFormed'
  BY <1>1 DEF BaseInv, InformersBehind, JobsFormed, Newer, Cached
<1>4. KeysUnique'
  BY <1>1 DEF BaseInv, KeysUnique
<1>5. RowsBounded'
  BY <1>1 DEF BaseInv, RowsBounded, RowsOf
<1> QED BY <1>2, <1>3, <1>4, <1>5 DEF BaseInv

-----------------------------------------------------------------------------
(* Types: time *)

Times ==
    /\ clock \in 1..(MaxClock + 1)
    /\ stamp \in [rows -> 1..clock]
    /\ now \in [Watchers -> 0..clock]
    /\ \A h \in Watchers : (pc[h] = "idle") <=> (now[h] = 0)
    /\ pending \in Policies \cup {NoPolicy}

LEMMA InitTimes == RetentionInit => Times
BY RetentionAssumption DEF RetentionInit, Init, StoreInit, Times

\* A handler that begins a call takes the time, one that returns forgets it.
LEMMA ReceiveTimes ==
    ASSUME BaseInv, Times, NEW h \in Watchers, Receive(h)
    PROVE  Times'
<1> USE DEF Times
<1>1. /\ UNCHANGED <<clock, stamp, pending, rows>>
      /\ now' = [now EXCEPT ![h] = IF pc'[h] = "idle" THEN 0 ELSE clock]
  BY DEF Receive, Deliver, OnAddInitial, OnAdd, OnUpdate, OnDelete, Observe, storeVars
<1>2. \A g \in Watchers \ {h} : pc'[g] = pc[g]
  <2>1. PICK u \in UIDs : Dropped(h, u) \/ Called(h, u)
    BY DeliverForm DEF Receive
  <2>2. CASE Dropped(h, u)
    BY <2>2 DEF Dropped
  <2>3. CASE Called(h, u)
    BY <2>3 DEF Called, BaseInv, TypeOK
  <2> QED BY <2>1, <2>2, <2>3
<1>3. clock \in Nat /\ clock > 0
  BY RetentionAssumption
<1> QED BY <1>1, <1>2, <1>3

LEMMA WorkTimed ==
    ASSUME BaseInv, Times, NEW h \in Watchers, Work(h)
    PROVE  Times'
<1> USE DEF Times
<1>1. /\ UNCHANGED <<clock, pending>>
      /\ now' = [now EXCEPT ![h] = IF pc'[h] = "idle" THEN 0 ELSE @]
      /\ stamp' = [r \in rows' |-> IF r \in rows THEN stamp[r] ELSE now[h]]
  BY DEF Work, Timestamp
<1>2. \A g \in Watchers \ {h} : pc'[g] = pc[g]
  BY HandleFrame DEF Work
<1>3. now[h] \in 1..clock
  <2>1. pc[h] # "idle"
    BY DEF Work, Handle, Lookup, ReadLatest, Save, Index
  <2> QED BY <2>1, RetentionAssumption
<1>4. stamp' \in [rows' -> 1..clock]
  BY <1>1, <1>3
<1> QED BY <1>1, <1>2, <1>3, <1>4

LEMMA TimesStep ==
    ASSUME BaseInv, Times, [RetentionNext]_allVars
    PROVE  Times'
<1> USE DEF Times
<1>0. MaxClock \in Nat /\ clock \in Nat /\ clock > 0
  BY RetentionAssumption
<1>1. CASE UNCHANGED <<rows, pc, retentionVars>>
  BY <1>1 DEF retentionVars
<1>2. CASE Tick
  BY <1>0, <1>2 DEF Tick, vars
<1>3. CASE Cluster /\ UNCHANGED retentionVars
  BY <1>1, <1>3 DEF Cluster, Write, Remove, storeVars, handlerVars
<1>4. ASSUME NEW h \in Watchers, List(h) \/ Exit(h), UNCHANGED retentionVars
      PROVE  Times'
  BY <1>1, <1>4 DEF List, Exit, storeVars, handlerVars
<1>5. ASSUME NEW h \in Watchers, Receive(h) \/ Work(h)
      PROVE  Times'
  BY <1>5, ReceiveTimes, WorkTimed
<1>6. ASSUME NEW p \in Policies, Requeue(p)
      PROVE  Times'
  BY <1>6 DEF Requeue, Reconcile, StopPolicy, vars, storeVars, handlerVars
<1>7. ASSUME NEW p \in Policies, PolicyDeleted(p)
      PROVE  Times'
  BY <1>1, <1>7 DEF PolicyDeleted, StopPolicy, storeVars, handlerVars
<1>8. ASSUME NEW p \in Policies, Purge(p)
      PROVE  Times'
  BY <1>8 DEF Purge, handlerVars
<1>9. CASE ProcessEnds
  BY <1>0, <1>9 DEF ProcessEnds, Crash, storeVars
<1>10. CASE UNCHANGED allVars
  BY <1>1, <1>10 DEF allVars, vars
<1> QED BY <1>2, <1>3, <1>4, <1>5, <1>6, <1>7, <1>8, <1>9, <1>10 DEF RetentionNext

LEMMA BaseStep ==
    ASSUME BaseInv, [ReadersNext]_readersVars
    PROVE  BaseInv'
BY StoreStep, NextBase, PurgeBase

-----------------------------------------------------------------------------
(* Types: replay *)

\* A replay that starts from a document ends in one.
LEMMA ReplayType ==
    ASSUME NEW base, NEW n \in Nat, base.revision \in Nat, base.revision <= n,
           base.data \in Doc,
           NEW patches, \A r \in patches : r.isSnapshot => r.data \in Doc,
           \A r \in patches : r.data \in Patch
    PROVE  Replayed(base, n, patches) \in Doc
<1> DEFINE b == base.revision
           Is(f, m) == \A i \in b..m : f[i] = DocAt(base, patches, f, i)
           T == {m \in b..n : \E f \in [b..m -> Doc] : Is(f, m)}
           S == (b..n) \ T
<1>1. ASSUME NEW d \in Doc, NEW p \in Patch
      PROVE  ApplyMergePatch(d, p) \in Doc
  BY <1>1 DEF ApplyMergePatch, Doc, Patch
<1>2. ASSUME NEW m \in b..n, m = b \/ m - 1 \in T
      PROVE  m \in T
  <2>1. CASE m = b
    <3> DEFINE f == [i \in b..b |-> base.data]
    <3>1. f \in [b..b -> Doc] /\ Is(f, b)
      BY DEF DocAt
    <3> QED BY <2>1, <3>1
  <2>2. CASE m # b
    <3>1. PICK g \in [b..(m - 1) -> Doc] : Is(g, m - 1)
      BY <1>2, <2>2
    <3> DEFINE d == DocAt(base, patches, g, m)
               f == [i \in b..m |-> IF i = m THEN d ELSE g[i]]
    <3>2. m - 1 \in b..(m - 1) /\ g[m - 1] \in Doc
      BY <2>2
    <3>3. d \in Doc
      <4> DEFINE at == {r \in patches : r.revision = m}
                 p == CHOOSE r \in at : TRUE
      <4>1. CASE at = {}
        BY <2>2, <3>2, <4>1 DEF DocAt
      <4>2. CASE at # {}
        <5>1. p \in at
          BY <4>2
        <5>2. p.data \in Patch /\ (p.isSnapshot => p.data \in Doc)
          BY <5>1
        <5>3. d = IF p.isSnapshot THEN p.data ELSE ApplyMergePatch(g[m - 1], p.data)
          BY <2>2, <4>2 DEF DocAt
        <5> HIDE DEF p, d
        <5> QED BY <1>1, <3>2, <5>2, <5>3
      <4> QED BY <4>1, <4>2
    <3>4. \A i \in b..(m - 1) : i \in b..m /\ i # m /\ f[i] = g[i]
      OBVIOUS
    <3>5. f \in [b..m -> Doc]
      <4> HIDE DEF d
      <4>1. \A i \in b..m : i = m \/ i \in b..(m - 1)
        OBVIOUS
      <4> QED BY <3>3, <4>1
    <3>6. f[m] = d
      BY <2>2
    <3>7. \A i \in b..m : DocAt(base, patches, f, i) = DocAt(base, patches, g, i)
      <4> SUFFICES ASSUME NEW i \in b..m
                   PROVE  DocAt(base, patches, f, i) = DocAt(base, patches, g, i)
        OBVIOUS
      <4>1. i # b => f[i - 1] = g[i - 1]
        <5> HIDE DEF f
        <5>1. i # b => i - 1 \in b..(m - 1)
          OBVIOUS
        <5> QED BY <3>4, <5>1
      <4> HIDE DEF f
      <4> QED BY <4>1 DEF DocAt
    <3>8. Is(f, m)
      <4> SUFFICES ASSUME NEW i \in b..m PROVE f[i] = DocAt(base, patches, f, i)
        OBVIOUS
      <4> HIDE DEF f
      <4>1. CASE i = m
        BY <3>6, <3>7, <4>1
      <4>2. CASE i # m
        <5>1. i \in b..(m - 1)
          BY <4>2
        <5> QED BY <3>1, <3>4, <3>7, <5>1
      <4> QED BY <4>1, <4>2
    <3> HIDE DEF f, Is
    <3> QED BY <3>5, <3>8
  <2> QED BY <2>1, <2>2
<1>3. S = {}
  <2> SUFFICES ASSUME S # {} PROVE FALSE
    OBVIOUS
  <2> HIDE DEF T
  <2>1. PICK m \in S : \A i \in S : m <= i
    <3>1. S \in SUBSET Nat
      OBVIOUS
    <3> QED BY <3>1, LeastElement
  <2>2. m \in b..n /\ m \notin T
    OBVIOUS
  <2>3. m # b => m - 1 \in b..n /\ m - 1 \notin S
    <3>1. m - 1 \in S => m <= m - 1
      BY <2>1
    <3> HIDE DEF S
    <3> QED BY <2>2, <3>1
  <2>4. m = b \/ m - 1 \in T
    BY <2>3
  <2> QED BY <1>2, <2>2, <2>4
<1>4. PICK f \in [b..n -> Doc] : Is(f, n)
  <2>1. n \in b..n
    OBVIOUS
  <2> QED BY <1>3, <2>1
<1>5. f = [i \in b..n |-> DocAt(base, patches, f, i)]
  BY <1>4
<1>6. Replayed(base, n, patches) = f[n]
  BY <1>5, ReplayIs
<1> QED BY <1>6

-----------------------------------------------------------------------------
(* A page *)

\* In a finite set of numbers, every place from the top down is some number's.
LEMMA Places ==
    ASSUME NEW R \in SUBSET Nat, IsFiniteSet(R),
           NEW f, f = [n \in R |-> Cardinality({m \in R : m > n})]
    PROVE  /\ Cardinality(R) \in Nat
           /\ \A n \in R : f[n] \in 0..(Cardinality(R) - 1)
           /\ \A n, m \in R : n < m => f[m] < f[n]
           /\ \A k \in 0..(Cardinality(R) - 1) : \E n \in R : f[n] = k
<1> DEFINE c == Cardinality(R)
           above(n) == {m \in R : m > n}
           K == 0..(c - 1)
<1>1. c \in Nat
  BY FS_CardinalityType
<1>2. ASSUME NEW n \in R
      PROVE  IsFiniteSet(above(n)) /\ Cardinality(above(n)) \in Nat /\ Cardinality(above(n)) < c
  <2>1. above(n) \in SUBSET R /\ above(n) # R
    OBVIOUS
  <2> HIDE DEF above
  <2>2. IsFiniteSet(above(n)) /\ Cardinality(above(n)) <= c /\ Cardinality(above(n)) # c
    BY <2>1, FS_Subset
  <2>3. Cardinality(above(n)) \in Nat
    BY <2>2, FS_CardinalityType
  <2> QED BY <1>1, <2>2, <2>3
<1>3. ASSUME NEW n \in R, NEW m \in R, n < m
      PROVE  Cardinality(above(m)) < Cardinality(above(n))
  <2>1. above(m) \in SUBSET above(n) /\ above(m) # above(n)
    <3>1. n \in Nat /\ m \in Nat /\ m \in above(n) /\ m \notin above(m)
      BY <1>3
    <3>2. \A k \in above(m) : k \in above(n)
      BY <1>3, <3>1
    <3> HIDE DEF above
    <3> QED BY <3>1, <3>2
  <2> HIDE DEF above
  <2>2. /\ Cardinality(above(m)) <= Cardinality(above(n))
        /\ Cardinality(above(m)) # Cardinality(above(n))
    BY <1>2, <2>1, FS_Subset
  <2> QED BY <1>2, <2>2
<1>4. \A n \in R : f[n] = Cardinality(above(n))
  OBVIOUS
<1> HIDE DEF above
<1>5. f \in [R -> K]
  <2>1. \A n \in R : f[n] \in K
    BY <1>1, <1>2, <1>4
  <2> QED BY <2>1
<1>6. \A n, m \in R : n # m => f[n] # f[m]
  <2> SUFFICES ASSUME NEW n \in R, NEW m \in R, n # m PROVE f[n] # f[m]
    OBVIOUS
  <2>1. n < m \/ m < n
    OBVIOUS
  <2>2. f[n] \in Nat /\ f[m] \in Nat
    BY <1>2, <1>4
  <2> QED BY <1>3, <1>4, <2>1, <2>2
<1>7. f \in Injection(R, K)
  BY <1>5, <1>6 DEF Injection, IsInjective
<1>8. IsFiniteSet(K) /\ Cardinality(K) = c
  <2>1. 0 \in Int /\ c - 1 \in Int
    BY <1>1
  <2>2. IsFiniteSet(K) /\ Cardinality(K) = IF 0 > c - 1 THEN 0 ELSE c - 1 - 0 + 1
    BY <2>1, FS_Interval
  <2> QED BY <1>1, <2>2
<1>9. f \in Surjection(R, K)
  BY <1>7, <1>8, FS_Injection
<1>10. \A k \in K : \E n \in R : f[n] = k
  BY <1>9 DEF Surjection
<1> QED BY <1>1, <1>3, <1>4, <1>5, <1>10

\* What is stored of an object is finite.
LEMMA RevisionsFinite ==
    ASSUME BaseInv, NEW u \in UIDs
    PROVE  Revisions(u) \in SUBSET (Nat \ {0}) /\ IsFiniteSet(Revisions(u))
<1>1. PICK b \in Nat : \A r \in RowsOf(u) : r.revision <= b
  BY DEF BaseInv, RowsBounded
<1>2. Revisions(u) \in SUBSET (Nat \ {0}) /\ \A n \in Revisions(u) : n <= b
  BY <1>1 DEF BaseInv, TypeOK, StoreTypeOK, Revision, RowsOf, Revisions
<1> QED BY <1>2, FS_BoundedSetOfNaturals

\* A page holds the revisions at the places asked for, in that order.
PageAt(u, offset, p) ==
    \A i \in 1..Len(p) : p[i] \in Revisions(u) /\ Above(u, p[i]) = offset + i - 1

LEMMA PageIs ==
    ASSUME BaseInv, NEW u \in UIDs, NEW offset \in Nat, NEW limit \in Nat \ {0},
           NEW p, p = SelectPage(u, offset, limit)
    PROVE  /\ p \in Seq(Nat \ {0})
           /\ Cardinality(Revisions(u)) \in Nat
           /\ PageAt(u, offset, p)
           /\ \A n \in Revisions(u) : Above(u, n) \in 0..(Cardinality(Revisions(u)) - 1)
           /\ \A n, m \in Revisions(u) : n < m => Above(u, m) < Above(u, n)
           /\ Len(p) = limit \/ Cardinality(Revisions(u)) <= offset + Len(p)
           /\ p # <<>> => offset + Len(p) <= Cardinality(Revisions(u))
<1> DEFINE R == Revisions(u)
           c == Cardinality(R)
           f == [n \in R |-> Cardinality({m \in R : m > n})]
           P == {n \in R : Above(u, n) \in offset..(offset + limit - 1)}
           last == IF offset + limit <= c THEN offset + limit - 1 ELSE c - 1
           I == offset..last
           k == Cardinality(P)
<1>1. R \in SUBSET (Nat \ {0}) /\ R \in SUBSET Nat /\ IsFiniteSet(R)
  BY RevisionsFinite
<1>2. \A n \in R : f[n] = Above(u, n)
  BY DEF Above
<1>3. p = [i \in 1..k |-> CHOOSE n \in P : Above(u, n) = offset + i - 1]
  BY DEF SelectPage
<1> HIDE DEF R
<1>4. /\ c \in Nat
      /\ \A n \in R : f[n] \in 0..(c - 1)
      /\ \A n, m \in R : n < m => f[m] < f[n]
      /\ \A j \in 0..(c - 1) : \E n \in R : f[n] = j
  <2>1. PICK g : g = f
    OBVIOUS
  <2>2. g = [n \in R |-> Cardinality({m \in R : m > n})]
    BY <2>1
  <2> HIDE DEF f
  <2> QED BY <1>1, <2>1, <2>2, Places
<1> HIDE DEF f, c
<1>5. \A n \in R : Above(u, n) \in 0..(c - 1)
  BY <1>2, <1>4
<1>6. \A n, m \in R : n < m => Above(u, m) < Above(u, n)
  BY <1>2, <1>4
<1>7. \A j \in 0..(c - 1) : \E n \in R : Above(u, n) = j
  BY <1>2, <1>4
<1>8. P \in SUBSET R /\ IsFiniteSet(P)
  BY <1>1, FS_Subset
<1>9. \A n \in P : Above(u, n) \in I
  BY <1>4, <1>5
<1>10. \A j \in I : \E n \in P : Above(u, n) = j
  <2> SUFFICES ASSUME NEW j \in I PROVE \E n \in P : Above(u, n) = j
    OBVIOUS
  <2>1. j \in 0..(c - 1) /\ j \in offset..(offset + limit - 1)
    BY <1>4
  <2> QED BY <1>7, <2>1
<1> HIDE DEF P
<1>11. Cardinality(I) = k /\ k \in Nat
  <2> DEFINE g == [n \in P |-> Above(u, n)]
  <2>1. \A n, m \in P : n # m => g[n] # g[m]
    <3> SUFFICES ASSUME NEW n \in P, NEW m \in P, n # m
                 PROVE  Above(u, n) # Above(u, m)
      OBVIOUS
    <3>1. n \in R /\ m \in R /\ n \in Nat /\ m \in Nat
      BY <1>1, <1>8
    <3>2. n < m \/ m < n
      BY <3>1
    <3>3. Above(u, n) \in Nat /\ Above(u, m) \in Nat
      BY <1>5, <3>1
    <3> QED BY <1>6, <3>1, <3>2, <3>3
  <2>2. g \in [P -> I]
    BY <1>9
  <2>3. \A j \in I : \E n \in P : g[n] = j
    BY <1>10
  <2>4. g \in Surjection(P, I) /\ g \in Injection(P, I)
    BY <2>1, <2>2, <2>3, Zenon DEF Surjection, Injection, IsInjective
  <2> HIDE DEF g, I
  <2>5. IsFiniteSet(I) /\ Cardinality(I) = Cardinality(P)
    BY <1>8, <2>4, FS_Surjection
  <2>6. Cardinality(P) \in Nat
    BY <1>8, FS_CardinalityType
  <2> QED BY <2>5, <2>6
<1>12. k = IF offset > last THEN 0 ELSE last - offset + 1
  <2>1. offset \in Int /\ last \in Int
    BY <1>4
  <2> HIDE DEF last, k
  <2>2. Cardinality(offset..last) = IF offset > last THEN 0 ELSE last - offset + 1
    BY <2>1, FS_Interval
  <2> QED BY <1>11, <2>2
<1> HIDE DEF k
<1>13. \A i \in 1..k : p[i] \in P /\ Above(u, p[i]) = offset + i - 1
  <2> SUFFICES ASSUME NEW i \in 1..k
               PROVE  p[i] \in P /\ Above(u, p[i]) = offset + i - 1
    OBVIOUS
  <2>1. offset + i - 1 \in I
    BY <1>4, <1>11, <1>12
  <2>2. \E n \in P : Above(u, n) = offset + i - 1
    BY <1>10, <2>1
  <2> QED BY <1>3, <2>2
<1>14. p \in Seq(Nat \ {0}) /\ Len(p) = k
  <2>1. \A i \in 1..k : p[i] \in Nat \ {0}
    BY <1>1, <1>8, <1>13
  <2>2. p \in [1..k -> Nat \ {0}]
    BY <1>3, <2>1, Zenon
  <2>3. k \in Nat
    BY <1>11
  <2> QED BY <2>2, <2>3
<1>15. /\ k = limit \/ c <= offset + k
       /\ k # 0 => offset + k <= c
  BY <1>4, <1>11, <1>12
<1>16. p # <<>> => k # 0
  BY <1>14
<1> QED BY <1>4, <1>5, <1>6, <1>8, <1>13, <1>14, <1>15, <1>16 DEF R, c, PageAt

-----------------------------------------------------------------------------
(* Types: what the browser has been told *)

ClientType == client \in {Idle} \cup Replay \cup Page

\* A reconstruction under way has a document to go, and starts at or below it.
UnderWay ==
    client.kind = "replay" /\ client.at # "done" =>
        /\ Len(client.docs) < Len(client.asked)
        /\ client.at = "patches" =>
               /\ client.base \in Revision
               /\ client.base.data \in Doc
               /\ client.base.revision <= Target

LEMMA ClientIs ==
    ASSUME ClientType
    PROVE  /\ client.kind = "replay" => client \in Replay
           /\ client.kind = "page" => client \in Page
           /\ client.kind = "idle" => client = Idle
           /\ client.kind \in {"idle", "replay", "page"}
BY DEF ClientType, Replay, Page, Idle

\* The revision that is being reconstructed.
LEMMA TargetType ==
    ASSUME ClientType, UnderWay, client.kind = "replay", client.at # "done"
    PROVE  /\ client.docs \in Seq(Doc) /\ client.asked \in Seq(Nat \ {0})
           /\ Len(client.docs) + 1 \in 1..Len(client.asked)
           /\ Target \in Nat \ {0}
<1>1. client \in Replay
  BY ClientIs
<1>2. client.docs \in Seq(Doc) /\ client.asked \in Seq(Nat \ {0})
  BY <1>1 DEF Replay
<1>3. Len(client.docs) + 1 \in 1..Len(client.asked)
  BY <1>2 DEF UnderWay
<1> QED BY <1>2, <1>3 DEF Target

\* The reconstruction c with these documents, and where it stands then.
Further(c, at, docs, base, expected, due, torn) ==
    /\ c \in Replay /\ c.uid = client.uid /\ c.asked = client.asked
    /\ c.at = at /\ c.docs = docs /\ c.base = base
    /\ c.expected = expected /\ c.due = due /\ c.torn = torn

Onward == IF Len(client.docs) + 1 = Len(client.asked) THEN "done" ELSE "snapshot"

\* A record of this kind is changed field by field.
LEMMA FurtherIs ==
    ASSUME NEW c \in Replay,
           NEW at \in {"snapshot", "patches", "done"}, NEW docs \in Seq(Doc),
           NEW base \in Revision \cup {Absent}, NEW expected \in Seq(Doc \cup {Absent}),
           NEW due \in SUBSET Revision, NEW torn \in BOOLEAN,
           NEW d, d = [c EXCEPT !.at = at, !.docs = docs, !.base = base, !.expected = expected,
                                !.due = due, !.torn = torn]
    PROVE  /\ d \in Replay /\ d.uid = c.uid /\ d.asked = c.asked
           /\ d.at = at /\ d.docs = docs /\ d.base = base
           /\ d.expected = expected /\ d.due = due /\ d.torn = torn
BY DEF Replay

LEMMA ReconstructedIs ==
    ASSUME ClientType, UnderWay, client.kind = "replay", client.at # "done", NEW doc \in Doc
    PROVE  Further(Reconstructed(doc), Onward, Append(client.docs, doc), Absent,
                   client.expected, {}, client.torn)
<1>1. PICK c \in Replay : c = client
  BY ClientIs
<1>2. PICK docs \in Seq(Doc), at \in {"snapshot", "done"} :
        docs = Append(client.docs, doc) /\ at = Onward
  <2>1. Append(client.docs, doc) \in Seq(Doc)
    BY TargetType
  <2>2. Onward \in {"snapshot", "done"}
    BY DEF Onward
  <2> QED BY <2>1, <2>2
<1>3. Reconstructed(doc) = [c EXCEPT !.docs = docs, !.base = Absent, !.due = {}, !.at = at]
  BY <1>1, <1>2 DEF Reconstructed, Onward
<1> QED BY <1>1, <1>2, <1>3 DEF Further, Replay

\* The snapshot a reconstruction starts from.
LEMMA NearestSnapshot ==
    ASSUME BaseInv, NEW u \in UIDs, NEW n \in Nat, SnapshotsUpTo(u, n) # {}
    PROVE  LET base == GetNearestSnapshot(u, n) IN
           /\ base \in RowsOf(u) /\ base \in rows /\ base.uid = u
           /\ base \in Revision /\ base.isSnapshot /\ base.data \in Doc
           /\ base.revision \in Nat /\ base.revision <= n
<1> DEFINE base == GetNearestSnapshot(u, n)
<1>1. SnapshotsUpTo(u, n) \in SUBSET RowsOf(u)
  BY DEF SnapshotsUpTo
<1>2. base \in SnapshotsUpTo(u, n)
  BY <1>1, NewestOf DEF GetNearestSnapshot
<1> HIDE DEF base
<1>3. base \in RowsOf(u) /\ base.isSnapshot /\ base.revision <= n
  BY <1>2 DEF SnapshotsUpTo
<1>4. base \in rows /\ base.uid = u
  BY <1>3 DEF RowsOf
<1>5. base \in Revision /\ base.data \in Doc
  BY <1>3, <1>4 DEF BaseInv, TypeOK, StoreTypeOK
<1> QED BY <1>3, <1>4, <1>5 DEF base, Revision

LEMMA DocumentType ==
    ASSUME BaseInv, NEW u, NEW n
    PROVE  DocumentOf(u, n) \in Doc \cup {Absent}
<1> DEFINE at == {r \in RowsOf(u) : r.revision = n}
<1>1. CASE at = {}
  BY <1>1 DEF DocumentOf
<1>2. CASE at # {}
  <2>1. PICK r \in at : DocumentOf(u, n) = r.seen
    BY <1>2 DEF DocumentOf
  <2> QED BY <2>1 DEF RowsOf, BaseInv, TypeOK, StoreTypeOK, Revision
<1> QED BY <1>1, <1>2

\* What FindSnapshot does, where it finds one.
LEMMA FindSnapshotIs ==
    ASSUME BaseInv, ClientType, UnderWay, FindSnapshot,
           NEW u, u = client.uid, NEW n, n = Target
    PROVE  /\ client \in Replay /\ u \in UIDs /\ n \in Nat \ {0}
           /\ client.kind = "replay" /\ client.at = "snapshot"
           /\ \/ client' = Idle
              \/ SnapshotsUpTo(u, n) # {} /\ \E base, expected, due :
                     /\ base = GetNearestSnapshot(u, n)
                     /\ expected = Append(client.expected, DocumentOf(u, n))
                     /\ due = GetPatchesBetween(u, base.revision, n)
                     /\ \/ /\ base.revision = n
                           /\ Further(client', Onward, Append(client.docs, base.data), Absent,
                                      expected, {}, client.torn)
                        \/ /\ base.revision # n
                           /\ Further(client', "patches", client.docs, base, expected, due,
                                      client.torn)
<1>1. client \in Replay /\ client.kind = "replay" /\ client.at = "snapshot"
  BY ClientIs DEF FindSnapshot
<1>2. u \in UIDs /\ n \in Nat \ {0}
  BY <1>1, TargetType DEF Replay
<1>3. CASE client' = Idle
  BY <1>1, <1>2, <1>3
<1>4. CASE client' # Idle
  <2>1. SnapshotsUpTo(u, n) # {}
    BY <1>4 DEF FindSnapshot
  <2>2. PICK base, due, doc, expected :
            /\ base = GetNearestSnapshot(u, n)
            /\ due = GetPatchesBetween(u, base.revision, n)
            /\ doc = DocumentOf(u, n)
            /\ expected = Append(client.expected, doc)
    OBVIOUS
  <2>3. base.data \in Doc /\ base \in Revision
    BY <1>2, <2>1, <2>2, NearestSnapshot
  <2>4. due \in SUBSET Revision
    BY <2>2 DEF GetPatchesBetween, RowsOf, BaseInv, TypeOK, StoreTypeOK
  <2>5. expected \in Seq(Doc \cup {Absent})
    BY <1>1, <2>2, DocumentType DEF Replay
  <2>6. client' = [(IF base.revision = n THEN Reconstructed(base.data)
                    ELSE [client EXCEPT !.at = "patches", !.base = base, !.due = due])
                   EXCEPT !.expected = Append(@, doc)]
    BY <1>4, <2>2 DEF FindSnapshot
  <2>7. CASE base.revision = n
    <3>1. PICK c : c = Reconstructed(base.data)
      OBVIOUS
    <3>2. Further(c, Onward, Append(client.docs, base.data), Absent, client.expected, {}, client.torn)
      BY <1>1, <2>3, <3>1, ReconstructedIs, Zenon
    <3>3. client' = [c EXCEPT !.expected = expected]
      BY <2>2, <2>6, <2>7, <3>1, <3>2 DEF Further
    <3>4. Further(client', Onward, Append(client.docs, base.data), Absent, expected, {}, client.torn)
      BY <2>5, <3>2, <3>3 DEF Further, Replay
    <3> QED BY <1>1, <1>2, <2>1, <2>2, <2>7, <3>4
  <2>8. CASE base.revision # n
    <3>1. client' = [client EXCEPT !.at = "patches", !.base = base, !.due = due,
                                   !.expected = expected]
      BY <1>1, <2>2, <2>6, <2>8 DEF Replay
    <3>2. Further(client', "patches", client.docs, base, expected, due, client.torn)
      BY <1>1, <2>3, <2>4, <2>5, <3>1 DEF Further, Replay
    <3> QED BY <1>1, <1>2, <2>1, <2>2, <2>8, <3>2
  <2> QED BY <2>7, <2>8
<1> QED BY <1>3, <1>4

\* What ApplyPatches does.
LEMMA ApplyPatchesIs ==
    ASSUME BaseInv, ClientType, UnderWay, ApplyPatches,
           NEW u, u = client.uid, NEW n, n = Target,
           NEW base, base = client.base, NEW patches, patches = GetPatchesBetween(u, base.revision, n)
    PROVE  /\ client \in Replay /\ u \in UIDs /\ n \in Nat \ {0}
           /\ client.kind = "replay" /\ client.at = "patches"
           /\ base \in Revision /\ base.data \in Doc /\ base.revision \in Nat /\ base.revision <= n
           /\ Replayed(base, n, patches) \in Doc
           /\ Further(client', Onward, Append(client.docs, Replayed(base, n, patches)), Absent,
                      client.expected, {}, client.torn \/ ~(client.due \subseteq rows))
<1>1. client \in Replay /\ client.kind = "replay" /\ client.at = "patches"
  BY ClientIs DEF ApplyPatches
<1>2. u \in UIDs /\ n \in Nat \ {0}
  BY <1>1, TargetType DEF Replay
<1>3. base \in Revision /\ base.data \in Doc /\ base.revision \in Nat /\ base.revision <= n
  BY <1>1 DEF UnderWay, Revision
<1>4. PICK doc : doc = Replayed(base, n, patches)
  OBVIOUS
<1>5. doc \in Doc
  <2>1. \A r \in patches : r \in rows
    BY DEF GetPatchesBetween, RowsOf
  <2>2. /\ \A r \in patches : r.isSnapshot => r.data \in Doc
        /\ \A r \in patches : r.data \in Patch
    BY <2>1 DEF BaseInv, TypeOK, StoreTypeOK, Revision
  <2> QED BY <1>2, <1>3, <1>4, <2>2, ReplayType
<1>6. PICK c : c = Reconstructed(doc)
  OBVIOUS
<1>7. Further(c, Onward, Append(client.docs, doc), Absent, client.expected, {}, client.torn)
  BY <1>1, <1>5, <1>6, ReconstructedIs, Zenon
<1>8. PICK torn \in BOOLEAN : torn = (client.torn \/ ~(client.due \subseteq rows))
  OBVIOUS
<1>9. client' = [c EXCEPT !.torn = torn]
  <2>1. client' = [c EXCEPT !.torn = @ \/ ~(client.due \subseteq rows)]
    BY <1>4, <1>6 DEF ApplyPatches, Patches
  <2>2. c.torn = client.torn
    BY <1>7 DEF Further
  <2> QED BY <1>8, <2>1, <2>2
<1>10. Further(client', Onward, Append(client.docs, doc), Absent, client.expected, {}, torn)
  BY <1>7, <1>9 DEF Further, Replay
<1> QED BY <1>1, <1>2, <1>3, <1>4, <1>5, <1>8, <1>10

LEMMA AskTypes ==
    ASSUME NEW u \in UIDs, NEW revisions \in Seq(Nat \ {0}), Len(revisions) > 0, Ask(u, revisions)
    PROVE  ClientType' /\ UnderWay'
<1>1. client' \in Replay
  BY DEF Ask, Replay
<1>2. client'.at = "snapshot" /\ Len(client'.docs) < Len(client'.asked)
  BY DEF Ask
<1> QED BY <1>1, <1>2 DEF ClientType, UnderWay

\* Only rows are asked for.
LEMMA Asking ==
    ASSUME BaseInv, NEW u \in UIDs, HandleReconstruct(u) \/ HandleDiff(u)
    PROVE  \E revisions \in Seq(Revisions(u)) : Len(revisions) > 0 /\ Ask(u, revisions)
<1>1. CASE HandleReconstruct(u)
  <2>1. PICK n \in Revisions(u) : Ask(u, <<n>>)
    BY <1>1 DEF HandleReconstruct
  <2>2. <<n>> \in Seq(Revisions(u)) /\ Len(<<n>>) > 0
    OBVIOUS
  <2> QED BY <2>1, <2>2
<1>2. CASE HandleDiff(u)
  <2>1. PICK from, to \in Revisions(u) : Ask(u, <<from, to>>)
    BY <1>2 DEF HandleDiff
  <2>2. <<from, to>> \in Seq(Revisions(u)) /\ Len(<<from, to>>) > 0
    OBVIOUS
  <2> QED BY <2>1, <2>2
<1> QED BY <1>1, <1>2

LEMMA ReplayTypes ==
    ASSUME BaseInv, ClientType, UnderWay, FindSnapshot \/ ApplyPatches
    PROVE  ClientType' /\ UnderWay'
<1> DEFINE u == client.uid
           n == Target
<1>1. ASSUME NEW docs \in Seq(Doc), NEW expected, NEW torn,
             Len(docs) = Len(client.docs) + 1,
             Further(client', Onward, docs, Absent, expected, {}, torn)
      PROVE  ClientType' /\ UnderWay'
  <2>1. client' \in Replay /\ client'.at = Onward /\ client'.docs = docs /\ client'.asked = client.asked
    BY <1>1 DEF Further
  <2>2. client.kind = "replay" /\ client.at # "done"
    BY DEF FindSnapshot, ApplyPatches
  <2>3. client.asked \in Seq(Nat \ {0}) /\ Len(client.docs) + 1 \in 1..Len(client.asked)
    BY <2>2, TargetType
  <2> QED BY <1>1, <2>1, <2>3 DEF ClientType, UnderWay, Onward
<1>2. CASE FindSnapshot
  <2>1. PICK v, k : v = u /\ k = n
    OBVIOUS
  <2>2. /\ client \in Replay /\ v \in UIDs /\ k \in Nat \ {0}
        /\ client.kind = "replay" /\ client.at = "snapshot"
        /\ \/ client' = Idle
           \/ SnapshotsUpTo(v, k) # {} /\ \E base, expected, due :
                  /\ base = GetNearestSnapshot(v, k)
                  /\ \/ Further(client', Onward, Append(client.docs, base.data), Absent,
                                expected, {}, client.torn)
                     \/ Further(client', "patches", client.docs, base, expected, due,
                                client.torn)
    BY <1>2, <2>1, FindSnapshotIs, Zenon
  <2>3. CASE client' = Idle
    BY <2>3 DEF ClientType, UnderWay, Idle
  <2>4. CASE client' # Idle
    <3>1. PICK base, expected, due :
             /\ base = GetNearestSnapshot(v, k)
             /\ \/ Further(client', Onward, Append(client.docs, base.data), Absent,
                           expected, {}, client.torn)
                \/ Further(client', "patches", client.docs, base, expected, due,
                           client.torn)
      BY <2>2, <2>4
    <3>2. base \in Revision /\ base.data \in Doc /\ base.revision <= k
      BY <2>2, <2>4, <3>1, NearestSnapshot
    <3>3. CASE Further(client', Onward, Append(client.docs, base.data), Absent,
                       expected, {}, client.torn)
      <4>1. client.docs \in Seq(Doc)
        BY <2>2, TargetType
      <4>2. Append(client.docs, base.data) \in Seq(Doc)
            /\ Len(Append(client.docs, base.data)) = Len(client.docs) + 1
        BY <3>2, <4>1
      <4> QED BY <1>1, <3>3, <4>2
    <3>4. CASE Further(client', "patches", client.docs, base, expected, due, client.torn)
      <4>1. /\ client' \in Replay /\ client'.docs = client.docs /\ client'.asked = client.asked
            /\ client'.base = base
        BY <3>4 DEF Further
      <4>2. client'.base.revision <= Target'
        BY <2>1, <3>2, <4>1 DEF Target
      <4>3. Len(client'.docs) < Len(client'.asked)
        BY <2>2, <4>1 DEF UnderWay
      <4> QED BY <3>2, <4>1, <4>2, <4>3 DEF ClientType, UnderWay
    <3> QED BY <3>1, <3>3, <3>4
  <2> QED BY <2>3, <2>4
<1>3. CASE ApplyPatches
  <2>1. PICK v, k, base : v = u /\ k = n /\ base = client.base
    OBVIOUS
  <2>2. PICK patches : patches = GetPatchesBetween(v, base.revision, k)
    OBVIOUS
  <2>3. PICK doc : doc = Replayed(base, k, patches)
    OBVIOUS
  <2>4. /\ client.kind = "replay" /\ client.at = "patches" /\ doc \in Doc
        /\ Further(client', Onward, Append(client.docs, doc), Absent, client.expected, {},
                   client.torn \/ ~(client.due \subseteq rows))
    BY <1>3, <2>1, <2>2, <2>3, ApplyPatchesIs, ZenonT(60)
  <2>5. client.docs \in Seq(Doc)
    BY <2>4, TargetType
  <2>6. Append(client.docs, doc) \in Seq(Doc)
        /\ Len(Append(client.docs, doc)) = Len(client.docs) + 1
    BY <2>4, <2>5
  <2> QED BY <1>1, <2>4, <2>6
<1> QED BY <1>2, <1>3

\* The page c with these rows, and where it stands then.
Scrolled(c, at, shown, counted, more, grew) ==
    /\ c \in Page /\ c.uid = client.uid
    /\ c.at = at /\ c.shown = shown /\ c.counted = counted /\ c.more = more /\ c.grew = grew

\* What SelectHistory does.
LEMMA SelectHistoryIs ==
    ASSUME BaseInv, ClientType, SelectHistory,
           NEW u, u = client.uid, NEW page, page = SelectPage(u, Len(client.shown), PageSize)
    PROVE  /\ client \in Page /\ client.kind = "page" /\ client.at = "select" /\ u \in UIDs
           /\ page \in Seq(Nat \ {0})
           /\ Scrolled(client', "shown", client.shown \o page, {},
                       Len(client.shown) + Len(page) < Cardinality(client.counted),
                       client.grew \/ ~(RowsOf(u) \subseteq client.counted))
<1>1. client \in Page /\ client.kind = "page" /\ client.at = "select"
  BY ClientIs DEF SelectHistory
<1>2. u \in UIDs /\ client.shown \in Seq(Nat \ {0}) /\ Len(client.shown) \in Nat
  BY <1>1 DEF Page
<1>3. page \in Seq(Nat \ {0})
  BY <1>2, PageAssumption, PageIs
<1>4. PICK shown \in Seq(Nat \ {0}), more \in BOOLEAN, grew \in BOOLEAN :
          /\ shown = client.shown \o page
          /\ more = (Len(client.shown) + Len(page) < Cardinality(client.counted))
          /\ grew = (client.grew \/ ~(RowsOf(u) \subseteq client.counted))
  <2>1. client.shown \o page \in Seq(Nat \ {0})
    BY <1>2, <1>3
  <2>2. (Len(client.shown) + Len(page) < Cardinality(client.counted)) \in BOOLEAN
    OBVIOUS
  <2>3. (client.grew \/ ~(RowsOf(u) \subseteq client.counted)) \in BOOLEAN
    OBVIOUS
  <2> QED BY <2>1, <2>2, <2>3, Zenon
<1>5. client' = [client EXCEPT !.at = "shown", !.shown = shown, !.more = more, !.grew = grew,
                               !.counted = {}]
  BY <1>4 DEF SelectHistory, Offset, HasMore
<1>6. Scrolled(client', "shown", shown, {}, more, grew)
  BY <1>1, <1>5 DEF Scrolled, Page
<1> QED BY <1>1, <1>2, <1>3, <1>4, <1>6

LEMMA PageTypes ==
    ASSUME BaseInv, ClientType,
           \/ \E u \in UIDs : Open(u)
           \/ LoadMore \/ CountHistory \/ SelectHistory
    PROVE  client' \in Page
<1>1. CASE \E u \in UIDs : Open(u)
  BY <1>1 DEF Open, Page
<1>2. CASE LoadMore
  BY <1>2, ClientIs DEF LoadMore, Page
<1>3. CASE CountHistory
  <2>1. client \in Page
    BY <1>3, ClientIs DEF CountHistory
  <2>2. RowsOf(client.uid) \in SUBSET Revision
    BY DEF RowsOf, BaseInv, TypeOK, StoreTypeOK
  <2> QED BY <1>3, <2>1, <2>2 DEF CountHistory, Page
<1>4. CASE SelectHistory
  BY <1>4, SelectHistoryIs DEF Scrolled
<1> QED BY <1>1, <1>2, <1>3, <1>4

LEMMA ClientTypes ==
    ASSUME BaseInv, ClientType, UnderWay, Client
    PROVE  ClientType' /\ UnderWay'
<1>1. CASE client' = Idle
  BY <1>1 DEF ClientType, UnderWay, Idle
<1>2. CASE client' \in Page
  BY <1>2 DEF ClientType, UnderWay, Page
<1>3. ASSUME NEW u \in UIDs, HandleReconstruct(u) \/ HandleDiff(u)
      PROVE  ClientType' /\ UnderWay'
  <2>1. PICK revisions \in Seq(Revisions(u)) : Len(revisions) > 0 /\ Ask(u, revisions)
    BY <1>3, Asking
  <2>2. revisions \in Seq(Nat \ {0})
    <3>1. Revisions(u) \in SUBSET (Nat \ {0})
      BY RevisionsFinite
    <3> QED BY <3>1
  <2> QED BY <2>1, <2>2, AskTypes
<1>4. CASE QueryFails
  <2>1. CASE client.kind = "page"
    <3>1. client \in Page
      BY <2>1, ClientIs
    <3>2. client' = [client EXCEPT !.at = "shown", !.counted = {}]
      BY <1>4, <2>1 DEF QueryFails
    <3> QED BY <1>2, <3>1, <3>2 DEF Page
  <2> QED BY <1>1, <1>4, <2>1 DEF QueryFails
<1>5. CASE Leave
  BY <1>1, <1>5 DEF Leave
<1> QED BY <1>2, <1>3, <1>4, <1>5, PageTypes, ReplayTypes DEF Client

-----------------------------------------------------------------------------

\* What holds of every reader, whatever the recorders, their policies and the
\* faults.
ReadersBase ==
    /\ BaseInv
    /\ Times
    /\ ClientType
    /\ UnderWay

LEMMA ReadersBaseInit == ReadersInit => ReadersBase
<1> SUFFICES ASSUME ReadersInit PROVE ReadersBase
  OBVIOUS
<1>1. BaseInv /\ Times
  BY InitBase, InitTimes DEF ReadersInit, RetentionInit
<1>2. ClientType /\ UnderWay
  BY DEF ReadersInit, ClientType, UnderWay, Idle
<1> QED BY <1>1, <1>2 DEF ReadersBase

LEMMA ReadersBaseStep ==
    ASSUME ReadersBase, [ReadersNext]_readersVars
    PROVE  ReadersBase'
<1> USE DEF ReadersBase
<1>1. BaseInv'
  BY BaseStep
<1>2. CASE [RetentionNext]_allVars /\ UNCHANGED client
  BY <1>1, <1>2, TimesStep DEF ClientType, UnderWay, Target
<1>3. CASE Client /\ UNCHANGED allVars
  <2>1. Times'
    BY <1>3 DEF allVars, vars, retentionVars, Times
  <2> QED BY <1>1, <1>3, <2>1, ClientTypes
<1> QED BY <1>2, <1>3, OneActs

\* The types of the store, the clock and the readers hold in every state: no
\* purge between two SELECTs makes a reader replay what is not a document, and
\* every row has the time of a handler that was at work.
THEOREM ReadersTyped == ReadersSpec => []ReadersTypeOK
<1>1. ReadersBase => ReadersTypeOK
  BY DEF ReadersBase, BaseInv, Times, ClientType, ReadersTypeOK, RetentionTypeOK
<1> QED BY ReadersBaseInit, ReadersBaseStep, <1>1, PTL DEF ReadersSpec

-----------------------------------------------------------------------------
(* A history that recorders extend and purges shorten *)

\* What the chain's steps ask for is there with purges as well.
LEMMA GroundLeft ==
    ASSUME BaseInv, SuffixInv, Orderly
    PROVE  Ground
<1>1. EndsAtIndex
  <2> SUFFICES ASSUME NEW u \in UIDs, RowsOf(u) # {}
               PROVE  \E r \in RowsOf(u) :
                          /\ r.revision \in {current[u], current[u] + 1}
                          /\ \A s \in RowsOf(u) : s.revision <= r.revision
    BY DEF EndsAtIndex
  <2>1. Revisions(u) # {} /\ Revisions(u) \in SUBSET Nat /\ current[u] \in Nat
    BY DEF Revisions, RowsOf, BaseInv, TypeOK, StoreTypeOK, Revision
  <2>2. PICK first \in Revisions(u), last \in {current[u], current[u] + 1} :
          Revisions(u) = first..last
    BY <2>1 DEF SuffixInv, HistoryIsSuffix
  <2>3. last \in Revisions(u)
    BY <2>1, <2>2
  <2>4. PICK r \in RowsOf(u) : r.revision = last
    BY <2>3 DEF Revisions
  <2>5. \A s \in RowsOf(u) : s.revision \in first..last
    BY <2>2 DEF Revisions
  <2> QED BY <2>1, <2>2, <2>4, <2>5
<1> QED BY <1>1 DEF Ground, SuffixInv

\* A purge that takes a row takes all before it, so that no patch loses the
\* document it follows and keeps its place.
LEMMA PurgeChain ==
    ASSUME BaseInv, SuffixInv, ChainInv, NEW p \in Policies, Purge(p)
    PROVE  ChainInv'
<1> USE DEF ChainInv
<1>1. /\ rows' \in SUBSET rows
      /\ \A r \in rows' : \A s \in rows :
             r.uid = s.uid /\ r.revision <= s.revision => s \in rows'
  BY PurgeTakesOldest
<1>2. UNCHANGED <<current, versions, phase, initial, pos, pc, job>>
  BY DEF Purge, clusterVars, informerVars, handlerVars
<1>3. SnapshotTellsAll' /\ PatchesFollow'
  BY <1>1 DEF SnapshotTellsAll, PatchesFollow
<1>4. \A u \in UIDs : \A d : EndsWith(u, d) => EndsWith(u, d)'
  <2> SUFFICES ASSUME NEW u \in UIDs, NEW d, EndsWith(u, d), ~Taken(u)',
                      NEW r \in rows', r.uid = u, r.revision = current[u]
               PROVE  r.seen = d
    BY <1>2 DEF EndsWith, RowsOf
  <2>1. ~Taken(u)
    <3> SUFFICES ASSUME NEW s \in rows, s.uid = u, s.revision = current[u] + 1 PROVE FALSE
      BY DEF Taken, RowsOf
    <3>1. current[u] \in Nat
      BY DEF BaseInv, TypeOK, StoreTypeOK
    <3>2. s \in rows'
      BY <1>1, <3>1
    <3> QED BY <1>2, <3>2 DEF Taken, RowsOf
  <2> QED BY <1>1, <2>1 DEF EndsWith, RowsOf
<1>5. CacheFollowed'
  BY <1>2, <1>4 DEF CacheFollowed, Delivered, Cached, Held, Busy
<1>6. JobsOfCache'
  BY <1>2 DEF JobsOfCache, Cached, Held
<1>7. ASSUME NEW h \in Watchers
      PROVE  EndsWith(job[h].uid, job[h].old) => EndsWith(job[h].uid, job[h].old)'
  <2>1. PICK u, d : u \in UIDs /\ u = job[h].uid /\ d = job[h].old
    BY DEF BaseInv, TypeOK, Job
  <2>2. EndsWith(u, d) => EndsWith(u, d)'
    BY <1>4, <2>1
  <2>3. u = job'[h].uid /\ d = job'[h].old
    BY <1>2, <2>1
  <2> QED BY <2>1, <2>2, <2>3 DEF EndsWith, Taken, RowsOf
<1>8. JobsFollow'
  <2> SUFFICES ASSUME NEW h \in Watchers
               PROVE  /\ pc[h] \in {"get", "store"} /\ job[h].event = "UPDATED" =>
                             EndsWith(job[h].uid, job[h].old)'
                      /\ pc[h] = "index" =>
                             \A r \in rows' : r.uid = job[h].uid /\ r.revision = job[h].revision =>
                                 r.seen = job[h].new
    BY <1>2 DEF JobsFollow, RowsOf
  <2> QED BY <1>1, <1>7 DEF JobsFollow, RowsOf
<1> QED BY <1>3, <1>5, <1>6, <1>8

\* A step of the recorder adds at most the next revision of an object, and the
\* index does not go back.
LEMMA StoreGrows ==
    ASSUME BaseInv, NextChosen, [Next]_vars
    PROVE  /\ rows \subseteq rows'
           /\ \A r \in rows' : r \notin rows => r.revision = current[r.uid] + 1
           /\ \A u \in UIDs : current[u] <= current'[u]
<1>1. ASSUME NEW r \in rows', r \notin rows PROVE r.revision = current[r.uid] + 1
  <2>1. PICK h \in Watchers : pc[h] = "store" /\ r = RevisionOf(h)
    BY <1>1, NewRow
  <2>2. r.uid = job[h].uid /\ r.revision = job[h].revision
    BY <2>1 DEF RevisionOf
  <2> QED BY <2>1, <2>2 DEF NextChosen
<1>2. rows \subseteq rows' /\ \A u \in UIDs : current[u] <= current'[u]
  <2>1. current \in [UIDs -> Nat]
    BY DEF BaseInv, TypeOK, StoreTypeOK
  <2>2. CASE UNCHANGED <<rows, current>>
    BY <2>1, <2>2
  <2>3. ASSUME NEW h \in Watchers, Save(h) PROVE rows \subseteq rows' /\ UNCHANGED current
    BY <2>3 DEF Save, StoreRevision, storeVars
  <2>4. ASSUME NEW h \in Watchers, Index(h)
        PROVE  UNCHANGED rows /\ \A u \in UIDs : current[u] <= current'[u]
    <3>1. job[h].revision = current[job[h].uid] + 1
      BY <2>4 DEF NextChosen, Index
    <3> QED BY <2>1, <2>4, <3>1 DEF Index, MarkDeleted, UpsertTrackedResource, storeVars
  <2> QED BY <2>1, <2>2, <2>3, <2>4, StoreUntouched DEF storeVars
<1> QED BY <1>1, <1>2

-----------------------------------------------------------------------------
(* Answers *)

LEMMA StillThereStays ==
    ASSUME BaseInv, SuffixInv, ClientType, StillThere, UNCHANGED client,
           [Next]_vars \/ \E p \in Policies : Purge(p)
    PROVE  StillThere'
<1> SUFFICES ASSUME client.kind = "replay", NEW i \in 1..Len(client.asked),
                    NEW u \in UIDs, u = client.uid, NEW n \in Nat, n = client.asked[i]
             PROVE  /\ n <= current'[u] + 1
                    /\ n \in Revisions(u)' \/ \A m \in Revisions(u)' : n < m
  <2>1. client.kind = "replay" =>
            client.uid \in UIDs /\ \A i \in 1..Len(client.asked) : client.asked[i] \in Nat
    BY ClientIs DEF Replay
  <2> QED BY <2>1 DEF StillThere, Revisions, RowsOf
<1>1. n <= current[u] + 1 /\ (n \in Revisions(u) \/ \A m \in Revisions(u) : n < m)
  BY DEF StillThere
<1>2. current[u] \in Nat /\ Revisions(u) \in SUBSET Nat
  BY DEF BaseInv, TypeOK, StoreTypeOK, Revision, Revisions, RowsOf
<1>3. CASE [Next]_vars
  <2>1. /\ rows \subseteq rows' /\ current[u] <= current'[u] /\ current'[u] \in Nat
        /\ \A r \in rows' : r \notin rows => r.revision = current[r.uid] + 1
    BY <1>3, StoreGrows, NextBase DEF SuffixInv, BaseInv, TypeOK, StoreTypeOK
  <2>2. Revisions(u) \subseteq Revisions(u)'
    BY <2>1 DEF Revisions, RowsOf
  <2>3. \A m \in Revisions(u)' : m \in Revisions(u) \/ m = current[u] + 1
    BY <2>1 DEF Revisions, RowsOf
  <2> QED BY <1>1, <1>2, <2>1, <2>2, <2>3
<1>4. ASSUME NEW p \in Policies, Purge(p)
      PROVE  n <= current'[u] + 1 /\ (n \in Revisions(u)' \/ \A m \in Revisions(u)' : n < m)
  <2>1. UNCHANGED current
    BY <1>4 DEF Purge
  <2>2. /\ Revisions(u)' \subseteq Revisions(u)
        /\ \A m \in Revisions(u)' : \A k \in Revisions(u) : m <= k => k \in Revisions(u)'
    BY <1>4, PurgeTakesOldest DEF Revisions, RowsOf
  <2> QED BY <1>1, <1>2, <2>1, <2>2
<1> QED BY <1>3, <1>4

\* An object's revisions end at the index's number or the next one.
LEMMA RevisionsEnd ==
    ASSUME BaseInv, SuffixInv, NEW u \in UIDs
    PROVE  /\ \A n \in Revisions(u) : n <= current[u] + 1
           /\ \A n, m \in Revisions(u) : n..m \subseteq Revisions(u)
<1>1. Revisions(u) \in SUBSET Nat /\ current[u] \in Nat
  BY DEF BaseInv, TypeOK, StoreTypeOK, Revision, Revisions, RowsOf
<1>2. CASE Revisions(u) # {}
  <2>1. PICK first \in Revisions(u), last \in {current[u], current[u] + 1} :
          Revisions(u) = first..last
    BY <1>2 DEF SuffixInv, HistoryIsSuffix
  <2>2. \A n \in Revisions(u) : n \in first..last
    BY <2>1
  <2>3. first \in Nat /\ last \in Nat
    BY <1>1, <2>1
  <2>4. \A n, m \in first..last : n..m \subseteq first..last
    BY <2>3
  <2> QED BY <1>1, <2>1, <2>2, <2>4
<1> QED BY <1>2

LEMMA AskHonest ==
    ASSUME BaseInv, SuffixInv, NEW u \in UIDs, UNCHANGED allVars,
           NEW revisions \in Seq(Revisions(u)), Ask(u, revisions)
    PROVE  ReaderInv'
<1>1. StillThere'
  <2>1. \A i \in 1..Len(revisions) : revisions[i] \in Revisions(u)
    OBVIOUS
  <2>2. client'.asked = revisions /\ client'.uid = u
    BY DEF Ask
  <2>3. \A n \in Revisions(u) : n <= current[u] + 1
    BY RevisionsEnd
  <2> QED BY <2>1, <2>2, <2>3 DEF StillThere, Revisions, RowsOf, allVars, vars
<1>2. DueReplays' /\ AnswersExact'
  BY DEF Ask, DueReplays, AnswersExact
<1> QED BY <1>1, <1>2 DEF ReaderInv

\* A reader of a page, or nobody, has nothing to be wrong about.
LEMMA OtherHonest ==
    ASSUME client' = Idle \/ client' \in Page
    PROVE  ReaderInv'
<1>1. client'.kind # "replay"
  BY DEF Idle, Page
<1> QED BY <1>1 DEF ReaderInv, StillThere, DueReplays, AnswersExact

LEMMA DocumentIs ==
    ASSUME BaseInv, NEW u \in UIDs, NEW r \in RowsOf(u)
    PROVE  DocumentOf(u, r.revision) = r.seen
<1>1. {s \in RowsOf(u) : s.revision = r.revision} = {r}
  BY DEF BaseInv, KeysUnique, RowsOf
<1>2. (CHOOSE s \in {r} : TRUE) = r
  OBVIOUS
<1> QED BY <1>1, <1>2 DEF DocumentOf

\* What comes next is asked for, and so is below the index's next number.
LEMMA TargetThere ==
    ASSUME BaseInv, ClientType, UnderWay, StillThere, client.kind = "replay", client.at # "done",
           NEW u \in UIDs, u = client.uid, NEW r \in RowsOf(u), r.revision <= Target
    PROVE  Target \in Revisions(u)
<1>1. Target \in Revisions(u) \/ \A m \in Revisions(u) : Target < m
  BY TargetType DEF StillThere, Target
<1>2. r.revision \in Revisions(u) /\ r.revision \in Nat /\ Target \in Nat
  BY TargetType DEF Revisions, RowsOf, BaseInv, TypeOK, StoreTypeOK, Revision
<1> QED BY <1>1, <1>2

\* The rows between a snapshot and the revision asked for are all there, and
\* each follows the one before it.
LEMMA RowsBetween ==
    ASSUME BaseInv, SuffixInv, ChainInv, NEW u \in UIDs,
           NEW base \in RowsOf(u), base.isSnapshot,
           NEW target \in RowsOf(u), base.revision < target.revision,
           NEW due, due = GetPatchesBetween(u, base.revision, target.revision)
    PROVE  /\ base.data = base.seen
           /\ \A r \in due \cup {base} : r.uid = u
           /\ \A r \in due : base.revision < r.revision /\ r.revision <= target.revision
           /\ \A r, s \in due : r.revision = s.revision => r = s
           /\ \A i \in (base.revision + 1)..target.revision : \E r \in due : r.revision = i
           /\ \A r \in due : r.isSnapshot => r.data = r.seen
           /\ \A r \in due \cup {base} : \A s \in due :
                  s.revision = r.revision + 1 /\ ~s.isSnapshot =>
                      ApplyMergePatch(r.seen, s.data) = s.seen
           /\ \A r \in due : r.revision = target.revision => r = target
<1>1. \A r \in RowsOf(u) : r \in rows /\ r.uid = u /\ r.revision \in Nat
  BY DEF RowsOf, BaseInv, TypeOK, StoreTypeOK, Revision
<1>2. \A r \in due : r \in RowsOf(u) /\ base.revision < r.revision /\ r.revision <= target.revision
  BY DEF GetPatchesBetween
<1>3. \A r, s \in RowsOf(u) : r.revision = s.revision => r = s
  BY <1>1 DEF BaseInv, KeysUnique
<1>4. ASSUME NEW i \in (base.revision + 1)..target.revision
      PROVE  \E r \in due : r.revision = i
  <2>1. base.revision..target.revision \subseteq Revisions(u)
    BY RevisionsEnd DEF Revisions
  <2>2. i \in Revisions(u)
    BY <1>1, <2>1
  <2>3. PICK r \in RowsOf(u) : r.revision = i
    BY <2>2 DEF Revisions
  <2> QED BY <1>1, <2>3 DEF GetPatchesBetween
<1>5. \A r \in RowsOf(u) : r.isSnapshot => r.data = r.seen
  BY <1>1 DEF ChainInv, SnapshotTellsAll
<1>6. \A r, s \in RowsOf(u) : s.revision = r.revision + 1 /\ ~s.isSnapshot =>
          ApplyMergePatch(r.seen, s.data) = s.seen
  BY <1>1 DEF ChainInv, PatchesFollow
<1> QED BY <1>1, <1>2, <1>3, <1>4, <1>5, <1>6

\* One document more, and the right one.
LEMMA OneMore ==
    ASSUME NEW docs \in Seq(Doc), NEW expected \in Seq(Doc \cup {Absent}), NEW doc \in Doc,
           Len(expected) = Len(docs) + 1, expected[Len(docs) + 1] = doc,
           \A i \in 1..Len(docs) : docs[i] = expected[i]
    PROVE  \A i \in 1..Len(Append(docs, doc)) : Append(docs, doc)[i] = expected[i]
<1>1. Len(Append(docs, doc)) = Len(docs) + 1
  OBVIOUS
<1> SUFFICES ASSUME NEW i \in 1..(Len(docs) + 1) PROVE Append(docs, doc)[i] = expected[i]
  BY <1>1
<1>2. CASE i = Len(docs) + 1
  BY <1>2
<1>3. CASE i \in 1..Len(docs)
  BY <1>3
<1> QED BY <1>2, <1>3

LEMMA FindHonest ==
    ASSUME BaseInv, SuffixInv, ChainInv, ClientType, UnderWay, ReaderInv, FindSnapshot
    PROVE  ReaderInv'
<1>1. PICK u, n : u = client.uid /\ n = Target
  OBVIOUS
<1>2. /\ client \in Replay /\ u \in UIDs /\ n \in Nat \ {0}
      /\ client.kind = "replay" /\ client.at = "snapshot"
      /\ \/ client' = Idle
         \/ SnapshotsUpTo(u, n) # {} /\ \E base, expected, due :
                /\ base = GetNearestSnapshot(u, n)
                /\ expected = Append(client.expected, DocumentOf(u, n))
                /\ due = GetPatchesBetween(u, base.revision, n)
                /\ \/ /\ base.revision = n
                      /\ Further(client', Onward, Append(client.docs, base.data), Absent,
                                 expected, {}, client.torn)
                   \/ /\ base.revision # n
                      /\ Further(client', "patches", client.docs, base, expected, due,
                                 client.torn)
  BY <1>1, FindSnapshotIs
<1>3. CASE client' = Idle
  BY <1>3, OtherHonest
<1>4. CASE client' # Idle
  <2>1. PICK base, expected, due :
                /\ base = GetNearestSnapshot(u, n)
                /\ expected = Append(client.expected, DocumentOf(u, n))
                /\ due = GetPatchesBetween(u, base.revision, n)
                /\ \/ /\ base.revision = n
                      /\ Further(client', Onward, Append(client.docs, base.data), Absent,
                                 expected, {}, client.torn)
                   \/ /\ base.revision # n
                      /\ Further(client', "patches", client.docs, base, expected, due,
                                 client.torn)
    BY <1>2, <1>4
  <2>2. /\ base \in RowsOf(u) /\ base.isSnapshot /\ base.data \in Doc
        /\ base.revision \in Nat /\ base.revision <= n
    BY <1>2, <1>4, <2>1, NearestSnapshot
  <2>3. PICK target \in RowsOf(u) : target.revision = n
    <3>1. n \in Revisions(u)
      BY <1>1, <1>2, <2>2, TargetThere DEF ReaderInv
    <3> QED BY <3>1 DEF Revisions
  <2>4. expected = Append(client.expected, target.seen) /\ target.seen \in Doc
    BY <1>2, <2>1, <2>3, DocumentIs DEF RowsOf, BaseInv, TypeOK, StoreTypeOK, Revision
  <2>5. /\ client.docs \in Seq(Doc) /\ client.expected \in Seq(Doc \cup {Absent})
        /\ Len(client.expected) = Len(client.docs)
        /\ ~client.torn => \A i \in 1..Len(client.docs) : client.docs[i] = client.expected[i]
    BY <1>2 DEF ReaderInv, AnswersExact, Replay
  <2>6. client'.kind = "replay" /\ client'.uid = u /\ client'.asked = client.asked
    BY <1>1, <2>1 DEF Further, Replay
  <2>7. StillThere'
    BY <1>1, <1>2, <2>6 DEF ReaderInv, StillThere, FindSnapshot, allVars, vars, Revisions, RowsOf
  <2>8. CASE base.revision = n
    <3>1. PICK docs : docs = Append(client.docs, base.data)
      OBVIOUS
    <3>2. /\ client'.docs = docs /\ client'.expected = expected
          /\ client'.at = Onward /\ client'.torn = client.torn
      BY <2>1, <2>8, <3>1 DEF Further
    <3>3. base.data = target.seen
      BY <1>2, <2>2, <2>3, <2>8 DEF BaseInv, KeysUnique, RowsOf, ChainInv, SnapshotTellsAll
    <3>4. /\ docs \in Seq(Doc) /\ Len(docs) = Len(client.docs) + 1
          /\ Len(expected) = Len(docs) /\ docs # <<>>
          /\ ~client.torn => \A i \in 1..Len(docs) : docs[i] = expected[i]
      <4>1. PICK d : d = base.data
        OBVIOUS
      <4>2. /\ d \in Doc /\ docs = Append(client.docs, d)
            /\ expected = Append(client.expected, d)
        BY <2>2, <2>4, <3>1, <3>3, <4>1
      <4>3. /\ docs \in Seq(Doc) /\ Len(docs) = Len(client.docs) + 1 /\ docs # <<>>
            /\ expected \in Seq(Doc \cup {Absent}) /\ Len(expected) = Len(client.docs) + 1
            /\ expected[Len(client.docs) + 1] = d
            /\ \A i \in 1..Len(client.docs) : expected[i] = client.expected[i]
        BY <2>5, <4>2
      <4>4. ~client.torn => \A i \in 1..Len(docs) : docs[i] = expected[i]
        <5> SUFFICES ASSUME ~client.torn PROVE \A i \in 1..Len(docs) : docs[i] = expected[i]
          OBVIOUS
        <5>1. \A i \in 1..Len(client.docs) : client.docs[i] = expected[i]
          BY <2>5, <4>3
        <5> QED BY <2>5, <4>2, <4>3, <5>1, OneMore
      <4> QED BY <4>3, <4>4
    <3>5. client'.at # "patches"
      BY <3>2 DEF Onward
    <3>6. DueReplays' /\ AnswersExact'
      BY <3>2, <3>4, <3>5 DEF DueReplays, AnswersExact
    <3> QED BY <2>7, <3>6 DEF ReaderInv
  <2>9. CASE base.revision # n
    <3>1. /\ client'.docs = client.docs /\ client'.expected = expected /\ client'.due = due
          /\ client'.at = "patches" /\ client'.torn = client.torn /\ client'.base = base
      BY <2>1, <2>9 DEF Further
    <3>2. Target' = n
      BY <1>1, <2>6, <3>1 DEF Target
    <3>3. base.revision < target.revision
      BY <1>2, <2>2, <2>3, <2>9
    <3>4. /\ base.data = base.seen
          /\ \A r \in due \cup {base} : r.uid = u
          /\ \A r \in due : base.revision < r.revision /\ r.revision <= n
          /\ \A r, s \in due : r.revision = s.revision => r = s
          /\ \A i \in (base.revision + 1)..n : \E r \in due : r.revision = i
          /\ \A r \in due : r.isSnapshot => r.data = r.seen
          /\ \A r \in due \cup {base} : \A s \in due :
                 s.revision = r.revision + 1 /\ ~s.isSnapshot =>
                     ApplyMergePatch(r.seen, s.data) = s.seen
          /\ \A r \in due : r.revision = n => r = target
      BY <1>2, <2>1, <2>2, <2>3, <3>3, RowsBetween
    <3>5. expected[Len(client.docs) + 1] = target.seen
      BY <2>4, <2>5
    <3>6. DueReplays'
      BY <2>3, <2>6, <3>1, <3>2, <3>3, <3>4, <3>5 DEF DueReplays
    <3>7. AnswersExact'
      BY <2>4, <2>5, <3>1 DEF AnswersExact
    <3> QED BY <2>7, <3>6, <3>7 DEF ReaderInv
  <2> QED BY <2>8, <2>9
<1> QED BY <1>3, <1>4

LEMMA ApplyHonest ==
    ASSUME BaseInv, ClientType, UnderWay, ReaderInv, ApplyPatches
    PROVE  ReaderInv'
<1>1. PICK u, n, base, due : u = client.uid /\ n = Target /\ base = client.base /\ due = client.due
  OBVIOUS
<1>2. PICK patches : patches = GetPatchesBetween(u, base.revision, n)
  OBVIOUS
<1>3. PICK doc : doc = Replayed(base, n, patches)
  OBVIOUS
<1>4. /\ client \in Replay /\ u \in UIDs /\ n \in Nat \ {0}
      /\ client.kind = "replay" /\ client.at = "patches"
      /\ base \in Revision /\ base.data \in Doc /\ base.revision \in Nat /\ base.revision <= n
      /\ doc \in Doc
      /\ Further(client', Onward, Append(client.docs, doc), Absent, client.expected, {},
                 client.torn \/ ~(due \subseteq rows))
  BY <1>1, <1>2, <1>3, ApplyPatchesIs, ZenonT(60)
<1>5. /\ base.data = base.seen
      /\ \A r \in due \cup {base} : r.uid = u
      /\ base.revision < n
      /\ \A r \in due : base.revision < r.revision /\ r.revision <= n
      /\ \A r, s \in due : r.revision = s.revision => r = s
      /\ \A i \in (base.revision + 1)..n : \E r \in due : r.revision = i
      /\ \A r \in due : r.isSnapshot => r.data = r.seen
      /\ \A r \in due \cup {base} : \A s \in due :
             s.revision = r.revision + 1 /\ ~s.isSnapshot =>
                 ApplyMergePatch(r.seen, s.data) = s.seen
      /\ \A r \in due : r.revision = n => client.expected[Len(client.docs) + 1] = r.seen
  BY <1>1, <1>4 DEF ReaderInv, DueReplays
<1>6. /\ client.docs \in Seq(Doc) /\ client.expected \in Seq(Doc \cup {Absent})
      /\ Len(client.expected) = Len(client.docs) + 1
      /\ ~client.torn => \A i \in 1..Len(client.docs) : client.docs[i] = client.expected[i]
      /\ due \in SUBSET Revision
  BY <1>1, <1>4 DEF ReaderInv, AnswersExact, Replay
<1>7. PICK target \in due : target.revision = n
  BY <1>4, <1>5
<1>8. due \subseteq rows => doc = target.seen
  <2> SUFFICES ASSUME due \subseteq rows PROVE doc = target.seen
    OBVIOUS
  <2>1. patches = due
    <3>1. ASSUME NEW r \in patches PROVE r \in due
      <4>1. r \in rows /\ r.uid = u /\ base.revision < r.revision /\ r.revision <= n
            /\ r.revision \in Nat
        BY <1>2 DEF GetPatchesBetween, RowsOf, BaseInv, TypeOK, StoreTypeOK, Revision
      <4>2. PICK s \in due : s.revision = r.revision
        BY <1>4, <1>5, <4>1
      <4>3. s \in rows /\ s.uid = r.uid
        BY <1>5, <4>1
      <4> QED BY <4>1, <4>2, <4>3 DEF BaseInv, KeysUnique
    <3>2. ASSUME NEW r \in due PROVE r \in patches
      <4>1. r \in rows /\ r.uid = u /\ base.revision < r.revision
        BY <1>5
      <4>2. r.revision <= n
        BY <1>5
      <4> QED BY <1>2, <4>1, <4>2 DEF GetPatchesBetween, RowsOf
    <3> QED BY <3>1, <3>2
  <2>2. \A r \in due \cup {base} : r.revision \in Nat /\ r.seen \in Doc
    BY <1>4, <1>6 DEF Revision
  <2>3. Replayed(base, target.revision, due) = target.seen
    BY <1>5, <1>7, <2>2, ReplayExact
  <2> QED BY <1>3, <1>7, <2>1, <2>3
<1>9. PICK docs, torn : docs = Append(client.docs, doc) /\ torn = (client.torn \/ ~(due \subseteq rows))
  OBVIOUS
<1>10. /\ client' \in Replay /\ client'.uid = u /\ client'.asked = client.asked
       /\ client'.docs = docs /\ client'.expected = client.expected
       /\ client'.at = Onward /\ client'.torn = torn
  BY <1>1, <1>4, <1>9 DEF Further
<1>11. StillThere'
  BY <1>1, <1>4, <1>10 DEF ReaderInv, StillThere, ApplyPatches, allVars, vars, Revisions, RowsOf
<1>12. Len(client.expected) = Len(docs) /\ docs # <<>>
  BY <1>4, <1>6, <1>9
<1>13. ~torn => \A i \in 1..Len(docs) : docs[i] = client.expected[i]
  <2> SUFFICES ASSUME ~torn PROVE \A i \in 1..Len(docs) : docs[i] = client.expected[i]
    OBVIOUS
  <2>1. ~client.torn /\ doc = target.seen
    BY <1>8, <1>9
  <2>2. client.expected[Len(client.docs) + 1] = doc
    BY <1>5, <1>7, <2>1
  <2> QED BY <1>4, <1>6, <1>9, <2>1, <2>2, OneMore
<1>14. DueReplays' /\ AnswersExact'
  BY <1>10, <1>12, <1>13 DEF DueReplays, AnswersExact, Onward
<1> QED BY <1>11, <1>14 DEF ReaderInv

LEMMA ClientHonest ==
    ASSUME BaseInv, SuffixInv, ChainInv, ClientType, UnderWay, ReaderInv, Client
    PROVE  ReaderInv'
<1>1. ASSUME NEW u \in UIDs, HandleReconstruct(u) \/ HandleDiff(u)
      PROVE  ReaderInv'
  <2>1. PICK revisions \in Seq(Revisions(u)) : Ask(u, revisions)
    BY <1>1, Asking
  <2>2. UNCHANGED allVars
    BY <2>1 DEF Ask
  <2> QED BY <2>1, <2>2, AskHonest
<1>2. CASE (\E u \in UIDs : Open(u)) \/ LoadMore \/ CountHistory \/ SelectHistory
  BY <1>2, PageTypes, OtherHonest
<1>3. CASE QueryFails
  <2>1. CASE client.kind = "page"
    <3>1. client' = [client EXCEPT !.at = "shown", !.counted = {}] /\ client \in Page
      BY <1>3, <2>1, ClientIs DEF QueryFails
    <3>2. client' \in Page
      BY <3>1 DEF Page
    <3> QED BY <3>2, OtherHonest
  <2>2. CASE client.kind # "page"
    BY <1>3, <2>2, OtherHonest DEF QueryFails
  <2> QED BY <2>1, <2>2
<1>4. CASE Leave
  BY <1>4, OtherHonest DEF Leave
<1> QED BY <1>1, <1>2, <1>3, <1>4, FindHonest, ApplyHonest DEF Client

\* What is proved of readers of one recorder's history.
HonestInv ==
    /\ ReadersBase
    /\ SuffixInv
    /\ Orderly
    /\ ChainInv
    /\ ReaderInv

LEMMA HonestInit == ReadersInit => HonestInv
<1> SUFFICES ASSUME ReadersInit PROVE HonestInv
  OBVIOUS
<1>1. ReadersBase /\ SuffixInv
  BY ReadersBaseInit, InitSuffix DEF ReadersInit
<1>2. Orderly /\ ChainInv
  BY InitFidelity DEF ReadersInit, RetentionInit
<1>3. ReaderInv
  BY DEF ReadersInit, Idle, ReaderInv, StillThere, DueReplays, AnswersExact
<1> QED BY <1>1, <1>2, <1>3 DEF HonestInv

\* A purge moves no informer and no handler, and adds no row.
LEMMA PurgeOrderly ==
    ASSUME Orderly, NEW p \in Policies, Purge(p)
    PROVE  Orderly'
<1>1. /\ UNCHANGED <<versions, phase, pos, pc, job>>
      /\ rows' \in SUBSET rows
  BY DEF Purge, clusterVars, informerVars, handlerVars
<1>2. IdleUntilListed' /\ LatestIsListed'
  BY <1>1 DEF Orderly, IdleUntilListed, LatestIsListed
<1>3. OwnersSucceed' /\ CachesSucceed'
  BY <1>1 DEF Orderly, Succession, OwnersSucceed, CachesSucceed, Newer, Live, Last, Former
<1>4. RecordedIsSeen'
  BY <1>1 DEF Orderly, Succession, RecordedIsSeen, RowsOf, Busy, Listed, Newer
<1> QED BY <1>2, <1>3, <1>4 DEF Orderly, Succession

\* The store's side of it: recorders and purges keep the chain, whatever is read.
LEMMA ChainLeft ==
    ASSUME OneRecorder, ReadsSucceed, InsertsSucceed, RecordsCreations, SelectsByName,
           ReadersBase, SuffixInv, Orderly, ChainInv, [ReadersNext]_readersVars,
           [\A h \in Watchers : CatchesDrift(h)]_vars
    PROVE  SuffixInv' /\ Orderly' /\ ChainInv'
<1> USE DEF ReadersBase
<1>1. SuffixInv'
  <2>1. [RetentionNext]_allVars
    BY OneActs
  <2> QED BY <2>1, NextSuffix
<1>2. CASE [Next]_vars
  <2>1. \A h \in Watchers : CatchesDrift(h)
    BY StutterCatches
  <2>2. Ground
    BY GroundLeft
  <2> QED BY <1>1, <1>2, <2>1, <2>2, OrderlyStep, ChainStep
<1>3. ASSUME NEW p \in Policies, Purge(p)
      PROVE  Orderly' /\ ChainInv'
  BY <1>3, PurgeOrderly, PurgeChain
<1> QED BY <1>1, <1>2, <1>3, StoreStep

LEMMA HonestStep ==
    ASSUME OneRecorder, ReadsSucceed, InsertsSucceed, RecordsCreations, SelectsByName,
           HonestInv, [ReadersNext]_readersVars,
           [\A h \in Watchers : CatchesDrift(h)]_vars
    PROVE  HonestInv'
<1> USE DEF HonestInv
<1>1. ReadersBase' /\ SuffixInv' /\ Orderly' /\ ChainInv'
  BY ReadersBaseStep, ChainLeft
<1>2. CASE UNCHANGED client
  <2>1. StillThere'
    BY <1>2, StoreStep, StillThereStays DEF ReadersBase, ReaderInv
  <2>2. DueReplays' /\ AnswersExact'
    BY <1>2 DEF ReaderInv, DueReplays, AnswersExact, Target
  <2> QED BY <1>1, <2>1, <2>2 DEF ReaderInv
<1>3. CASE Client
  BY <1>1, <1>3, ClientHonest DEF ReadersBase
<1> QED BY <1>2, <1>3, OneActs

LEMMA HonestAnswer == HonestInv => ReaderHonest
<1> SUFFICES ASSUME HonestInv, client.kind = "replay", client.at = "done", ~client.torn
             PROVE  /\ client.docs = client.expected
                    /\ ApplyMergePatch(client.docs[1],
                           ComputeMergePatch(client.docs[1], client.docs[Len(client.docs)]))
                       = client.expected[Len(client.expected)]
  BY DEF ReaderHonest
<1>1. client \in Replay
  BY ClientIs DEF HonestInv, ReadersBase
<1>2. PICK docs \in Seq(Doc), expected \in Seq(Doc \cup {Absent}) :
        docs = client.docs /\ expected = client.expected
  BY <1>1 DEF Replay
<1>3. /\ Len(expected) = Len(docs) /\ docs # <<>>
      /\ \A i \in 1..Len(docs) : docs[i] = expected[i]
  BY <1>2 DEF HonestInv, ReaderInv, AnswersExact
<1>4. docs = expected
  BY <1>3
<1>5. Len(docs) \in 1..Len(docs) /\ docs[1] \in Doc /\ docs[Len(docs)] \in Doc
  BY <1>3
<1> QED BY <1>2, <1>4, <1>5, PatchRoundTrip

\* An answer is exact or an error: a reconstruction or a diff is made of the
\* documents the handler saw, whatever is recorded and purged between its
\* SELECTs, unless a row it needed went between two of them.  For one recorder
\* under the conditions of HistoryIsExact, any ages, policies and readers.
THEOREM AnswersAreExact ==
    ASSUME OneRecorder, ReadsSucceed, InsertsSucceed, RecordsCreations, SelectsByName
    PROVE  ReadersSpec /\ DriftCaught => []ReaderHonest
<1> DEFINE D == \A h \in Watchers : CatchesDrift(h)
<1>1. HonestInv /\ [ReadersNext]_readersVars /\ [D]_vars => HonestInv'
  BY HonestStep
<1> QED BY HonestInit, <1>1, HonestAnswer, PTL DEF ReadersSpec, DriftCaught

\* Where every revision is a snapshot, no restart makes an answer wrong.
THEOREM SnapshotAnswersAreExact ==
    ASSUME EverySnapshot,
           OneRecorder, ReadsSucceed, InsertsSucceed, RecordsCreations, SelectsByName
    PROVE  ReadersSpec => []ReaderHonest
<1> DEFINE D == \A h \in Watchers : CatchesDrift(h)
           P == ReadersBase /\ AllSnapshots /\ SnapshotTellsAll
<1>1. ReadersInit => P
  BY ReadersBaseInit
     DEF ReadersInit, RetentionInit, Init, StoreInit, AllSnapshots, SnapshotTellsAll
<1>2. P /\ [ReadersNext]_readersVars => P'
  <2> SUFFICES ASSUME P, [ReadersNext]_readersVars PROVE P'
    OBVIOUS
  <2>1. CASE [Next]_vars
    BY <2>1, ReadersBaseStep, AllSnapshotsStep, SnapshotsTellStep DEF ReadersBase
  <2>2. ASSUME NEW p \in Policies, Purge(p) PROVE AllSnapshots' /\ SnapshotTellsAll'
    BY <2>2 DEF Purge, AllSnapshots, SnapshotTellsAll
  <2> QED BY <2>1, <2>2, StoreStep, ReadersBaseStep
<1>3. P /\ [ReadersNext]_readersVars => [D]_vars
  BY SnapshotCatches DEF ReadersBase
<1>4. ReadersSpec => DriftCaught
  BY <1>1, <1>2, <1>3, PTL DEF ReadersSpec, DriftCaught
<1> QED BY <1>4, AnswersAreExact, PTL

\* And so are the answers of a recorder that is started once, whatever its
\* snapshotEvery.
THEOREM FirstStartAnswersAreExact ==
    ASSUME OneRecorder, ReadsSucceed, InsertsSucceed, RecordsCreations, SelectsByName
    PROVE  ReadersSpec /\ []StartedOnce => []ReaderHonest
<1> DEFINE D == \A h \in Watchers : CatchesDrift(h)
           P == ReadersBase /\ Orderly /\ OnceInv
<1>1. ReadersInit => P
  BY ReadersBaseInit, InitFidelity
     DEF ReadersInit, RetentionInit, Init, StoreInit, OnceInv, NothingOf, RowsOf
<1>2. P /\ StartedOnce' /\ [ReadersNext]_readersVars => P'
  <2> SUFFICES ASSUME P, StartedOnce', [ReadersNext]_readersVars PROVE P'
    OBVIOUS
  <2>1. ReadersBase'
    BY ReadersBaseStep
  <2>2. CASE [Next]_vars
    BY <2>1, <2>2, OrderlyStep, OnceHandle, OnceDeliver, OnceOutside DEF ReadersBase
  <2>3. ASSUME NEW p \in Policies, Purge(p) PROVE Orderly' /\ OnceInv'
    BY <2>3, PurgeOrderly DEF Purge, OnceInv, NothingOf, RowsOf, informerVars, handlerVars
  <2> QED BY <2>1, <2>2, <2>3, StoreStep
<1>3. P /\ [ReadersNext]_readersVars => [D]_vars
  BY DEF OnceInv, CatchesDrift, ReadLatest
<1>4. ReadersSpec /\ []StartedOnce => DriftCaught
  BY <1>1, <1>2, <1>3, PTL DEF ReadersSpec, DriftCaught
<1> QED BY <1>4, AnswersAreExact, PTL

-----------------------------------------------------------------------------
(* Pages *)

\* What the browser has of a page: its rows, and how far they reach down.
Rows(u, shown) ==
    /\ shown \in Seq(Nat \ {0})
    /\ \A i \in 1..Len(shown) : shown[i] <= current[u] + 1
    /\ \A i \in 2..Len(shown) : shown[i - 1] <= shown[i] + 1

\* The page below these rows begins no lower than one below the last of them.
Meets(u, shown) ==
    shown # <<>> =>
        LET reach == Len(shown) + shown[Len(shown)] IN
        /\ reach <= current[u] + 2
        /\ Revisions(u) # {} => \E top \in Revisions(u) : reach <= top + 1

\* Every revision that is left, up to the first one shown, is shown.
Complete(u, shown) ==
    \A n \in Revisions(u) : n <= shown[1] => \E i \in 1..Len(shown) : shown[i] = n

\* The paging invariant, in these terms.
Paging(c) ==
    c.kind = "page" =>
        /\ Rows(c.uid, c.shown)
        /\ Meets(c.uid, c.shown)
        /\ c.at \in {"count", "select"} => c.more \/ c.shown = <<>>
        /\ c.at = "select" => IsFiniteSet(c.counted)
        /\ c.at = "shown" /\ ~c.more /\ ~c.grew /\ c.shown # <<>> => Complete(c.uid, c.shown)

LEMMA PagingIs ==
    ASSUME ClientType
    PROVE  Paging(client) <=> PagingInv
<1>1. CASE client.kind = "page"
  <2>1. client \in Page
    BY <1>1, ClientIs
  <2>2. client.shown \in Seq(Nat \ {0})
    BY <2>1 DEF Page
  <2>3. Seqs!ToSet(client.shown) = {client.shown[i] : i \in 1..Len(client.shown)}
    BY <2>2 DEF Seqs!ToSet
  <2>4. EndMeansAll <=> (client.at = "shown" /\ ~client.more /\ ~client.grew /\ client.shown # <<>>
                         => Complete(client.uid, client.shown))
    BY <1>1, <2>3 DEF EndMeansAll, Complete
  <2> QED BY <1>1, <2>2, <2>4
          DEF Paging, Rows, Meets, PagingInv, NoRevisionSkipped, NextPageMeets, PageWanted
<1>2. CASE client.kind # "page"
  BY <1>2 DEF Paging, PagingInv, NoRevisionSkipped, NextPageMeets, PageWanted, EndMeansAll
<1> QED BY <1>1, <1>2

\* The newest revision of an object, and what is above another.
LEMMA TopIs ==
    ASSUME BaseInv, SuffixInv, NEW u \in UIDs, Revisions(u) # {}
    PROVE  \E top \in Revisions(u) :
               /\ top \in Nat /\ top <= current[u] + 1
               /\ \A n \in Revisions(u) : n <= top /\ Above(u, n) = top - n
<1>1. Revisions(u) \in SUBSET Nat /\ current[u] \in Nat
  BY DEF BaseInv, TypeOK, StoreTypeOK, Revision, Revisions, RowsOf
<1>2. PICK first \in Revisions(u), last \in {current[u], current[u] + 1} :
        Revisions(u) = first..last
  BY DEF SuffixInv, HistoryIsSuffix
<1>3. first \in Nat /\ last \in Nat /\ last \in Revisions(u) /\ last <= current[u] + 1
  BY <1>1, <1>2
<1>4. ASSUME NEW n \in Revisions(u) PROVE n <= last /\ Above(u, n) = last - n
  <2>1. n \in Nat /\ n <= last /\ first <= n
    BY <1>2, <1>3, <1>4
  <2>2. {m \in Revisions(u) : m > n} = (n + 1)..last
    BY <1>2, <1>3, <2>1
  <2>3. Cardinality((n + 1)..last) = IF n + 1 > last THEN 0 ELSE last - (n + 1) + 1
    BY <1>3, <2>1, FS_Interval
  <2>4. Cardinality((n + 1)..last) = last - n
    BY <1>3, <2>1, <2>3
  <2> QED BY <2>1, <2>2, <2>4 DEF Above
<1> QED BY <1>3, <1>4

\* A list that goes down by one at most passes through every number.
LEMMA Descends ==
    ASSUME NEW s \in Seq(Nat \ {0}), \A i \in 2..Len(s) : s[i - 1] <= s[i] + 1,
           NEW n \in Nat, s # <<>>, n <= s[1], NEW j \in 1..Len(s), s[j] <= n
    PROVE  \E i \in 1..Len(s) : s[i] = n
<1> DEFINE T == {i \in 1..Len(s) : s[i] <= n}
<1>1. T \in SUBSET Nat /\ j \in T
  OBVIOUS
<1>2. PICK i \in T : \A k \in T : i <= k
  BY <1>1, LeastElement
<1>3. CASE i = 1
  BY <1>2, <1>3
<1>4. CASE i # 1
  <2>1. i \in 2..Len(s) /\ i - 1 \in 1..Len(s) /\ ~(i <= i - 1)
    BY <1>2, <1>4
  <2>2. s[i - 1] \in Nat /\ s[i] \in Nat
    BY <2>1
  <2>3. ~(s[i - 1] <= n)
    BY <1>2, <2>1
  <2>4. s[i - 1] <= s[i] + 1 /\ s[i] <= n
    BY <1>2, <2>1
  <2>5. \A x, y \in Nat : ~(x <= n) /\ x <= y + 1 /\ y <= n => y = n
    OBVIOUS
  <2>6. s[i] = n
    BY <2>2, <2>3, <2>4, <2>5
  <2> QED BY <2>1, <2>6
<1> QED BY <1>3, <1>4

\* The next page continues the rows shown.
LEMMA NextRows ==
    ASSUME BaseInv, SuffixInv, NEW u \in UIDs, NEW shown, Rows(u, shown), Meets(u, shown),
           NEW page, page = SelectPage(u, Len(shown), PageSize)
    PROVE  Rows(u, shown \o page) /\ Meets(u, shown \o page)
<1> DEFINE L == Len(shown)
           k == Len(page)
<1>1. shown \in Seq(Nat \ {0}) /\ L \in Nat /\ current[u] \in Nat
  BY DEF Rows, BaseInv, TypeOK, StoreTypeOK
<1>2. /\ page \in Seq(Nat \ {0}) /\ k \in Nat
      /\ \A i \in 1..k : page[i] \in Revisions(u) /\ Above(u, page[i]) = L + i - 1
  <2>1. PICK offset \in Nat : offset = L
    BY <1>1
  <2>2. page = SelectPage(u, offset, PageSize)
    BY <2>1
  <2>3. page \in Seq(Nat \ {0})
    BY <2>2, PageAssumption, PageIs
  <2>4. PageAt(u, offset, page)
    BY <2>2, PageAssumption, PageIs
  <2> QED BY <2>1, <2>3, <2>4 DEF PageAt
<1>3. CASE page = <<>>
  <2>1. shown \o page = shown
    BY <1>1, <1>3
  <2> QED BY <2>1
<1>4. CASE page # <<>>
  <2>1. 1 \in 1..k /\ k \in 1..k
    BY <1>2, <1>4
  <2>2. Revisions(u) # {}
    BY <1>2, <2>1
  <2>3. PICK top \in Revisions(u) :
          /\ top \in Nat /\ top <= current[u] + 1
          /\ \A n \in Revisions(u) : n <= top /\ Above(u, n) = top - n
    BY <2>2, TopIs
  <2>4. \A i \in 1..k : page[i] \in Nat /\ page[i] = top - (L + i - 1) /\ page[i] <= top
    BY <1>1, <1>2, <2>3
  <2>5. PICK s : s = shown \o page
    OBVIOUS
  <2>6. /\ s \in Seq(Nat \ {0}) /\ Len(s) = L + k
        /\ \A i \in 1..L : s[i] = shown[i]
        /\ \A i \in 1..k : s[L + i] = page[i]
    BY <1>1, <1>2, <2>5
  <2>7. \A i \in (L + 1)..(L + k) : s[i] = top - i + 1 /\ s[i] <= top
    <3> SUFFICES ASSUME NEW i \in (L + 1)..(L + k) PROVE s[i] = top - i + 1 /\ s[i] <= top
      OBVIOUS
    <3>1. i - L \in 1..k /\ L + (i - L) = i
      BY <1>1, <1>2
    <3>2. s[i] = page[i - L]
      BY <2>6, <3>1
    <3> QED BY <1>1, <2>3, <2>4, <3>1, <3>2
  <2>8. \A i \in 1..(L + k) : i \in 1..L \/ i \in (L + 1)..(L + k)
    BY <1>1, <1>2
  <2>9. \A i \in 1..Len(s) : s[i] <= current[u] + 1
    <3>1. \A i \in 1..L : shown[i] <= current[u] + 1
      BY DEF Rows
    <3>2. \A i \in (L + 1)..(L + k) : s[i] <= current[u] + 1
      <4> SUFFICES ASSUME NEW i \in (L + 1)..(L + k) PROVE s[i] <= current[u] + 1
        OBVIOUS
      <4>1. i \in 1..Len(s)
        BY <1>1, <1>2, <2>6
      <4>2. s[i] \in Nat /\ s[i] <= top
        BY <2>6, <2>7, <4>1
      <4> QED BY <1>1, <2>3, <4>2
    <3> QED BY <2>6, <2>8, <3>1, <3>2
  <2>10. \A i \in 2..Len(s) : s[i - 1] <= s[i] + 1
    <3> SUFFICES ASSUME NEW i \in 2..(L + k) PROVE s[i - 1] <= s[i] + 1
      BY <2>6
    <3>1. CASE i <= L
      <4>1. i \in 2..L /\ i \in 1..L /\ i - 1 \in 1..L
        BY <1>1, <1>2, <3>1
      <4> QED BY <2>6, <4>1 DEF Rows
    <3>2. CASE i = L + 1
      <4>1. L \in 1..L /\ shown # <<>> /\ i \in (L + 1)..(L + k) /\ i - 1 = L
        BY <1>1, <1>2, <2>1, <3>2
      <4>2. PICK t \in Revisions(u) : L + shown[L] <= t + 1
        BY <2>2, <4>1 DEF Meets
      <4>3. t \in Nat /\ t <= top
        BY <2>3, <4>2, RevisionsFinite
      <4>4. shown[L] \in Nat
        BY <1>1, <4>1
      <4>5. s[i - 1] = shown[L] /\ s[i] = top - L
        <5>1. s[L] = shown[L] /\ s[i] = top - i + 1
          BY <2>6, <2>7, <4>1
        <5> QED BY <1>1, <2>3, <3>2, <4>1, <5>1
      <4> QED BY <1>1, <2>3, <4>2, <4>3, <4>4, <4>5
    <3>3. CASE i > L + 1
      <4>1. i \in (L + 1)..(L + k) /\ i - 1 \in (L + 1)..(L + k)
        BY <1>1, <1>2, <3>3
      <4>2. s[i - 1] = top - (i - 1) + 1 /\ s[i] = top - i + 1
        BY <2>7, <4>1
      <4> QED BY <2>3, <4>2
    <3> QED BY <1>1, <3>1, <3>2, <3>3
  <2>11. Len(s) + s[Len(s)] = top + 1
    <3>1. L + k \in (L + 1)..(L + k)
      BY <1>1, <1>2, <2>1
    <3>2. s[L + k] = top - (L + k) + 1
      BY <2>7, <3>1
    <3> QED BY <1>1, <1>2, <2>3, <2>6, <3>2
  <2>12. Rows(u, s)
    BY <2>6, <2>9, <2>10 DEF Rows
  <2>13. Meets(u, s)
    BY <1>1, <2>3, <2>11 DEF Meets
  <2> QED BY <2>5, <2>12, <2>13
<1> QED BY <1>3, <1>4

\* A page that reaches what COUNT counted completes them.
LEMMA AllShown ==
    ASSUME BaseInv, SuffixInv, NEW u \in UIDs, NEW shown, Rows(u, shown), Meets(u, shown),
           NEW page, page = SelectPage(u, Len(shown), PageSize),
           NEW s, s = shown \o page, s # <<>>,
           NEW counted, IsFiniteSet(counted), RowsOf(u) \subseteq counted,
           ~(Len(shown) + Len(page) < Cardinality(counted))
    PROVE  Complete(u, s)
<1>1. shown \in Seq(Nat \ {0}) /\ Len(shown) \in Nat
  BY DEF Rows
<1>2. PICK offset \in Nat : offset = Len(shown)
  BY <1>1
<1>3. page = SelectPage(u, offset, PageSize)
  BY <1>2
<1>4. /\ page \in Seq(Nat \ {0})
      /\ Cardinality(Revisions(u)) \in Nat
      /\ \A n \in Revisions(u) : Above(u, n) \in 0..(Cardinality(Revisions(u)) - 1)
  BY <1>3, PageAssumption, PageIs
<1>5. Cardinality(Revisions(u)) <= Cardinality(counted) /\ Cardinality(counted) \in Nat
  <2> DEFINE f == [r \in RowsOf(u) |-> r.revision]
  <2>1. IsFiniteSet(RowsOf(u)) /\ Cardinality(RowsOf(u)) <= Cardinality(counted)
        /\ Cardinality(RowsOf(u)) \in Nat /\ Cardinality(counted) \in Nat
    BY FS_Subset, FS_CardinalityType
  <2>2. f \in Surjection(RowsOf(u), Revisions(u))
    BY DEF Surjection, Revisions
  <2> HIDE DEF f
  <2>3. Cardinality(Revisions(u)) <= Cardinality(RowsOf(u))
    BY <2>1, <2>2, FS_Surjection
  <2> QED BY <1>4, <2>1, <2>3
<1>6. /\ s \in Seq(Nat \ {0}) /\ Len(s) = Len(shown) + Len(page)
      /\ Len(s) \in Nat /\ Len(s) \in 1..Len(s)
  BY <1>1, <1>4
<1>7. Rows(u, s) /\ Meets(u, s)
  BY NextRows
<1>8. ASSUME NEW n \in Revisions(u), n <= s[1]
      PROVE  \E i \in 1..Len(s) : s[i] = n
  <2>1. PICK top \in Revisions(u) :
          top \in Nat /\ \A m \in Revisions(u) : m <= top /\ Above(u, m) = top - m
    BY TopIs
  <2>2. n \in Nat
    BY RevisionsFinite
  <2>3. top - n <= Len(s) - 1
    <3>1. top - n \in 0..(Cardinality(Revisions(u)) - 1)
      BY <1>4, <2>1
    <3>2. Cardinality(counted) <= Len(s)
      BY <1>1, <1>4, <1>5, <1>6
    <3> QED BY <1>4, <1>5, <1>6, <2>1, <2>2, <3>1, <3>2
  <2>4. PICK t \in Revisions(u) : Len(s) + s[Len(s)] <= t + 1
    BY <1>7 DEF Meets
  <2>5. t \in Nat /\ t <= top
    BY <2>1, RevisionsFinite
  <2>6. s[Len(s)] \in Nat
    BY <1>6
  <2>7. \A x, l \in Nat : top - n <= l - 1 /\ l + x <= t + 1 => x <= n
    BY <2>1, <2>2, <2>5
  <2>8. s[Len(s)] <= n
    BY <1>6, <2>3, <2>4, <2>6, <2>7
  <2> QED BY <1>6, <1>7, <1>8, <2>2, <2>8, Descends DEF Rows
<1> QED BY <1>8 DEF Complete

LEMMA RowsFinite ==
    ASSUME BaseInv, NEW u \in UIDs
    PROVE  IsFiniteSet(RowsOf(u))
<1> DEFINE f == [r \in RowsOf(u) |-> r.revision]
<1>1. f \in Injection(RowsOf(u), Revisions(u))
  <2>1. f \in [RowsOf(u) -> Revisions(u)]
    BY DEF Revisions
  <2>2. \A r, s \in RowsOf(u) : r.revision = s.revision => r = s
    BY DEF BaseInv, KeysUnique, RowsOf
  <2>3. \A r, s \in RowsOf(u) : f[r] = f[s] => r = s
    BY <2>2
  <2> QED BY <2>1, <2>3, Zenon DEF Injection, IsInjective
<1> HIDE DEF f
<1> QED BY <1>1, RevisionsFinite, FS_Injection

\* Recorders and purges keep what a page relies on.
LEMMA StorePaging ==
    ASSUME BaseInv, SuffixInv, ClientType, Paging(client), UNCHANGED client,
           [Next]_vars \/ \E p \in Policies : Purge(p)
    PROVE  Paging(client)'
<1> SUFFICES ASSUME client.kind = "page" PROVE Paging(client)'
  BY DEF Paging
<1>1. client \in Page
  BY ClientIs
<1>2. PICK u \in UIDs, s \in Seq(Nat \ {0}) : u = client.uid /\ s = client.shown
  BY <1>1 DEF Page
<1>3. Rows(u, s) /\ Meets(u, s)
  BY <1>2 DEF Paging
<1>4. current[u] \in Nat /\ Revisions(u) \in SUBSET Nat
  BY DEF BaseInv, TypeOK, StoreTypeOK, Revision, Revisions, RowsOf
<1>5. /\ current'[u] \in Nat /\ current[u] <= current'[u]
      /\ Revisions(u)' \in SUBSET Nat
      /\ \/ /\ Revisions(u) \subseteq Revisions(u)'
            /\ \A m \in Revisions(u)' : m \in Revisions(u) \/ m = current[u] + 1
         \/ /\ Revisions(u)' \subseteq Revisions(u)
            /\ \A m \in Revisions(u)' : \A k \in Revisions(u) : m <= k => k \in Revisions(u)'
  <2>1. CASE [Next]_vars
    <3>1. /\ rows \subseteq rows' /\ current[u] <= current'[u]
          /\ \A r \in rows' : r \notin rows => r.revision = current[r.uid] + 1
      BY <2>1, StoreGrows DEF SuffixInv
    <3>2. current'[u] \in Nat /\ \A r \in rows' : r.revision \in Nat
      BY <2>1, NextBase DEF BaseInv, TypeOK, StoreTypeOK, Revision
    <3>3. Revisions(u)' \in SUBSET Nat /\ Revisions(u) \subseteq Revisions(u)'
      BY <3>1, <3>2 DEF Revisions, RowsOf
    <3>4. \A m \in Revisions(u)' : m \in Revisions(u) \/ m = current[u] + 1
      BY <3>1 DEF Revisions, RowsOf
    <3> QED BY <3>1, <3>2, <3>3, <3>4
  <2>2. ASSUME NEW p \in Policies, Purge(p)
        PROVE  /\ UNCHANGED current
               /\ Revisions(u)' \subseteq Revisions(u)
               /\ \A m \in Revisions(u)' : \A k \in Revisions(u) : m <= k => k \in Revisions(u)'
    <3>1. UNCHANGED current
      BY <2>2 DEF Purge
    <3>2. /\ Revisions(u)' \subseteq Revisions(u)
          /\ \A m \in Revisions(u)' : \A k \in Revisions(u) : m <= k => k \in Revisions(u)'
      BY <2>2, PurgeTakesOldest DEF Revisions, RowsOf
    <3> QED BY <3>1, <3>2
  <2> QED BY <1>4, <2>1, <2>2
<1>6. \A i \in 1..Len(s) : s[i] \in Nat /\ s[i] <= current'[u] + 1
  BY <1>3, <1>4, <1>5 DEF Rows
<1>7. ASSUME s # <<>>
      PROVE  LET reach == Len(s) + s[Len(s)] IN
             /\ reach <= current'[u] + 2
             /\ Revisions(u)' # {} => \E top \in Revisions(u)' : reach <= top + 1
  <2>1. Len(s) \in 1..Len(s)
    BY <1>7
  <2>2. PICK reach \in Nat : reach = Len(s) + s[Len(s)]
    BY <1>6, <2>1
  <2>3. /\ reach <= current[u] + 2
        /\ Revisions(u) # {} => \E top \in Revisions(u) : reach <= top + 1
    BY <1>3, <1>7, <2>2 DEF Meets
  <2>4. reach <= current'[u] + 2
    BY <1>4, <1>5, <2>3
  <2>5. ASSUME NEW m \in Revisions(u)'
        PROVE  \E top \in Revisions(u)' : reach <= top + 1
    <3>1. CASE Revisions(u) = {}
      <4>1. m = current[u] + 1
        BY <1>5, <3>1
      <4>2. reach <= m + 1
        BY <1>4, <2>3, <4>1
      <4> QED BY <4>2
    <3>2. CASE Revisions(u) # {}
      <4>1. PICK top \in Revisions(u) : reach <= top + 1
        BY <2>3, <3>2
      <4>2. CASE top \in Revisions(u)'
        BY <4>1, <4>2
      <4>3. CASE top \notin Revisions(u)'
        <5>1. ~(m <= top)
          BY <1>5, <4>3
        <5>2. m \in Nat /\ top \in Nat
          BY <1>4, <1>5
        <5>3. reach <= m + 1
          BY <4>1, <5>1, <5>2
        <5> QED BY <5>3
      <4> QED BY <4>2, <4>3
    <3> QED BY <3>1, <3>2
  <2> QED BY <2>2, <2>4, <2>5
<1>8. ASSUME s # <<>>, Complete(u, s), NEW n \in Revisions(u)', n <= s[1]
      PROVE  \E i \in 1..Len(s) : s[i] = n
  <2>1. CASE n \in Revisions(u)
    BY <1>8, <2>1 DEF Complete
  <2>2. CASE n = current[u] + 1
    <3>1. 1 \in 1..Len(s)
      BY <1>8
    <3>2. s[1] \in Nat /\ s[1] <= current[u] + 1
      BY <1>3, <3>1 DEF Rows
    <3>3. s[1] = n
      BY <1>4, <1>8, <2>2, <3>2
    <3> QED BY <3>1, <3>3
  <2> QED BY <1>5, <2>1, <2>2
<1>9. Rows(u, s)' /\ Meets(u, s)'
  <2>1. \A i \in 2..Len(s) : s[i - 1] <= s[i] + 1
    BY <1>3 DEF Rows
  <2> QED BY <1>6, <1>7, <2>1 DEF Rows, Meets
<1>10. s # <<>> /\ Complete(u, s) => Complete(u, s)'
  BY <1>8 DEF Complete
<1>11. /\ client' = client
       /\ client.at \in {"count", "select"} => client.more \/ client.shown = <<>>
       /\ client.at = "select" => IsFiniteSet(client.counted)
       /\ client.at = "shown" /\ ~client.more /\ ~client.grew /\ s # <<>> => Complete(u, s)
  BY <1>2 DEF Paging
<1> QED BY <1>2, <1>9, <1>10, <1>11 DEF Paging, Rows, Meets, Complete

\* Nothing of the store changes while the browser acts.
LEMMA PagingFrame ==
    ASSUME UNCHANGED allVars, NEW u, NEW s
    PROVE  /\ Rows(u, s)' <=> Rows(u, s)
           /\ Meets(u, s)' <=> Meets(u, s)
           /\ Complete(u, s)' <=> Complete(u, s)
<1>1. UNCHANGED <<rows, current>>
  BY DEF allVars, vars, storeVars
<1> QED BY <1>1 DEF Rows, Meets, Complete, Revisions, RowsOf

\* What the browser does keeps it.
LEMMA ClientPaging ==
    ASSUME BaseInv, SuffixInv, ClientType, UnderWay, Paging(client), Client, UNCHANGED allVars
    PROVE  Paging(client)'
<1>1. CASE client'.kind # "page"
  BY <1>1 DEF Paging
<1>2. ASSUME NEW u \in UIDs, Open(u)
      PROVE  Paging(client)'
  <2>1. /\ client'.shown = <<>> /\ client'.at = "count"
    BY <1>2 DEF Open
  <2> QED BY <2>1 DEF Paging, Rows, Meets
<1>3. ASSUME client \in Page, client' \in Page,
             client'.uid = client.uid, client'.shown = client.shown,
             client'.at \in {"count", "select"} => client'.more \/ client'.shown = <<>>,
             client'.at = "select" => IsFiniteSet(client'.counted),
             client'.at = "shown" =>
                 client.at \in {"count", "select"} /\ client'.more = client.more
      PROVE  Paging(client)'
  <2>1. client.kind = "page" /\ client'.kind = "page"
    BY <1>3 DEF Page
  <2>2. Rows(client.uid, client.shown) /\ Meets(client.uid, client.shown)
    BY <2>1 DEF Paging
  <2>3. Rows(client.uid, client.shown)' /\ Meets(client.uid, client.shown)'
    BY <1>3, <2>2, PagingFrame
  <2>4. client'.at = "shown" => client'.more \/ client'.shown = <<>>
    BY <1>3, <2>1 DEF Paging
  <2> QED BY <1>3, <2>1, <2>3, <2>4 DEF Paging
<1>4. CASE LoadMore
  <2>1. client \in Page
    BY <1>4, ClientIs DEF LoadMore
  <2>2. /\ client' \in Page /\ client'.uid = client.uid /\ client'.shown = client.shown
        /\ client'.at = "count" /\ client'.more
    BY <1>4, <2>1 DEF LoadMore, Page
  <2> QED BY <1>3, <2>1, <2>2
<1>5. CASE CountHistory
  <2>1. client \in Page /\ client.kind = "page" /\ client.uid \in UIDs
    BY <1>5, ClientIs DEF CountHistory, Page
  <2>2. /\ client' \in Page /\ client'.uid = client.uid /\ client'.shown = client.shown
        /\ client'.at = "select" /\ client'.more = client.more
        /\ client'.counted = RowsOf(client.uid)
    BY <1>5, <2>1, PageTypes DEF CountHistory, Page
  <2>3. client.more \/ client.shown = <<>>
    BY <1>5, <2>1 DEF CountHistory, Paging
  <2> QED BY <1>3, <2>1, <2>2, <2>3, RowsFinite
<1>6. CASE SelectHistory
  <2>1. PICK u, page : u = client.uid /\ page = SelectPage(u, Len(client.shown), PageSize)
    OBVIOUS
  <2>2. PICK shown : shown = client.shown
    OBVIOUS
  <2>3. PICK s : s = shown \o page
    OBVIOUS
  <2>4. /\ client \in Page /\ client.kind = "page" /\ client.at = "select" /\ u \in UIDs
        /\ Scrolled(client', "shown", s, {}, Len(shown) + Len(page) < Cardinality(client.counted),
                    client.grew \/ ~(RowsOf(u) \subseteq client.counted))
    BY <1>6, <2>1, <2>2, <2>3, SelectHistoryIs
  <2>5. /\ Rows(u, shown) /\ Meets(u, shown) /\ IsFiniteSet(client.counted)
    BY <2>1, <2>2, <2>4 DEF Paging
  <2>6. Rows(u, s) /\ Meets(u, s)
    BY <2>1, <2>2, <2>3, <2>4, <2>5, NextRows
  <2>7. ASSUME ~client'.more, ~client'.grew, s # <<>>
        PROVE  Complete(u, s)
    <3>1. /\ ~(Len(shown) + Len(page) < Cardinality(client.counted))
          /\ RowsOf(u) \subseteq client.counted
      BY <2>4, <2>7 DEF Scrolled
    <3> QED BY <2>1, <2>2, <2>3, <2>4, <2>5, <2>7, <3>1, AllShown
  <2>8. Rows(u, s)' /\ Meets(u, s)' /\ (Complete(u, s) => Complete(u, s)')
    BY <2>6, PagingFrame
  <2>9. client'.uid = u /\ client'.shown = s /\ client'.at = "shown"
    BY <2>1, <2>4 DEF Scrolled
  <2> QED BY <2>7, <2>8, <2>9 DEF Paging
<1>7. CASE QueryFails /\ client.kind = "page"
  <2>1. client \in Page
    BY <1>7, ClientIs
  <2>2. /\ client' \in Page /\ client'.uid = client.uid /\ client'.shown = client.shown
        /\ client'.at = "shown" /\ client'.more = client.more
        /\ client.at \in {"count", "select"}
    BY <1>7, <2>1 DEF QueryFails, Page
  <2> QED BY <1>3, <2>1, <2>2
<1>8. CASE \/ \E u \in UIDs : HandleReconstruct(u) \/ HandleDiff(u)
           \/ FindSnapshot \/ ApplyPatches
           \/ QueryFails /\ client.kind # "page"
           \/ Leave
  <2>1. ASSUME NEW u \in UIDs, HandleReconstruct(u) \/ HandleDiff(u) PROVE client'.kind # "page"
    BY <2>1 DEF HandleReconstruct, HandleDiff, Ask
  <2>2. ASSUME FindSnapshot \/ ApplyPatches PROVE client'.kind # "page"
    <3>1. client \in Replay /\ client.kind = "replay"
      BY <2>2, ClientIs DEF FindSnapshot, ApplyPatches
    <3>2. PICK u, n : u = client.uid /\ n = Target
      OBVIOUS
    <3>3. CASE FindSnapshot
      BY <3>2, <3>3, FindSnapshotIs DEF Further, Idle, Replay
    <3>4. CASE ApplyPatches
      BY <3>2, <3>4, ApplyPatchesIs DEF Further, Replay
    <3> QED BY <2>2, <3>3, <3>4
  <2>3. ASSUME (QueryFails /\ client.kind # "page") \/ Leave PROVE client'.kind # "page"
    BY <2>3 DEF QueryFails, Leave, Idle
  <2> QED BY <1>1, <1>8, <2>1, <2>2, <2>3
<1> QED BY <1>2, <1>4, <1>5, <1>6, <1>7, <1>8 DEF Client

-----------------------------------------------------------------------------

ScrollInv == ReadersBase /\ SuffixInv /\ PagingInv

LEMMA ScrollInit == ReadersInit => ScrollInv
<1> SUFFICES ASSUME ReadersInit PROVE ScrollInv
  OBVIOUS
<1>1. ReadersBase /\ SuffixInv
  BY ReadersBaseInit, InitSuffix DEF ReadersInit
<1>2. Paging(client)
  BY DEF ReadersInit, Idle, Paging
<1> QED BY <1>1, <1>2, PagingIs DEF ScrollInv, ReadersBase

LEMMA ScrollStep ==
    ASSUME OneRecorder, ReadsSucceed, ScrollInv, [ReadersNext]_readersVars
    PROVE  ScrollInv'
<1>1. ReadersBase' /\ SuffixInv'
  <2>1. CASE [RetentionNext]_allVars
    BY <2>1, ReadersBaseStep, NextSuffix DEF ScrollInv
  <2>2. CASE UNCHANGED allVars
    BY <2>2, ReadersBaseStep, NextSuffix DEF ScrollInv
  <2> QED BY <2>1, <2>2, OneActs
<1>2. /\ BaseInv /\ SuffixInv /\ ClientType /\ UnderWay /\ Paging(client)
      /\ ClientType'
  BY <1>1, PagingIs DEF ScrollInv, ReadersBase
<1>3. ASSUME UNCHANGED client PROVE Paging(client)'
  BY <1>2, <1>3, StoreStep, StorePaging
<1>4. ASSUME Client, UNCHANGED allVars PROVE Paging(client)'
  BY <1>2, <1>4, ClientPaging
<1>5. Paging(client)'
  BY <1>3, <1>4, OneActs
<1>6. PagingInv'
  BY <1>2, <1>5, PagingIs, PTL
<1> QED BY <1>1, <1>6 DEF ScrollInv

\* Scrolling down a history never jumps over a revision, and when the page says
\* there is nothing more, all that is stored is on it, whatever recorders add
\* at the top and purges take at the bottom between the requests: for one
\* watcher and reads that do not fail, any page size, ages and policies.
THEOREM NothingIsSkipped ==
    ASSUME OneRecorder, ReadsSucceed
    PROVE  ReadersSpec => []NoRevisionSkipped
<1>1. ScrollInv => NoRevisionSkipped
  BY DEF ScrollInv, PagingInv
<1> QED BY <1>1, ScrollInit, ScrollStep, PTL DEF ReadersSpec

THEOREM EndIsComplete ==
    ASSUME OneRecorder, ReadsSucceed
    PROVE  ReadersSpec => []EndMeansAll
<1>1. ScrollInv => EndMeansAll
  BY DEF ScrollInv, PagingInv
<1> QED BY <1>1, ScrollInit, ScrollStep, PTL DEF ReadersSpec

\* What a client has read leads to the document asked for or to the rest of the
\* list, whatever is recorded and purged meanwhile.
THEOREM ClientInvariance ==
    ASSUME OneRecorder, ReadsSucceed, InsertsSucceed, RecordsCreations, SelectsByName
    PROVE  ReadersSpec /\ DriftCaught => []ClientInv
<1> DEFINE D == \A h \in Watchers : CatchesDrift(h)
<1>1. HonestInv /\ [ReadersNext]_readersVars /\ [D]_vars => HonestInv'
  BY HonestStep
<1>2. HonestInv /\ ScrollInv => ClientInv
  BY DEF HonestInv, ScrollInv, ClientInv
<1> QED BY HonestInit, ScrollInit, <1>1, <1>2, ScrollStep, PTL DEF ReadersSpec, DriftCaught

=============================================================================
