------------------------------- MODULE Readers ------------------------------
(***************************************************************************)
(* The API's readers (internal/server/handlers.go and the history page of  *)
(* ui/src/pages/ResourceDetail.tsx) over a store that recorders and purges *)
(* change meanwhile.  No request runs in a transaction: a reconstruction   *)
(* is two SELECTs for each revision asked for, a page of the history a     *)
(* COUNT and a SELECT, and a client scrolls through many pages.            *)
(***************************************************************************)
EXTENDS Retention

Seqs == INSTANCE SequencesExt

CONSTANT PageSize      \* PAGE_SIZE, the page's limit

ASSUME PageAssumption == PageSize \in Nat \ {0}

VARIABLE client        \* what the browser is doing

readersVars == <<allVars, client>>

Idle == [kind |-> "idle"]

(***************************************************************************)
(* A reconstruction (one revision asked) or a diff (two): at "snapshot" it *)
(* is about to run GetNearestSnapshot for the next revision asked, at      *)
(* "patches" GetPatchesBetween from `base'.  `expected', `due' and `torn'  *)
(* are auxiliary: the documents the asked rows stand for, the rows between *)
(* base and target when base was read, and whether one of them was purged  *)
(* before the second SELECT.                                               *)
(***************************************************************************)
Replay == [kind : {"replay"}, uid : UIDs, at : {"snapshot", "patches", "done"},
           asked : Seq(Nat \ {0}), docs : Seq(Doc), base : Revision \cup {Absent},
           expected : Seq(Doc \cup {Absent}), due : SUBSET Revision, torn : BOOLEAN]

(***************************************************************************)
(* The history page: `shown' are the revision numbers of its rows, newest  *)
(* first, `more' is hasMore.  `counted' are the rows COUNT counted, and    *)
(* `grew' says (auxiliary) that a row was added before the SELECT.         *)
(***************************************************************************)
Page == [kind : {"page"}, uid : UIDs, at : {"count", "select", "shown"},
         shown : Seq(Nat \ {0}), counted : SUBSET Revision, more : BOOLEAN, grew : BOOLEAN]

ReadersTypeOK ==
    /\ RetentionTypeOK
    /\ client \in {Idle} \cup Replay \cup Page

ReadersInit == RetentionInit /\ client = Idle

-----------------------------------------------------------------------------
(* Reconstruction and diff *)

\* The revisions a client knows of are those a row has had.
Ask(u, revisions) ==
    /\ client.kind = "idle"
    /\ client' = [kind |-> "replay", uid |-> u, at |-> "snapshot", asked |-> revisions,
                  docs |-> <<>>, base |-> Absent, expected |-> <<>>, due |-> {},
                  torn |-> FALSE]
    /\ UNCHANGED allVars

\* handleReconstructAtRevision
HandleReconstruct(u) ==
    \E n \in Revisions(u) : Ask(u, <<n>>)

\* handleDiffRevisions: `from' is reconstructed first.
HandleDiff(u) ==
    \E from, to \in Revisions(u) : from # to /\ Ask(u, <<from, to>>)

Target == client.asked[Len(client.docs) + 1]

\* One document more; the reply is written when all are there.
Reconstructed(doc) ==
    [client EXCEPT !.docs = Append(@, doc), !.base = Absent, !.due = {},
                   !.at = IF Len(client.docs) + 1 = Len(client.asked) THEN "done" ELSE "snapshot"]

\* No answer is right where the row has been purged since it was asked for.
DocumentOf(u, n) ==
    LET at == {r \in RowsOf(u) : r.revision = n} IN
    IF at = {} THEN Absent ELSE (CHOOSE r \in at : TRUE).seen

\* reconstructResource up to its first SELECT: without a snapshot the answer is
\* an error; a snapshot of that very revision is the answer.
FindSnapshot ==
    /\ client.kind = "replay"
    /\ client.at = "snapshot"
    /\ LET u == client.uid IN
       \/ /\ SnapshotsUpTo(u, Target) = {}
          /\ client' = Idle
       \/ /\ SnapshotsUpTo(u, Target) # {}
          /\ LET base == GetNearestSnapshot(u, Target)
                 read == IF base.revision = Target THEN Reconstructed(base.data)
                         ELSE [client EXCEPT !.at = "patches", !.base = base,
                                   !.due = GetPatchesBetween(u, base.revision, Target)]
             IN client' = [read EXCEPT !.expected = Append(@, DocumentOf(u, Target))]
    /\ UNCHANGED allVars

\* Mutant: the target's own patch is left out.
PatchesShort(u, base, n) == PatchesBefore(u, base.revision, n)

\* The rows the second SELECT returns.
Patches(u, base, n) == GetPatchesBetween(u, base.revision, n)

\* reconstructResource from its second SELECT on.
ApplyPatches ==
    /\ client.kind = "replay"
    /\ client.at = "patches"
    /\ LET patches == Patches(client.uid, client.base, Target) IN
       client' = [Reconstructed(Replayed(client.base, Target, patches)) EXCEPT
                      !.torn = @ \/ ~(client.due \subseteq rows)]
    /\ UNCHANGED allVars

-----------------------------------------------------------------------------
(* The history page *)

\* The place of revision n in ORDER BY revision DESC, counted from 0.
Above(u, n) == Cardinality({m \in Revisions(u) : m > n})

\* GetHistory's SELECT: ORDER BY revision DESC LIMIT limit OFFSET offset.
SelectPage(u, offset, limit) ==
    LET page == {n \in Revisions(u) : Above(u, n) \in offset..(offset + limit - 1)}
    IN [i \in 1..Cardinality(page) |-> CHOOSE n \in page : Above(u, n) = offset + i - 1]

\* Mutant: loadMore counts from 1.
OffsetFromOne(shown) == IF shown = <<>> THEN 0 ELSE Len(shown) + 1

\* buildParams: loadInitial asks from 0, loadMore from revisions.length.
Offset(shown) == Len(shown)

\* loadInitial
Open(u) ==
    /\ client.kind = "idle"
    /\ client' = [kind |-> "page", uid |-> u, at |-> "count", shown |-> <<>>,
                  counted |-> {}, more |-> FALSE, grew |-> FALSE]
    /\ UNCHANGED allVars

\* loadMore: the sentinel is in view; one request at a time.
LoadMore ==
    /\ client.kind = "page"
    /\ client.at = "shown"
    /\ client.more
    /\ client' = [client EXCEPT !.at = "count"]
    /\ UNCHANGED allVars

\* GetHistory's COUNT.
CountHistory ==
    /\ client.kind = "page"
    /\ client.at = "count"
    /\ client' = [client EXCEPT !.at = "select", !.counted = RowsOf(client.uid)]
    /\ UNCHANGED allVars

\* Mutant: off by one.
MoreThanOne(shown, page, total) == Len(shown) + Len(page) + 1 < total

\* setHasMore
HasMore(shown, page, total) == Len(shown) + Len(page) < total

\* GetHistory's SELECT, the reply, and the page's new state.
SelectHistory ==
    /\ client.kind = "page"
    /\ client.at = "select"
    /\ LET page == SelectPage(client.uid, Offset(client.shown), PageSize) IN
       client' = [client EXCEPT
           !.at = "shown",
           !.shown = @ \o page,
           !.more = HasMore(client.shown, page, Cardinality(client.counted)),
           !.grew = @ \/ ~(RowsOf(client.uid) \subseteq client.counted),
           !.counted = {}]
    /\ UNCHANGED allVars

\* A SELECT or the COUNT fails: an error is the answer; a page's rows stay.
QueryFails ==
    /\ \/ client.kind = "page" /\ client.at \in {"count", "select"}
       \/ client.kind = "replay" /\ client.at \in {"snapshot", "patches"}
    /\ client' = IF client.kind = "page" THEN [client EXCEPT !.at = "shown", !.counted = {}]
                 ELSE Idle
    /\ UNCHANGED allVars

\* The user leaves the page or has read the answer.
Leave ==
    /\ client.kind # "idle"
    /\ client.at \in {"shown", "done"}
    /\ client' = Idle
    /\ UNCHANGED allVars

Client ==
    \/ \E u \in UIDs : HandleReconstruct(u) \/ HandleDiff(u) \/ Open(u)
    \/ FindSnapshot \/ ApplyPatches
    \/ CountHistory \/ SelectHistory \/ LoadMore
    \/ QueryFails
    \/ Leave

ReadersNext ==
    \/ RetentionNext /\ UNCHANGED client
    \/ Client

ReadersSpec == ReadersInit /\ [][ReadersNext]_readersVars /\ RetentionFairness

-----------------------------------------------------------------------------

\* An answer is exact or an error: a reconstruction or a diff that is answered
\* is made of the documents the handler saw at these revisions, whatever rows
\* are added or purged between its SELECTs, unless a row between snapshot and
\* target was purged (README: "Reconstruct the exact state of any resource at
\* any revision").
ReaderHonest ==
    client.kind = "replay" /\ client.at = "done" /\ ~client.torn =>
        /\ client.docs = client.expected
        /\ ApplyMergePatch(client.docs[1],
               ComputeMergePatch(client.docs[1], client.docs[Len(client.docs)]))
           = client.expected[Len(client.expected)]

(***************************************************************************)
(* The inductive invariant behind it.  What a reconstruction has read goes *)
(* on to replay to the document asked for, whatever the store does; and as *)
(* a purge takes the oldest rows, a snapshot found at or below a revision  *)
(* means that the revision itself is still there.                          *)
(***************************************************************************)
StillThere ==
    client.kind = "replay" =>
        \A i \in 1..Len(client.asked) :
            LET n == client.asked[i] IN
            /\ n <= current[client.uid] + 1
            /\ \/ n \in Revisions(client.uid)
               \/ \A m \in Revisions(client.uid) : n < m

DueReplays ==
    client.kind = "replay" /\ client.at = "patches" =>
        LET run == client.due \cup {client.base} IN
        /\ client.base.data = client.base.seen
        /\ \A r \in run : r.uid = client.uid
        /\ client.base.revision < Target
        /\ \A r \in client.due : client.base.revision < r.revision /\ r.revision <= Target
        /\ \A r, s \in client.due : r.revision = s.revision => r = s
        /\ \A i \in (client.base.revision + 1)..Target : \E r \in client.due : r.revision = i
        /\ \A r \in client.due : r.isSnapshot => r.data = r.seen
        /\ \A r \in run : \A s \in client.due :
               s.revision = r.revision + 1 /\ ~s.isSnapshot =>
                   ApplyMergePatch(r.seen, s.data) = s.seen
        /\ \A r \in client.due :
               r.revision = Target => client.expected[Len(client.docs) + 1] = r.seen

AnswersExact ==
    client.kind = "replay" =>
        /\ Len(client.expected) = Len(client.docs) + (IF client.at = "patches" THEN 1 ELSE 0)
        /\ client.at = "done" => client.docs # <<>>
        /\ ~client.torn => \A i \in 1..Len(client.docs) : client.docs[i] = client.expected[i]

\* Scrolling down never jumps over a revision: although offsets count from the
\* newest row and rows are added there while others are purged at the end, no row
\* is more than one below the row above it.  (Rows may be shown twice, and of
\* those added meanwhile some not at all.)
NoRevisionSkipped ==
    client.kind = "page" =>
        \A i \in 2..Len(client.shown) : client.shown[i - 1] <= client.shown[i] + 1

\* When the page says there is nothing more, every stored revision up to the
\* newest one first shown is on it, unless a row was added between a COUNT and
\* its SELECT.
EndMeansAll ==
    client.kind = "page" /\ client.at = "shown" /\ ~client.more /\ ~client.grew
    /\ client.shown # <<>> =>
        \A n \in Revisions(client.uid) : n <= client.shown[1] => n \in Seqs!ToSet(client.shown)

(***************************************************************************)
(* What makes scrolling work: the next page, at the offset of what is      *)
(* shown, begins no lower than one below the last row shown, and as the    *)
(* newest revision never goes down while there is one, rows added or       *)
(* purged meanwhile can only make it begin higher.                         *)
(***************************************************************************)
NextPageMeets ==
    client.kind = "page" =>
        /\ \A i \in 1..Len(client.shown) : client.shown[i] <= current[client.uid] + 1
        /\ client.shown # <<>> =>
               LET reach == Len(client.shown) + client.shown[Len(client.shown)] IN
               /\ reach <= current[client.uid] + 2
               /\ Revisions(client.uid) # {} =>
                      \E top \in Revisions(client.uid) : reach <= top + 1

\* A request for a page is the first one or follows one that left more.
PageWanted ==
    client.kind = "page" =>
        /\ client.at \in {"count", "select"} => client.more \/ client.shown = <<>>
        /\ client.at = "select" => IsFiniteSet(client.counted)

PagingInv == NoRevisionSkipped /\ NextPageMeets /\ PageWanted /\ EndMeansAll

ReaderInv == StillThere /\ DueReplays /\ AnswersExact

\* The inductive invariant behind ReaderHonest, NoRevisionSkipped and
\* EndMeansAll: what a client has read so far of rows that others add and purge
\* meanwhile still leads to the document asked for, or to the rest of the list.
ClientInv == ReaderInv /\ PagingInv
=============================================================================
