------------------------- MODULE RecorderRefinement -------------------------
(***************************************************************************)
(* The recorder implements HistoryLog: an object's log is the sequence of  *)
(* its rows, and what is published is what tracked_resources says.         *)
(***************************************************************************)
EXTENDS Recorder

RowAt(u, n) == CHOOSE r \in RowsOf(u) : r.revision = n

\* The newest revision is the current one or the one after it (Gapless).
TopRevision(u) ==
    IF current[u] + 1 \in Revisions(u) THEN current[u] + 1 ELSE current[u]

EntryAt(u, n) == [event |-> RowAt(u, n).event, doc |-> RowAt(u, n).seen]

LogOf(u) == [n \in 1..TopRevision(u) |-> EntryAt(u, n)]

Logs == [u \in UIDs |-> LogOf(u)]

HL == INSTANCE HistoryLog WITH
          Objects <- UIDs,
          Documents <- Doc,
          log <- Logs,
          published <- current,
          removed <- deleted

\* Whatever handlers, faults and crashes do, readers of the store see an
\* append-only log with at most one unpublished entry, closed by a deletion.
ImplementsHistoryLog == HL!Spec
=============================================================================
