----------------------------- MODULE HistoryLog -----------------------------
(***************************************************************************)
(* What the recorder promises its readers, without handlers, informers or  *)
(* tables: for each object an append-only log of events, of which all but  *)
(* the last entry, at most, are published as current.  A deletion is never *)
(* published; it closes the log and marks the object removed.              *)
(***************************************************************************)
EXTENDS Naturals, Sequences

CONSTANTS Objects, Documents

VARIABLES
    log,         \* log[u]: the events of u, oldest first
    published,   \* published[u]: how many of them readers are told of
    removed      \* removed[u]: readers are told that u is gone

logVars == <<log, published, removed>>

Entry == [event : {"CREATED", "UPDATED", "DELETED"}, doc : Documents]

Init ==
    /\ log = [u \in Objects |-> <<>>]
    /\ published = [u \in Objects |-> 0]
    /\ removed = [u \in Objects |-> FALSE]

Pending(u) == published[u] < Len(log[u])
Closing(u) == Pending(u) /\ log[u][Len(log[u])].event = "DELETED"

\* A new entry needs a log without a pending one.
Extend(u, e) ==
    /\ ~Pending(u)
    /\ log' = [log EXCEPT ![u] = Append(@, e)]
    /\ UNCHANGED <<published, removed>>

Publish(u) ==
    /\ Pending(u)
    /\ ~Closing(u)
    /\ published' = [published EXCEPT ![u] = @ + 1]
    /\ UNCHANGED <<log, removed>>

\* Nothing is said of an object of which nothing was published.
Close(u) ==
    /\ Closing(u)
    /\ published[u] > 0
    /\ removed' = [removed EXCEPT ![u] = TRUE]
    /\ UNCHANGED <<log, published>>

\* (The comparison is implied; it spares TLC the search for e.)
Next ==
    \E u \in Objects :
        \/ Len(log'[u]) > Len(log[u]) /\ \E e \in Entry : Extend(u, e)
        \/ Publish(u)
        \/ Close(u)

Spec == Init /\ [][Next]_logVars
=============================================================================
