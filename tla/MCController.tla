---------------------------- MODULE MCController ----------------------------
(***************************************************************************)
(* Instances of Controller for TLC.                                        *)
(***************************************************************************)
EXTENDS Controller

CONSTANTS
    e1, e2, bad,     \* entries, the last with an apiVersion that does not parse
    k1, k2           \* resources

\* Two kinds, or one kind twice (with other namespace filters, say).
TwoKinds == [e \in Entries |-> CASE e = e1 -> k1 [] e = e2 -> k2 [] OTHER -> NoKey]
OneKind == [e \in Entries |-> IF e = bad THEN NoKey ELSE k1]
=============================================================================
