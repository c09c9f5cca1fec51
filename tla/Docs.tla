-------------------------------- MODULE Docs --------------------------------
(***************************************************************************)
(* Kubernetes objects as the recorder compares them (internal/diff).  An   *)
(* object is the function of its leaf paths: Absent where the JSON has no  *)
(* such key.  A JSON merge patch (RFC 7386) maps the paths it touches to   *)
(* their new value, Absent standing for the null that deletes a key.       *)
(* Values that are themselves null are outside this algebra, and so is the *)
(* gzip layer (Compress and Decompress are inverse on what is stored).     *)
(***************************************************************************)
CONSTANTS
    Fields,   \* leaf paths, labels included
    Vals,     \* values a path can hold
    Absent    \* the value of a path the object does not have

ASSUME AbsentAssumption == Absent \notin Vals

Doc == [Fields -> Vals \cup {Absent}]

Patch == UNION {[S -> Vals \cup {Absent}] : S \in SUBSET Fields}

\* diff.StripFields: the noisy paths are removed before any comparison.
StripFields(d, ignored) == [f \in Fields |-> IF f \in ignored THEN Absent ELSE d[f]]

\* diff.ComputeMergePatch
ComputeMergePatch(old, new) == [f \in {g \in Fields : old[g] # new[g]} |-> new[f]]

\* diff.ApplyMergePatch
ApplyMergePatch(d, p) == [f \in Fields |-> IF f \in DOMAIN p THEN p[f] ELSE d[f]]

\* diff.IsEmpty
IsEmpty(p) == DOMAIN p = {}
=============================================================================
