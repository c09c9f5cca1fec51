------------------------------ MODULE MCStartup ------------------------------
(***************************************************************************)
(* Instances of Startup for TLC.  The command line has the defaults, or    *)
(* leaves out what main accepts to be empty; the object sets its sections  *)
(* in any combination.                                                     *)
(***************************************************************************)
EXTENDS Startup

Flag(enabled, endpoint, model, key) ==
    [backend |-> "sqlite", dsn |-> "flag", address |-> "flag", leader |-> FALSE,
     aiEnabled |-> enabled, endpoint |-> endpoint, model |-> model, apiKey |-> key]

FlagsWithAndWithoutAI ==
    {Flag(FALSE, "", "flag", "")}
        \cup {Flag(TRUE, "flag", m, k) : m \in {"", "flag"}, k \in {"", "flag"}}

AnyConfig ==
    {s \in ConfigSpec : /\ s.endpoint = s.model /\ s.address = s.leader
                        /\ ~s.aiEnabled => ~s.endpoint /\ ~s.aiSecret}
=============================================================================
