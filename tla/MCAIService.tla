---------------------------- MODULE MCAIService -----------------------------
(* Instance of AIService for TLC. *)
EXTENDS AIService

CONSTANTS r1, r2, r3   \* requests

ThreeRequests == {r1, r2, r3}
=============================================================================
