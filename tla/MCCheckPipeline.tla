--------------------------- MODULE MCCheckPipeline ---------------------------
(* Four requests through channels of capacity two: both channels can be full *)
(* and block, and so can the limit on concurrent handlers.                   *)
EXTENDS CheckPipeline

CONSTANTS r1, r2, r3, r4
=============================================================================
