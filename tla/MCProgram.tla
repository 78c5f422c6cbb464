------------------------------ MODULE MCProgram ------------------------------
(***************************************************************************)
(* The program around a check, its parts side by side: how a start may end *)
(* and what it sets up, the channels of a check, and what a run reports.   *)
(* In a behaviour one part moves, and the others stay where they begin.    *)
(***************************************************************************)
EXTENDS MCStartup, MCRun, MCCheckPipeline

VARIABLE part

allVars == <<part, programVars, runVars, vars>>

AllInit ==
    /\ part \in {"start", "channels", "report"}
    /\ part # "start" => setup = Bare
    /\ ProgramInit
    /\ part # "report" => given = CHOOSE r \in Runs : TRUE
    /\ RunInit
    /\ Init

AllNext ==
    \/ part = "start" /\ ProgramNext /\ UNCHANGED <<part, runVars, vars>>
    \/ part = "report" /\ RunNext /\ UNCHANGED <<part, programVars, vars>>
    \/ part = "channels" /\ Next /\ UNCHANGED <<part, programVars, runVars>>
    \/ part # "channels" /\ UNCHANGED allVars   \* a start or a run may be over

\* Only the channels promise an end: Fairness leaves out the other behaviours.
AllSpec == AllInit /\ [][AllNext]_allVars /\ Fairness
=============================================================================
