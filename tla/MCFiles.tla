------------------------------- MODULE MCFiles -------------------------------
(***************************************************************************)
(* The files a run reads, two parts side by side: the inputs, and the      *)
(* files that links lead to.  In a behaviour one part moves, and the other *)
(* stays where it begins.                                                  *)
(***************************************************************************)
EXTENDS MCCollector, MCFileCheck

VARIABLE part

allVars == <<part, collectorVars, vars>>

AllInit ==
    \/ /\ part = "inputs"
       /\ config = CHOOSE c \in Configs : TRUE
       /\ fs = Site
       /\ link = [t \in Calls |-> CHOOSE l \in Links : TRUE]
       /\ CollectorInit
       /\ Init
    \/ /\ part = "links"
       /\ chosen = CHOOSE c \in Selections : TRUE
       /\ CollectorInit
       /\ Init

AllNext ==
    \/ part = "inputs" /\ CollectorNext /\ UNCHANGED <<part, vars>>
    \/ part = "links" /\ Next /\ UNCHANGED <<part, collectorVars>>

AllSpec == AllInit /\ [][AllNext]_allVars
=============================================================================
