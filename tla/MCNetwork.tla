------------------------------ MODULE MCNetwork ------------------------------
(***************************************************************************)
(* Requests to servers, two parts side by side: the calls of one host, and *)
(* the checks of websites.  In a behaviour one part moves, and the other   *)
(* stays where it begins.                                                  *)
(***************************************************************************)
EXTENDS MCHost, MCWebsite

VARIABLE part

allVars == <<part, vars, websiteVars>>

AllInit ==
    /\ part \in {"calls", "checks"}
    /\ part = "checks" => setup = Files
    /\ Init
    /\ WebsiteInit

AllNext ==
    \/ part = "calls" /\ Next /\ UNCHANGED <<part, websiteVars>>
    \/ part = "checks" /\ WebsiteNext /\ UNCHANGED <<part, vars>>
    \/ part = "checks" /\ UNCHANGED allVars   \* the checks may be over

\* The fairness of FairSpec and of WebsiteFairSpec, each for its part.
AllSpec ==
    /\ AllInit /\ [][AllNext]_allVars
    /\ WF_vars(part = "calls" /\ Tick)
    /\ \A t \in Calls : WF_vars(part = "calls" /\ Step(t))
    /\ \A t \in Checks : WF_websiteVars(part = "checks" /\ CheckStep(t))

\* The parts that move come to their end.
CallsReturn == part = "calls" => AllCallsReturn
ChecksEnd == part = "checks" => AllChecksEnd
=============================================================================
