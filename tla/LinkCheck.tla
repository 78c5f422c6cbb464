------------------------------ MODULE LinkCheck ------------------------------
(***************************************************************************)
(* What the check command promises, whatever its tasks and channels: every *)
(* request is counted once and the run succeeds, or it ends in an error    *)
(* that one of the requests caused.                                        *)
(***************************************************************************)
CONSTANTS Requests, Fatal, Panicking

VARIABLES counted,   \* the requests whose response is in the statistics
          result     \* "none" until check returns, then "ok", "userErr", "taskErr"

vars == <<counted, result>>

Init == counted = {} /\ result = "none"

Count(r) ==
    /\ result = "none"
    /\ r \notin counted
    /\ counted' = counted \cup {r}
    /\ UNCHANGED result

Succeed ==
    /\ result = "none"
    /\ counted = Requests
    /\ result' = "ok"
    /\ UNCHANGED counted

Fail ==
    /\ result = "none"
    /\ \/ Fatal # {} /\ result' = "userErr"
       \/ Panicking # {} /\ result' = "taskErr"
    /\ UNCHANGED counted

Next == (\E r \in Requests : Count(r)) \/ Succeed \/ Fail

Spec == Init /\ [][Next]_vars
=============================================================================
