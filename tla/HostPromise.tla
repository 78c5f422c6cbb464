----------------------------- MODULE HostPromise -----------------------------
(***************************************************************************)
(* What the hosts promise to those who send requests through them, without *)
(* permits, backoff and limits: a page is fetched by one caller at a time, *)
(* and only if there is no answer yet that the caller could be given; an   *)
(* answer that lasts is remembered, with its text if the caller wanted it. *)
(* Host implements it, and the checks of Website rely on no more.          *)
(***************************************************************************)
CONSTANTS
    Callers,
    Pages,      \* URLs without their fragments
    Lasting     \* the status codes that are remembered

VARIABLES
    fetching,   \* who fetches which page, and whether with its text
    answers     \* of each page, the answer if there is one

vars == <<fetching, answers>>

Init == fetching = {} /\ answers = [p \in Pages |-> {}]

Fetch(t, p, text) == [caller |-> t, page |-> p, text |-> text]

Known(p, text) == \E a \in answers[p] : text => a.text

Begin(t, p, text) ==
    /\ \A f \in fetching : f.caller # t /\ f.page # p
    /\ ~Known(p, text)
    /\ fetching' = fetching \cup {Fetch(t, p, text)}
    /\ UNCHANGED answers

Remember(f, c) ==
    /\ fetching' = fetching \ {f}
    /\ answers' = [answers EXCEPT ![f.page] = {[code |-> c, text |-> f.text]}]

\* There is no answer, or none that lasts.
GiveUp(f) ==
    /\ fetching' = fetching \ {f}
    /\ UNCHANGED answers

Next ==
    \/ \E t \in Callers, p \in Pages, text \in BOOLEAN : Begin(t, p, text)
    \/ \E f \in fetching : GiveUp(f) \/ \E c \in Lasting : Remember(f, c)

Spec == Init /\ [][Next]_vars
=============================================================================
