--------------------------- MODULE CheckPipeline ---------------------------
(***************************************************************************)
(* The check command of lychee-bin: three tasks joined by two bounded      *)
(* channels, and the wait group that ends them.                            *)
(*                                                                         *)
(*   send_requests --reqQ--> request_channel_task --respQ--> collect       *)
(*                                                                         *)
(* Every item carries a WaitGuard.  collect_responses stops when the wait  *)
(* group has no guard left; it holds a second `send_req` end, so that the  *)
(* request channel alone would never close.  A user-input error ends       *)
(* collect_responses early; the channels then break from the back to the   *)
(* front: the request task panics on its next send, the sender's next send *)
(* fails.                                                                  *)
(***************************************************************************)
EXTENDS Naturals, Sequences, FiniteSets, Functions

CONSTANTS Requests,        \* the items of the collector's stream
          Fatal,           \* those that may be UserInputContent errors
          Panicking,       \* those whose handler may panic
          MaxConcurrency   \* max_concurrency: both capacities and the limit

ASSUME PipelineAssumption ==
    /\ IsFiniteSet(Requests)
    /\ Fatal \subseteq Requests
    /\ Panicking \subseteq Requests
    /\ MaxConcurrency \in Nat \ {0}

\* The guard WaitGroup::new returns; every other guard travels with a request.
Root == "root"
ASSUME RootAssumption == Root \notin Requests

VARIABLES
    stream,      \* the requests the collector has not yielded yet
    hand,        \* the request send_requests has pulled and is sending
    sender,      \* send_requests: "run", "ok", "failed"
    reqQ,        \* the request channel
    checking,    \* requests inside handle, in for_each_concurrent
    answered,    \* handled, waiting for room in the response channel
    task,        \* request_channel_task: "run", "ok", "panic"
    respQ,       \* the response channel
    collector,   \* collect_responses: "run", "ok", "err"
    guards,      \* the WaitGuards alive
    counted,     \* the requests whose response stats.add has counted
    main         \* check: "join", "ok", "userErr", "taskErr", "panic"

senderVars == <<stream, hand, sender>>
taskVars == <<checking, answered, task>>
vars == <<stream, hand, sender, reqQ, checking, answered, task, respQ,
          collector, guards, counted, main>>

TypeOK ==
    /\ stream \subseteq Requests
    /\ hand \subseteq Requests
    /\ sender \in {"run", "ok", "failed"}
    /\ reqQ \in Seq(Requests)
    /\ checking \subseteq Requests
    /\ answered \subseteq Requests
    /\ task \in {"run", "ok", "panic"}
    /\ respQ \in Seq(Requests)
    /\ collector \in {"run", "ok", "err"}
    /\ guards \subseteq Requests \cup {Root}
    /\ counted \subseteq Requests
    /\ main \in {"join", "ok", "userErr", "taskErr", "panic"}

Init ==
    /\ stream = Requests
    /\ hand = {}
    /\ sender = "run"
    /\ reqQ = <<>>
    /\ checking = {}
    /\ answered = {}
    /\ task = "run"
    /\ respQ = <<>>
    /\ collector = "run"
    /\ guards = {Root}
    /\ counted = {}
    /\ main = "join"
-----------------------------------------------------------------------------
(* send_requests, in the main task *)

\* guard.clone() of the message that carries r.
NoClone(r) == {}    \* mutant: the message borrows the sender's own guard
Clone(r) == {r}

\* The stream yields a request.  The collector works in parallel, so any
\* remaining request may come next.
Pull(r) ==
    /\ sender = "run"
    /\ hand = {}
    /\ r \in stream
    /\ stream' = stream \ {r}
    /\ hand' = {r}
    /\ guards' = guards \cup Clone(r)
    /\ UNCHANGED <<sender, reqQ, taskVars, respQ, collector, counted, main>>

\* The send completes once the channel has room.
Send ==
    \E r \in Requests :
        /\ hand = {r}
        /\ task = "run"
        /\ Len(reqQ) < MaxConcurrency
        /\ reqQ' = Append(reqQ, r)
        /\ hand' = {}
        /\ UNCHANGED <<stream, sender, taskVars, respQ, collector, guards,
                       counted, main>>

\* mutant: the send does not notice that the receiver panicked.
SendFailsUnnoticed == FALSE

\* The receiver is gone: map_err(..)? returns, and drops the message, the
\* sender's own guard and the rest of the stream.
SendFails ==
    /\ sender = "run"
    /\ hand # {}
    /\ task # "run"
    /\ sender' = "failed"
    /\ hand' = {}
    /\ guards' = guards \ (hand \cup {Root})
    /\ UNCHANGED <<stream, reqQ, taskVars, respQ, collector, counted, main>>

\* The stream is exhausted: guard and send_req are dropped.
SendDone ==
    /\ sender = "run"
    /\ hand = {}
    /\ stream = {}
    /\ sender' = "ok"
    /\ guards' = guards \ {Root}
    /\ UNCHANGED <<stream, hand, reqQ, taskVars, respQ, collector, counted,
                   main>>
-----------------------------------------------------------------------------
(* request_channel_task *)

\* for_each_concurrent takes an item while fewer than max_concurrency futures
\* are unfinished; those blocked on send_resp are unfinished too.
Take ==
    /\ task = "run"
    /\ reqQ # <<>>
    /\ Cardinality(checking \cup answered) < MaxConcurrency
    /\ checking' = checking \cup {Head(reqQ)}
    /\ reqQ' = Tail(reqQ)
    /\ UNCHANGED <<senderVars, answered, task, respQ, collector, guards,
                   counted, main>>

\* handle returns, in any order.
Handled(r) ==
    /\ task = "run"
    /\ r \in checking
    /\ checking' = checking \ {r}
    /\ answered' = answered \cup {r}
    /\ UNCHANGED <<senderVars, reqQ, task, respQ, collector, guards, counted,
                   main>>

Respond(r) ==
    /\ task = "run"
    /\ r \in answered
    /\ collector = "run"
    /\ Len(respQ) < MaxConcurrency
    /\ respQ' = Append(respQ, r)
    /\ answered' = answered \ {r}
    /\ UNCHANGED <<senderVars, reqQ, checking, task, collector, guards,
                   counted, main>>

\* A panic unwinds the whole task, for it runs every handler: the receiver of
\* the request channel, the messages in it and every future are dropped.
Unwind ==
    /\ task' = "panic"
    /\ guards' = guards \ (checking \cup answered \cup Range(reqQ))
    /\ checking' = {}
    /\ answered' = {}
    /\ reqQ' = <<>>
    /\ UNCHANGED <<senderVars, respQ, collector, counted, main>>

\* expect("cannot send response to queue"): the receiver is gone.
RespondPanics ==
    /\ task = "run"
    /\ answered # {}
    /\ collector # "run"
    /\ Unwind

HandlePanics(r) ==
    /\ task = "run"
    /\ r \in checking \cap Panicking
    /\ Unwind

\* No future is left and the channel is closed: it is empty, and both send_req
\* ends are gone.
TaskDone ==
    /\ task = "run"
    /\ reqQ = <<>>
    /\ checking \cup answered = {}
    /\ sender # "run"
    /\ collector # "run"
    /\ task' = "ok"
    /\ UNCHANGED <<senderVars, reqQ, checking, answered, respQ, collector,
                   guards, counted, main>>
-----------------------------------------------------------------------------
(* collect_responses *)

NoWaitGroup == task # "run" /\ respQ = <<>> \* mutant: wait for the channel to close
WaitGroupDone == guards = {}

\* One turn of the loop: the response is counted and its guard dropped.
\* take_until looks at the waiter before it looks at the channel.
Collect ==
    /\ collector = "run"
    /\ ~WaitGroupDone
    /\ respQ # <<>>
    /\ counted' = counted \cup {Head(respQ)}
    /\ guards' = guards \ {Head(respQ)}
    /\ respQ' = Tail(respQ)
    /\ UNCHANGED <<senderVars, reqQ, taskVars, collector, main>>

\* `response?` on a user-input error: the stream is dropped with the responses
\* in it, and so is send_req.  Whether reading an input failed was settled when
\* the stream yielded it; nobody looks at it before.
CollectFails ==
    /\ collector = "run"
    /\ ~WaitGroupDone
    /\ respQ # <<>>
    /\ Head(respQ) \in Fatal
    /\ collector' = "err"
    /\ guards' = guards \ Range(respQ)
    /\ respQ' = <<>>
    /\ UNCHANGED <<senderVars, reqQ, taskVars, counted, main>>

\* waiter.wait() resolves: the stream ends, whatever is still in the channel.
CollectDone ==
    /\ collector = "run"
    /\ WaitGroupDone
    /\ collector' = "ok"
    /\ respQ' = <<>>
    /\ UNCHANGED <<senderVars, reqQ, taskVars, guards, counted, main>>

\* The request task has panicked and its send_resp is gone: the channel closes
\* once it is empty, though guards are alive.
CollectClosed ==
    /\ collector = "run"
    /\ ~WaitGroupDone
    /\ respQ = <<>>
    /\ task # "run"
    /\ collector' = "ok"
    /\ UNCHANGED <<senderVars, reqQ, taskVars, respQ, guards, counted, main>>
-----------------------------------------------------------------------------
(* check *)

\* mutants: the request task's result is unwrapped first; it is ignored.
VerdictTaskFirst ==
    CASE task = "panic" -> "taskErr"
      [] task = "ok" /\ collector = "err" -> "userErr"
      [] OTHER -> "ok"
VerdictIgnoresTask == IF collector = "err" THEN "userErr" ELSE "ok"

\* stats_result??, then request_result?, then send_result.expect(..).
Verdict ==
    CASE collector = "err" -> "userErr"
      [] collector = "ok" /\ task = "panic" -> "taskErr"
      [] collector = "ok" /\ task = "ok" /\ sender = "failed" -> "panic"
      [] OTHER -> "ok"

\* join! returns once the three have ended.
Join ==
    /\ main = "join"
    /\ sender # "run" /\ task # "run" /\ collector # "run"
    /\ main' = Verdict
    /\ UNCHANGED <<senderVars, reqQ, taskVars, respQ, collector, guards,
                   counted>>

\* check has returned.
Returned == main # "join" /\ UNCHANGED vars

SenderNext == (\E r \in Requests : Pull(r)) \/ Send \/ SendFails \/ SendDone
HandlerNext(r) == Handled(r) \/ HandlePanics(r)
TaskNext ==
    Take \/ (\E r \in Requests : Respond(r)) \/ RespondPanics \/ TaskDone
CollectorNext == Collect \/ CollectFails \/ CollectDone \/ CollectClosed

Next ==
    \/ SenderNext
    \/ TaskNext
    \/ \E r \in Requests : HandlerNext(r)
    \/ CollectorNext
    \/ Join
    \/ Returned

Spec == Init /\ [][Next]_vars

\* Tokio polls every woken task, and handle always returns (its requests time
\* out and its retries are bounded).  The collector's stream is finite.
Fairness ==
    /\ WF_vars(SenderNext)
    /\ WF_vars(TaskNext)
    /\ \A r \in Requests : WF_vars(HandlerNext(r))
    /\ WF_vars(CollectorNext)
    /\ WF_vars(Join)

FairSpec == Spec /\ Fairness
-----------------------------------------------------------------------------
(* What the check command promises *)

\* check.rs:189-192: "if the waiter finishes, every channel with a WaitGuard
\* must be empty", and no message is between two channels either.
NothingLeftWhenDone ==
    WaitGroupDone =>
        /\ reqQ = <<>> /\ respQ = <<>>
        /\ hand \cup checking \cup answered = {}

\* A run that reports success has counted the response of every request: the
\* wait group never ends the collector while one is on its way.
NoResponseLost == main = "ok" => counted = Requests

\* The sender fails only behind another failure, one that is examined first:
\* `send_result.expect` is never the one to speak.
ExpectNeverReached == main # "panic"

\* The expect in request_channel_task panics behind a user error, and a handler's
\* own panic may race one: it is always the user error that check returns.
UserErrorShown ==
    /\ collector = "err" /\ main # "join" => main = "userErr"
    /\ main = "taskErr" => collector = "ok" /\ Panicking # {}

\* The cyclic channels are broken in every case, also after a panic.
CheckReturns == <>(main # "join")

(* Where every request is, the invariant that NoResponseLost needs. *)

OnTheWay ==
    hand \cup Range(reqQ) \cup checking \cup answered \cup Range(respQ)

\* The guards are those of the messages and, while it runs, the sender's own.
GuardsExact ==
    guards = OnTheWay \cup (IF sender = "run" THEN {Root} ELSE {})

\* No request is in two places, or twice in a channel.
OnePlace ==
    /\ IsInjective(reqQ) /\ IsInjective(respQ)
    /\ hand = {} \/ \E r \in Requests : hand = {r}
    /\ stream \cap (OnTheWay \cup counted) = {}
    /\ counted \cap OnTheWay = {}
    /\ hand \cap (Range(reqQ) \cup checking \cup answered \cup Range(respQ)) = {}
    /\ Range(reqQ) \cap (checking \cup answered \cup Range(respQ)) = {}
    /\ checking \cap (answered \cup Range(respQ)) = {}
    /\ answered \cap Range(respQ) = {}

\* No request vanishes unless a task has failed.
Accounted ==
    (task # "panic" /\ collector # "err")
        => Requests = stream \cup OnTheWay \cup counted

\* How each task has ended says what is left behind it.
Endings ==
    /\ sender # "run" => hand = {}
    /\ sender = "ok" => stream = {}
    /\ sender = "failed" => task = "panic"
    /\ task # "run" => reqQ = <<>> /\ checking \cup answered = {}
    /\ task = "ok" => sender # "run" /\ collector # "run"
    /\ task = "panic" => collector = "err" \/ Panicking # {}
    /\ collector # "run" => respQ = <<>>
    /\ collector = "ok" => guards = {} \/ task = "panic"
    /\ collector = "err" => Fatal # {}
    /\ main # "join" => sender # "run" /\ task # "run" /\ collector # "run"
    /\ main = "ok" => collector = "ok" /\ task = "ok" /\ counted = Requests
    /\ main = "taskErr" => task = "panic" /\ collector = "ok"
    /\ main = "userErr" => collector = "err"
    /\ main # "panic"

IInv == TypeOK /\ GuardsExact /\ OnePlace /\ Accounted /\ Endings
-----------------------------------------------------------------------------
Promise == INSTANCE LinkCheck
               WITH result <- IF main = "join" THEN "none" ELSE main

\* The tasks and channels are invisible from outside: each response is counted
\* once, and check's result is one that LinkCheck allows.
ImplementsLinkCheck == Promise!Spec
=============================================================================
