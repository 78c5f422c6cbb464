---------------------------- MODULE CheckProofs ----------------------------
(***************************************************************************)
(* Proofs about the check command: about its tasks and channels            *)
(* (CheckPipeline), for every set of requests, every choice of failing     *)
(* ones and every channel capacity; and about what it makes of the         *)
(* responses, with the dumps (Run), for all options and all links.         *)
(***************************************************************************)
EXTENDS CheckPipeline, Run, SequenceTheorems, FiniteSetTheorems, TLAPS

(* What joining and leaving a channel does to the set of its messages *)

\* An empty channel holds no message.
LEMMA EmptyQueue == Range(<<>>) = {} /\ IsInjective(<<>>)
BY DEF Range, IsInjective

\* A send puts one more message into the channel.
LEMMA JoinQueue ==
    ASSUME NEW S, NEW q \in Seq(S), NEW e \in S
    PROVE  /\ Append(q, e) \in Seq(S)
           /\ Range(Append(q, e)) = Range(q) \cup {e}
           /\ IsInjective(q) /\ e \notin Range(q) => IsInjective(Append(q, e))
<1>1. /\ Append(q, e) \in Seq(S)
      /\ Len(Append(q, e)) = Len(q) + 1
      /\ \A i \in 1 .. Len(q) : Append(q, e)[i] = q[i]
      /\ Append(q, e)[Len(q) + 1] = e
  BY AppendProperties
<1>2. Len(q) \in Nat /\ DOMAIN q = 1 .. Len(q)
  BY LenProperties
<1>3. DOMAIN Append(q, e) = 1 .. Len(q) + 1
  BY <1>1, LenProperties
<1>4. Range(Append(q, e)) = Range(q) \cup {e}
  BY <1>1, <1>2, <1>3 DEF Range
<1>5. IsInjective(q) /\ e \notin Range(q) => IsInjective(Append(q, e))
  BY <1>1, <1>2, <1>3 DEF Range, IsInjective
<1>6. QED
  BY <1>1, <1>4, <1>5

\* A receive takes the first message out, and leaves the others.
LEMMA LeaveQueue ==
    ASSUME NEW S, NEW q \in Seq(S), q # <<>>
    PROVE  /\ Head(q) \in S
           /\ Tail(q) \in Seq(S)
           /\ Range(q) = {Head(q)} \cup Range(Tail(q))
           /\ IsInjective(q) => Head(q) \notin Range(Tail(q)) /\ IsInjective(Tail(q))
<1>1. /\ Head(q) \in S /\ Tail(q) \in Seq(S)
      /\ Len(Tail(q)) = Len(q) - 1
      /\ \A i \in 1 .. Len(Tail(q)) : Tail(q)[i] = q[i + 1]
  BY HeadTailProperties
<1>2. /\ Len(q) \in Nat /\ Len(q) > 0 /\ DOMAIN q = 1 .. Len(q)
      /\ DOMAIN Tail(q) = 1 .. Len(q) - 1
      /\ Head(q) = q[1]
  BY <1>1, LenProperties, EmptySeq
<1>3. Range(q) = {Head(q)} \cup Range(Tail(q))
  <2>1. ASSUME NEW i \in DOMAIN q
        PROVE  q[i] = Head(q) \/ \E j \in DOMAIN Tail(q) : Tail(q)[j] = q[i]
    <3>1. CASE i = 1
      BY <1>2, <3>1
    <3>2. CASE i # 1
      <4>1. i - 1 \in DOMAIN Tail(q) /\ Tail(q)[i - 1] = q[i]
        BY <1>1, <1>2, <3>2
      <4>2. QED
        BY <4>1
    <3>3. QED
      BY <3>1, <3>2
  <2>2. ASSUME NEW j \in DOMAIN Tail(q)
        PROVE  j + 1 \in DOMAIN q /\ q[j + 1] = Tail(q)[j]
    BY <1>1, <1>2
  <2>3. 1 \in DOMAIN q
    BY <1>2
  <2>4. ASSUME NEW e \in Range(q) PROVE e = Head(q) \/ e \in Range(Tail(q))
    BY <2>1 DEF Range
  <2>5. Head(q) \in Range(q)
    BY <1>2, <2>3 DEF Range
  <2>6. ASSUME NEW e \in Range(Tail(q)) PROVE e \in Range(q)
    BY <2>2 DEF Range
  <2>7. QED
    BY <2>4, <2>5, <2>6
<1>4. IsInjective(q) => Head(q) \notin Range(Tail(q)) /\ IsInjective(Tail(q))
  BY <1>1, <1>2 DEF Range, IsInjective
<1>5. QED
  BY <1>1, <1>3, <1>4

\* A channel without messages is the empty one.
LEMMA NoElements ==
    ASSUME NEW S, NEW q \in Seq(S), Range(q) = {}
    PROVE  q = <<>>
<1>1. q # <<>> => Head(q) \in Range(q)
  <2>1. ASSUME q # <<>> PROVE Range(q) = {Head(q)} \cup Range(Tail(q))
    BY <2>1, LeaveQueue
  <2>2. QED
    BY <2>1
<1>2. QED
  BY <1>1
-----------------------------------------------------------------------------

\* Only requests travel, so the sender's own guard is no message's.
LEMMA TravellersAreRequests ==
    ASSUME TypeOK
    PROVE  /\ Range(reqQ) \subseteq Requests /\ Range(respQ) \subseteq Requests
           /\ OnTheWay \subseteq Requests
           /\ Root \notin OnTheWay /\ Root \notin Range(reqQ)
<1>1. Range(reqQ) \subseteq Requests /\ Range(respQ) \subseteq Requests
  BY RangeOfSeq DEF TypeOK
<1>2. OnTheWay \subseteq Requests
  BY <1>1 DEF TypeOK, OnTheWay
<1>3. QED
  BY <1>1, <1>2, RootAssumption

\* A panic leaves nothing behind in the request task.
LEMMA UnwindStep ==
    ASSUME IInv, Unwind, task = "run", checking \cup answered # {},
           collector # "run" \/ Panicking # {}
    PROVE  IInv'
<1> USE EmptyQueue DEF senderVars
<1>0. guards # {}
  BY DEF IInv, GuardsExact, OnTheWay
<1>1. TypeOK'
  BY EmptySeq DEF IInv, TypeOK, Unwind
<1>2. GuardsExact'
  <2>1. OnTheWay' = OnTheWay \ (checking \cup answered \cup Range(reqQ))
    BY DEF IInv, OnePlace, OnTheWay, Unwind
  <2>2. Root \notin checking \cup answered \cup Range(reqQ)
    BY TravellersAreRequests, RootAssumption DEF IInv, TypeOK
  <2>3. QED
    BY <2>1, <2>2 DEF IInv, GuardsExact, Unwind
<1>3. OnePlace'
  BY DEF IInv, OnePlace, OnTheWay, Unwind
<1>4. Accounted'
  BY DEF Accounted, Unwind
<1>5. Endings'
  BY <1>0 DEF IInv, TypeOK, Endings, Unwind
<1>6. QED
  BY <1>1, <1>2, <1>3, <1>4, <1>5 DEF IInv
(* One lemma per task: its steps preserve the invariant. *)

LEMMA SenderStep ==
    ASSUME IInv, SenderNext
    PROVE  IInv'
<1> USE TravellersAreRequests, RootAssumption, EmptyQueue DEF senderVars, taskVars
<1>1. ASSUME NEW r \in Requests, Pull(r) PROVE IInv'
  <2>1. TypeOK'
    BY <1>1 DEF IInv, TypeOK, Pull, Clone
  <2>2. GuardsExact'
    BY <1>1 DEF IInv, GuardsExact, OnePlace, OnTheWay, Pull, Clone
  <2>3. OnePlace'
    BY <1>1 DEF IInv, OnePlace, OnTheWay, Pull, Clone
  <2>4. Accounted'
    BY <1>1 DEF IInv, Accounted, OnTheWay, Endings, Pull, Clone
  <2>5. Endings'
    BY <1>1 DEF IInv, TypeOK, GuardsExact, Endings, Pull, Clone
  <2>6. QED
    BY <2>1, <2>2, <2>3, <2>4, <2>5 DEF IInv
<1>2. CASE Send
  <2> PICK r \in Requests : hand = {r} /\ reqQ' = Append(reqQ, r) /\ hand' = {}
    BY <1>2 DEF Send
  <2>0. /\ Append(reqQ, r) \in Seq(Requests)
        /\ Range(reqQ') = Range(reqQ) \cup {r}
        /\ IsInjective(reqQ) /\ r \notin Range(reqQ) => IsInjective(reqQ')
    BY JoinQueue DEF IInv, TypeOK
  <2>1. TypeOK'
    BY <1>2, <2>0 DEF IInv, TypeOK, Send
  <2>2. GuardsExact'
    BY <1>2, <2>0 DEF IInv, GuardsExact, OnePlace, OnTheWay, Send
  <2>3. OnePlace'
    BY <1>2, <2>0 DEF IInv, OnePlace, OnTheWay, Send
  <2>4. Accounted'
    BY <1>2, <2>0 DEF IInv, Accounted, OnTheWay, Endings, Send
  <2>5. Endings'
    BY <1>2, <2>0 DEF IInv, TypeOK, Endings, Send
  <2>6. QED
    BY <2>1, <2>2, <2>3, <2>4, <2>5 DEF IInv
<1>3. CASE SendFails
  <2>1. TypeOK'
    BY <1>3 DEF IInv, TypeOK, SendFails
  <2>2. GuardsExact'
    BY <1>3 DEF IInv, GuardsExact, OnePlace, OnTheWay, SendFails
  <2>3. OnePlace'
    BY <1>3 DEF IInv, OnePlace, OnTheWay, SendFails
  <2>4. Accounted'
    BY <1>3 DEF IInv, TypeOK, Accounted, OnTheWay, Endings, SendFails
  <2>5. Endings'
    BY <1>3 DEF IInv, TypeOK, Endings, SendFails
  <2>6. QED
    BY <2>1, <2>2, <2>3, <2>4, <2>5 DEF IInv
<1>4. CASE SendDone
  <2>1. TypeOK'
    BY <1>4 DEF IInv, TypeOK, SendDone
  <2>2. GuardsExact'
    BY <1>4 DEF IInv, GuardsExact, OnePlace, OnTheWay, SendDone
  <2>3. OnePlace'
    BY <1>4 DEF IInv, OnePlace, OnTheWay, SendDone
  <2>4. Accounted'
    BY <1>4 DEF IInv, Accounted, OnTheWay, Endings, SendDone
  <2>5. Endings'
    BY <1>4 DEF IInv, TypeOK, Endings, SendDone
  <2>6. QED
    BY <2>1, <2>2, <2>3, <2>4, <2>5 DEF IInv
<1>5. QED
  BY <1>1, <1>2, <1>3, <1>4 DEF SenderNext

LEMMA TaskStep ==
    ASSUME IInv, TaskNext \/ \E r \in Requests : HandlerNext(r)
    PROVE  IInv'
<1> USE TravellersAreRequests, RootAssumption, EmptyQueue DEF senderVars, taskVars
<1>1. CASE Take
  <2>0. /\ Head(reqQ) \in Requests /\ Tail(reqQ) \in Seq(Requests)
        /\ Range(reqQ) = {Head(reqQ)} \cup Range(reqQ')
        /\ IsInjective(reqQ) => Head(reqQ) \notin Range(reqQ') /\ IsInjective(reqQ')
    BY <1>1, LeaveQueue DEF IInv, TypeOK, Take
  <2>1. TypeOK'
    BY <1>1, <2>0 DEF IInv, TypeOK, Take
  <2>2. GuardsExact'
    BY <1>1, <2>0 DEF IInv, GuardsExact, OnePlace, OnTheWay, Take
  <2>3. OnePlace'
    BY <1>1, <2>0 DEF IInv, OnePlace, OnTheWay, Take
  <2>4. Accounted'
    BY <1>1, <2>0 DEF IInv, Accounted, OnTheWay, Endings, Take
  <2>5. Endings'
    BY <1>1, <2>0 DEF IInv, TypeOK, Endings, Take
  <2>6. QED
    BY <2>1, <2>2, <2>3, <2>4, <2>5 DEF IInv
<1>2. ASSUME NEW r \in Requests, Handled(r) PROVE IInv'
  <2>1. TypeOK'
    BY <1>2 DEF IInv, TypeOK, Handled
  <2>2. GuardsExact'
    BY <1>2 DEF IInv, GuardsExact, OnePlace, OnTheWay, Handled
  <2>3. OnePlace'
    BY <1>2 DEF IInv, OnePlace, OnTheWay, Handled
  <2>4. Accounted'
    BY <1>2 DEF IInv, Accounted, OnTheWay, Endings, Handled
  <2>5. Endings'
    BY <1>2 DEF IInv, TypeOK, Endings, Handled
  <2>6. QED
    BY <2>1, <2>2, <2>3, <2>4, <2>5 DEF IInv
<1>3. ASSUME NEW r \in Requests, Respond(r) PROVE IInv'
  <2>0. /\ Append(respQ, r) \in Seq(Requests)
        /\ Range(respQ') = Range(respQ) \cup {r}
        /\ IsInjective(respQ) /\ r \notin Range(respQ) => IsInjective(respQ')
    BY <1>3, JoinQueue DEF IInv, TypeOK, Respond
  <2>1. TypeOK'
    BY <1>3, <2>0 DEF IInv, TypeOK, Respond
  <2>2. GuardsExact'
    BY <1>3, <2>0 DEF IInv, GuardsExact, OnePlace, OnTheWay, Respond
  <2>3. OnePlace'
    BY <1>3, <2>0 DEF IInv, OnePlace, OnTheWay, Respond
  <2>4. Accounted'
    BY <1>3, <2>0 DEF IInv, Accounted, OnTheWay, Endings, Respond
  <2>5. Endings'
    BY <1>3, <2>0 DEF IInv, TypeOK, Endings, Respond
  <2>6. QED
    BY <2>1, <2>2, <2>3, <2>4, <2>5 DEF IInv
<1>4. CASE RespondPanics
  BY <1>4, UnwindStep DEF RespondPanics
<1>5. ASSUME NEW r \in Requests, HandlePanics(r) PROVE IInv'
  BY <1>5, UnwindStep DEF HandlePanics
<1>6. CASE TaskDone
  <2>1. TypeOK'
    BY <1>6 DEF IInv, TypeOK, TaskDone
  <2>2. GuardsExact'
    BY <1>6 DEF IInv, GuardsExact, OnePlace, OnTheWay, TaskDone
  <2>3. OnePlace'
    BY <1>6 DEF IInv, OnePlace, OnTheWay, TaskDone
  <2>4. Accounted'
    BY <1>6 DEF IInv, Accounted, OnTheWay, Endings, TaskDone
  <2>5. Endings'
    BY <1>6 DEF IInv, TypeOK, Endings, TaskDone
  <2>6. QED
    BY <2>1, <2>2, <2>3, <2>4, <2>5 DEF IInv
<1>7. QED
  BY <1>1, <1>2, <1>3, <1>4, <1>5, <1>6 DEF TaskNext, HandlerNext

LEMMA CollectorStep ==
    ASSUME IInv, CollectorNext
    PROVE  IInv'
<1> USE TravellersAreRequests, RootAssumption, EmptyQueue, EmptySeq
    DEF senderVars, taskVars, WaitGroupDone
<1>0. respQ # <<>> => /\ Head(respQ) \in Requests /\ Tail(respQ) \in Seq(Requests)
                      /\ Range(respQ) = {Head(respQ)} \cup Range(Tail(respQ))
                      /\ IsInjective(respQ) =>
                            /\ Head(respQ) \notin Range(Tail(respQ))
                            /\ IsInjective(Tail(respQ))
  BY LeaveQueue DEF IInv, TypeOK
<1>1. CASE Collect
  <2>1. TypeOK'
    BY <1>0, <1>1 DEF IInv, TypeOK, Collect
  <2>2. GuardsExact'
    BY <1>0, <1>1 DEF IInv, GuardsExact, OnePlace, OnTheWay, Collect
  <2>3. OnePlace'
    BY <1>0, <1>1 DEF IInv, OnePlace, OnTheWay, Collect
  <2>4. Accounted'
    BY <1>0, <1>1 DEF IInv, Accounted, OnTheWay, Endings, Collect
  <2>5. Endings'
    BY <1>0, <1>1 DEF IInv, TypeOK, Endings, Collect
  <2>6. QED
    BY <2>1, <2>2, <2>3, <2>4, <2>5 DEF IInv
<1>2. CASE CollectFails
  <2>1. TypeOK'
    BY <1>2 DEF IInv, TypeOK, CollectFails
  <2>2. GuardsExact'
    BY <1>2 DEF IInv, GuardsExact, OnePlace, OnTheWay, CollectFails
  <2>3. OnePlace'
    BY <1>2 DEF IInv, OnePlace, OnTheWay, CollectFails
  <2>4. Accounted'
    BY <1>2 DEF IInv, Accounted, OnTheWay, Endings, CollectFails
  <2>5. Endings'
    BY <1>0, <1>2 DEF IInv, TypeOK, Endings, CollectFails
  <2>6. QED
    BY <2>1, <2>2, <2>3, <2>4, <2>5 DEF IInv
<1>3. CASE CollectDone
  <2>1. TypeOK'
    BY <1>3 DEF IInv, TypeOK, CollectDone
  <2>2. GuardsExact'
    BY <1>3 DEF IInv, GuardsExact, OnePlace, OnTheWay, CollectDone
  <2>3. OnePlace'
    BY <1>3 DEF IInv, OnePlace, OnTheWay, CollectDone
  <2>4. Accounted'
    BY <1>3 DEF IInv, TypeOK, GuardsExact, Accounted, OnTheWay, Endings, CollectDone
  <2>5. Endings'
    BY <1>3 DEF IInv, TypeOK, Endings, CollectDone
  <2>6. QED
    BY <2>1, <2>2, <2>3, <2>4, <2>5 DEF IInv
<1>4. CASE CollectClosed
  <2>1. TypeOK'
    BY <1>4 DEF IInv, TypeOK, CollectClosed
  <2>2. GuardsExact'
    BY <1>4 DEF IInv, GuardsExact, OnePlace, OnTheWay, CollectClosed
  <2>3. OnePlace'
    BY <1>4 DEF IInv, OnePlace, OnTheWay, CollectClosed
  <2>4. Accounted'
    BY <1>4 DEF IInv, Accounted, OnTheWay, Endings, CollectClosed
  <2>5. Endings'
    BY <1>4 DEF IInv, TypeOK, Endings, CollectClosed
  <2>6. QED
    BY <2>1, <2>2, <2>3, <2>4, <2>5 DEF IInv
<1>5. QED
  BY <1>1, <1>2, <1>3, <1>4 DEF CollectorNext

LEMMA JoinStep ==
    ASSUME IInv, Join
    PROVE  IInv'
<1> USE DEF senderVars, taskVars
<1>1. main' = "ok" => counted = Requests
  BY TravellersAreRequests, EmptyQueue
  DEF IInv, TypeOK, Accounted, OnTheWay, Endings, Join, Verdict
<1>2. TypeOK' /\ GuardsExact' /\ OnePlace' /\ Accounted'
  BY DEF IInv, TypeOK, GuardsExact, OnePlace, Accounted, OnTheWay, Join, Verdict
<1>3. Endings'
  BY <1>1 DEF IInv, TypeOK, Endings, Join, Verdict
<1>4. QED
  BY <1>2, <1>3 DEF IInv

\* Every reachable state of the pipeline has its requests where IInv says.
THEOREM Invariant == Spec => []IInv
<1>1. Init => IInv
  BY EmptyQueue, EmptySeq, RootAssumption
  DEF Init, IInv, TypeOK, GuardsExact, OnePlace, Accounted, OnTheWay, Endings
<1>2. IInv /\ [Next]_vars => IInv'
  <2> SUFFICES ASSUME IInv, [Next]_vars PROVE IInv'
    OBVIOUS
  <2>1. CASE SenderNext
    BY <2>1, SenderStep
  <2>2. CASE TaskNext \/ \E r \in Requests : HandlerNext(r)
    BY <2>2, TaskStep
  <2>3. CASE CollectorNext
    BY <2>3, CollectorStep
  <2>4. CASE Join
    BY <2>4, JoinStep
  <2>5. CASE UNCHANGED vars
    BY <2>5 DEF vars, senderVars, taskVars, IInv, TypeOK, GuardsExact, OnePlace,
                Accounted, OnTheWay, Endings
  <2>6. QED
    BY <2>1, <2>2, <2>3, <2>4, <2>5 DEF Next, Returned
<1>3. QED
  BY <1>1, <1>2, PTL DEF Spec
\* A run that reports success has counted every response.
THEOREM NoLoss == Spec => []NoResponseLost
<1>1. IInv => NoResponseLost
  BY DEF IInv, Endings, NoResponseLost
<1>2. QED
  BY <1>1, Invariant, PTL

\* What the wait group's comment claims of the channels.
THEOREM WaitGroupCorrect == Spec => []NothingLeftWhenDone
<1>1. IInv => NothingLeftWhenDone
  <2> SUFFICES ASSUME IInv, WaitGroupDone PROVE NothingLeftWhenDone
    BY DEF NothingLeftWhenDone
  <2>1. Range(reqQ) = {} /\ Range(respQ) = {} /\ hand \cup checking \cup answered = {}
    BY DEF IInv, GuardsExact, OnTheWay, WaitGroupDone
  <2>2. reqQ = <<>> /\ respQ = <<>>
    BY <2>1, NoElements DEF IInv, TypeOK
  <2>3. QED
    BY <2>1, <2>2 DEF NothingLeftWhenDone
<1>2. QED
  BY <1>1, Invariant, PTL

\* The sender's failure is always hidden by the failure that caused it, and a
\* task's panic by the user error unless a handler panicked.
THEOREM FailuresInOrder == Spec => [](ExpectNeverReached /\ UserErrorShown)
<1>1. IInv => ExpectNeverReached /\ UserErrorShown
  BY DEF IInv, TypeOK, Endings, ExpectNeverReached, UserErrorShown
<1>2. QED
  BY <1>1, Invariant, PTL
-----------------------------------------------------------------------------
\* The pipeline implements LinkCheck: Collect counts a response, Join ends the
\* run, and every other step changes nothing that LinkCheck sees.
THEOREM Refinement == Spec => ImplementsLinkCheck
<1>1. Init => Promise!Init
  BY DEF Init, Promise!Init
<1>2. IInv /\ [Next]_vars => [Promise!Next]_(Promise!vars)
  <2> SUFFICES ASSUME IInv, [Next]_vars PROVE [Promise!Next]_(Promise!vars)
    OBVIOUS
  <2> USE DEF Promise!Next, Promise!vars, senderVars, taskVars
  <2>1. CASE SenderNext
    BY <2>1 DEF SenderNext, Pull, Send, SendFails, SendDone
  <2>2. CASE TaskNext \/ \E r \in Requests : HandlerNext(r)
    BY <2>2 DEF TaskNext, HandlerNext, Take, Handled, Respond, RespondPanics,
                HandlePanics, TaskDone, Unwind
  <2>3. CASE Collect
    <3>1. /\ Head(respQ) \in Range(respQ) /\ Head(respQ) \in Requests
          /\ Head(respQ) \notin counted
      BY <2>3, LeaveQueue DEF IInv, TypeOK, OnePlace, OnTheWay, Endings, Collect
    <3>2. main = "join"
      BY <2>3 DEF IInv, Endings, Collect
    <3>3. Promise!Count(Head(respQ))
      BY <2>3, <3>1, <3>2 DEF Promise!Count, Collect
    <3>4. QED
      BY <3>1, <3>3
  <2>4. CASE CollectFails \/ CollectDone \/ CollectClosed
    BY <2>4 DEF CollectFails, CollectDone, CollectClosed
  <2>5. CASE Join
    <3>1. Promise!Succeed \/ Promise!Fail
      BY <2>5, JoinStep DEF IInv, TypeOK, Endings, Join, Verdict, Promise!Succeed,
                            Promise!Fail
    <3>2. QED
      BY <3>1
  <2>6. CASE UNCHANGED vars
    BY <2>6 DEF vars
  <2>7. QED
    BY <2>1, <2>2, <2>3, <2>4, <2>5, <2>6 DEF Next, CollectorNext, Returned
<1>3. QED
  BY <1>1, <1>2, Invariant, PTL DEF Spec, ImplementsLinkCheck, Promise!Spec
-----------------------------------------------------------------------------
(* Run: the inductive invariant *)

Phases == {"open", "dump", "dump_inputs", "check", "suggest", "report", "cache", "cookies",
           "code", "exited"}
AfterCheck == {"suggest", "report", "cache", "cookies", "code"}

\* The last part of a run knows how it began: only a check checks, and it ends when it exits.
PhaseRight ==
    /\ given \in Runs /\ phase \in Phases
    /\ phase \in AfterCheck \cup {"check"} => Checking
    /\ phase = "open" => ~Checking
    /\ phase = "dump_inputs" => flag("dump_inputs")
    /\ phase = "dump" => flag("dump") /\ ~flag("dump_inputs")
    /\ exit = {} <=> phase # "exited"

\* The links so far are on their way or answered; after the check all of them are answered.
OnTheirWay ==
    /\ next \in Nat \ {0} /\ sending \in BOOLEAN
    /\ DOMAIN responses \subseteq DOMAIN given.requests
    /\ Checking =>
           /\ flight \cup DOMAIN responses = 1 .. next - 1
           /\ flight \cap DOMAIN responses = {}
           /\ next <= Len(given.requests) + 1
           /\ sending => next <= Len(given.requests)
    /\ phase \in AfterCheck => AllAnswered

\* A response is one of those its request may have.
ResponsesTyped ==
    \A i \in DOMAIN responses :
        /\ responses[i].status \in Statuses
        /\ responses[i].scheme \in Schemes \cup {"error"}

\* The two maps of failures are about exactly the links that have failed.
MapsExact ==
    /\ stats = [counts |-> stats.counts, maps |-> stats.maps, seen_uris |-> stats.seen_uris]
    /\ DOMAIN stats.maps = Maps
    /\ stats.maps["timeout"] = {EntryOf(i) : i \in {j \in Failed : is_timeout(responses[j].status)}}
    /\ stats.maps["error"] = {EntryOf(i) : i \in {j \in Failed : ~is_timeout(responses[j].status)}}

CountersExact ==
    /\ stats.counts \in [Counters -> Nat]
    /\ stats.seen_uris = {responses[i].uri : i \in DOMAIN responses}
    /\ SummaryAgrees

\* Only failed links from the web are looked up, and suggested for.
LookupsFailed ==
    /\ lookups = [waiting |-> lookups.waiting, asked |-> lookups.asked]
    /\ phase = "check" => lookups.waiting = {} /\ lookups.asked = {}
    /\ lookups.waiting \cup lookups.asked \subseteq get_failed_urls(stats.maps["error"])
    /\ \A e \in stats.maps["suggestion"] :
           \E f \in get_failed_urls(stats.maps["error"]) :
               f.source = e.source /\ f.item.uri = e.item.original

\* How far the bar is: in check at the number of responses, of what is announced; then at
\* what has been heard of.
BarExact ==
    /\ bar \in [length : Nat, position : Nat]
    /\ ~Visible \/ ~Checking => bar.length = 0 /\ bar.position = 0
    /\ Visible /\ phase = "check" =>
           /\ bar.length = IF sending THEN next ELSE next - 1
           /\ bar.position = Cardinality(DOMAIN responses)
    /\ IsFiniteSet(lookups.waiting) /\ IsFiniteSet(lookups.asked)
    /\ lookups.waiting \cap lookups.asked = {}
    /\ Visible /\ phase = "suggest" =>
           bar.length = bar.position + Cardinality(lookups.waiting) + Cardinality(lookups.asked)
    /\ ProgressComplete

\* What has been written when; after that the report says what the maps say.
WithCache == IF flag("cache") THEN <<"cache">> ELSE <<>>
WithCookies == IF "cookie_jar" \in DOMAIN given.config THEN <<"cookies">> ELSE <<>>
SavedSoFar ==
    /\ phase \in {"check", "suggest", "report"} => saved = <<>> /\ shown = <<>>
    /\ ~Checking => shown = <<>>
    /\ phase \in {"cache", "cookies", "code"} => shown # <<>>
    /\ phase = "cache" => saved = <<"report">>
    /\ phase = "cookies" => saved = <<"report">> \o WithCache
    /\ phase = "code" => saved = <<"report">> \o WithCache \o WithCookies

\* What the dumps have gone through so far.
Wanted_links(n) == {i \in 1 .. n : /\ given.requests[i].error = "none"
                                   /\ ~given.requests[i].excluded /\ given.requests[i].scheme # "data"}
DumpedSoFar ==
    /\ lines \in Seq(DOMAIN given.requests \cup ToSet(given.sources))
    /\ phase = "open" => next = 1 /\ lines = <<>> /\ seen = {}
    /\ phase = "dump" =>
           /\ next <= Len(given.requests) + 1
           /\ \A i \in 1 .. next - 1 : given.requests[i].error # "UserInputContent"
           /\ ~given.piped => Wanted_links(next - 1) \subseteq ToSet(lines)
    /\ phase = "dump_inputs" =>
           /\ next <= Len(given.sources) + 1
           /\ IsInjective(lines) /\ ToSet(lines) \subseteq seen
           /\ seen = {given.sources[i] : i \in 1 .. next - 1} /\ "error" \notin seen
           /\ ~given.piped => ToSet(lines) = seen

RunIInv ==
    /\ PhaseRight /\ OnTheirWay /\ ResponsesTyped /\ MapsExact /\ CountersExact
    /\ LookupsFailed /\ BarExact /\ SavedSoFar /\ DumpedSoFar
    /\ ReportShowsFailures /\ ExitCodeTells /\ DumpTells

-----------------------------------------------------------------------------
(* What a step of Run changes *)

\* Only the options of a run and what it has been given stay as they are; every other part of
\* the state is the business of a few actions.
LEMMA RunStep ==
    ASSUME RunNext
    PROVE  /\ given' = given
           /\ \/ UNCHANGED <<responses, stats>>
              \/ \E i \in flight : CollectResponse(i)
              \/ \E e \in lookups.asked, reply \in Replies : Hear(e, reply)
           /\ \/ UNCHANGED <<next, sending, flight, responses>>
              \/ Announce \/ SendRequest \/ (\E i \in flight : CollectResponse(i))
              \/ Dump \/ DumpInput
           /\ \/ UNCHANGED <<bar, lookups>>
              \/ Announce \/ (\E i \in flight : CollectResponse(i)) \/ EndCheck
              \/ (\E e \in lookups.waiting : Ask(e))
              \/ \E e \in lookups.asked, reply \in Replies : Hear(e, reply)
           /\ \/ UNCHANGED <<shown, saved>>
              \/ output_statistics \/ StoreCache \/ SaveCookies
           /\ \/ UNCHANGED <<lines, seen>>
              \/ Dump \/ DumpInput
           /\ \/ phase' = phase
              \/ phase' = "exited"
              \/ EndCheck \/ EndSuggest \/ output_statistics \/ StoreCache \/ SaveCookies \/ Open
<1> USE DEF checkVars, dumpVars, endVars
<1>1. CASE Announce
  BY <1>1 DEF Announce
<1>2. CASE SendRequest
  BY <1>2 DEF SendRequest
<1>3. CASE EndCheck
  BY <1>3 DEF EndCheck
<1>4. CASE \E i \in flight : CollectResponse(i)
  BY <1>4 DEF CollectResponse
<1>5. CASE \E i \in flight : CollectUserError(i)
  BY <1>5 DEF CollectUserError, Exit
<1>6. CASE \E e \in lookups.waiting : Ask(e)
  BY <1>6 DEF Ask
<1>7. CASE \E e \in lookups.asked, reply \in Replies : Hear(e, reply)
  BY <1>7 DEF Hear
<1>8. CASE EndSuggest
  BY <1>8 DEF EndSuggest
<1>9. CASE output_statistics
  BY <1>9 DEF output_statistics
<1>10. CASE StoreCache
  BY <1>10 DEF StoreCache
<1>11. CASE SaveCookies
  BY <1>11 DEF SaveCookies
<1>12. CASE ReturnCode
  BY <1>12 DEF ReturnCode, Exit
<1>13. CASE Open
  BY <1>13 DEF Open
<1>14. CASE Dump
  BY <1>14 DEF Dump, Exit
<1>15. CASE DumpInput
  BY <1>15 DEF DumpInput, Exit
<1>16. CASE EndDump
  BY <1>16 DEF EndDump, Exit
<1>17. QED
  BY <1>1, <1>2, <1>3, <1>4, <1>5, <1>6, <1>7, <1>8, <1>9, <1>10, <1>11, <1>12, <1>13,
     <1>14, <1>15, <1>16 DEF RunNext

\* Where the run is and how it ends go together.
LEMMA PhaseStep ==
    ASSUME PhaseRight, RunNext
    PROVE  PhaseRight'
<1> USE DEF PhaseRight, Phases, AfterCheck, Checking, flag
<1>1. given' = given
  BY RunStep
<1>2. CASE Announce \/ SendRequest \/ EndCheck
  BY <1>1, <1>2 DEF Announce, SendRequest, EndCheck, endVars
<1>3. CASE \E i \in flight : CollectResponse(i) \/ CollectUserError(i)
  BY <1>1, <1>3 DEF CollectResponse, CollectUserError, Exit, endVars
<1>4. CASE (\E e \in lookups.waiting : Ask(e)) \/ EndSuggest
  BY <1>1, <1>4 DEF Ask, EndSuggest, endVars
<1>5. CASE \E e \in lookups.asked, reply \in Replies : Hear(e, reply)
  BY <1>1, <1>5 DEF Hear, endVars
<1>6. CASE output_statistics
  BY <1>1, <1>6 DEF output_statistics, Write, Exit
<1>7. CASE StoreCache \/ SaveCookies
  BY <1>1, <1>7 DEF StoreCache, SaveCookies, Save, Exit
<1>8. CASE ReturnCode
  BY <1>1, <1>8 DEF ReturnCode, Exit
<1>9. CASE Open
  BY <1>1, <1>9 DEF Open, Exit
<1>10. CASE Dump
  BY <1>1, <1>10 DEF Dump, Exit
<1>11. CASE DumpInput
  BY <1>1, <1>11 DEF DumpInput, Exit
<1>12. CASE EndDump
  BY <1>1, <1>12 DEF EndDump, Exit
<1>13. QED
  BY <1>2, <1>3, <1>4, <1>5, <1>6, <1>7, <1>8, <1>9, <1>10, <1>11, <1>12 DEF RunNext

\* An answer is to one request that had none, and is of its kind.
LEMMA OneMore ==
    ASSUME PhaseRight, OnTheirWay, NEW i \in flight, CollectResponse(i)
    PROVE  \E body :
               /\ body.status \in Statuses /\ body.scheme \in Schemes \cup {"error"}
               /\ stats' = add(stats, given.requests[i].source, body)
               /\ i \in DOMAIN given.requests /\ i \notin DOMAIN responses
               /\ DOMAIN responses' = DOMAIN responses \cup {i}
               /\ responses'[i] = body
               /\ \A j \in DOMAIN responses : responses'[j] = responses[j]
<1>1. Checking /\ given \in Runs
  BY DEF PhaseRight, CollectResponse
<1>2. i \in DOMAIN given.requests /\ i \notin DOMAIN responses
  BY <1>1, RunsAssumption DEF OnTheirWay
<1>3. PICK body \in into_response(given.requests[i]) :
          /\ stats' = add(stats, given.requests[i].source, body)
          /\ responses' = [j \in DOMAIN responses \cup {i} |-> IF j = i THEN body ELSE responses[j]]
  BY DEF CollectResponse
<1>4. body.status \in Statuses /\ body.scheme \in Schemes \cup {"error"}
  <2>1. CASE given.requests[i].error = "none"
    BY <1>1, <1>2, <2>1, RunsAssumption DEF into_response
  <2>2. CASE given.requests[i].error # "none"
    BY <2>2 DEF into_response, ErrorBody, Error, Plain, NoCode, Statuses
  <2>3. QED
    BY <2>1, <2>2
<1>5. /\ DOMAIN responses' = DOMAIN responses \cup {i} /\ responses'[i] = body
      /\ \A j \in DOMAIN responses : responses'[j] = responses[j]
  BY <1>2, <1>3
<1>6. QED
  BY <1>2, <1>3, <1>4, <1>5

\* Each action moves a link at most from the sender to its way, or from there to the responses.
LEMMA OnTheirWayStep ==
    ASSUME PhaseRight, OnTheirWay, RunNext
    PROVE  OnTheirWay'
<1>1. given' = given /\ given \in Runs
  BY RunStep DEF PhaseRight
<1>2. (Checking <=> Checking') /\ Len(given.requests) \in Nat
      /\ DOMAIN given.requests = 1 .. Len(given.requests)
  BY <1>1, RunsAssumption DEF Checking, flag
<1>3. CASE Announce
  <2>1. /\ next <= Len(given.requests) /\ sending' = TRUE /\ phase' = "check"
        /\ UNCHANGED <<next, flight, responses>>
    BY <1>3 DEF Announce
  <2>2. QED
    BY <1>1, <1>2, <2>1 DEF OnTheirWay, AfterCheck
<1>4. CASE SendRequest
  <2>1. /\ sending /\ sending' = FALSE /\ flight' = flight \cup {next} /\ next' = next + 1
        /\ phase = "check" /\ phase' = "check" /\ responses' = responses
    BY <1>4 DEF SendRequest
  <2>2. Checking
    BY <2>1 DEF PhaseRight
  <2>3. next \notin 1 .. next - 1 /\ 1 .. (next + 1) - 1 = (1 .. next - 1) \cup {next}
    BY DEF OnTheirWay
  <2>4. /\ flight' \cup DOMAIN responses' = 1 .. next' - 1
        /\ flight' \cap DOMAIN responses' = {}
    BY <2>1, <2>2, <2>3 DEF OnTheirWay
  <2>5. next' \in Nat \ {0} /\ next' <= Len(given.requests) + 1
    BY <1>2, <2>1, <2>2 DEF OnTheirWay
  <2>6. sending' = FALSE /\ phase' \notin AfterCheck
    BY <2>1 DEF AfterCheck
  <2>7. DOMAIN responses' \subseteq DOMAIN given'.requests
    BY <1>1, <2>1 DEF OnTheirWay
  <2>8. QED
    BY <1>1, <2>4, <2>5, <2>6, <2>7 DEF OnTheirWay
<1>5. CASE \E i \in flight : CollectResponse(i)
  <2>1. PICK i \in flight : CollectResponse(i)
    BY <1>5
  <2>2. /\ DOMAIN responses' = DOMAIN responses \cup {i} /\ i \in DOMAIN given.requests
        /\ flight' = flight \ {i} /\ phase' = "check" /\ UNCHANGED <<next, sending>>
    BY <2>1, OneMore DEF CollectResponse
  <2>3. QED
    BY <1>1, <1>2, <2>2 DEF OnTheirWay, AfterCheck
<1>6. CASE EndCheck
  <2>1. /\ phase = "check" /\ next > Len(given.requests) /\ flight = {}
        /\ UNCHANGED <<next, sending, flight, responses>>
    BY <1>6 DEF EndCheck, checkVars
  <2>2. AllAnswered'
    BY <1>1, <1>2, <2>1 DEF OnTheirWay, PhaseRight, AllAnswered
  <2>3. QED
    BY <1>1, <1>2, <2>1, <2>2 DEF OnTheirWay
<1>7. CASE Dump \/ DumpInput
  <2>1. /\ phase' \in {phase, "exited"} /\ next' \in {next, next + 1}
        /\ UNCHANGED <<sending, flight, responses>>
    BY <1>7 DEF Dump, DumpInput, Exit, checkVars
  <2>2. ~Checking /\ phase' \notin AfterCheck
    BY <1>7, <2>1 DEF Dump, DumpInput, PhaseRight, Checking, AfterCheck
  <2>3. QED
    BY <1>1, <1>2, <2>1, <2>2 DEF OnTheirWay
<1>8. CASE UNCHANGED <<next, sending, flight, responses>> /\ ~EndCheck
  <2>1. phase' \in AfterCheck => phase \in AfterCheck
    <3>1. CASE phase' = phase \/ phase' = "exited"
      BY <3>1 DEF AfterCheck
    <3>2. CASE EndSuggest \/ output_statistics \/ StoreCache \/ SaveCookies
      BY <3>2 DEF EndSuggest, output_statistics, StoreCache, SaveCookies, AfterCheck
    <3>3. CASE Open
      BY <3>3 DEF Open, Exit, AfterCheck
    <3>4. QED
      BY <1>8, <3>1, <3>2, <3>3, RunStep
  <2>2. QED
    BY <1>1, <1>2, <1>8, <2>1 DEF OnTheirWay, AllAnswered
<1>9. QED
  BY <1>3, <1>4, <1>5, <1>6, <1>7, <1>8, RunStep

\* Responses stay responses.
LEMMA TypedStep ==
    ASSUME PhaseRight, OnTheirWay, ResponsesTyped, RunNext
    PROVE  ResponsesTyped'
<1>1. CASE responses' = responses
  BY <1>1 DEF ResponsesTyped
<1>2. CASE \E i \in flight : CollectResponse(i)
  BY <1>2, OneMore DEF ResponsesTyped
<1>3. CASE \E e \in lookups.asked, reply \in Replies : Hear(e, reply)
  BY <1>1, <1>3 DEF Hear
<1>4. QED
  BY <1>1, <1>2, <1>3, RunStep

-----------------------------------------------------------------------------
(* The statistics *)

\* A status has one counter, and it has an entry in a map of failures if it is one.
LEMMA StatusParts ==
    ASSUME NEW status \in Statuses
    PROVE  /\ status.kind \in {"Ok", "Error", "Timeout", "UnknownMailStatus", "Excluded",
                               "Unsupported"}
           /\ CounterOf(status) = "errors" <=> is_error(status) /\ ~is_timeout(status)
           /\ CounterOf(status) = "timeouts" <=> is_timeout(status)
           /\ CounterOf(status) \in StatusCounters
           /\ "timeout" \in MapOf(status) <=> is_timeout(status)
           /\ "error" \in MapOf(status) <=> is_error(status) /\ ~is_timeout(status)
           /\ "suggestion" \notin MapOf(status)
<1>1. status.kind \in {"Ok", "Error", "Timeout", "UnknownMailStatus", "Excluded", "Unsupported"}
  BY DEF Statuses
<1>2. /\ CounterOf(status) = "errors" <=> status.kind = "Error"
      /\ CounterOf(status) = "timeouts" <=> status.kind = "Timeout"
      /\ CounterOf(status) \in StatusCounters
  BY <1>1 DEF CounterOf, StatusCounters
<1>3. /\ "timeout" \in MapOf(status) <=> is_timeout(status)
      /\ "error" \in MapOf(status) <=> is_error(status) /\ ~is_timeout(status)
      /\ "suggestion" \notin MapOf(status)
  BY <1>1 DEF MapOf, is_timeout, is_error, is_success, is_excluded
<1>4. QED
  BY <1>1, <1>2, <1>3 DEF is_error, is_timeout

\* What stats.add does to the maps of failures and the suggestions.
LEMMA MapsAfter ==
    ASSUME NEW s, NEW source, NEW body, body.status \in Statuses
    PROVE  LET maps == add(s, source, body).maps
               failed == {Entry(source, body)}
           IN  /\ DOMAIN maps = Maps
               /\ maps["timeout"] = s.maps["timeout"] \cup
                      (IF is_timeout(body.status) THEN failed ELSE {})
               /\ maps["error"] = s.maps["error"] \cup
                      (IF is_error(body.status) /\ ~is_timeout(body.status) THEN failed ELSE {})
               /\ maps["suggestion"] = s.maps["suggestion"]
<1>1. add(s, source, body).maps = add_response_status(s.maps, source, body)
  BY DEF add
<1>2. QED
  BY <1>1, StatusParts DEF add_response_status, Maps

\* A response enters the map its status asks for, and suggestions are no failures.
LEMMA MapsStep ==
    ASSUME PhaseRight, OnTheirWay, MapsExact, RunNext
    PROVE  MapsExact'
<1>1. given' = given
  BY RunStep
<1>2. CASE \E i \in flight : CollectResponse(i)
  <2>1. PICK i \in flight : CollectResponse(i)
    BY <1>2
  <2>2. PICK body :
            /\ body.status \in Statuses
            /\ stats' = add(stats, given.requests[i].source, body)
            /\ i \notin DOMAIN responses
            /\ DOMAIN responses' = DOMAIN responses \cup {i}
            /\ responses'[i] = body
            /\ \A j \in DOMAIN responses : responses'[j] = responses[j]
    BY <2>1, OneMore
  <2> DEFINE entry == Entry(given.requests[i].source, body)
             T == {j \in Failed : is_timeout(responses[j].status)}
             E == {j \in Failed : ~is_timeout(responses[j].status)}
  <2>3. /\ \A j \in DOMAIN responses : EntryOf(j)' = EntryOf(j)
        /\ EntryOf(i)' = entry
    BY <1>1, <2>2 DEF EntryOf
  <2>4. /\ T' = T \cup (IF is_timeout(body.status) THEN {i} ELSE {})
        /\ E' = E \cup (IF is_error(body.status) /\ ~is_timeout(body.status) THEN {i} ELSE {})
    BY <2>2 DEF Failed, is_error, is_timeout
  <2>5. T \subseteq DOMAIN responses /\ E \subseteq DOMAIN responses
    BY DEF Failed
  <2> HIDE DEF T, E
  <2>6. /\ stats'.maps["timeout"] = {EntryOf(j)' : j \in T'}
        /\ stats'.maps["error"] = {EntryOf(j)' : j \in E'}
    <3>1. /\ {EntryOf(j)' : j \in T'} =
                 {EntryOf(j) : j \in T} \cup (IF is_timeout(body.status) THEN {entry} ELSE {})
          /\ {EntryOf(j)' : j \in E'} =
                 {EntryOf(j) : j \in E} \cup
                     (IF is_error(body.status) /\ ~is_timeout(body.status) THEN {entry} ELSE {})
      BY <2>3, <2>4, <2>5
    <3>2. stats.maps["timeout"] = {EntryOf(j) : j \in T} /\ stats.maps["error"] = {EntryOf(j) : j \in E}
      BY DEF MapsExact, T, E
    <3>3. QED
      BY <2>2, <3>1, <3>2, MapsAfter
  <2>7. /\ stats' = [counts |-> stats'.counts, maps |-> stats'.maps, seen_uris |-> stats'.seen_uris]
        /\ DOMAIN stats'.maps = Maps
    <3>1. DOMAIN stats'.maps = Maps
      BY <2>2, MapsAfter
    <3>2. QED
      BY <2>2, <3>1 DEF add
  <2>8. QED
    BY <2>6, <2>7 DEF MapsExact, T, E
<1>3. CASE \E e \in lookups.asked, reply \in Replies : Hear(e, reply)
  <2>1. PICK e \in lookups.asked, reply \in Replies : Hear(e, reply)
    BY <1>3
  <2>2. /\ responses' = responses
        /\ \/ stats' = stats
           \/ stats' = [stats EXCEPT !.maps["suggestion"] = @ \cup {SuggestionFor(e)}]
    BY <2>1 DEF Hear
  <2>3. /\ stats' = [counts |-> stats'.counts, maps |-> stats'.maps, seen_uris |-> stats'.seen_uris]
        /\ DOMAIN stats'.maps = Maps
        /\ stats'.maps["timeout"] = stats.maps["timeout"]
        /\ stats'.maps["error"] = stats.maps["error"]
    BY <2>2 DEF MapsExact, Maps
  <2>4. QED
    BY <1>1, <2>2, <2>3 DEF MapsExact, Failed, EntryOf
<1>4. CASE UNCHANGED <<responses, stats>>
  BY <1>1, <1>4 DEF MapsExact, Failed, EntryOf
<1>5. QED
  BY <1>2, <1>3, <1>4, RunStep

\* At any time there are finitely many responses and failures.
LEMMA FailuresFinite ==
    ASSUME PhaseRight, OnTheirWay, MapsExact
    PROVE  /\ IsFiniteSet(DOMAIN responses)
           /\ IsFiniteSet(get_failed_urls(stats.maps["error"]))
<1>1. IsFiniteSet(DOMAIN responses)
  <2>1. given \in Runs
    BY DEF PhaseRight
  <2>2. IsFiniteSet(DOMAIN given.requests)
    BY <2>1, RunsAssumption, FS_Interval
  <2>3. QED
    BY <2>2, FS_Subset DEF OnTheirWay
<1> DEFINE E == {j \in Failed : ~is_timeout(responses[j].status)}
           f == [j \in E |-> EntryOf(j)]
<1>2. IsFiniteSet(E)
  BY <1>1, FS_Subset DEF Failed
<1>3. f \in Surjection(E, stats.maps["error"])
  BY DEF Surjection, MapsExact
<1>4. IsFiniteSet(stats.maps["error"])
  BY <1>2, <1>3, FS_Surjection
<1>5. QED
  BY <1>1, <1>4, FS_Subset DEF get_failed_urls

\* What stats.add does to the counters that SummaryAgrees is about: exactly one of the six
\* that are about the status goes up.
LEMMA CountsAfter ==
    ASSUME NEW s, s.counts \in [Counters -> Nat],
           NEW source, NEW body, body.status \in Statuses
    PROVE  LET old == s.counts
               counts == add(s, source, body).counts
               One(c) == IF CounterOf(body.status) = c THEN 1 ELSE 0
           IN  /\ counts \in [Counters -> Nat]
               /\ counts["total"] = old["total"] + 1
               /\ \A c \in StatusCounters : counts[c] = old[c] + One(c)
               /\ counts["unique"] = old["unique"] + (IF body.uri \in s.seen_uris THEN 0 ELSE 1)
               /\ counts["cached"] = old["cached"] + (IF body.status.from = "cache" THEN 1 ELSE 0)
<1> DEFINE increments == {"total"} \cup increment_status_counters(body.status)
                         \cup (IF body.uri \in s.seen_uris THEN {} ELSE {"unique"})
                         \cup (IF body.redirects = "none" THEN {} ELSE {"redirects"})
                         \cup (IF body.remap = "none" THEN {} ELSE {"remaps"})
           counts == add(s, source, body).counts
<1>1. counts = [c \in Counters |-> s.counts[c] + (IF c \in increments THEN 1 ELSE 0)]
  BY DEF add
<1>2. increment_status_counters(body.status) =
          {CounterOf(body.status)} \cup (IF body.status.from = "cache" THEN {"cached"} ELSE {})
  BY DEF increment_status_counters
<1>3. CounterOf(body.status) \in StatusCounters
  BY StatusParts
<1>4. /\ "total" \in increments
      /\ \A c \in StatusCounters : c \in increments <=> CounterOf(body.status) = c
      /\ "unique" \in increments <=> body.uri \notin s.seen_uris
      /\ "cached" \in increments <=> body.status.from = "cache"
  BY <1>2, <1>3 DEF StatusCounters
<1>5. StatusCounters \cup {"total", "unique", "cached"} \subseteq Counters
  BY DEF Counters
<1> HIDE DEF increments, counts
<1>6. /\ counts \in [Counters -> Nat]
      /\ \A c \in Counters : counts[c] = s.counts[c] + (IF c \in increments THEN 1 ELSE 0)
  BY <1>1
<1>7. QED
  BY <1>4, <1>5, <1>6 DEF counts

\* An answer is increments once, under its status, its uri and whether it was cached.
LEMMA CountsAnswer ==
    ASSUME PhaseRight, OnTheirWay, MapsExact, CountersExact,
           NEW i \in flight, CollectResponse(i)
    PROVE  CountersExact'
<1>1. PICK body :
          /\ body.status \in Statuses
          /\ stats' = add(stats, given.requests[i].source, body)
          /\ i \notin DOMAIN responses
          /\ DOMAIN responses' = DOMAIN responses \cup {i}
          /\ responses'[i] = body
          /\ \A j \in DOMAIN responses : responses'[j] = responses[j]
  BY OneMore
<1> DEFINE old == stats.counts
           counts == stats'.counts
           One(c) == IF CounterOf(body.status) = c THEN 1 ELSE 0
           FromCache == {j \in DOMAIN responses : responses[j].status.from = "cache"}
           Uris == {responses[j].uri : j \in DOMAIN responses}
<1>2. IsFiniteSet(DOMAIN responses)
  BY FailuresFinite
<1>3. IsFiniteSet(Failed) /\ IsFiniteSet(FromCache) /\ IsFiniteSet(Uris)
  <2>1. Failed \subseteq DOMAIN responses /\ FromCache \subseteq DOMAIN responses
    BY DEF Failed
  <2>2. IsFiniteSet(Uris)
    <3> DEFINE f == [j \in DOMAIN responses |-> responses[j].uri]
    <3>1. f \in Surjection(DOMAIN responses, Uris)
      BY DEF Surjection
    <3>2. QED
      BY <1>2, <3>1, FS_Surjection
  <2>3. QED
    BY <1>2, <2>1, <2>2, FS_Subset
<1>4. /\ DOMAIN responses' = DOMAIN responses \cup {i}
      /\ Failed' = Failed \cup (IF is_error(body.status) THEN {i} ELSE {})
      /\ FromCache' = FromCache \cup (IF body.status.from = "cache" THEN {i} ELSE {})
      /\ Uris' = Uris \cup {body.uri}
      /\ i \notin DOMAIN responses /\ i \notin Failed /\ i \notin FromCache
  BY <1>1 DEF Failed
<1> HIDE DEF FromCache, Uris
<1>5. /\ Cardinality(DOMAIN responses') = Cardinality(DOMAIN responses) + 1
      /\ Cardinality(Failed') = Cardinality(Failed) + (IF is_error(body.status) THEN 1 ELSE 0)
      /\ Cardinality(FromCache') = Cardinality(FromCache) + (IF body.status.from = "cache" THEN 1 ELSE 0)
      /\ Cardinality(Uris') = Cardinality(Uris) + (IF body.uri \in Uris THEN 0 ELSE 1)
  <2>1. /\ Cardinality(DOMAIN responses) \in Nat /\ Cardinality(Failed) \in Nat
        /\ Cardinality(FromCache) \in Nat /\ Cardinality(Uris) \in Nat
    BY <1>2, <1>3, FS_CardinalityType
  <2>2. Cardinality(DOMAIN responses') = Cardinality(DOMAIN responses) + 1
    BY <1>2, <1>4, FS_AddElement
  <2>3. Cardinality(Failed') = Cardinality(Failed) + (IF is_error(body.status) THEN 1 ELSE 0)
    <3>1. CASE is_error(body.status)
      BY <1>3, <1>4, <2>1, <3>1, FS_AddElement
    <3>2. CASE ~(is_error(body.status))
      BY <1>3, <1>4, <2>1, <3>2, FS_AddElement
    <3>3. QED
      BY <3>1, <3>2
  <2>4. Cardinality(FromCache') = Cardinality(FromCache) + (IF body.status.from = "cache" THEN 1 ELSE 0)
    <3>1. CASE body.status.from = "cache"
      BY <1>3, <1>4, <2>1, <3>1, FS_AddElement
    <3>2. CASE ~(body.status.from = "cache")
      BY <1>3, <1>4, <2>1, <3>2, FS_AddElement
    <3>3. QED
      BY <3>1, <3>2
  <2>5. Cardinality(Uris') = Cardinality(Uris) + (IF body.uri \in Uris THEN 0 ELSE 1)
    <3>1. CASE body.uri \in Uris
      <4>1. Uris' = Uris
        BY <1>4, <3>1
      <4>2. QED
        BY <2>1, <3>1, <4>1
    <3>2. CASE ~(body.uri \in Uris)
      BY <1>3, <1>4, <2>1, <3>2, FS_AddElement
    <3>3. QED
      BY <3>1, <3>2
  <2>6. QED
    BY <2>2, <2>3, <2>4, <2>5
<1>6. /\ old \in [Counters -> Nat] /\ stats.seen_uris = Uris
      /\ old["total"] = Cardinality(DOMAIN responses)
      /\ old["total"] = old["successful"] + old["errors"] + old["timeouts"]
                        + old["unknown"] + old["excludes"] + old["unsupported"]
      /\ old["unique"] = Cardinality(Uris)
      /\ old["errors"] > 0 <=> stats.maps["error"] # {}
      /\ old["timeouts"] > 0 <=> stats.maps["timeout"] # {}
      /\ old["errors"] + old["timeouts"] = Cardinality(Failed)
      /\ old["cached"] = Cardinality(FromCache)
  BY DEF CountersExact, SummaryAgrees, Uris, FromCache
<1>7. /\ counts \in [Counters -> Nat]
      /\ counts["total"] = old["total"] + 1
      /\ \A c \in StatusCounters : counts[c] = old[c] + One(c)
      /\ counts["unique"] = old["unique"] + (IF body.uri \in Uris THEN 0 ELSE 1)
      /\ counts["cached"] = old["cached"] + (IF body.status.from = "cache" THEN 1 ELSE 0)
  BY <1>1, <1>6, CountsAfter
<1>8. stats'.seen_uris = Uris'
  BY <1>1, <1>4, <1>6 DEF add
<1>9. \A c \in StatusCounters : old[c] \in Nat /\ One(c) \in {0, 1}
  BY <1>6 DEF Counters
<1>10. One("successful") + One("errors") + One("timeouts") + One("unknown") + One("excludes")
       + One("unsupported") = 1
  BY <1>1, StatusParts DEF StatusCounters
<1>11. /\ is_error(body.status) <=> One("errors") = 1 \/ One("timeouts") = 1
       /\ One("errors") = 1 <=> is_error(body.status) /\ ~is_timeout(body.status)
       /\ One("timeouts") = 1 <=> is_timeout(body.status)
       /\ One("errors") + One("timeouts") = IF is_error(body.status) THEN 1 ELSE 0
  BY <1>1, StatusParts DEF is_error, is_timeout
<1>12. /\ stats'.maps["error"] # {} <=> stats.maps["error"] # {} \/ One("errors") = 1
       /\ stats'.maps["timeout"] # {} <=> stats.maps["timeout"] # {} \/ One("timeouts") = 1
  <2> DEFINE failed == {Entry(given.requests[i].source, body)}
  <2>1. /\ stats'.maps["timeout"] = stats.maps["timeout"] \cup
               (IF is_timeout(body.status) THEN failed ELSE {})
        /\ stats'.maps["error"] = stats.maps["error"] \cup
               (IF is_error(body.status) /\ ~is_timeout(body.status) THEN failed ELSE {})
    BY <1>1, MapsAfter
  <2>2. failed # {}
    OBVIOUS
  <2> HIDE DEF failed, One
  <2>3. QED
    BY <1>11, <2>1, <2>2
<1> HIDE DEF One
<1>13. \A c \in {"successful", "errors", "timeouts", "unknown", "excludes", "unsupported"} :
           counts[c] = old[c] + One(c) /\ old[c] \in Nat /\ One(c) \in {0, 1}
  BY <1>7, <1>9 DEF StatusCounters
<1>14. /\ counts["total"] = counts["successful"] + counts["errors"] + counts["timeouts"]
                            + counts["unknown"] + counts["excludes"] + counts["unsupported"]
       /\ counts["errors"] + counts["timeouts"] = Cardinality(Failed')
       /\ counts["errors"] > 0 <=> stats'.maps["error"] # {}
       /\ counts["timeouts"] > 0 <=> stats'.maps["timeout"] # {}
  <2>1. counts["total"] = old["total"] + 1 /\ old["total"] \in Nat
    BY <1>6, <1>7 DEF Counters
  <2> HIDE DEF old, counts
  <2>2. counts["total"] = counts["successful"] + counts["errors"] + counts["timeouts"]
                          + counts["unknown"] + counts["excludes"] + counts["unsupported"]
    BY <1>6, <1>10, <1>13, <2>1
  <2>3. counts["errors"] + counts["timeouts"] = Cardinality(Failed')
    BY <1>5, <1>6, <1>11, <1>13
  <2>4. /\ counts["errors"] > 0 <=> stats'.maps["error"] # {}
        /\ counts["timeouts"] > 0 <=> stats'.maps["timeout"] # {}
    BY <1>6, <1>12, <1>13
  <2>5. QED
    BY <2>2, <2>3, <2>4
<1>15. /\ counts["total"] = Cardinality(DOMAIN responses')
       /\ counts["unique"] = Cardinality(Uris')
       /\ counts["cached"] = Cardinality(FromCache')
  BY <1>5, <1>6, <1>7
<1>16. QED
  BY <1>7, <1>8, <1>14, <1>15 DEF CountersExact, SummaryAgrees, Uris, FromCache

\* Only a response is counted.
LEMMA CountersStep ==
    ASSUME PhaseRight, OnTheirWay, MapsExact, CountersExact, RunNext
    PROVE  CountersExact'
<1>1. CASE \E i \in flight : CollectResponse(i)
  BY <1>1, CountsAnswer
<1>2. CASE \E e \in lookups.asked, reply \in Replies : Hear(e, reply)
  <2>1. PICK e \in lookups.asked, reply \in Replies : Hear(e, reply)
    BY <1>2
  <2>2. /\ responses' = responses
        /\ \/ stats' = stats
           \/ stats' = [stats EXCEPT !.maps["suggestion"] = @ \cup {SuggestionFor(e)}]
    BY <2>1 DEF Hear
  <2>3. /\ stats'.counts = stats.counts /\ stats'.seen_uris = stats.seen_uris
        /\ stats'.maps["timeout"] = stats.maps["timeout"]
        /\ stats'.maps["error"] = stats.maps["error"]
    BY <2>2 DEF MapsExact, Maps
  <2>4. QED
    BY <2>2, <2>3 DEF CountersExact, SummaryAgrees, Failed
<1>3. CASE UNCHANGED <<responses, stats>>
  BY <1>3 DEF CountersExact, SummaryAgrees, Failed
<1>4. QED
  BY <1>1, <1>2, <1>3, RunStep

-----------------------------------------------------------------------------
(* The archive and the bar *)

\* What is looked up has failed: the map of errors only grows, and not any more by then.
LEMMA LookupsStep ==
    ASSUME PhaseRight, OnTheirWay, MapsExact, LookupsFailed, RunNext
    PROVE  LookupsFailed'
<1>1. CASE \E i \in flight : CollectResponse(i)
  <2>1. PICK i \in flight : CollectResponse(i)
    BY <1>1
  <2>2. PICK body : /\ body.status \in Statuses
                    /\ stats' = add(stats, given.requests[i].source, body)
    BY <2>1, OneMore
  <2>3. /\ stats.maps["error"] \subseteq stats'.maps["error"]
        /\ stats'.maps["suggestion"] = stats.maps["suggestion"]
    BY <2>2, MapsAfter
  <2>4. get_failed_urls(stats.maps["error"]) \subseteq get_failed_urls(stats'.maps["error"])
    BY <2>3 DEF get_failed_urls
  <2>5. UNCHANGED <<phase, lookups>>
    BY <2>1 DEF CollectResponse
  <2>6. QED
    BY <2>3, <2>4, <2>5 DEF LookupsFailed
<1>2. CASE \E e \in lookups.asked, reply \in Replies : Hear(e, reply)
  <2>1. PICK e \in lookups.asked, reply \in Replies : Hear(e, reply)
    BY <1>2
  <2>2. /\ lookups' = [lookups EXCEPT !.asked = @ \ {e}]
        /\ phase = "suggest" /\ phase' = "suggest"
        /\ \/ stats' = stats
           \/ stats' = [stats EXCEPT !.maps["suggestion"] = @ \cup {SuggestionFor(e)}]
    BY <2>1 DEF Hear
  <2>3. /\ lookups' = [waiting |-> lookups.waiting, asked |-> lookups.asked \ {e}]
        /\ lookups' = [waiting |-> lookups'.waiting, asked |-> lookups'.asked]
        /\ lookups'.waiting = lookups.waiting /\ lookups'.asked = lookups.asked \ {e}
    BY <2>2 DEF LookupsFailed
  <2>4. /\ stats'.maps["error"] = stats.maps["error"]
        /\ stats'.maps["suggestion"] \subseteq stats.maps["suggestion"] \cup {SuggestionFor(e)}
    BY <2>2 DEF MapsExact, Maps
  <2>5. /\ e \in get_failed_urls(stats.maps["error"])
        /\ SuggestionFor(e).source = e.source /\ SuggestionFor(e).item.original = e.item.uri
    BY DEF LookupsFailed, SuggestionFor, Entry
  <2>6. QED
    BY <2>2, <2>3, <2>4, <2>5 DEF LookupsFailed
<1>3. CASE \E e \in lookups.waiting : Ask(e)
  <2>1. PICK e \in lookups.waiting : Ask(e)
    BY <1>3
  <2>2. /\ lookups' = [waiting |-> lookups.waiting \ {e}, asked |-> lookups.asked \cup {e}]
        /\ phase = "suggest" /\ phase' = phase /\ stats' = stats
    BY <2>1 DEF Ask, checkVars
  <2>3. QED
    BY <2>2 DEF LookupsFailed
<1>4. CASE EndCheck
  <2>1. /\ phase' # "check" /\ stats' = stats
        /\ \/ lookups' = lookups
           \/ lookups' = [lookups EXCEPT !.waiting = get_failed_urls(stats.maps["error"])]
    BY <1>4 DEF EndCheck, checkVars
  <2>2. /\ lookups' = [waiting |-> lookups'.waiting, asked |-> lookups'.asked]
        /\ lookups'.asked = lookups.asked
        /\ lookups'.waiting \in {lookups.waiting, get_failed_urls(stats.maps["error"])}
    BY <2>1 DEF LookupsFailed
  <2>3. QED
    BY <2>1, <2>2 DEF LookupsFailed
<1>5. CASE UNCHANGED <<stats, lookups>> /\ phase' # "check"
  BY <1>5 DEF LookupsFailed
<1>6. CASE UNCHANGED <<stats, lookups, phase>>
  BY <1>6 DEF LookupsFailed
<1>7. CASE Announce
  BY <1>6, <1>7 DEF Announce
<1>8. phase' = "check" => phase = "check"
  <2>1. CASE EndCheck \/ EndSuggest \/ output_statistics
    BY <2>1 DEF EndCheck, EndSuggest, output_statistics, Write, Exit
  <2>2. CASE StoreCache \/ SaveCookies \/ Open
    BY <2>2 DEF StoreCache, SaveCookies, Save, Open, Exit
  <2>3. QED
    BY <2>1, <2>2, RunStep
<1>9. QED
  BY <1>1, <1>2, <1>3, <1>4, <1>5, <1>6, <1>7, <1>8, RunStep

\* Whether there is a bar does not change.
LEMMA SameOptions ==
    ASSUME given' = given
    PROVE  /\ Visible' = Visible /\ Checking' = Checking
           /\ WithCache' = WithCache /\ WithCookies' = WithCookies
BY DEF Visible, Checking, WithCache, WithCookies, flag, level, option

\* The bar grows with what is announced and moves with what is heard.
LEMMA BarCounts ==
    ASSUME PhaseRight, OnTheirWay, MapsExact, LookupsFailed, BarExact, RunNext
    PROVE  BarExact'
<1>1. /\ given' = given /\ Visible' = Visible /\ Checking' = Checking
      /\ bar.length \in Nat /\ bar.position \in Nat
      /\ bar = [length |-> bar.length, position |-> bar.position]
  BY RunStep, SameOptions DEF BarExact
<1>2. /\ IsFiniteSet(DOMAIN responses) /\ Cardinality(DOMAIN responses) \in Nat
      /\ IsFiniteSet(get_failed_urls(stats.maps["error"]))
  BY FailuresFinite, FS_CardinalityType
<1>3. next \in Nat \ {0}
  BY DEF OnTheirWay
<1>4. /\ IsFiniteSet(lookups.waiting) /\ IsFiniteSet(lookups.asked)
      /\ lookups.waiting \cap lookups.asked = {}
      /\ Cardinality(lookups.waiting) \in Nat /\ Cardinality(lookups.asked) \in Nat
  BY FS_CardinalityType DEF BarExact
<1>5. phase = "check" => /\ Checking /\ DOMAIN responses \subseteq 1 .. next - 1
                         /\ Cardinality(DOMAIN responses) <= next - 1
  <2>1. phase = "check" => Checking /\ DOMAIN responses \subseteq 1 .. next - 1
    BY DEF PhaseRight, OnTheirWay
  <2>2. IsFiniteSet(1 .. next - 1) /\ Cardinality(1 .. next - 1) = next - 1
    BY <1>3, FS_Interval
  <2>3. QED
    BY <2>1, <2>2, FS_Subset
<1>6. CASE Announce
  <2>1. /\ phase = "check" /\ phase' = "check" /\ ~sending /\ sending' = TRUE
        /\ UNCHANGED <<next, responses, lookups>>
        /\ bar' = IF Visible THEN [bar EXCEPT !.length = @ + 1] ELSE bar
    BY <1>6 DEF Announce, inc_length
  <2>2. CASE Visible
    <3>1. bar' = [length |-> bar.length + 1, position |-> bar.position]
      BY <1>1, <2>1, <2>2
    <3>2. bar.length = next - 1 /\ bar.position = Cardinality(DOMAIN responses)
      BY <2>1, <2>2 DEF BarExact
    <3>3. /\ bar' \in [length : Nat, position : Nat]
          /\ bar'.length = next' /\ bar'.position = Cardinality(DOMAIN responses')
          /\ bar'.position <= bar'.length
      BY <1>1, <1>2, <1>3, <1>5, <2>1, <3>1, <3>2
    <3>4. QED
      BY <1>1, <1>4, <1>5, <2>1, <2>2, <3>3 DEF BarExact, ProgressComplete
  <2>3. CASE ~Visible
    BY <1>1, <1>4, <2>1, <2>3 DEF BarExact, ProgressComplete
  <2>4. QED
    BY <2>2, <2>3
<1>7. CASE SendRequest
  <2>1. /\ phase = "check" /\ phase' = "check" /\ sending /\ sending' = FALSE
        /\ next' = next + 1 /\ UNCHANGED <<responses, lookups, bar>>
    BY <1>7 DEF SendRequest
  <2>2. Visible => /\ bar.length = next /\ bar.position = Cardinality(DOMAIN responses)
                   /\ next' - 1 = next
    BY <1>3, <2>1 DEF BarExact
  <2>3. QED
    BY <1>1, <1>4, <1>5, <2>1, <2>2 DEF BarExact, ProgressComplete
<1>8. CASE \E i \in flight : CollectResponse(i)
  <2>1. PICK i \in flight : CollectResponse(i)
    BY <1>8
  <2>2. /\ phase = "check" /\ phase' = "check" /\ UNCHANGED <<next, sending, lookups>>
        /\ bar' = IF Visible THEN [bar EXCEPT !.position = @ + 1] ELSE bar
    BY <2>1 DEF CollectResponse, update
  <2>3. Cardinality(DOMAIN responses') = Cardinality(DOMAIN responses) + 1
    <3>1. i \notin DOMAIN responses /\ DOMAIN responses' = DOMAIN responses \cup {i}
      BY <2>1, OneMore
    <3>2. QED
      BY <1>2, <3>1, FS_AddElement
  <2>4. Cardinality(DOMAIN responses') <= next - 1
    <3>1. DOMAIN responses' \subseteq 1 .. next - 1
      BY <1>1, <2>2, OnTheirWayStep, PhaseStep DEF OnTheirWay, PhaseRight
    <3>2. IsFiniteSet(1 .. next - 1) /\ Cardinality(1 .. next - 1) = next - 1
      BY <1>3, FS_Interval
    <3>3. QED
      BY <3>1, <3>2, FS_Subset
  <2>5. CASE Visible
    <3>1. bar' = [length |-> bar.length, position |-> bar.position + 1]
      BY <1>1, <2>2, <2>5
    <3>2. /\ bar.length = IF sending THEN next ELSE next - 1
          /\ bar.position = Cardinality(DOMAIN responses)
      BY <2>2, <2>5 DEF BarExact
    <3>3. /\ bar' \in [length : Nat, position : Nat]
          /\ bar'.length = IF sending' THEN next' ELSE next' - 1
          /\ bar'.position = Cardinality(DOMAIN responses')
          /\ bar'.position <= bar'.length
      BY <1>1, <1>2, <1>3, <2>2, <2>3, <2>4, <3>1, <3>2
    <3>4. QED
      BY <1>1, <1>4, <1>5, <2>2, <2>5, <3>3 DEF BarExact, ProgressComplete
  <2>6. CASE ~Visible
    BY <1>1, <1>4, <2>2, <2>6 DEF BarExact, ProgressComplete
  <2>7. QED
    BY <2>5, <2>6
<1>9. CASE EndCheck
  <2> DEFINE failed == get_failed_urls(stats.maps["error"])
  <2>1. /\ phase = "check" /\ ~sending /\ next > Len(given.requests) /\ flight = {}
        /\ UNCHANGED <<next, sending, responses>>
    BY <1>9 DEF EndCheck, checkVars
  <2>2. lookups.waiting = {} /\ lookups.asked = {} /\ Cardinality({}) = 0
    BY <2>1, FS_EmptySet DEF LookupsFailed
  <2>3. DOMAIN responses = 1 .. next - 1 /\ Checking
    BY <2>1 DEF PhaseRight, OnTheirWay
  <2>4. Cardinality(DOMAIN responses) = next - 1
    BY <1>3, <2>3, FS_Interval
  <2>5. CASE phase' = "report" /\ UNCHANGED <<lookups, bar>>
    <3>1. Visible => bar.length = next - 1 /\ bar.position = next - 1
      BY <2>1, <2>4 DEF BarExact
    <3>2. ~Visible => bar.length = 0 /\ bar.position = 0
      BY DEF BarExact
    <3>3. QED
      BY <1>1, <1>4, <2>3, <2>5, <3>1, <3>2 DEF BarExact, ProgressComplete
  <2>6. CASE /\ phase' = "suggest" /\ lookups' = [lookups EXCEPT !.waiting = failed]
             /\ bar' = IF Visible THEN [length |-> Cardinality(failed), position |-> 0] ELSE bar
    <3>1. lookups'.waiting = failed /\ lookups'.asked = {}
      BY <2>2, <2>6 DEF LookupsFailed
    <3>2. IsFiniteSet(failed) /\ Cardinality(failed) \in Nat /\ IsFiniteSet({})
      BY <1>2, FS_CardinalityType, FS_EmptySet
    <3> HIDE DEF failed
    <3>3. CASE Visible
      <4>1. bar' = [length |-> Cardinality(failed), position |-> 0]
        BY <2>6, <3>3
      <4>2. /\ bar' \in [length : Nat, position : Nat] /\ bar'.position <= bar'.length
            /\ bar'.length = bar'.position + Cardinality(lookups'.waiting)
                             + Cardinality(lookups'.asked)
        BY <2>2, <3>1, <3>2, <4>1
      <4>3. QED
        BY <1>1, <2>3, <2>6, <3>1, <3>2, <3>3, <4>2 DEF BarExact, ProgressComplete
    <3>4. CASE ~Visible
      BY <1>1, <2>2, <2>6, <3>1, <3>2, <3>4 DEF BarExact, ProgressComplete
    <3>5. QED
      BY <3>3, <3>4
  <2>7. QED
    BY <1>9, <2>5, <2>6 DEF EndCheck, new_bar
<1>10. CASE \E e \in lookups.waiting : Ask(e)
  <2>1. PICK e \in lookups.waiting : Ask(e)
    BY <1>10
  <2>2. /\ lookups' = [waiting |-> lookups.waiting \ {e}, asked |-> lookups.asked \cup {e}]
        /\ phase = "suggest" /\ phase' = phase /\ UNCHANGED <<bar, next, sending, responses>>
    BY <2>1 DEF Ask, checkVars
  <2>3. /\ IsFiniteSet(lookups'.waiting) /\ IsFiniteSet(lookups'.asked)
        /\ lookups'.waiting \cap lookups'.asked = {}
        /\ Cardinality(lookups'.waiting) = Cardinality(lookups.waiting) - 1
        /\ Cardinality(lookups'.asked) = Cardinality(lookups.asked) + 1
    BY <1>4, <2>1, <2>2, FS_AddElement, FS_RemoveElement
  <2>4. QED
    BY <1>1, <1>4, <2>2, <2>3 DEF BarExact, ProgressComplete
<1>11. CASE \E e \in lookups.asked, reply \in Replies : Hear(e, reply)
  <2>1. PICK e \in lookups.asked, reply \in Replies : Hear(e, reply)
    BY <1>11
  <2>2. /\ lookups' = [lookups EXCEPT !.asked = @ \ {e}]
        /\ phase = "suggest" /\ phase' = phase /\ UNCHANGED <<next, sending, responses>>
        /\ bar' = IF Visible THEN [bar EXCEPT !.position = @ + 1] ELSE bar
    BY <2>1 DEF Hear, advance, update
  <2>3. lookups'.waiting = lookups.waiting /\ lookups'.asked = lookups.asked \ {e}
    BY <2>2 DEF LookupsFailed
  <2>4. /\ IsFiniteSet(lookups'.waiting) /\ IsFiniteSet(lookups'.asked)
        /\ lookups'.waiting \cap lookups'.asked = {}
        /\ Cardinality(lookups'.asked) = Cardinality(lookups.asked) - 1
        /\ Cardinality(lookups'.asked) \in Nat
    <3>1. /\ IsFiniteSet(lookups.asked \ {e})
          /\ Cardinality(lookups.asked \ {e}) = Cardinality(lookups.asked) - 1
      BY <1>4, FS_RemoveElement
    <3>2. Cardinality(lookups.asked \ {e}) \in Nat
      BY <3>1, FS_CardinalityType
    <3>3. QED
      BY <1>4, <2>3, <3>1, <3>2
  <2>5. CASE Visible
    <3>1. bar' = [length |-> bar.length, position |-> bar.position + 1]
      BY <1>1, <2>2, <2>5
    <3>2. bar.length = bar.position + Cardinality(lookups.waiting) + Cardinality(lookups.asked)
      BY <2>2, <2>5 DEF BarExact
    <3>3. /\ bar' \in [length : Nat, position : Nat] /\ bar'.position <= bar'.length
          /\ bar'.length = bar'.position + Cardinality(lookups'.waiting)
                           + Cardinality(lookups'.asked)
      BY <1>1, <1>4, <2>3, <2>4, <3>1, <3>2
    <3>4. Checking
      BY <2>2 DEF PhaseRight, AfterCheck
    <3>5. QED
      BY <1>1, <2>2, <2>4, <2>5, <3>3, <3>4 DEF BarExact, ProgressComplete
  <2>6. CASE ~Visible
    BY <1>1, <2>2, <2>4, <2>6 DEF BarExact, ProgressComplete
  <2>7. QED
    BY <2>5, <2>6
<1>12. CASE EndSuggest
  <2>1. /\ phase = "suggest" /\ phase' = "report" /\ UNCHANGED <<bar, lookups>>
        /\ lookups.waiting = {} /\ lookups.asked = {}
    BY <1>12 DEF EndSuggest
  <2>2. Cardinality({}) = 0
    BY FS_EmptySet
  <2>3. bar.position = bar.length
    BY <1>1, <2>1, <2>2 DEF BarExact
  <2>4. QED
    BY <1>1, <2>1, <2>3 DEF BarExact, ProgressComplete
<1>13. CASE Dump \/ DumpInput
  <2>1. UNCHANGED <<bar, lookups>> /\ ~Checking
    BY <1>13 DEF Dump, DumpInput, PhaseRight, Checking
  <2>2. phase' \notin {"check", "suggest"}
    BY <1>13 DEF Dump, DumpInput, Exit
  <2>3. QED
    BY <1>1, <2>1, <2>2 DEF BarExact, ProgressComplete
<1>14. CASE /\ UNCHANGED <<next, sending, flight, responses, bar, lookups>>
            /\ ~EndCheck /\ ~EndSuggest
  <2>1. /\ phase' \in {"check", "suggest"} => phase' = phase
        /\ phase' \in {"report", "cache", "cookies", "code"} =>
               phase \in {"report", "cache", "cookies", "code"}
    <3>1. CASE phase' = phase \/ phase' = "exited"
      BY <3>1
    <3>2. CASE output_statistics
      BY <3>2 DEF output_statistics, Write, Exit
    <3>3. CASE StoreCache \/ SaveCookies
      BY <3>3 DEF StoreCache, SaveCookies, Save, Exit
    <3>4. CASE Open
      BY <3>4 DEF Open, Exit
    <3>5. QED
      BY <1>14, <3>1, <3>2, <3>3, <3>4, RunStep
  <2>2. QED
    BY <1>1, <1>14, <2>1 DEF BarExact, ProgressComplete
<1>15. QED
  BY <1>6, <1>7, <1>8, <1>9, <1>10, <1>11, <1>12, <1>13, <1>14, RunStep

-----------------------------------------------------------------------------
(* The report, what is saved and the exit code *)

\* The report is written first, then the cache, then the cookies.
LEMMA SavedStep ==
    ASSUME PhaseRight, SavedSoFar, RunNext
    PROVE  SavedSoFar'
<1>1. /\ given' = given /\ Checking' = Checking
      /\ WithCache' = WithCache /\ WithCookies' = WithCookies
  BY RunStep, SameOptions
<1>2. CASE output_statistics
  <2>1. /\ phase = "report" /\ Checking /\ saved = <<>>
        /\ shown' # <<>>
    BY <1>2 DEF output_statistics, PhaseRight, SavedSoFar, AfterCheck
  <2>2. \/ phase' = "cache" /\ saved' = Append(saved, "report")
        \/ phase' = "exited"
    BY <1>2 DEF output_statistics, Write, Exit
  <2>3. QED
    BY <1>1, <2>1, <2>2 DEF SavedSoFar
<1>3. CASE StoreCache
  <2>1. phase = "cache" /\ shown' = shown /\ saved = <<"report">> /\ shown # <<>> /\ Checking
    BY <1>3 DEF StoreCache, PhaseRight, SavedSoFar, AfterCheck
  <2>2. \/ phase' = "exited"
        \/ phase' = "cookies" /\ ~flag("cache") /\ saved' = saved
        \/ phase' = "cookies" /\ flag("cache") /\ saved' = Append(saved, "cache")
    BY <1>3 DEF StoreCache, Save, Exit
  <2>3. phase' = "cookies" => saved' = <<"report">> \o WithCache
    <3>1. CASE flag("cache")
      <4>1. WithCache = <<"cache">> /\ (phase' = "cookies" => saved' = Append(<<"report">>, "cache"))
        BY <2>1, <2>2, <3>1 DEF WithCache
      <4>2. QED
        BY <4>1
    <3>2. CASE ~flag("cache")
      <4>1. WithCache = <<>> /\ (phase' = "cookies" => saved' = <<"report">>)
        BY <2>1, <2>2, <3>2 DEF WithCache
      <4>2. QED
        BY <4>1
    <3>3. QED
      BY <3>1, <3>2
  <2>4. QED
    BY <1>1, <2>1, <2>2, <2>3 DEF SavedSoFar
<1>4. CASE SaveCookies
  <2>1. /\ phase = "cookies" /\ shown' = shown /\ shown # <<>> /\ Checking
        /\ saved = <<"report">> \o WithCache
    BY <1>4 DEF SaveCookies, PhaseRight, SavedSoFar, AfterCheck
  <2>2. \/ phase' = "exited"
        \/ phase' = "code" /\ ~("cookie_jar" \in DOMAIN given.config) /\ saved' = saved
        \/ phase' = "code" /\ "cookie_jar" \in DOMAIN given.config /\ saved' = Append(saved, "cookies")
    BY <1>4 DEF SaveCookies, Save, Exit
  <2>3. phase' = "code" => saved' = <<"report">> \o WithCache \o WithCookies
    BY <2>1, <2>2 DEF WithCache, WithCookies
  <2>4. QED
    BY <1>1, <2>1, <2>2, <2>3 DEF SavedSoFar
<1>5. CASE UNCHANGED <<shown, saved>> /\ ~output_statistics /\ ~StoreCache /\ ~SaveCookies
  <2>1. CASE EndCheck \/ EndSuggest
    BY <1>1, <1>5, <2>1 DEF EndCheck, EndSuggest, SavedSoFar
  <2>2. CASE Open
    BY <1>1, <1>5, <2>2 DEF Open, Exit, SavedSoFar
  <2>3. CASE phase' = phase \/ phase' = "exited"
    BY <1>1, <1>5, <2>3 DEF SavedSoFar
  <2>4. QED
    BY <1>5, <2>1, <2>2, <2>3, RunStep
<1>6. QED
  BY <1>2, <1>3, <1>4, <1>5, RunStep

\* Whatever the format, the report says of the failures what the maps say.
LEMMA FormatsTell ==
    ASSUME PhaseRight, MapsExact,
           NEW maps, maps = get_stats_formatter(option("format"))
    PROVE  /\ maps["error"] = stats.maps["error"]
           /\ maps["timeout"] = IF option("format") = "junit" THEN {} ELSE stats.maps["timeout"]
           /\ maps["suggestion"] \subseteq stats.maps["suggestion"]
<1>1. option("format") \in StatsFormats
  BY RunsAssumption DEF PhaseRight, option
<1>2. CASE option("format") = "compact"
  BY <1>2 DEF get_stats_formatter, Compact, Under, Maps
<1>3. CASE option("format") = "detailed"
  BY <1>3 DEF get_stats_formatter, Detailed, Under, Maps
<1>4. CASE option("format") = "json"
  BY <1>4 DEF get_stats_formatter, Json
<1>5. CASE option("format") = "junit"
  BY <1>5 DEF get_stats_formatter, Junit, Only, Maps
<1>6. CASE option("format") = "markdown"
  BY <1>6 DEF get_stats_formatter, Markdown, Only, Maps
<1>7. QED
  BY <1>1, <1>2, <1>3, <1>4, <1>5, <1>6 DEF StatsFormats

\* The report is made once, of maps that do not change any more.
LEMMA ReportStep ==
    ASSUME PhaseRight, OnTheirWay, ResponsesTyped, MapsExact, LookupsFailed, SavedSoFar,
           ReportShowsFailures, RunNext
    PROVE  ReportShowsFailures'
<1>1. given' = given
  BY RunStep
<1>2. CASE output_statistics
  <2> DEFINE maps == get_stats_formatter(option("format"))
  <2>1. shown'[1].maps = maps /\ UNCHANGED <<responses, stats>>
    BY <1>2 DEF output_statistics, checkVars
  <2>2. /\ maps["error"] = stats.maps["error"]
        /\ maps["timeout"] = IF option("format") = "junit" THEN {} ELSE stats.maps["timeout"]
        /\ maps["suggestion"] \subseteq stats.maps["suggestion"]
    BY FormatsTell
  <2> HIDE DEF maps
  <2>3. ASSUME NEW i \in Failed
        PROVE  \/ EntryOf(i) \in maps["error"] \cup maps["timeout"]
               \/ option("format") = "junit" /\ is_timeout(responses[i].status)
    BY <2>2 DEF MapsExact
  <2>4. maps["error"] \cup maps["timeout"] \subseteq {EntryOf(i) : i \in Failed}
    BY <2>2 DEF MapsExact
  <2>5. ASSUME NEW e \in maps["suggestion"]
        PROVE  \E f \in maps["error"] :
                   /\ f.source = e.source /\ f.item.uri = e.item.original
                   /\ f.item.scheme \in {"https", "error"}
    <3>1. PICK f \in get_failed_urls(stats.maps["error"]) :
              f.source = e.source /\ f.item.uri = e.item.original
      BY <2>2 DEF LookupsFailed
    <3>2. f \in stats.maps["error"] /\ f.item.scheme \notin {"data", "mailto", "file"}
      BY DEF get_failed_urls
    <3>3. PICK i \in Failed : f = EntryOf(i)
      BY <3>2 DEF MapsExact
    <3>4. f.item.scheme \in Schemes \cup {"error"}
      BY <3>3 DEF EntryOf, Entry, Failed, ResponsesTyped
    <3>5. QED
      BY <2>2, <3>1, <3>2, <3>4 DEF Schemes
  <2>6. /\ Failed' = Failed /\ \A i : EntryOf(i)' = EntryOf(i)
        /\ option("format")' = option("format")
    BY <1>1, <2>1 DEF Failed, EntryOf, option
  <2>7. QED
    BY <2>1, <2>3, <2>4, <2>5, <2>6 DEF ReportShowsFailures
<1>3. CASE shown' = shown /\ responses' = responses
  BY <1>1, <1>3 DEF ReportShowsFailures, Failed, EntryOf, option
<1>4. CASE shown' = shown /\ responses' # responses
  <2>1. PICK i \in flight : CollectResponse(i)
    BY <1>4, RunStep DEF Hear
  <2>2. shown' = <<>>
    BY <1>4, <2>1 DEF CollectResponse, SavedSoFar
  <2>3. QED
    BY <2>2 DEF ReportShowsFailures
<1>5. CASE StoreCache \/ SaveCookies
  BY <1>3, <1>5 DEF StoreCache, SaveCookies, checkVars
<1>6. QED
  BY <1>2, <1>3, <1>4, <1>5, RunStep

\* Nothing happens once the run has ended.
LEMMA NothingAfterwards ==
    ASSUME PhaseRight, RunNext
    PROVE  phase # "exited" /\ exit = {}
<1>1. phase # "exited"
  <2>1. CASE Announce \/ SendRequest \/ EndCheck \/ EndSuggest \/ output_statistics
    BY <2>1 DEF Announce, SendRequest, EndCheck, EndSuggest, output_statistics
  <2>2. CASE \E i \in flight : CollectResponse(i) \/ CollectUserError(i)
    BY <2>2 DEF CollectResponse, CollectUserError
  <2>3. CASE (\E e \in lookups.waiting : Ask(e))
             \/ \E e \in lookups.asked, reply \in Replies : Hear(e, reply)
    BY <2>3 DEF Ask, Hear
  <2>4. CASE StoreCache \/ SaveCookies \/ ReturnCode
    BY <2>4 DEF StoreCache, SaveCookies, ReturnCode
  <2>5. CASE Open \/ Dump \/ DumpInput \/ EndDump
    BY <2>5 DEF Open, Dump, DumpInput, EndDump
  <2>6. QED
    BY <2>1, <2>2, <2>3, <2>4, <2>5 DEF RunNext
<1>2. QED
  BY <1>1 DEF PhaseRight

\* Only the report and the last step end a check well.
LEMMA ExitStep ==
    ASSUME PhaseRight, OnTheirWay, MapsExact, SavedSoFar, RunNext
    PROVE  ExitCodeTells'
<1> USE DEF Success, UnexpectedFailure, LinkCheckFailure
<1>1. /\ given' = given /\ Checking' = Checking
      /\ WithCache' = WithCache /\ WithCookies' = WithCookies
  BY RunStep, SameOptions
<1>2. SUFFICES ASSUME Checking, exit' # {}
               PROVE  ExitCodeTells'
  BY <1>1 DEF ExitCodeTells
<1>3. exit = {}
  BY NothingAfterwards
<1>4. CASE exit' = {UnexpectedFailure}
  BY <1>4 DEF ExitCodeTells
<1>5. CASE output_statistics /\ exit' = {Success}
  <2>1. /\ phase = "report" /\ UNCHANGED responses /\ shown' # <<>>
    BY <1>5 DEF output_statistics, checkVars
  <2>2. saved' = <<>>
    <3>1. saved' = saved
      BY <1>3, <1>5 DEF output_statistics, Write, Exit
    <3>2. QED
      BY <2>1, <3>1 DEF SavedSoFar
  <2>3. AllAnswered'
    BY <1>1, <2>1 DEF OnTheirWay, AfterCheck, AllAnswered
  <2>4. QED
    BY <1>5, <2>1, <2>2, <2>3 DEF ExitCodeTells
<1>6. CASE ReturnCode
  <2>1. /\ phase = "code" /\ exit' = {code} /\ UNCHANGED <<responses, shown, saved>>
    BY <1>6 DEF ReturnCode, Exit, checkVars
  <2>2. AllAnswered' /\ shown' # <<>>
    BY <1>1, <2>1 DEF OnTheirWay, AfterCheck, AllAnswered, SavedSoFar
  <2>3. saved' = <<"report">> \o WithCache \o WithCookies
    BY <2>1 DEF SavedSoFar
  <2>4. saved' = <<"report">> \o (IF flag("cache")' THEN <<"cache">> ELSE <<>>)
                 \o (IF "cookie_jar" \in DOMAIN given'.config THEN <<"cookies">> ELSE <<>>)
    BY <1>1, <2>3 DEF WithCache, WithCookies, flag
  <2>5. /\ Failed' = Failed /\ \A i : Accepted(i)' <=> Accepted(i)
    BY <1>1, <2>1 DEF Failed, Accepted, flag
  <2>6. /\ stats.maps["error"] = {} <=> \A i \in Failed : is_timeout(responses[i].status)
        /\ stats.maps["timeout"] = {} <=> \A i \in Failed : ~is_timeout(responses[i].status)
    BY DEF MapsExact
  <2>7. code = IF \A i \in Failed : Accepted(i) THEN 0 ELSE 2
    <3>1. CASE flag("accept_timeouts")
      <4>1. \A i \in Failed : Accepted(i) <=> is_timeout(responses[i].status)
        BY <3>1 DEF Accepted
      <4>2. code = IF stats.maps["error"] = {} THEN 0 ELSE 2
        BY <3>1 DEF code, is_success_ignoring_timeouts
      <4>3. QED
        BY <2>6, <4>1, <4>2
    <3>2. CASE ~flag("accept_timeouts")
      <4>1. \A i \in Failed : ~Accepted(i)
        BY <3>2 DEF Accepted
      <4>2. code = IF stats.maps["error"] = {} /\ stats.maps["timeout"] = {} THEN 0 ELSE 2
        BY <3>2 DEF code, no_failures
      <4>3. QED
        BY <2>6, <4>1, <4>2
    <3>3. QED
      BY <3>1, <3>2
  <2>8. /\ exit' = {2} => \E i \in Failed' : ~Accepted(i)'
        /\ exit' = {0} => \A i \in Failed' : Accepted(i)'
    <3>1. (exit' = {2} => code = 2) /\ (exit' = {0} => code = 0)
      BY <2>1
    <3>2. (code = 2 => \E i \in Failed : ~Accepted(i)) /\ (code = 0 => \A i \in Failed : Accepted(i))
      BY <2>7
    <3>3. QED
      BY <2>5, <3>1, <3>2
  <2>9. QED
    BY <2>2, <2>4, <2>8 DEF ExitCodeTells
<1>7. exit' \in {{}, {UnexpectedFailure}} \/ ReturnCode \/ (output_statistics /\ exit' = {Success})
  <2>1. CASE Announce \/ SendRequest \/ EndCheck \/ EndSuggest
    BY <1>3, <2>1 DEF Announce, SendRequest, EndCheck, EndSuggest, endVars
  <2>2. CASE \E i \in flight : CollectResponse(i) \/ CollectUserError(i)
    BY <1>3, <2>2 DEF CollectResponse, CollectUserError, Exit, endVars
  <2>3. CASE (\E e \in lookups.waiting : Ask(e))
             \/ \E e \in lookups.asked, reply \in Replies : Hear(e, reply)
    BY <1>3, <2>3 DEF Ask, Hear, endVars
  <2>4. CASE output_statistics
    BY <1>3, <2>4 DEF output_statistics, Write, Exit
  <2>5. CASE StoreCache \/ SaveCookies
    BY <1>3, <2>5 DEF StoreCache, SaveCookies, Save, Exit
  <2>6. CASE Open \/ Dump \/ DumpInput \/ EndDump
    <3>1. phase \in {"open", "dump", "dump_inputs"}
      BY <2>6 DEF Open, Dump, DumpInput, EndDump
    <3>2. QED
      BY <1>2, <3>1 DEF PhaseRight, Checking
  <2>7. QED
    BY <2>1, <2>2, <2>3, <2>4, <2>5, <2>6 DEF RunNext
<1>8. QED
  BY <1>2, <1>4, <1>5, <1>6, <1>7

-----------------------------------------------------------------------------
(* The dumps *)

\* A line more.
LEMMA LineMore ==
    ASSUME NEW S, NEW s \in Seq(S), NEW x \in S
    PROVE  /\ Append(s, x) \in Seq(S)
           /\ ToSet(Append(s, x)) = ToSet(s) \cup {x}
           /\ IsInjective(s) /\ x \notin ToSet(s) => IsInjective(Append(s, x))
<1>1. \A q : ToSet(q) = Range(q)
  BY DEF ToSet, Range
<1>2. QED
  BY <1>1, JoinQueue

\* Each step of a dump deals with one link or one source.
LEMMA DumpedStep ==
    ASSUME PhaseRight, OnTheirWay, DumpedSoFar, RunNext
    PROVE  DumpedSoFar'
<1> DEFINE Words == DOMAIN given.requests \cup ToSet(given.sources)
<1>1. /\ given' = given /\ given \in Runs /\ next \in Nat \ {0}
      /\ Len(given.requests) \in Nat /\ DOMAIN given.requests = 1 .. Len(given.requests)
      /\ Len(given.sources) \in Nat /\ DOMAIN given.sources = 1 .. Len(given.sources)
      /\ lines \in Seq(Words)
  BY RunStep, RunsAssumption DEF PhaseRight, OnTheirWay, DumpedSoFar
<1>2. CASE Dump
  <2> DEFINE request == given.requests[next]
  <2>1. phase = "dump" /\ next \in DOMAIN given.requests /\ next \in Words
    BY <1>1, <1>2 DEF Dump
  <2>2. /\ \A i \in 1 .. next - 1 : given.requests[i].error # "UserInputContent"
        /\ ~given.piped => Wanted_links(next - 1) \subseteq ToSet(lines)
    BY <2>1 DEF DumpedSoFar
  <2>3. CASE phase' = "exited" /\ lines' = lines
    BY <1>1, <2>3 DEF DumpedSoFar
  <2>4. CASE /\ phase' = phase /\ next' = next + 1 /\ lines' \in {lines, Append(lines, next)}
             /\ request.error # "UserInputContent"
             /\ (~given.piped /\ next \in Wanted_links(next)
                 => lines' = Append(lines, next))
    <3>1. 1 .. next' - 1 = (1 .. next - 1) \cup {next}
      BY <1>1, <2>4
    <3>2. lines' \in Seq(Words) /\ ToSet(lines) \subseteq ToSet(lines')
          /\ (lines' = Append(lines, next) => next \in ToSet(lines'))
      <4> HIDE DEF Words
      <4>1. /\ Append(lines, next) \in Seq(Words)
            /\ ToSet(Append(lines, next)) = ToSet(lines) \cup {next}
        BY <1>1, <2>1, LineMore
      <4>2. QED
        BY <1>1, <2>4, <4>1
    <3>3. Wanted_links(next' - 1) \subseteq Wanted_links(next - 1) \cup {next}
          /\ (next \in Wanted_links(next' - 1) => next \in Wanted_links(next))
      BY <1>1, <2>4, <3>1 DEF Wanted_links
    <3>4. ~given.piped => Wanted_links(next' - 1) \subseteq ToSet(lines')
      BY <2>2, <2>4, <3>2, <3>3
    <3>5. \A i \in 1 .. next' - 1 : given.requests[i].error # "UserInputContent"
      BY <2>2, <2>4, <3>1
    <3>6. next' <= Len(given.requests) + 1
      BY <1>1, <2>1, <2>4
    <3>7. Wanted_links(next' - 1) = Wanted_links(next - 1)'
      BY <1>1 DEF Wanted_links
    <3>8. QED
      BY <1>1, <2>1, <2>4, <3>2, <3>4, <3>5, <3>6, <3>7 DEF DumpedSoFar
  <2>5. QED
    <3>1. CASE Aborts(request)
      BY <1>2, <2>3, <3>1 DEF Dump, Exit
    <3>2. CASE ~Aborts(request) /\ Skipped(request)
      <4>1. phase' = phase /\ next' = next + 1 /\ lines' = lines
        BY <1>2, <3>2 DEF Dump
      <4>2. /\ request.error # "UserInputContent"
            /\ next \notin Wanted_links(next)
        BY <3>2 DEF Aborts, Skipped, Wanted_links
      <4>3. QED
        BY <2>4, <4>1, <4>2
    <3>3. CASE ~Aborts(request) /\ ~Skipped(request)
      <4>1. request.error # "UserInputContent"
        BY <3>3 DEF Aborts
      <4>2. \/ phase' = "exited" /\ lines' = lines
            \/ phase' = phase /\ next' = next + 1 /\ lines' = Append(lines, next)
            \/ phase' = phase /\ next' = next + 1 /\ lines' = lines
               /\ given.piped
        BY <1>2, <3>3 DEF Dump, Exit
      <4>3. QED
        BY <2>3, <2>4, <4>1, <4>2
    <3>4. QED
      BY <3>1, <3>2, <3>3
<1>3. CASE DumpInput
  <2> DEFINE source == given.sources[next]
             Seen(n) == {given.sources[i] : i \in 1 .. n}
  <2>1. phase = "dump_inputs" /\ next \in DOMAIN given.sources /\ source \in Words
    BY <1>1, <1>3 DEF DumpInput, ToSet
  <2>2. /\ IsInjective(lines) /\ ToSet(lines) \subseteq seen
        /\ seen = Seen(next - 1) /\ "error" \notin seen
        /\ ~given.piped => ToSet(lines) = seen
    BY <2>1 DEF DumpedSoFar
  <2>3. CASE phase' = "exited" /\ lines' = lines
    BY <1>1, <2>3 DEF DumpedSoFar
  <2>4. CASE /\ phase' = phase /\ next' = next + 1 /\ source # "error"
             /\ seen' = seen \cup {source}
             /\ \/ source \in seen /\ lines' = lines
                \/ source \notin seen /\ lines' = Append(lines, source)
    <3>1. 1 .. next' - 1 = (1 .. next - 1) \cup {next}
      BY <1>1, <2>4
    <3>2. Seen(next' - 1) = Seen(next - 1) \cup {source}
      BY <3>1
    <3>3. next' <= Len(given.sources) + 1
      BY <1>1, <2>1, <2>4
    <3> HIDE DEF source, Seen
    <3>4. /\ lines' \in Seq(Words) /\ IsInjective(lines')
          /\ \/ source \in seen /\ ToSet(lines') = ToSet(lines)
             \/ source \notin seen /\ ToSet(lines') = ToSet(lines) \cup {source}
      <4> HIDE DEF Words
      <4>1. /\ Append(lines, source) \in Seq(Words)
            /\ ToSet(Append(lines, source)) = ToSet(lines) \cup {source}
            /\ source \notin ToSet(lines) => IsInjective(Append(lines, source))
        BY <1>1, <2>1, <2>2, LineMore
      <4>2. QED
        BY <1>1, <2>2, <2>4, <4>1
    <3>5. /\ ToSet(lines') \subseteq seen' /\ seen' = Seen(next' - 1) /\ "error" \notin seen'
          /\ ~given.piped => ToSet(lines') = seen'
      BY <2>2, <2>4, <3>2, <3>4
    <3>6. QED
      BY <1>1, <2>1, <2>4, <3>3, <3>4, <3>5 DEF DumpedSoFar, Seen
  <2>5. QED
    <3>1. CASE source = "error"
      BY <1>3, <2>3, <3>1 DEF DumpInput, Exit, dumpVars
    <3>2. CASE source # "error" /\ insert(source)
      <4>1. source \notin seen
        BY <3>2 DEF insert
      <4>2. \/ phase' = "exited" /\ lines' = lines
            \/ phase' = phase /\ next' = next + 1 /\ lines' = Append(lines, source)
               /\ seen' = seen \cup {source}
        BY <1>3, <3>2 DEF DumpInput, Exit
      <4>3. QED
        BY <2>3, <2>4, <3>2, <4>1, <4>2
    <3>3. CASE source # "error" /\ ~insert(source)
      <4>1. source \in seen /\ phase' = phase /\ next' = next + 1 /\ UNCHANGED <<seen, lines>>
        BY <1>3, <3>3 DEF DumpInput, insert, dumpVars
      <4>2. seen' = seen \cup {source}
        BY <4>1
      <4>3. QED
        BY <2>4, <3>3, <4>1, <4>2
    <3>4. QED
      BY <3>1, <3>2, <3>3
<1>4. CASE Open
  <2>1. /\ phase = "open" /\ UNCHANGED <<next, lines, seen>>
        /\ phase' \in {"dump", "dump_inputs", "exited"}
    BY <1>4 DEF Open, Exit, dumpVars
  <2>2. next = 1 /\ lines = <<>> /\ seen = {} /\ 1 .. next - 1 = {}
    BY <2>1 DEF DumpedSoFar
  <2>3. ToSet(lines) = {} /\ IsInjective(lines)
    BY <2>2 DEF ToSet, IsInjective
  <2>4. QED
    BY <1>1, <2>1, <2>2, <2>3 DEF DumpedSoFar, Wanted_links
<1>5. CASE UNCHANGED <<lines, seen>> /\ phase' \notin {"open", "dump", "dump_inputs"}
  BY <1>1, <1>5 DEF DumpedSoFar
<1>6. ~Dump /\ ~DumpInput /\ ~Open /\ phase \in {"open", "dump", "dump_inputs"} => phase' = "exited"
  <2>1. CASE Announce \/ SendRequest \/ EndCheck \/ EndSuggest \/ output_statistics
    BY <2>1 DEF Announce, SendRequest, EndCheck, EndSuggest, output_statistics
  <2>2. CASE \E i \in flight : CollectResponse(i) \/ CollectUserError(i)
    BY <2>2 DEF CollectResponse, CollectUserError
  <2>3. CASE (\E e \in lookups.waiting : Ask(e))
             \/ \E e \in lookups.asked, reply \in Replies : Hear(e, reply)
    BY <2>3 DEF Ask, Hear
  <2>4. CASE StoreCache \/ SaveCookies \/ ReturnCode
    BY <2>4 DEF StoreCache, SaveCookies, ReturnCode
  <2>5. CASE Open \/ Dump \/ DumpInput
    BY <2>5
  <2>6. CASE EndDump
    BY <2>6 DEF EndDump, Exit
  <2>7. QED
    BY <2>1, <2>2, <2>3, <2>4, <2>5, <2>6 DEF RunNext
<1>7. ~Open /\ phase' \in {"open", "dump", "dump_inputs"} => phase' = phase
  <2>1. CASE EndCheck \/ EndSuggest \/ output_statistics
    BY <2>1 DEF EndCheck, EndSuggest, output_statistics, Write, Exit
  <2>2. CASE StoreCache \/ SaveCookies
    BY <2>2 DEF StoreCache, SaveCookies, Save, Exit
  <2>3. QED
    BY <2>1, <2>2, RunStep
<1>8. QED
  BY <1>2, <1>3, <1>4, <1>5, <1>6, <1>7, RunStep

\* A dump ends well behind its last link or source, or when nobody reads it any more.
LEMMA DumpEndStep ==
    ASSUME PhaseRight, OnTheirWay, DumpedSoFar, DumpTells, RunNext
    PROVE  DumpTells'
<1> USE DEF Success, UnexpectedFailure
<1>1. /\ given' = given /\ Checking' = Checking /\ next \in Nat
      /\ flag("dump_inputs")' = flag("dump_inputs") /\ flag("dump")' = flag("dump")
      /\ Len(given.requests) \in Nat /\ DOMAIN given.requests = 1 .. Len(given.requests)
      /\ Len(given.sources) \in Nat /\ DOMAIN given.sources = 1 .. Len(given.sources)
  BY RunStep, SameOptions, RunsAssumption DEF flag, PhaseRight, OnTheirWay
<1>2. SUFFICES ASSUME ~Checking, exit' = {Success}
               PROVE  DumpTells'
  BY <1>1 DEF DumpTells
<1>3. exit = {} /\ phase # "exited" /\ phase \notin AfterCheck \cup {"check"}
  BY <1>2, NothingAfterwards DEF PhaseRight
<1>4. CASE DumpInput
  <2>1. phase = "dump_inputs" /\ lines' = lines /\ given.piped
    <3>1. phase = "dump_inputs"
      BY <1>4 DEF DumpInput
    <3>2. \/ exit' = {1} \/ exit' = exit
          \/ lines' = lines /\ given.piped
      BY <1>4 DEF DumpInput, Exit
    <3>3. QED
      BY <1>2, <1>3, <3>1, <3>2
  <2>2. flag("dump_inputs") /\ IsInjective(lines)
    BY <2>1 DEF PhaseRight, DumpedSoFar
  <2>3. QED
    BY <1>1, <2>1, <2>2 DEF DumpTells
<1>5. CASE EndDump /\ phase = "dump"
  <2>1. flag("dump") /\ ~flag("dump_inputs") /\ next > Len(given.requests) /\ lines' = lines
    BY <1>5 DEF EndDump, PhaseRight, dumpVars
  <2>2. /\ next = Len(given.requests) + 1
        /\ \A i \in 1 .. next - 1 : given.requests[i].error # "UserInputContent"
        /\ ~given.piped => Wanted_links(next - 1) \subseteq ToSet(lines)
    BY <1>1, <1>5, <2>1 DEF DumpedSoFar
  <2>3. 1 .. next - 1 = DOMAIN given.requests
    BY <1>1, <2>2
  <2>4. /\ \A i \in DOMAIN given'.requests : given'.requests[i].error # "UserInputContent"
        /\ ~given'.piped =>
               {i \in DOMAIN given'.requests : given'.requests[i].error = "none"
                    /\ ~given'.requests[i].excluded /\ given'.requests[i].scheme # "data"}
               \subseteq ToSet(lines')
    BY <1>1, <2>1, <2>2, <2>3 DEF Wanted_links
  <2>5. QED
    BY <1>1, <2>1, <2>4 DEF DumpTells
<1>6. CASE EndDump /\ phase = "dump_inputs"
  <2>1. flag("dump_inputs") /\ next > Len(given.sources) /\ lines' = lines
    BY <1>6 DEF EndDump, PhaseRight, dumpVars
  <2>2. /\ next = Len(given.sources) + 1
        /\ IsInjective(lines) /\ "error" \notin seen
        /\ seen = {given.sources[i] : i \in 1 .. next - 1}
        /\ ~given.piped => ToSet(lines) = seen
    BY <1>1, <1>6, <2>1 DEF DumpedSoFar
  <2>3. seen = ToSet(given.sources)
    BY <1>1, <2>2 DEF ToSet
  <2>4. QED
    BY <1>1, <2>1, <2>2, <2>3 DEF DumpTells
<1>7. DumpInput \/ EndDump
  <2>1. CASE Announce \/ SendRequest \/ EndCheck \/ EndSuggest \/ output_statistics
    BY <1>3, <2>1 DEF Announce, SendRequest, EndCheck, EndSuggest, output_statistics, AfterCheck
  <2>2. CASE \E i \in flight : CollectResponse(i) \/ CollectUserError(i)
    BY <1>3, <2>2 DEF CollectResponse, CollectUserError
  <2>3. CASE (\E e \in lookups.waiting : Ask(e))
             \/ \E e \in lookups.asked, reply \in Replies : Hear(e, reply)
    BY <1>3, <2>3 DEF Ask, Hear, AfterCheck
  <2>4. CASE StoreCache \/ SaveCookies \/ ReturnCode
    BY <1>3, <2>4 DEF StoreCache, SaveCookies, ReturnCode, AfterCheck
  <2>5. CASE Open \/ Dump
    <3>1. exit' = exit \/ exit' = {1}
      BY <2>5 DEF Open, Dump, Exit
    <3>2. QED
      BY <1>2, <1>3, <3>1
  <2>6. QED
    BY <2>1, <2>2, <2>3, <2>4, <2>5 DEF RunNext
<1>8. QED
  BY <1>4, <1>5, <1>6, <1>7 DEF EndDump

-----------------------------------------------------------------------------
(* The theorems about Run *)

\* RunIInv holds of every reachable state.
THEOREM RunInvariant == RunSpec => []RunIInv
<1>1. RunInit => RunIInv
  <2> SUFFICES ASSUME RunInit PROVE RunIInv
    OBVIOUS
  <2>1. /\ given \in Runs /\ next = 1 /\ sending = FALSE /\ flight = {}
        /\ DOMAIN responses = {} /\ exit = {} /\ saved = <<>> /\ shown = <<>>
        /\ lines = <<>> /\ seen = {}
        /\ stats = [counts |-> [c \in Counters |-> 0], maps |-> [m \in Maps |-> {}], seen_uris |-> {}]
        /\ bar = [length |-> 0, position |-> 0] /\ lookups = [waiting |-> {}, asked |-> {}]
        /\ phase = IF Checking THEN "check" ELSE "open"
    BY DEF RunInit, Checking
  <2>2. Failed = {} /\ 1 .. next - 1 = {} /\ IsFiniteSet({}) /\ Cardinality({}) = 0
    BY <2>1, FS_EmptySet DEF Failed
  <2>3. PhaseRight
    BY <2>1 DEF PhaseRight, Phases, AfterCheck, Checking
  <2>4. OnTheirWay /\ ResponsesTyped
    <3>1. 1 <= Len(given.requests) + 1 /\ phase \notin AfterCheck
      BY <2>1, RunsAssumption DEF AfterCheck
    <3>2. next \in Nat \ {0}
      BY DEF RunInit
    <3>3. sending \in BOOLEAN
      BY DEF RunInit
    <3>4. QED
      BY <2>1, <2>2, <3>1, <3>2, <3>3 DEF OnTheirWay, ResponsesTyped
  <2>5. MapsExact
    BY <2>1, <2>2 DEF MapsExact, Maps
  <2>6. CountersExact
    <3>1. /\ stats.counts = [c \in Counters |-> 0] /\ stats.seen_uris = {}
          /\ stats.maps["error"] = {} /\ stats.maps["timeout"] = {}
      BY <2>1 DEF Maps
    <3>2. \A c \in Counters : stats.counts[c] = 0
      BY <3>1
    <3>3. stats.counts \in [Counters -> Nat]
      BY <3>1
    <3>4. {responses[i].uri : i \in DOMAIN responses} = {}
          /\ {i \in DOMAIN responses : responses[i].status.from = "cache"} = {}
      BY <2>1
    <3>5. SummaryAgrees
      <4>1. \A c \in {"total", "unique", "cached", "successful", "errors", "timeouts", "unknown",
                       "excludes", "unsupported"} : stats.counts[c] = 0
        BY <3>2 DEF Counters, StatusCounters
      <4>2. Cardinality(DOMAIN responses) = 0 /\ Cardinality(Failed) = 0
        BY <2>1, <2>2
      <4>3. /\ stats.counts["total"] = 0 /\ stats.counts["unique"] = 0 /\ stats.counts["cached"] = 0
            /\ stats.counts["successful"] = 0 /\ stats.counts["errors"] = 0
            /\ stats.counts["timeouts"] = 0 /\ stats.counts["unknown"] = 0
            /\ stats.counts["excludes"] = 0 /\ stats.counts["unsupported"] = 0
        BY <4>1
      <4>4. 0 = 0 + 0 + 0 + 0 + 0 + 0 /\ ~(0 > 0) /\ 0 + 0 = 0
        OBVIOUS
      <4>5. QED
        BY <2>2, <3>1, <3>4, <4>2, <4>3, <4>4 DEF SummaryAgrees
    <3>6. QED
      BY <3>1, <3>3, <3>4, <3>5 DEF CountersExact
  <2>7. LookupsFailed
    BY <2>1 DEF LookupsFailed, Maps
  <2>8. BarExact
    BY <2>1, <2>2 DEF BarExact, ProgressComplete
  <2>9. SavedSoFar /\ ReportShowsFailures
    BY <2>1 DEF SavedSoFar, ReportShowsFailures
  <2>10. DumpedSoFar
    BY <2>1 DEF DumpedSoFar, AfterCheck
  <2>11. ExitCodeTells /\ DumpTells
    BY <2>1 DEF ExitCodeTells, DumpTells, Success
  <2>12. QED
    BY <2>3, <2>4, <2>5, <2>6, <2>7, <2>8, <2>9, <2>10, <2>11 DEF RunIInv
<1>2. RunIInv /\ [RunNext]_runVars => RunIInv'
  <2>1. CASE RunNext
    BY <2>1, PhaseStep, OnTheirWayStep, TypedStep, MapsStep, CountersStep, LookupsStep,
       BarCounts, SavedStep, ReportStep, ExitStep, DumpedStep, DumpEndStep DEF RunIInv
  <2>2. CASE UNCHANGED runVars
    <3>1. /\ UNCHANGED <<given, phase, next, sending, flight, responses, stats, bar>>
          /\ UNCHANGED <<lookups, seen, lines, shown, saved, exit>>
      BY <2>2 DEF runVars, checkVars, dumpVars, endVars
    <3>2. RunIInv => PhaseRight' /\ OnTheirWay' /\ ResponsesTyped' /\ MapsExact'
      BY <3>1 DEF RunIInv, PhaseRight, OnTheirWay, ResponsesTyped, MapsExact, Checking, flag,
                  Failed, EntryOf, AllAnswered
    <3>3. RunIInv => CountersExact' /\ LookupsFailed' /\ BarExact'
      BY <3>1, SameOptions DEF RunIInv, CountersExact, LookupsFailed, BarExact, Failed,
                  SummaryAgrees, ProgressComplete
    <3>4. RunIInv => SavedSoFar' /\ DumpedSoFar'
      BY <3>1, SameOptions DEF RunIInv, SavedSoFar, DumpedSoFar, Wanted_links
    <3>5. RunIInv => ReportShowsFailures'
      BY <3>1 DEF RunIInv, ReportShowsFailures, Failed, EntryOf, option
    <3>6. RunIInv => ExitCodeTells' /\ DumpTells'
      BY <3>1 DEF RunIInv, ExitCodeTells, DumpTells, Failed, Accepted, Checking, flag, AllAnswered
    <3>7. QED
      BY <3>2, <3>3, <3>4, <3>5, <3>6 DEF RunIInv
  <2>3. QED
    BY <2>1, <2>2
<1>3. QED
  BY <1>1, <1>2, PTL DEF RunSpec

\* Whatever the options, the links and the order of the answers: a run whose report could
\* be written exits, if it gets to its end, with 2 exactly if a link failed whose failure is
\* not accepted.
THEOREM ExitCodeTheorem == RunSpec => []ExitCodeTells
<1>1. RunIInv => ExitCodeTells
  BY DEF RunIInv
<1>2. QED
  BY <1>1, RunInvariant, PTL

\* Every failed link is in the report under its input, in every format but JUnit's, which
\* leaves out the links that timed out.
THEOREM ReportTheorem == RunSpec => []ReportShowsFailures
<1>1. RunIInv => ReportShowsFailures
  BY DEF RunIInv
<1>2. QED
  BY <1>1, RunInvariant, PTL

\* The counters of ResponseStats add up after every response.
THEOREM SummaryTheorem == RunSpec => []SummaryAgrees
<1>1. RunIInv => SummaryAgrees
  BY DEF RunIInv, CountersExact
<1>2. QED
  BY <1>1, RunInvariant, PTL

\* The bar is never ahead of its length, and full in the end.
THEOREM ProgressTheorem == RunSpec => []ProgressComplete
<1>1. RunIInv => ProgressComplete
  BY DEF RunIInv, BarExact
<1>2. QED
  BY <1>1, RunInvariant, PTL

\* A dump that ends well has gone through all its links or inputs.
THEOREM DumpTheorem == RunSpec => []DumpTells
<1>1. RunIInv => DumpTells
  BY DEF RunIInv
<1>2. QED
  BY <1>1, RunInvariant, PTL
=============================================================================
