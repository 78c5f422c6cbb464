----------------------------- MODULE HostProofs -----------------------------
(***************************************************************************)
(* Proofs about one host, for every set of calls and URIs, every number of *)
(* permits and every choice of the durations.                              *)
(***************************************************************************)
EXTENDS Host, FiniteSetTheorems, WellFoundedInduction, TLAPS

\* Whatever the statuses, the backoff stays below its maximum.
LEMMA StatusBackoff ==
    ASSUME NEW b \in 0 .. MAXIMUM_BACKOFF, NEW c \in Codes
    PROVE  update_backoff(b, c) \in 0 .. MAXIMUM_BACKOFF
<1> USE HostAssumption
<1>1. Least(IF b = 0 THEN FirstBackoff ELSE 2 * b, LimitedCap) \in 0 .. MAXIMUM_BACKOFF
  BY DEF Least
<1>2. Least(b + ServerStep, ServerCap) \in 0 .. MAXIMUM_BACKOFF
  BY DEF Least
<1>3. QED
  BY <1>1, <1>2 DEF update_backoff

\* So do the headers, which never lower it.
LEMMA HeaderBackoff ==
    ASSUME NEW b \in 0 .. MAXIMUM_BACKOFF, NEW asked \in Asked
    PROVE  /\ increase_backoff(b, asked) \in 0 .. MAXIMUM_BACKOFF
           /\ increase_backoff(b, asked) >= b
BY HostAssumption DEF increase_backoff, Least, Greatest

\* Counting an event keeps the counters natural numbers.
LEMMA CountType ==
    ASSUME stats \in [Counters -> Nat],
           record_cache_hit \/ record_cache_miss \/ \E c \in Codes : record_response(c)
    PROVE  stats' \in [Counters -> Nat]
<1>1. ASSUME NEW ks, Count(ks) PROVE stats' \in [Counters -> Nat]
  BY <1>1 DEF Count
<1>2. CASE record_cache_hit
  BY <1>1, <1>2 DEF record_cache_hit
<1>3. CASE record_cache_miss
  BY <1>1, <1>3 DEF record_cache_miss
<1>4. ASSUME NEW c \in Codes, record_response(c) PROVE stats' \in [Counters -> Nat]
  BY <1>1, <1>4 DEF record_response
<1>5. QED
  BY <1>2, <1>3, <1>4

\* What a call caches and returns is a response.
LEMMA ResponseType ==
    ASSUME NEW c \in Codes
    PROVE  /\ Response(c, TRUE) \in Responses
           /\ Response(c, FALSE) \in Responses
           /\ \A S, x : Response(c, x \in S) \in Responses
<1>1. \A text \in BOOLEAN : Response(c, text) \in Responses
  BY DEF Response, Responses
<1>2. \A S, x : (x \in S) \in BOOLEAN
  OBVIOUS
<1>3. TRUE \in BOOLEAN /\ FALSE \in BOOLEAN
  OBVIOUS
<1>4. QED
  BY <1>1, <1>2, <1>3, Zenon

\* The end of a call, whatever it returns.
LEMMA ReturnType ==
    ASSUME TypeOK, CodeKnown, NEW t \in Calls, NEW value, Return(t, value),
           value \in Responses \cup {NetworkRequest, ReadResponseBody, Persisted}
    PROVE  /\ pc' \in [Calls -> {"start", "done"} \cup Locked]
           /\ result' \in [Calls -> Responses \cup {None, NetworkRequest,
                                                    ReadResponseBody, Persisted}]
           /\ locked' \subseteq Calls /\ permits' \in Nat
           /\ UNCHANGED code => CodeKnown'
BY DEF Return, GoTo, TypeOK, CodeKnown

\* What the answer of a call leaves of the types: the last header, and the last of the body.
LEMMA HeadersType ==
    ASSUME TypeOK, CodeKnown, NEW t \in Calls, NEW asked \in Asked, Headers(t, asked)
    PROVE  TypeOK' /\ CodeKnown'
<1>1. code[t] \in Codes
  BY DEF Headers, CodeKnown
<1>2. Response(code[t], FALSE) \in Responses /\ Response(code[t], t \in NeedsBody) \in Responses
  BY <1>1, ResponseType
<1>3. backoff' \in 0 .. MAXIMUM_BACKOFF
  BY HeaderBackoff DEF Headers, TypeOK
<1>4. CASE t \in NeedsBody
  BY <1>3, <1>4 DEF Headers, GoTo, limits, Locked, Holding, TypeOK, CodeKnown
<1>5. CASE t \notin NeedsBody
  <2>1. Return(t, Response(code[t], FALSE)) /\ UNCHANGED code
    BY <1>5 DEF Headers
  <2>2. cache' \in [Uris -> Responses \cup {None}]
    BY <1>2, <1>5 DEF Headers, cache_result, TypeOK
  <2>3. quiet' = 0 /\ UNCHANGED <<limits, timer, cooldown, stats>>
    BY DEF Headers
  <2>4. Response(code[t], FALSE) \in Responses \cup {NetworkRequest, ReadResponseBody, Persisted}
    BY <1>2
  <2>5. QED
    <3> HIDE DEF TypeOK, CodeKnown, Return, Response, Responses
    <3>1. /\ pc' \in [Calls -> {"start", "done"} \cup Locked]
          /\ result' \in [Calls -> Responses \cup {None, NetworkRequest,
                                                   ReadResponseBody, Persisted}]
          /\ locked' \subseteq Calls /\ permits' \in Nat
          /\ UNCHANGED code => CodeKnown'
      BY <2>1, <2>4, ReturnType
    <3>2. QED
      BY <1>3, <2>1, <2>2, <2>3, <3>1 DEF TypeOK, limits
<1>6. QED
  BY <1>4, <1>5

LEMMA ReadBodyType ==
    ASSUME TypeOK, CodeKnown, NEW t \in Calls, ReadBody(t)
    PROVE  TypeOK' /\ CodeKnown'
<1>1. code[t] \in Codes
  BY DEF ReadBody, CodeKnown
<1>2. Response(code[t], TRUE) \in Responses /\ Response(code[t], t \in NeedsBody) \in Responses
  BY <1>1, ResponseType
<1>3. cache' \in [Uris -> Responses \cup {None}]
  BY <1>2 DEF ReadBody, cache_result, TypeOK
<1>4. Return(t, Response(code[t], TRUE)) /\ UNCHANGED code
  BY DEF ReadBody
<1>5. UNCHANGED <<limits, timer, cooldown, backoff, stats, quiet>>
  BY DEF ReadBody
<1>6. Response(code[t], TRUE) \in Responses \cup {NetworkRequest, ReadResponseBody, Persisted}
  BY <1>2
<1>7. /\ pc' \in [Calls -> {"start", "done"} \cup Locked]
      /\ result' \in [Calls -> Responses \cup {None, NetworkRequest,
                                               ReadResponseBody, Persisted}]
      /\ locked' \subseteq Calls /\ permits' \in Nat
      /\ UNCHANGED code => CodeKnown'
  BY <1>4, <1>6, ReturnType
<1>8. QED
  BY <1>3, <1>4, <1>5, <1>7 DEF TypeOK, limits

LEMMA TypeStep ==
    ASSUME IInv, [Next]_vars
    PROVE  TypeOK' /\ CodeKnown'
<1> USE HostAssumption DEF IInv, Locked, Holding, GoTo, limits
<1>1. ASSUME NEW t \in Calls, LockUri(t) PROVE TypeOK' /\ CodeKnown'
  <2>1. CASE Satisfied(t)
    <3>1. cache[UriOf[t]] \in Responses
      BY <2>1 DEF TypeOK, Satisfied
    <3>2. QED
      BY SMTT(30), <1>1, <2>1, <3>1, CountType
      DEF LockUri, record_cache_hit, Return, TypeOK, CodeKnown
  <2>2. CASE ~Satisfied(t)
    BY <1>1, <2>2, CountType DEF LockUri, record_cache_miss, TypeOK, CodeKnown
  <2>3. QED
    BY <2>1, <2>2
<1>2. ASSUME NEW t \in Calls, AcquirePermit(t) PROVE TypeOK' /\ CodeKnown'
  <2>1. pc' \in [Calls -> {"start", "done"} \cup Locked] /\ permits' \in Nat
    BY <1>2 DEF AcquirePermit, TypeOK
  <2>2. timer' \in [Calls -> Nat]
    BY <1>2 DEF AcquirePermit, sleep_for, TypeOK
  <2>3. QED
    BY <1>2, <2>1, <2>2 DEF AcquirePermit, TypeOK, CodeKnown
<1>3. ASSUME NEW t \in Calls, WakeUp(t) \/ Send(t) PROVE TypeOK' /\ CodeKnown'
  <2>1. pc' \in [Calls -> {"start", "done"} \cup Locked] /\ cooldown' \in Nat
    BY <1>3 DEF WakeUp, Send, TypeOK
  <2>2. CodeKnown'
    BY <1>3, <2>1 DEF WakeUp, Send, TypeOK, CodeKnown
  <2>3. QED
    BY <1>3, <2>1, <2>2 DEF WakeUp, Send, TypeOK
<1>4. ASSUME NEW t \in Calls, NetworkFails(t) \/ BodyFails(t)
      PROVE  TypeOK' /\ CodeKnown'
  <2>1. PICK value \in {NetworkRequest, ReadResponseBody} : Return(t, value)
    BY <1>4 DEF NetworkFails, BodyFails
  <2>2. UNCHANGED <<limits, timer, cooldown, backoff, cache, code, stats, quiet>>
    BY <1>4 DEF NetworkFails, BodyFails
  <2>3. QED
    BY <2>1, <2>2, ReturnType DEF TypeOK
<1>5. ASSUME NEW t \in Calls, NEW c \in Codes, Receive(t, c)
      PROVE  TypeOK' /\ CodeKnown'
  <2>1. stats' \in [Counters -> Nat]
    BY <1>5, CountType DEF Receive, TypeOK
  <2>2. backoff' \in 0 .. MAXIMUM_BACKOFF
    BY <1>5, StatusBackoff DEF Receive, TypeOK
  <2>3. QED
    BY <1>5, <2>1, <2>2 DEF Receive, TypeOK, CodeKnown
<1>6. ASSUME NEW t \in Calls, NEW asked \in Asked, Headers(t, asked)
      PROVE  TypeOK' /\ CodeKnown'
  BY <1>6, HeadersType DEF IInv
<1>7. ASSUME NEW t \in Calls, ReadBody(t) PROVE TypeOK' /\ CodeKnown'
  BY <1>7, ReadBodyType DEF IInv
<1>8. ASSUME NEW t \in Calls, PersistentHit(t) PROVE TypeOK' /\ CodeKnown'
  BY <1>8, CountType DEF PersistentHit, record_cache_hit, Return, TypeOK, CodeKnown
<1>9. CASE Tick
  BY <1>9 DEF Tick, Least, TypeOK, CodeKnown
<1>10. CASE UNCHANGED vars
  BY <1>10 DEF vars, TypeOK, CodeKnown
<1>11. QED
  BY <1>1, <1>2, <1>3, <1>4, <1>5, <1>6, <1>7, <1>8, <1>9, <1>10
  DEF Next, Step, Idle
\* The mutex follows the call, and two holders ask for different URIs.
LEMMA LockStep ==
    ASSUME IInv, [Next]_vars
    PROVE  LockedExact' /\ UriExclusive'
<1> USE DEF IInv, TypeOK, LockedExact, UriExclusive, Locked, Holding, GoTo
<1>1. ASSUME NEW t \in Calls, LockUri(t) PROVE LockedExact' /\ UriExclusive'
  BY <1>1 DEF LockUri, MutexFree, Return
<1>2. ASSUME NEW t \in Calls, AcquirePermit(t) \/ WakeUp(t) \/ Send(t)
      PROVE  LockedExact' /\ UriExclusive'
  BY <1>2 DEF AcquirePermit, WakeUp, Send
<1>3. ASSUME NEW t \in Calls, NetworkFails(t) \/ ReadBody(t) \/ BodyFails(t) \/ PersistentHit(t)
      PROVE  LockedExact' /\ UriExclusive'
  BY <1>3 DEF NetworkFails, ReadBody, BodyFails, PersistentHit, Return
<1>4. ASSUME NEW t \in Calls, NEW c \in Codes, Receive(t, c)
      PROVE  LockedExact' /\ UriExclusive'
  BY <1>4 DEF Receive
<1>5. ASSUME NEW t \in Calls, NEW asked \in Asked, Headers(t, asked)
      PROVE  LockedExact' /\ UriExclusive'
  BY <1>5 DEF Headers, Return
<1>6. CASE Tick
  BY <1>6 DEF Tick
<1>7. CASE UNCHANGED vars
  BY <1>7 DEF vars
<1>8. QED
  BY <1>1, <1>2, <1>3, <1>4, <1>5, <1>6, <1>7 DEF Next, Step, Idle

\* A call that ends with a cached response frees its URI by caching it.
LEMMA CacheStep ==
    ASSUME IInv, NEW t \in Calls, pc[t] \in {"headers", "body"}, cache_result(t),
           pc' = [pc EXCEPT ![t] = "done"]
    PROVE  NoFetchWithAnswer'
<1> SUFFICES ASSUME NEW h \in Calls, pc'[h] \in Locked
             PROVE  ~Satisfied(h)'
  BY DEF NoFetchWithAnswer
<1>1. h # t /\ pc[h] \in Locked /\ pc[t] \in Locked
  BY DEF IInv, TypeOK, Locked, Holding
<1>2. UriOf[h] # UriOf[t]
  BY <1>1 DEF IInv, UriExclusive
<1>3. cache'[UriOf[h]] = cache[UriOf[h]]
  BY <1>2, HostAssumption DEF IInv, TypeOK, cache_result
<1>4. ~Satisfied(h)
  BY <1>1 DEF IInv, NoFetchWithAnswer
<1>5. QED
  BY <1>3, <1>4 DEF Satisfied

\* The lookup under the mutex stays right until the call itself fills the cache.
LEMMA LookupStep ==
    ASSUME IInv, [Next]_vars
    PROVE  NoFetchWithAnswer'
<1> USE DEF IInv, TypeOK, Locked, Holding, GoTo
<1>1. ASSUME UNCHANGED cache, NEW t \in Calls,
             \A h \in Calls : pc'[h] \in Locked => pc[h] \in Locked \/ h = t,
             pc'[t] \in Locked => pc[t] \in Locked \/ ~Satisfied(t)
      PROVE  NoFetchWithAnswer'
  BY <1>1 DEF NoFetchWithAnswer, Satisfied
<1>2. ASSUME NEW t \in Calls, LockUri(t) PROVE NoFetchWithAnswer'
  BY <1>1, <1>2 DEF LockUri, Return
<1>3. ASSUME NEW t \in Calls,
             \/ AcquirePermit(t) \/ WakeUp(t) \/ Send(t) \/ NetworkFails(t)
             \/ BodyFails(t) \/ PersistentHit(t) \/ \E c \in Codes : Receive(t, c)
      PROVE  NoFetchWithAnswer'
  BY <1>1, <1>3 DEF AcquirePermit, WakeUp, Send, NetworkFails, BodyFails,
                    PersistentHit, Receive, Return
<1>4. ASSUME NEW t \in Calls, NEW asked \in Asked, Headers(t, asked)
      PROVE  NoFetchWithAnswer'
  <2>1. CASE t \in NeedsBody
    BY <1>1, <1>4, <2>1 DEF Headers
  <2>2. CASE t \notin NeedsBody
    BY <1>4, <2>2, CacheStep DEF Headers, Return
  <2>3. QED
    BY <2>1, <2>2
<1>5. ASSUME NEW t \in Calls, ReadBody(t) PROVE NoFetchWithAnswer'
  BY <1>5, CacheStep DEF ReadBody, Return
<1>6. CASE Tick \/ UNCHANGED vars
  BY <1>6 DEF Tick, vars, NoFetchWithAnswer, Satisfied
<1>7. QED
  BY <1>2, <1>3, <1>4, <1>5, <1>6 DEF Next, Step, Idle

\* The kinds that are not a response.
LEMMA OtherKinds ==
    /\ None.kind # "response" /\ NetworkRequest.kind # "response"
    /\ ReadResponseBody.kind # "response" /\ Persisted.kind # "response"
BY DEF None, NetworkRequest, ReadResponseBody, Persisted

\* A call that wants the text gets a response that has it.
LEMMA TextStep ==
    ASSUME IInv, [Next]_vars
    PROVE  ServedWithText'
<1> USE DEF IInv, TypeOK, GoTo, ServedWithText
<1>1. ASSUME NEW t \in Calls, NEW value, Return(t, value),
             t \in NeedsBody /\ value.kind = "response" => value.text
      PROVE  ServedWithText'
  BY <1>1, HostAssumption DEF Return
<1>2. ASSUME NEW t \in Calls, LockUri(t) PROVE ServedWithText'
  BY <1>1, <1>2 DEF LockUri, Satisfied
<1>3. ASSUME NEW t \in Calls, NetworkFails(t) \/ BodyFails(t) \/ PersistentHit(t)
      PROVE  ServedWithText'
  BY <1>1, <1>3, OtherKinds DEF NetworkFails, BodyFails, PersistentHit
<1>4. ASSUME NEW t \in Calls, NEW asked \in Asked, Headers(t, asked)
      PROVE  ServedWithText'
  BY <1>1, <1>4 DEF Headers
<1>5. ASSUME NEW t \in Calls, ReadBody(t) PROVE ServedWithText'
  <2>1. Response(code[t], TRUE).text
    BY DEF Response
  <2>2. QED
    BY <1>1, <1>5, <2>1 DEF ReadBody
<1>6. ASSUME UNCHANGED result PROVE ServedWithText'
  BY <1>6
<1>7. QED
  BY <1>2, <1>3, <1>4, <1>5, <1>6
  DEF Next, Step, Idle, AcquirePermit, WakeUp, Send, Receive, Tick, vars
\* The holders are finitely many, so they can be counted.
LEMMA HoldersFinite ==
    /\ IsFiniteSet(Holders) /\ Cardinality(Holders) \in Nat
    /\ IsFiniteSet(Holders') /\ Cardinality(Holders') \in Nat
BY HostAssumption, FS_Subset, FS_CardinalityType DEF Holders

\* The semaphore is never resized.
LEMMA SameConcurrency == [Next]_vars => concurrency' = concurrency
BY DEF Next, Step, Idle, LockUri, AcquirePermit, WakeUp, Send, NetworkFails, Receive,
       Headers, ReadBody, BodyFails, PersistentHit, Tick, vars, limits

\* The steps that end a call.
LEMMA ReturnsSomething ==
    ASSUME NEW t, NetworkFails(t) \/ ReadBody(t) \/ BodyFails(t) \/ PersistentHit(t)
    PROVE  \E value : Return(t, value)
BY DEF NetworkFails, ReadBody, BodyFails, PersistentHit

\* A permit goes out with each call that becomes a holder and comes back once.
LEMMA PermitStep ==
    ASSUME TypeOK, PermitsExact, [Next]_vars
    PROVE  PermitsExact'
<1> USE HostAssumption, HoldersFinite DEF TypeOK, GoTo, Locked, Holding
<1>0. concurrency' = concurrency
  BY SameConcurrency
<1>1. ASSUME Holders' = Holders, permits' = permits PROVE PermitsExact'
  BY <1>0, <1>1 DEF PermitsExact
<1>2. ASSUME NEW t \in Calls, NEW value, Return(t, value) PROVE PermitsExact'
  <2>1. CASE pc[t] \in Holding
    <3>1. t \in Holders /\ Holders' = Holders \ {t} /\ permits' = permits + 1
      BY <1>2, <2>1 DEF Return, Holders
    <3>2. Cardinality(Holders') = Cardinality(Holders) - 1
      BY <3>1, FS_RemoveElement
    <3>3. QED
      BY <1>0, <3>1, <3>2 DEF PermitsExact
  <2>2. CASE pc[t] \notin Holding
    BY <1>1, <1>2, <2>2 DEF Return, Holders
  <2>3. QED
    BY <2>1, <2>2
<1>3. ASSUME NEW t \in Calls, AcquirePermit(t) PROVE PermitsExact'
  <2>1. t \notin Holders /\ Holders' = Holders \cup {t} /\ permits' = permits - 1
    BY <1>3 DEF AcquirePermit, Holders
  <2>2. Cardinality(Holders') = Cardinality(Holders) + 1
    BY <2>1, FS_AddElement
  <2>3. QED
    BY <1>0, <2>1, <2>2 DEF PermitsExact
<1>4. ASSUME NEW t \in Calls, LockUri(t) PROVE PermitsExact'
  <2>1. CASE Satisfied(t)
    BY <1>2, <1>4, <2>1 DEF LockUri, Return
  <2>2. CASE ~Satisfied(t)
    BY <1>1, <1>4, <2>2 DEF LockUri, Holders
  <2>3. QED
    BY <2>1, <2>2
<1>5. ASSUME NEW t \in Calls, WakeUp(t) \/ Send(t) \/ \E c \in Codes : Receive(t, c)
      PROVE  PermitsExact'
  <2>1. (pc[t] \in Holding /\ pc'[t] \in Holding) \/ WakeUp(t)
    BY <1>5 DEF Send, Receive
  <2>2. Holders' = Holders /\ permits' = permits
    BY <1>5, <2>1 DEF WakeUp, Send, Receive, Holders
  <2>3. QED
    BY <1>1, <2>2
<1>6. ASSUME NEW t \in Calls, NetworkFails(t) \/ ReadBody(t) \/ BodyFails(t) \/ PersistentHit(t)
      PROVE  PermitsExact'
  <2>1. PICK value : Return(t, value)
    BY <1>6, ReturnsSomething
  <2>2. QED
    BY <1>2, <2>1
<1>7. ASSUME NEW t \in Calls, NEW asked \in Asked, Headers(t, asked)
      PROVE  PermitsExact'
  <2>1. CASE t \in NeedsBody
    BY <1>1, <1>7, <2>1 DEF Headers, Holders
  <2>2. CASE t \notin NeedsBody
    BY <1>2, <1>7, <2>2 DEF Headers, Return
  <2>3. QED
    BY <2>1, <2>2
<1>8. CASE Tick \/ UNCHANGED vars
  BY <1>1, <1>8 DEF Tick, vars, Holders
<1>9. QED
  BY <1>3, <1>4, <1>5, <1>6, <1>7, <1>8 DEF Next, Step, Idle

\* With one permit there is one holder.
LEMMA OneHolder ==
    ASSUME IInv, concurrency = 1, NEW t \in Holders
    PROVE  Holders = {t} /\ permits = 0
<1>1. Cardinality(Holders \ {t}) = Cardinality(Holders) - 1
  BY HoldersFinite, FS_RemoveElement
<1>2. IsFiniteSet(Holders \ {t}) /\ Cardinality(Holders \ {t}) \in Nat
  BY HoldersFinite, FS_RemoveElement, FS_CardinalityType
<1>3. permits = 0 /\ Cardinality(Holders \ {t}) = 0
  BY <1>1, <1>2, HoldersFinite DEF IInv, TypeOK, PermitsExact
<1>4. Holders \ {t} = {}
  BY <1>2, <1>3, FS_EmptySet
<1>5. QED
  BY <1>3, <1>4

\* Nobody else sleeps while the one holder changes the backoff.
LEMMA BackoffStep ==
    ASSUME IInv, [Next]_vars
    PROVE  SleepsEnough' /\ BackoffHonoured'
<1> SUFFICES ASSUME concurrency = 1 PROVE SleepsEnough' /\ BackoffHonoured'
  BY SameConcurrency DEF SleepsEnough, BackoffHonoured
<1> USE DEF IInv, TypeOK, GoTo, SleepsEnough, BackoffHonoured
<1>1. ASSUME NEW t \in Calls, pc[t] \in Holding, pc' = [pc EXCEPT ![t] = pc'[t]],
             pc'[t] \notin {"sleep", "limiter"}
      PROVE  SleepsEnough' /\ BackoffHonoured'
  <2>1. \A h \in Calls : pc[h] \in Holding => h = t
    BY <1>1, OneHolder DEF Holders
  <2>2. QED
    BY <1>1, <2>1 DEF Holding
<1>2. ASSUME NEW t \in Calls, AcquirePermit(t) PROVE SleepsEnough' /\ BackoffHonoured'
  <2>1. \A h \in Calls : pc[h] \notin Holding
    BY <1>2, OneHolder DEF Holders, AcquirePermit
  <2>2. QED
    BY <1>2, <2>1 DEF AcquirePermit, sleep_for, Holding
<1>3. ASSUME NEW t \in Calls, LockUri(t) \/ PersistentHit(t) \/ WakeUp(t)
      PROVE  SleepsEnough' /\ BackoffHonoured'
  BY <1>3 DEF LockUri, PersistentHit, WakeUp, Return
<1>4. ASSUME NEW t \in Calls,
             \/ Send(t) \/ NetworkFails(t) \/ ReadBody(t) \/ BodyFails(t)
             \/ (\E c \in Codes : Receive(t, c)) \/ \E asked \in Asked : Headers(t, asked)
      PROVE  SleepsEnough' /\ BackoffHonoured'
  <2>1. pc[t] \in Holding
    BY <1>4 DEF Send, NetworkFails, ReadBody, BodyFails, Receive, Headers, Holding
  <2>2. pc' = [pc EXCEPT ![t] = pc'[t]] /\ pc'[t] \notin {"sleep", "limiter"}
    BY <1>4 DEF Send, NetworkFails, ReadBody, BodyFails, Receive, Headers, Return
  <2>3. QED
    BY <1>1, <2>1, <2>2
<1>5. CASE Tick
  BY <1>5, HostAssumption DEF Tick, Least
<1>6. CASE UNCHANGED vars
  BY <1>6 DEF vars
<1>7. QED
  BY <1>2, <1>3, <1>4, <1>5, <1>6 DEF Next, Step, Idle

\* A call has no result before its end, and no code before its answer.
Untold ==
    \A t \in Calls :
        /\ pc[t] # "done" => result[t] = None
        /\ pc[t] \in {"start", "permit", "sleep", "limiter", "sent"} => code[t] = 0

LEMMA UntoldStep ==
    ASSUME TypeOK, Untold, [Next]_vars
    PROVE  Untold'
<1> USE HostAssumption DEF TypeOK, Untold, GoTo
<1>1. ASSUME NEW t \in Calls, NEW value, Return(t, value), UNCHANGED code PROVE Untold'
  BY <1>1 DEF Return
<1>2. ASSUME NEW t \in Calls, LockUri(t) PROVE Untold'
  <2>1. CASE Satisfied(t)
    BY <1>1, <1>2, <2>1 DEF LockUri
  <2>2. CASE ~Satisfied(t)
    BY <1>2, <2>2 DEF LockUri
  <2>3. QED
    BY <2>1, <2>2
<1>3. ASSUME NEW t \in Calls, NetworkFails(t) \/ ReadBody(t) \/ BodyFails(t) \/ PersistentHit(t)
      PROVE  Untold'
  <2>1. UNCHANGED code
    BY <1>3 DEF NetworkFails, ReadBody, BodyFails, PersistentHit
  <2>2. QED
    BY <1>1, <1>3, <2>1, ReturnsSomething
<1>4. ASSUME NEW t \in Calls,
             AcquirePermit(t) \/ WakeUp(t) \/ Send(t) \/ \E c \in Codes : Receive(t, c)
      PROVE  Untold'
  BY <1>4 DEF AcquirePermit, WakeUp, Send, Receive
<1>5. ASSUME NEW t \in Calls, NEW asked \in Asked, Headers(t, asked) PROVE Untold'
  <2>1. CASE t \in NeedsBody
    BY <1>5, <2>1 DEF Headers
  <2>2. CASE t \notin NeedsBody
    BY <1>1, <1>5, <2>2 DEF Headers
  <2>3. QED
    BY <2>1, <2>2
<1>6. CASE Tick \/ UNCHANGED vars
  BY <1>6 DEF Tick, vars
<1>7. QED
  BY <1>2, <1>3, <1>4, <1>5, <1>6 DEF Next, Step, Idle

\* The calls of each counter.
LEMMA CallsOfEach ==
    /\ CallsOf("cache_hits") = Hits
    /\ CallsOf("cache_misses") = Begun \ Hits
    /\ CallsOf("total_requests") = Hits \cup Answered(Codes)
    /\ CallsOf("successful_requests") = Hits \cup Answered(200 .. 299)
    /\ CallsOf("rate_limited") = Answered({429})
    /\ CallsOf("client_errors") = Answered(400 .. 499 \ {429})
    /\ CallsOf("server_errors") = Answered(500 .. 599)
BY DEF CallsOf

LEMMA CallsOfEachNext ==
    /\ CallsOf("cache_hits")' = Hits'
    /\ CallsOf("cache_misses")' = Begun' \ Hits'
    /\ CallsOf("total_requests")' = Hits' \cup Answered(Codes)'
    /\ CallsOf("successful_requests")' = Hits' \cup Answered(200 .. 299)'
    /\ CallsOf("rate_limited")' = Answered({429})'
    /\ CallsOf("client_errors")' = Answered(400 .. 499 \ {429})'
    /\ CallsOf("server_errors")' = Answered(500 .. 599)'
BY DEF CallsOf

\* An event that adds one call to each of the counters it counts, and to no other.
LEMMA OneMore ==
    ASSUME TypeOK, StatsBalance, NEW t \in Calls, NEW ks, Count(ks),
           \A k \in Counters :
               /\ k \in ks => t \notin CallsOf(k) /\ CallsOf(k)' = CallsOf(k) \cup {t}
               /\ k \notin ks => CallsOf(k)' = CallsOf(k)
    PROVE  StatsBalance'
<1> SUFFICES ASSUME NEW k \in Counters PROVE stats'[k] = Cardinality(CallsOf(k)')
  BY DEF StatsBalance
<1>1. CallsOf(k) \subseteq Calls
  BY DEF Counters, CallsOf, Hits, Begun, Answered
<1>2. IsFiniteSet(CallsOf(k)) /\ stats[k] = Cardinality(CallsOf(k))
  BY <1>1, HostAssumption, FS_Subset DEF StatsBalance
<1>3. stats'[k] = IF k \in ks THEN stats[k] + 1 ELSE stats[k]
  BY DEF Count
<1>4. CASE k \in ks
  <2>1. Cardinality(CallsOf(k)') = Cardinality(CallsOf(k)) + 1
    BY <1>2, <1>4, FS_AddElement
  <2>2. QED
    BY <1>2, <1>3, <1>4, <2>1
<1>5. CASE k \notin ks
  BY <1>2, <1>3, <1>5
<1>6. QED
  BY <1>4, <1>5

\* An event that no counter counts.
LEMMA NoneMore ==
    ASSUME StatsBalance, UNCHANGED stats, Hits' = Hits,
           Begun' = Begun, UNCHANGED code
    PROVE  StatsBalance'
<1>1. \A codes : Answered(codes)' = Answered(codes)
  BY DEF Answered
<1>2. CallsOf("cache_misses")' = CallsOf("cache_misses")
  BY DEF CallsOf
<1>3. ASSUME NEW k \in Counters \ {"cache_misses"} PROVE CallsOf(k)' = CallsOf(k)
  BY <1>1 DEF Counters, CallsOf
<1>4. QED
  BY <1>2, <1>3 DEF StatsBalance

\* A call that is answered from a cache.
LEMMA HitBalance ==
    ASSUME TypeOK, Untold, StatsBalance, NEW t \in Calls, pc[t] = "start", record_cache_hit,
           NEW value, value.kind \in {"response", "persisted"}, Return(t, value), UNCHANGED code
    PROVE  StatsBalance'
<1> DEFINE ks == {"cache_hits", "total_requests", "successful_requests"}
<1>1. code[t] = 0 /\ result[t].kind = "none"
  BY DEF Untold, None
<1>2. t \notin Hits /\ Hits' = Hits \cup {t}
  BY <1>1 DEF Hits, Return, TypeOK
<1>3. t \notin Begun /\ Begun' = Begun \cup {t}
  BY DEF Return, GoTo, TypeOK, Begun
<1>4. \A codes : Answered(codes)' = Answered(codes)
  BY DEF Answered
<1>5. t \notin Answered(Codes) /\ t \notin Answered(200 .. 299)
  BY <1>1, HostAssumption DEF Answered
<1>6. ASSUME NEW k \in Counters
      PROVE  /\ k \in ks => t \notin CallsOf(k) /\ CallsOf(k)' = CallsOf(k) \cup {t}
             /\ k \notin ks => CallsOf(k)' = CallsOf(k)
  <2>1. CASE k = "cache_misses"
    <3>1. Begun' \ Hits' = Begun \ Hits
      BY <1>2, <1>3
    <3>2. CallsOf("cache_misses")' = CallsOf("cache_misses")
      BY <3>1 DEF CallsOf
    <3>3. QED
      BY <2>1, <3>2
  <2>2. CASE k \in ks
    BY <1>2, <1>4, <1>5, <2>2, CallsOfEach, CallsOfEachNext
  <2>3. CASE k \in {"rate_limited", "client_errors", "server_errors"}
    BY <1>4, <2>3, CallsOfEach, CallsOfEachNext
  <2>4. QED
    BY <2>1, <2>2, <2>3 DEF Counters
<1>7. Count(ks)
  BY DEF record_cache_hit
<1> HIDE DEF ks
<1>8. QED
  BY <1>6, <1>7, OneMore

\* A call that is not.
LEMMA MissBalance ==
    ASSUME TypeOK, Untold, StatsBalance, NEW t \in Calls, pc[t] = "start", record_cache_miss,
           GoTo(t, "permit"), UNCHANGED <<code, result>>
    PROVE  StatsBalance'
<1>1. t \notin Hits /\ Hits' = Hits
  BY DEF Untold, None, Hits
<1>2. t \notin Begun /\ Begun' = Begun \cup {t}
  BY DEF GoTo, TypeOK, Begun
<1>3. \A codes : Answered(codes)' = Answered(codes)
  BY DEF Answered
<1>4. ASSUME NEW k \in Counters
      PROVE  /\ k \in {"cache_misses"} => t \notin CallsOf(k) /\ CallsOf(k)' = CallsOf(k) \cup {t}
             /\ k \notin {"cache_misses"} => CallsOf(k)' = CallsOf(k)
  <2>1. CASE k = "cache_misses"
    BY <1>1, <1>2, <2>1 DEF CallsOf
  <2>2. CASE k # "cache_misses"
    BY <1>1, <1>3, <2>2 DEF Counters, CallsOf
  <2>3. QED
    BY <2>1, <2>2
<1>5. Count({"cache_misses"})
  BY DEF record_cache_miss
<1>6. QED
  BY <1>4, <1>5, OneMore

\* A response of the server.
LEMMA ResponseBalance ==
    ASSUME TypeOK, Untold, StatsBalance, NEW t \in Calls, NEW c \in Codes, Receive(t, c)
    PROVE  StatsBalance'
<1> DEFINE ks == {"total_requests"}
                 \cup (IF is_success_status(c) THEN {"successful_requests"} ELSE {})
                 \cup (IF c = 429 THEN {"rate_limited"} ELSE {})
                 \cup (IF c \in 400 .. 499 \ {429} THEN {"client_errors"} ELSE {})
                 \cup (IF c \in 500 .. 599 THEN {"server_errors"} ELSE {})
<1>1. /\ pc[t] = "sent" /\ code[t] = 0 /\ result[t] = None /\ UNCHANGED result
      /\ code' = [code EXCEPT ![t] = c] /\ GoTo(t, "headers") /\ record_response(c)
  BY DEF Receive, Untold
<1>2. c \in 100 .. 999 /\ c # 0
  BY HostAssumption
<1>3. t \notin Hits /\ Hits' = Hits
  BY <1>1, <1>2 DEF Hits, None, TypeOK
<1>4. Begun' = Begun
  BY <1>1 DEF GoTo, TypeOK, Begun
<1>5. ASSUME NEW codes, 0 \notin codes
      PROVE  /\ t \notin Answered(codes)
             /\ c \in codes => Answered(codes)' = Answered(codes) \cup {t}
             /\ c \notin codes => Answered(codes)' = Answered(codes)
  BY <1>1, <1>5 DEF Answered, TypeOK
<1>6. /\ 0 \notin Codes /\ 0 \notin 200 .. 299 /\ 0 \notin {429}
      /\ 0 \notin 400 .. 499 \ {429} /\ 0 \notin 500 .. 599
  BY HostAssumption
<1>7. ASSUME NEW k \in Counters
      PROVE  /\ k \in ks => t \notin CallsOf(k) /\ CallsOf(k)' = CallsOf(k) \cup {t}
             /\ k \notin ks => CallsOf(k)' = CallsOf(k)
  <2>1. CASE k \in {"cache_hits", "cache_misses"}
    <3>1. /\ CallsOf("cache_misses")' = CallsOf("cache_misses")
          /\ CallsOf("cache_hits")' = CallsOf("cache_hits")
      BY <1>3, <1>4 DEF CallsOf
    <3>2. QED
      BY <2>1, <3>1
  <2>2. CASE k = "total_requests"
    BY <1>3, <1>5, <1>6, <2>2, CallsOfEach, CallsOfEachNext
  <2>3. CASE k = "successful_requests"
    <3>1. k \in ks <=> c \in 200 .. 299
      BY <2>3 DEF is_success_status
    <3> HIDE DEF ks
    <3>2. /\ t \notin Answered(200 .. 299)
          /\ c \in 200 .. 299 => Answered(200 .. 299)' = Answered(200 .. 299) \cup {t}
          /\ c \notin 200 .. 299 => Answered(200 .. 299)' = Answered(200 .. 299)
      BY <1>5, <1>6
    <3>3. CASE c \in 200 .. 299
      BY <1>3, <2>3, <3>1, <3>2, <3>3, CallsOfEach, CallsOfEachNext
    <3>4. CASE c \notin 200 .. 299
      <4>1. CallsOf("successful_requests")' = CallsOf("successful_requests")
        BY <1>3, <3>2, <3>4 DEF CallsOf
      <4>2. QED
        BY <2>3, <3>1, <3>4, <4>1
    <3>5. QED
      BY <3>3, <3>4
  <2>4. CASE k = "rate_limited"
    BY <1>5, <1>6, <2>4, CallsOfEach, CallsOfEachNext
  <2>5. CASE k = "client_errors"
    BY <1>5, <1>6, <2>5, CallsOfEach, CallsOfEachNext
  <2>6. CASE k = "server_errors"
    BY <1>5, <1>6, <2>6, CallsOfEach, CallsOfEachNext
  <2>7. QED
    BY <2>1, <2>2, <2>3, <2>4, <2>5, <2>6 DEF Counters
<1>8. Count(ks)
  BY <1>1 DEF record_response
<1> HIDE DEF ks
<1>9. QED
  BY <1>7, <1>8, OneMore

\* Every event counts each call where it belongs.
LEMMA BalanceStep ==
    ASSUME IInv, Untold, StatsBalance, [Next]_vars
    PROVE  StatsBalance'
<1>0. TypeOK /\ CodeKnown
  BY DEF IInv
<1>1. ASSUME NEW t \in Calls, NEW value, Return(t, value), pc[t] \in Locked,
             UNCHANGED <<code, stats>>,
             code[t] # 0 \/ value.kind \in {"NetworkRequest", "ReadResponseBody"}
      PROVE  StatsBalance'
  <2>1. t \notin Hits /\ Hits' = Hits
    BY <1>0, <1>1 DEF Return, TypeOK, Untold, None, Hits, Locked, Holding
  <2>2. Begun' = Begun
    BY <1>0, <1>1 DEF Return, GoTo, TypeOK, Begun, Locked, Holding
  <2>3. QED
    BY <1>1, <2>1, <2>2, NoneMore
<1>2. ASSUME NEW t \in Calls, NEW where, GoTo(t, where), pc[t] # "start", where # "start",
             UNCHANGED <<code, stats, result>>
      PROVE  StatsBalance'
  <2>1. Hits' = Hits
    BY <1>2 DEF Hits
  <2>2. Begun' = Begun
    BY <1>0, <1>2 DEF GoTo, TypeOK, Begun
  <2>3. QED
    BY <1>2, <2>1, <2>2, NoneMore
<1>3. ASSUME NEW t \in Calls, LockUri(t) PROVE StatsBalance'
  <2>1. CASE Satisfied(t)
    <3>1. cache[UriOf[t]].kind = "response"
      BY <1>0, <2>1, HostAssumption DEF TypeOK, Satisfied, Responses, Response
    <3>2. QED
      BY <1>0, <1>3, <2>1, <3>1, HitBalance DEF LockUri
  <2>2. CASE ~Satisfied(t)
    BY <1>0, <1>3, <2>2, MissBalance DEF LockUri
  <2>3. QED
    BY <2>1, <2>2
<1>4. ASSUME NEW t \in Calls, AcquirePermit(t) \/ WakeUp(t) \/ Send(t) PROVE StatsBalance'
  <2>1. PICK where \in {"sleep", "limiter", "sent"} : GoTo(t, where)
    BY <1>4 DEF AcquirePermit, WakeUp, Send
  <2>2. pc[t] # "start" /\ UNCHANGED <<code, stats, result>>
    BY <1>4 DEF AcquirePermit, WakeUp, Send
  <2>3. QED
    BY <1>2, <2>1, <2>2
<1>5. ASSUME NEW t \in Calls, NetworkFails(t) \/ BodyFails(t) PROVE StatsBalance'
  <2>1. PICK value \in {NetworkRequest, ReadResponseBody} : Return(t, value)
    BY <1>5 DEF NetworkFails, BodyFails
  <2>2. pc[t] \in Locked /\ UNCHANGED <<code, stats>>
    BY <1>5 DEF NetworkFails, BodyFails, Locked, Holding
  <2>3. value.kind \in {"NetworkRequest", "ReadResponseBody"}
    BY <2>1 DEF NetworkRequest, ReadResponseBody
  <2>4. QED
    BY <1>1, <2>1, <2>2, <2>3
<1>6. ASSUME NEW t \in Calls, NEW c \in Codes, Receive(t, c) PROVE StatsBalance'
  BY <1>0, <1>6, ResponseBalance
<1>7. ASSUME NEW t \in Calls, pc[t] \in {"headers", "body"} PROVE code[t] # 0
  BY <1>0, <1>7, HostAssumption DEF CodeKnown
<1>8. ASSUME NEW t \in Calls, NEW asked \in Asked, Headers(t, asked) PROVE StatsBalance'
  <2>1. CASE t \in NeedsBody
    BY <1>2, <1>8, <2>1 DEF Headers
  <2>2. CASE t \notin NeedsBody
    BY <1>1, <1>7, <1>8, <2>2 DEF Headers, Locked, Holding
  <2>3. QED
    BY <2>1, <2>2
<1>9. ASSUME NEW t \in Calls, ReadBody(t) PROVE StatsBalance'
  BY <1>1, <1>7, <1>9 DEF ReadBody, Locked, Holding
<1>10. ASSUME NEW t \in Calls, PersistentHit(t) PROVE StatsBalance'
  BY <1>0, <1>10, HitBalance DEF PersistentHit, Persisted
<1>11. CASE Tick \/ UNCHANGED vars
  <2>1. UNCHANGED <<pc, result, stats, code>>
    BY <1>11 DEF Tick, vars
  <2>2. Hits' = Hits /\ Begun' = Begun
    BY <2>1 DEF Hits, Begun
  <2>3. QED
    BY <2>1, <2>2, NoneMore
<1>12. QED
  BY <1>3, <1>4, <1>5, <1>6, <1>8, <1>9, <1>10, <1>11 DEF Next, Step, Idle

-----------------------------------------------------------------------------
(* Settings: the limits of a host, out of any number of config files *)

\* Every set of numbers has a least one, and it is what Min makes of the set.
LEMMA MinExists ==
    ASSUME NEW S \in SUBSET Nat, S # {}
    PROVE  Min(S) \in S /\ \A y \in S : Min(S) <= y
<1> DEFINE Less == {p \in Nat \X Nat : p[1] < p[2]}
<1>1. IsWellFoundedOn(Less, Nat)
  <2>1. Less = OpToRel(<, Nat)
    BY DEF OpToRel
  <2>2. QED
    BY <2>1, NatLessThanWellFounded
<1>2. PICK x \in S : \A y \in S : ~ (<<y, x>> \in Less)
  <2> HIDE DEF Less
  <2>1. QED
    BY <1>1, WFMin
<1>3. ASSUME NEW y \in S PROVE x =< y
  <2>1. y \in Nat /\ x \in Nat /\ <<y, x>> \notin Less
    BY <1>2
  <2>2. ~(y < x)
    BY <2>1
  <2>3. QED
    BY <2>1, <2>2
<1>4. QED
  BY <1>3, Zenon DEF Min

\* Induction over the natural numbers, for sets.
LEMMA NatInd ==
    ASSUME NEW S \in SUBSET Nat, 0 \in S, \A n \in S : n + 1 \in S
    PROVE  S = Nat
<1> DEFINE T == Nat \ S
<1>1. SUFFICES ASSUME T # {} PROVE FALSE
  OBVIOUS
<1>2. PICK x \in T : \A y \in T : x <= y
  <2>1. T \in SUBSET Nat
    OBVIOUS
  <2> HIDE DEF T
  <2>2. QED
    BY <1>1, <2>1, MinExists
<1>3. x # 0 /\ x - 1 \in Nat /\ ~(x <= x - 1)
  BY <1>2
<1>4. x - 1 \in S
  BY <1>2, <1>3
<1>5. QED
  BY <1>3, <1>4

\* The function that FoldRight is defined with in load_config.
IsFold(g, files, base, D) ==
    g = [s \in SUBSET D |-> IF s = {} THEN base
                            ELSE merge(g[s \ {Min(s)}], files[Min(s)])]

LEMMA FoldExists ==
    ASSUME NEW files, NEW base, NEW n \in Nat
    PROVE  \E g : IsFold(g, files, base, 1 .. n)
<1> DEFINE F(g, s) == IF s = {} THEN base ELSE merge(g[s \ {Min(s)}], files[Min(s)])
           P(D) == \E g : g = [s \in SUBSET D |-> F(g, s)]
           From(k) == {i \in 1 .. n : i > n - k}
           N == {k \in Nat : P(From(k))}
<1>1. 0 \in N
  <2> DEFINE e == [s \in SUBSET {} |-> base]
  <2>1. From(0) = {}
    OBVIOUS
  <2>2. e = [s \in SUBSET {} |-> F(e, s)]
    <3>1. \A s \in SUBSET {} : F(e, s) = base
      <4>1. \A s \in SUBSET {} : s = {}
        OBVIOUS
      <4>2. QED
        BY <4>1, Zenon
    <3> HIDE DEF F
    <3>2. QED
      BY <3>1, Zenon
  <2>3. P({})
    BY <2>2, Zenon
  <2> HIDE DEF P
  <2>4. QED
    BY <2>1, <2>3
<1>2. ASSUME NEW k \in N PROVE k + 1 \in N
  <2> DEFINE D == From(k)
             E == From(k + 1)
  <2>1. k \in Nat /\ P(D)
    BY <1>2, Zenon
  <2>2. PICK g : g = [s \in SUBSET D |-> F(g, s)]
    BY <2>1, Zenon
  <2> DEFINE h == [s \in SUBSET E |-> F(g, s)]
  <2>3. D \subseteq E
    <3> HIDE DEF P, F
    <3>1. QED
      BY <2>1
  <2>4. ASSUME NEW s \in SUBSET D PROVE h[s] = g[s]
    <3> HIDE DEF D, E
    <3>1. s \in SUBSET E
      BY <2>3, Zenon
    <3>2. g[s] = F(g, s)
      BY <2>2, Zenon
    <3>3. h[s] = F(g, s)
      BY <3>1, Zenon
    <3>4. QED
      BY <3>2, <3>3, Zenon
  <2>5. ASSUME NEW s \in SUBSET E, s # {}
        PROVE  s \ {Min(s)} \in SUBSET D
    <3> HIDE DEF P, F
    <3>1. s \in SUBSET Nat
      OBVIOUS
    <3>2. Min(s) \in s /\ \A y \in s : Min(s) <= y
      BY <2>5, <3>1, MinExists
    <3> HIDE DEF Min
    <3>3. ASSUME NEW y \in s \ {Min(s)} PROVE y \in D
      <4>1. y \in E /\ Min(s) \in E /\ Min(s) <= y /\ y # Min(s)
        BY <2>5, <3>2
      <4>2. QED
        BY <2>1, <4>1
    <3>4. QED
      BY <3>3
  <2>6. ASSUME NEW s \in SUBSET E PROVE F(g, s) = F(h, s)
    <3>1. CASE s = {}
      BY <3>1, Zenon
    <3>2. CASE s # {}
      <4>1. h[s \ {Min(s)}] = g[s \ {Min(s)}]
        <5>1. s \ {Min(s)} \in SUBSET D
          BY <2>5, <3>2
        <5> HIDE DEF h, D
        <5>2. QED
          BY <2>4, <5>1, Zenon
      <4> HIDE DEF h
      <4>2. QED
        BY <3>2, <4>1, Zenon
    <3>3. QED
      BY <3>1, <3>2, Zenon
  <2> HIDE DEF D, E
  <2>7. h = [s \in SUBSET E |-> F(h, s)]
    <3> HIDE DEF F
    <3>1. QED
      BY <2>6, Zenon
  <2>8. P(E)
    <3> HIDE DEF h
    <3>1. QED
      BY <2>7, Zenon
  <2> HIDE DEF P
  <2>9. k + 1 \in Nat
    BY <2>1
  <2>10. QED
    BY <2>8, <2>9 DEF E
<1>3. N \in SUBSET Nat
  BY Zenon
<1>4. N = Nat
  <2> HIDE DEF N
  <2>1. QED
    BY <1>1, <1>2, <1>3, NatInd
<1>5. P(From(n))
  BY <1>4, Zenon
<1>6. From(n) = 1 .. n
  OBVIOUS
<1>7. QED
  <2> HIDE DEF From
  <2>1. QED
    BY <1>5, <1>6, Zenon DEF IsFold

\* What load_config has after each of its sources, the command line being the first.
Loads(s, t, n) ==
    /\ Len(Sources(s)) = n + 1 /\ DOMAIN Sources(s) = 1 .. n + 1
    /\ t[0] = Sources(s)[1] /\ t[n] = load_config(s)
    /\ \A j \in 1 .. n : t[j] = merge(t[j - 1], Sources(s)[j + 1])
    /\ \A i \in 1 .. n + 1 : Sources(s)[i] \in Config

Loaded(files, base) == FoldRight(LAMBDA file, config : merge(config, file), files, base)

LoadsFiles(t, files, base, n) ==
    /\ t[0] = base /\ t[n] = Loaded(files, base)
    /\ \A j \in 1 .. n : t[j] = merge(t[j - 1], files[n + 1 - j])

LEMMA LoadOfFiles ==
    ASSUME NEW files, NEW base, NEW n \in Nat, DOMAIN files = 1 .. n
    PROVE  \E t : LoadsFiles(t, files, base, n)
<1> DEFINE F(g, s) == IF s = {} THEN base ELSE merge(g[s \ {Min(s)}], files[Min(s)])
           iter == CHOOSE g : g = [s \in SUBSET (1 .. n) |-> F(g, s)]
           last(j) == n + 1 - j .. n
           t == [j \in 0 .. n |-> iter[last(j)]]
<1>1. Loaded(files, base) = iter[1 .. n]
  <2>1. Loaded(files, base) =
          (CHOOSE g : g = [s \in SUBSET (DOMAIN files) |-> F(g, s)])[DOMAIN files]
    BY Zenon DEF Loaded, FoldRight, MapThenFoldSet
  <2>2. QED
    BY <2>1, Zenon
<1>2. iter = [s \in SUBSET (1 .. n) |-> F(iter, s)]
  <2>1. \E g : g = [s \in SUBSET (1 .. n) |-> F(g, s)]
    <3>1. \E g : IsFold(g, files, base, 1 .. n)
      BY FoldExists
    <3>2. QED
      BY <3>1, Zenon DEF IsFold
  <2> HIDE DEF F
  <2>2. QED
    BY <2>1, Zenon
<1> HIDE DEF iter
<1>3. \A s \in SUBSET (1 .. n) : iter[s] = F(iter, s)
  <2> HIDE DEF F
  <2>1. QED
    BY <1>2, Zenon
<1>4. ASSUME NEW j \in 1 .. n PROVE t[j] = merge(t[j - 1], files[n + 1 - j])
  <2>1. /\ j \in 0 .. n /\ j - 1 \in 0 .. n /\ last(j) \in SUBSET (1 .. n) /\ last(j) # {}
        /\ last(j) \in SUBSET Nat /\ n + 1 - j \in last(j)
    <3>1. j \in 0 .. n /\ j - 1 \in 0 .. n /\ n + 1 - j \in last(j)
      OBVIOUS
    <3>2. \A i \in last(j) : i \in 1 .. n
      OBVIOUS
    <3> HIDE DEF last
    <3>3. QED
      BY <3>1, <3>2
  <2>2. Min(last(j)) = n + 1 - j
    <3>1. Min(last(j)) \in last(j) /\ \A y \in last(j) : Min(last(j)) <= y
      BY <2>1, MinExists
    <3> HIDE DEF Min
    <3>2. QED
      BY <2>1, <3>1
  <2>3. last(j) \ {n + 1 - j} = last(j - 1)
    OBVIOUS
  <2> DEFINE L == last(j)
             M == last(j - 1)
             m == n + 1 - j
  <2>4. t[j] = iter[L] /\ t[j - 1] = iter[M]
    <3>1. j \in 0 .. n /\ j - 1 \in 0 .. n
      BY <2>1
    <3> HIDE DEF last
    <3>2. QED
      BY <3>1, Zenon
  <2>5. L \in SUBSET (1 .. n) /\ L # {} /\ Min(L) = m /\ L \ {m} = M
    BY <2>1, <2>2, <2>3
  <2> HIDE DEF L, M, m, t
  <2>6. iter[L] = merge(iter[L \ {Min(L)}], files[Min(L)])
    BY <1>3, <2>5, Zenon
  <2>7. t[j] = merge(t[j - 1], files[m])
    BY <2>4, <2>5, <2>6, Zenon
  <2>8. QED
    BY <2>7 DEF m
<1>5. t[0] = base
  <2>1. 0 \in 0 .. n /\ last(0) = {} /\ {} \in SUBSET (1 .. n)
    OBVIOUS
  <2>2. iter[{}] = base
    BY <1>3, <2>1, Zenon
  <2>3. t[0] = iter[last(0)]
    BY <2>1, Zenon
  <2>4. QED
    BY <2>1, <2>2, <2>3, Zenon
<1>6. t[n] = iter[1 .. n]
  <2>1. n \in 0 .. n /\ last(n) = 1 .. n
    OBVIOUS
  <2>2. t[n] = iter[last(n)]
    BY <2>1, Zenon
  <2>3. QED
    BY <2>1, <2>2, Zenon
<1> HIDE DEF t
<1>7. QED
  BY <1>1, <1>4, <1>5, <1>6, Zenon DEF LoadsFiles

LEMMA LoadSteps ==
    ASSUME NEW s \in Setups
    PROVE  \E n \in Nat : \E t : Loads(s, t, n)
<1>1. s.cli \in Config /\ s.files \in Seq(Config) /\ s.default \in Config
  BY SettingsAssumption
<1>2. CASE s.files = <<>>
  <2> DEFINE t == [j \in 0 .. 1 |-> IF j = 0 THEN s.cli ELSE merge(s.cli, s.default)]
  <2>1. /\ Len(Sources(s)) = 1 + 1 /\ DOMAIN Sources(s) = 1 .. 1 + 1
        /\ Sources(s)[1] = s.cli /\ Sources(s)[1 + 1] = s.default
        /\ \A i \in 1 .. 1 + 1 : Sources(s)[i] \in Config
    <3>1. Sources(s) = <<s.cli>> \o <<s.default>>
      BY <1>2, Zenon DEF Sources
    <3>2. <<s.cli>> \in Seq(Config) /\ <<s.default>> \in Seq(Config)
      BY <1>1
    <3>3. QED
      BY <1>1, <3>1, <3>2
  <2>2. t[0] = s.cli /\ t[1] = load_config(s) /\ t[1] = merge(t[0], s.default)
    BY <1>2 DEF load_config
  <2> HIDE DEF t
  <2>3. \A j \in 1 .. 1 : t[j] = merge(t[j - 1], Sources(s)[j + 1])
    <3>1. t[1] = merge(t[1 - 1], Sources(s)[1 + 1])
      BY <2>1, <2>2
    <3>2. \A j \in 1 .. 1 : j = 1
      OBVIOUS
    <3>3. QED
      BY <3>1, <3>2
  <2>4. Loads(s, t, 1)
    BY <1>1, <2>1, <2>2, <2>3 DEF Loads
  <2>5. QED
    BY <2>4
<1>3. CASE s.files # <<>>
  <2> DEFINE n == Len(s.files)
  <2>1. n \in Nat /\ DOMAIN s.files = 1 .. n
    BY <1>1
  <2>2. /\ Reverse(s.files) \in Seq(Config) /\ Len(Reverse(s.files)) = n
        /\ \A j \in 1 .. n : Reverse(s.files)[j] = s.files[n + 1 - j]
    <3>1. \A j \in 1 .. n : n - j + 1 = n + 1 - j /\ n + 1 - j \in 1 .. n
      BY <2>1
    <3>2. Reverse(s.files) = [j \in 1 .. n |-> s.files[n - j + 1]]
      BY DEF Reverse
    <3>3. \A j \in 1 .. n : s.files[n - j + 1] \in Config
      BY <1>1, <2>1, <3>1
    <3> HIDE DEF n
    <3>4. QED
      BY <2>1, <3>1, <3>2, <3>3
  <2>3. Sources(s) = <<s.cli>> \o Reverse(s.files)
    BY <1>3 DEF Sources
  <2>4. /\ Len(Sources(s)) = n + 1 /\ DOMAIN Sources(s) = 1 .. n + 1
        /\ Sources(s)[1] = s.cli
        /\ \A j \in 1 .. n : Sources(s)[j + 1] = s.files[n + 1 - j]
        /\ \A i \in 1 .. n + 1 : Sources(s)[i] \in Config
    <3> HIDE DEF n
    <3>1. <<s.cli>> \in Seq(Config)
      BY <1>1
    <3>2. QED
      BY <1>1, <2>1, <2>2, <2>3, <3>1
  <2>5. PICK t : /\ t[0] = s.cli /\ t[n] = Loaded(s.files, s.cli)
                 /\ \A j \in 1 .. n : t[j] = merge(t[j - 1], s.files[n + 1 - j])
    <3> HIDE DEF n
    <3>1. \E t : LoadsFiles(t, s.files, s.cli, n)
      BY <2>1, LoadOfFiles
    <3>2. QED
      BY <3>1, Zenon DEF LoadsFiles
  <2>6. t[n] = load_config(s)
    BY <1>3, <2>5, Zenon DEF load_config, Loaded
  <2> HIDE DEF n
  <2>7. Loads(s, t, n)
    BY <2>4, <2>5, <2>6, Zenon DEF Loads
  <2>8. QED
    BY <2>1, <2>7
<1>4. QED
  BY <1>2, <1>3

LEMMA MergeType ==
    ASSUME NEW a \in Config, NEW b \in Config
    PROVE  merge(a, b) \in Config
<1>1. \A x, y \in Optional : or(x, y) \in Optional
  BY DEF or
<1>2. \A x, y \in HostConfig : merge_host(x, y) \in HostConfig
  BY <1>1 DEF HostConfig, merge_host
<1>3. QED
  BY <1>1, <1>2 DEF merge, Config

\* The loop of load_config makes a configuration of configurations.
LEMMA LoadType ==
    ASSUME NEW s \in Setups
    PROVE  load_config(s) \in Config
<1>1. PICK n \in Nat : \E t : Loads(s, t, n)
  BY LoadSteps
<1>2. PICK t : Loads(s, t, n)
  BY <1>1
<1>3. /\ t[0] \in Config
      /\ \A j \in 1 .. n : t[j] = merge(t[j - 1], Sources(s)[j + 1])
      /\ \A j \in 1 .. n : Sources(s)[j + 1] \in Config
      /\ t[n] = load_config(s)
  <2>1. 1 \in 1 .. n + 1 /\ \A j \in 1 .. n : j + 1 \in 1 .. n + 1
    OBVIOUS
  <2>2. QED
    BY <1>2, <2>1, Zenon DEF Loads
<1> DEFINE N == {j \in Nat : j <= n => t[j] \in Config}
<1>4. ASSUME NEW j \in N PROVE j + 1 \in N
  <2>1. SUFFICES ASSUME j + 1 <= n PROVE t[j + 1] \in Config
    OBVIOUS
  <2> DEFINE m == j + 1
  <2>2. m \in 1 .. n /\ m - 1 = j /\ t[j] \in Config
    BY <2>1
  <2> HIDE DEF m, N
  <2>3. t[m] = merge(t[j], Sources(s)[m + 1]) /\ Sources(s)[m + 1] \in Config
    BY <1>3, <2>2
  <2>4. t[m] \in Config
    BY <2>2, <2>3, MergeType
  <2>5. QED
    BY <2>4 DEF m
<1>5. N = Nat
  <2>1. 0 \in N /\ N \in SUBSET Nat
    BY <1>3
  <2> HIDE DEF N
  <2>2. QED
    BY <1>4, <2>1, NatInd
<1>6. QED
  BY <1>3, <1>5

\* Options merged one after the other: the first that is set decides.
Merges(w, u, n) == u[0] = w[1] /\ \A j \in 1 .. n : u[j] = or(u[j - 1], w[j + 1])
Decides(value, w, S) == IF S = {} THEN value = {} ELSE Min(S) \in S /\ value = w[Min(S)]

LEMMA FirstDecides ==
    ASSUME NEW n \in Nat, NEW w, NEW u, Merges(w, u, n),
           NEW S, S = {i \in 1 .. n + 1 : w[i] # {}}
    PROVE  Decides(u[n], w, S)
<1> DEFINE First(m, j) == m \in 1 .. j + 1 /\ w[m] # {} /\ \A i \in 1 .. m - 1 : w[i] = {}
           Right(j) == /\ \A m : First(m, j) => u[j] = w[m]
                       /\ (\A i \in 1 .. j + 1 : w[i] = {}) => u[j] = {}
           N == {j \in Nat : j <= n => Right(j)}
<1>0. u[0] = w[1] /\ \A j \in 1 .. n : u[j] = or(u[j - 1], w[j + 1])
  BY DEF Merges
<1>1. 0 \in N
  BY <1>0
<1>2. ASSUME NEW j \in N PROVE j + 1 \in N
  <2>1. SUFFICES ASSUME j + 1 <= n PROVE Right(j + 1)
    OBVIOUS
  <2>2. j \in Nat /\ Right(j) /\ u[j + 1] = or(u[j], w[j + 2])
    <3> DEFINE k == j + 1
    <3>1. k \in 1 .. n /\ k - 1 = j /\ k + 1 = j + 2 /\ j \in Nat /\ Right(j)
      BY <2>1
    <3> HIDE DEF k, Right
    <3>2. u[k] = or(u[j], w[j + 2])
      BY <1>0, <3>1
    <3>3. QED
      BY <3>1, <3>2 DEF k
  <2>3. ASSUME NEW m, First(m, j + 1) PROVE u[j + 1] = w[m]
    <3>1. CASE m = j + 2
      <4>1. \A i \in 1 .. j + 1 : w[i] = {}
        BY <2>2, <2>3, <3>1
      <4>2. QED
        BY <2>2, <3>1, <4>1 DEF or
    <3>2. CASE m # j + 2
      <4>1. First(m, j)
        BY <2>2, <2>3, <3>2
      <4>2. u[j] = w[m] /\ w[m] # {}
        BY <2>2, <4>1
      <4>3. QED
        BY <2>2, <4>2 DEF or
    <3>3. QED
      BY <3>1, <3>2
  <2>4. ASSUME \A i \in 1 .. j + 2 : w[i] = {} PROVE u[j + 1] = {}
    <3>1. u[j] = {} /\ w[j + 2] = {}
      BY <2>2, <2>4
    <3>2. QED
      BY <2>2, <3>1 DEF or
  <2>5. QED
    BY <2>2, <2>3, <2>4
<1>3. Right(n)
  <2>1. N \in SUBSET Nat
    OBVIOUS
  <2> HIDE DEF N
  <2>2. N = Nat
    BY <1>1, <1>2, <2>1, NatInd
  <2>3. QED
    BY <2>2 DEF N
<1>4. CASE S = {}
  BY <1>3, <1>4 DEF Decides
<1>5. CASE S # {}
  <2>1. S \in SUBSET Nat
    OBVIOUS
  <2>2. Min(S) \in S /\ \A y \in S : Min(S) <= y
    BY <1>5, <2>1, MinExists
  <2> DEFINE m == Min(S)
  <2> HIDE DEF m
  <2>3. First(m, n)
    <3>1. m \in 1 .. n + 1 /\ w[m] # {} /\ \A i \in 1 .. n + 1 : w[i] # {} => m <= i
      BY <2>2 DEF m
    <3>2. QED
      BY <3>1
  <2>4. QED
    BY <1>3, <1>5, <2>2, <2>3 DEF m, Decides
<1>6. QED
  BY <1>4, <1>5

Chosen(option) == CHOOSE m \in option : TRUE

\* What the loop makes of the options is what the documentation promises.
LEMMA EffectiveIsPromised ==
    ASSUME NEW s \in Setups
    PROVE  /\ effective_concurrency(load_config(s)) = PromisedConcurrency(s)
           /\ effective_request_interval(load_config(s)) = PromisedInterval(s)
<1>1. PICK n \in Nat : \E t : Loads(s, t, n)
  BY LoadSteps
<1>2. PICK t : Loads(s, t, n)
  BY <1>1
<1> DEFINE src == Sources(s)
           c == load_config(s)
<1>3. /\ DOMAIN src = 1 .. n + 1 /\ t[0] = src[1] /\ t[n] = c
      /\ \A j \in 1 .. n : t[j] = merge(t[j - 1], src[j + 1])
  BY <1>2, Zenon DEF Loads
<1> HIDE DEF src, c
<1>4. /\ \A j \in 0 .. n : j + 1 \in 1 .. n + 1
      /\ \A j \in 1 .. n : j \in 0 .. n /\ j - 1 \in 0 .. n
      /\ 0 \in 0 .. n /\ n \in 0 .. n /\ 1 \in 1 .. n + 1
  OBVIOUS
<1> DEFINE ownC == {i \in DOMAIN src : src[i].hosts[HostKey].concurrency # {}}
           ownI == {i \in DOMAIN src : src[i].hosts[HostKey].request_interval # {}}
           allC == {i \in DOMAIN src : src[i].host_concurrency # {}}
           allI == {i \in DOMAIN src : src[i].host_request_interval # {}}
<1>5. \A a, b : /\ merge(a, b).host_concurrency = or(a.host_concurrency, b.host_concurrency)
                /\ merge(a, b).host_request_interval =
                     or(a.host_request_interval, b.host_request_interval)
                /\ merge(a, b).hosts[HostKey].concurrency =
                     or(a.hosts[HostKey].concurrency, b.hosts[HostKey].concurrency)
                /\ merge(a, b).hosts[HostKey].request_interval =
                     or(a.hosts[HostKey].request_interval, b.hosts[HostKey].request_interval)
  BY SettingsAssumption DEF merge, merge_host
<1>6. IF ownC = {} THEN c.hosts[HostKey].concurrency = {}
      ELSE /\ c.hosts[HostKey].concurrency = src[Min(ownC)].hosts[HostKey].concurrency
           /\ c.hosts[HostKey].concurrency # {}
  <2> DEFINE w == [i \in 1 .. n + 1 |-> src[i].hosts[HostKey].concurrency]
             u == [j \in 0 .. n |-> t[j].hosts[HostKey].concurrency]
  <2>1. u[0] = w[1] /\ u[n] = c.hosts[HostKey].concurrency
    BY <1>3, <1>4
  <2>2. ASSUME NEW j \in 1 .. n PROVE u[j] = or(u[j - 1], w[j + 1])
    <3>1. /\ u[j] = t[j].hosts[HostKey].concurrency
          /\ u[j - 1] = t[j - 1].hosts[HostKey].concurrency
          /\ w[j + 1] = src[j + 1].hosts[HostKey].concurrency
      BY <1>4
    <3>2. t[j] = merge(t[j - 1], src[j + 1])
      BY <1>3
    <3> HIDE DEF u, w
    <3>3. QED
      BY <1>5, <3>1, <3>2
  <2>3. ownC = {i \in 1 .. n + 1 : w[i] # {}}
    BY <1>3
  <2>4. Merges(w, u, n)
    <3> HIDE DEF u, w
    <3>1. QED
      BY <2>1, <2>2 DEF Merges
  <2>5. Decides(c.hosts[HostKey].concurrency, w, ownC)
    <3> HIDE DEF u, w, ownC
    <3>1. Decides(u[n], w, ownC)
      BY <2>3, <2>4, FirstDecides
    <3>2. QED
      BY <2>1, <3>1
  <2>6. \A i \in ownC : w[i] = src[i].hosts[HostKey].concurrency /\ w[i] # {}
    BY <1>3
  <2> HIDE DEF u, w, ownC
  <2>7. QED
    BY <2>5, <2>6 DEF Decides
<1>7. IF ownI = {} THEN c.hosts[HostKey].request_interval = {}
      ELSE /\ c.hosts[HostKey].request_interval =
                src[Min(ownI)].hosts[HostKey].request_interval
           /\ c.hosts[HostKey].request_interval # {}
  <2> DEFINE w == [i \in 1 .. n + 1 |-> src[i].hosts[HostKey].request_interval]
             u == [j \in 0 .. n |-> t[j].hosts[HostKey].request_interval]
  <2>1. u[0] = w[1] /\ u[n] = c.hosts[HostKey].request_interval
    BY <1>3, <1>4
  <2>2. ASSUME NEW j \in 1 .. n PROVE u[j] = or(u[j - 1], w[j + 1])
    <3>1. /\ u[j] = t[j].hosts[HostKey].request_interval
          /\ u[j - 1] = t[j - 1].hosts[HostKey].request_interval
          /\ w[j + 1] = src[j + 1].hosts[HostKey].request_interval
      BY <1>4
    <3>2. t[j] = merge(t[j - 1], src[j + 1])
      BY <1>3
    <3> HIDE DEF u, w
    <3>3. QED
      BY <1>5, <3>1, <3>2
  <2>3. ownI = {i \in 1 .. n + 1 : w[i] # {}}
    BY <1>3
  <2>4. Merges(w, u, n)
    <3> HIDE DEF u, w
    <3>1. QED
      BY <2>1, <2>2 DEF Merges
  <2>5. Decides(c.hosts[HostKey].request_interval, w, ownI)
    <3> HIDE DEF u, w, ownI
    <3>1. Decides(u[n], w, ownI)
      BY <2>3, <2>4, FirstDecides
    <3>2. QED
      BY <2>1, <3>1
  <2>6. \A i \in ownI : w[i] = src[i].hosts[HostKey].request_interval /\ w[i] # {}
    BY <1>3
  <2> HIDE DEF u, w, ownI
  <2>7. QED
    BY <2>5, <2>6 DEF Decides
<1>8. IF allC = {} THEN c.host_concurrency = {}
      ELSE c.host_concurrency = src[Min(allC)].host_concurrency /\ c.host_concurrency # {}
  <2> DEFINE w == [i \in 1 .. n + 1 |-> src[i].host_concurrency]
             u == [j \in 0 .. n |-> t[j].host_concurrency]
  <2>1. u[0] = w[1] /\ u[n] = c.host_concurrency
    BY <1>3, <1>4
  <2>2. ASSUME NEW j \in 1 .. n PROVE u[j] = or(u[j - 1], w[j + 1])
    <3>1. /\ u[j] = t[j].host_concurrency
          /\ u[j - 1] = t[j - 1].host_concurrency
          /\ w[j + 1] = src[j + 1].host_concurrency
      BY <1>4
    <3>2. t[j] = merge(t[j - 1], src[j + 1])
      BY <1>3
    <3> HIDE DEF u, w
    <3>3. QED
      BY <1>5, <3>1, <3>2
  <2>3. allC = {i \in 1 .. n + 1 : w[i] # {}}
    BY <1>3
  <2>4. Merges(w, u, n)
    <3> HIDE DEF u, w
    <3>1. QED
      BY <2>1, <2>2 DEF Merges
  <2>5. Decides(c.host_concurrency, w, allC)
    <3> HIDE DEF u, w, allC
    <3>1. Decides(u[n], w, allC)
      BY <2>3, <2>4, FirstDecides
    <3>2. QED
      BY <2>1, <3>1
  <2>6. \A i \in allC : w[i] = src[i].host_concurrency /\ w[i] # {}
    BY <1>3
  <2> HIDE DEF u, w, allC
  <2>7. QED
    BY <2>5, <2>6 DEF Decides
<1>9. IF allI = {} THEN c.host_request_interval = {}
      ELSE /\ c.host_request_interval = src[Min(allI)].host_request_interval
           /\ c.host_request_interval # {}
  <2> DEFINE w == [i \in 1 .. n + 1 |-> src[i].host_request_interval]
             u == [j \in 0 .. n |-> t[j].host_request_interval]
  <2>1. u[0] = w[1] /\ u[n] = c.host_request_interval
    BY <1>3, <1>4
  <2>2. ASSUME NEW j \in 1 .. n PROVE u[j] = or(u[j - 1], w[j + 1])
    <3>1. /\ u[j] = t[j].host_request_interval
          /\ u[j - 1] = t[j - 1].host_request_interval
          /\ w[j + 1] = src[j + 1].host_request_interval
      BY <1>4
    <3>2. t[j] = merge(t[j - 1], src[j + 1])
      BY <1>3
    <3> HIDE DEF u, w
    <3>3. QED
      BY <1>5, <3>1, <3>2
  <2>3. allI = {i \in 1 .. n + 1 : w[i] # {}}
    BY <1>3
  <2>4. Merges(w, u, n)
    <3> HIDE DEF u, w
    <3>1. QED
      BY <2>1, <2>2 DEF Merges
  <2>5. Decides(c.host_request_interval, w, allI)
    <3> HIDE DEF u, w, allI
    <3>1. Decides(u[n], w, allI)
      BY <2>3, <2>4, FirstDecides
    <3>2. QED
      BY <2>1, <3>1
  <2>6. \A i \in allI : w[i] = src[i].host_request_interval /\ w[i] # {}
    BY <1>3
  <2> HIDE DEF u, w, allI
  <2>7. QED
    BY <2>5, <2>6 DEF Decides
<1>10. PromisedConcurrency(s) =
         IF ownC # {} THEN Chosen(src[Min(ownC)].hosts[HostKey].concurrency)
         ELSE IF allC # {} THEN Chosen(src[Min(allC)].host_concurrency)
         ELSE DEFAULT_CONCURRENCY
  BY Zenon DEF PromisedConcurrency, Promised, src, Chosen
<1>11. PromisedInterval(s) =
         IF ownI # {} THEN Chosen(src[Min(ownI)].hosts[HostKey].request_interval)
         ELSE IF allI # {} THEN Chosen(src[Min(allI)].host_request_interval)
         ELSE DEFAULT_REQUEST_INTERVAL
  BY Zenon DEF PromisedInterval, Promised, src, Chosen
<1> HIDE DEF ownC, ownI, allC, allI
<1>12. \A option, default :
         unwrap_or(option, default) = IF option = {} THEN default ELSE Chosen(option)
  BY Zenon DEF unwrap_or, Chosen
<1>13. /\ from_options(c).concurrency = unwrap_or(c.host_concurrency, DEFAULT_CONCURRENCY)
       /\ from_options(c).request_interval =
            unwrap_or(c.host_request_interval, DEFAULT_REQUEST_INTERVAL)
  BY DEF from_options
<1>14. /\ effective_concurrency(c) =
            unwrap_or(c.hosts[HostKey].concurrency, from_options(c).concurrency)
       /\ effective_request_interval(c) =
            unwrap_or(c.hosts[HostKey].request_interval, from_options(c).request_interval)
  BY DEF effective_concurrency, effective_request_interval, host_config
<1>15. effective_concurrency(c) = PromisedConcurrency(s)
  BY <1>6, <1>8, <1>10, <1>12, <1>13, <1>14
<1>16. effective_request_interval(c) = PromisedInterval(s)
  BY <1>7, <1>9, <1>11, <1>12, <1>13, <1>14
<1>17. QED
  BY <1>15, <1>16 DEF c

\* What an option or its default says is a number.
LEMMA Unwrapped ==
    ASSUME NEW option \in Optional, NEW default \in Nat
    PROVE  unwrap_or(option, default) \in Nat
<1>1. option # {} => (CHOOSE n \in option : TRUE) \in option
  OBVIOUS
<1>2. QED
  BY <1>1 DEF unwrap_or, Optional

\* A host is made with numbers, whatever the user has set.
LEMMA LimitsType ==
    ASSUME NEW s \in Setups
    PROVE  /\ effective_concurrency(load_config(s)) \in Nat
           /\ effective_request_interval(load_config(s)) \in Nat
<1> DEFINE c == load_config(s)
<1>1. c \in Config /\ HostKey \in Spellings
  BY LoadType, SettingsAssumption
<1> HIDE DEF c
<1>2. /\ host_config(c).concurrency \in Optional
      /\ host_config(c).request_interval \in Optional
      /\ c.host_concurrency \in Optional /\ c.host_request_interval \in Optional
  BY <1>1 DEF Config, HostConfig, host_config
<1>3. from_options(c).concurrency \in Nat /\ from_options(c).request_interval \in Nat
  BY <1>2, Unwrapped, SettingsAssumption DEF from_options
<1>4. effective_concurrency(c) \in Nat /\ effective_request_interval(c) \in Nat
  BY <1>2, <1>3, Unwrapped DEF effective_concurrency, effective_request_interval
<1>5. QED
  BY <1>4 DEF c

\* Every reachable state of a host satisfies IInv.
THEOREM Invariant == Spec => []IInv
<1>1. Init => IInv
  <2> SUFFICES ASSUME Init PROVE IInv
    OBVIOUS
  <2>1. TypeOK /\ CodeKnown
    BY HostAssumption, LimitsType DEF Init, TypeOK, CodeKnown
  <2>2. LockedExact /\ UriExclusive /\ NoFetchWithAnswer /\ SleepsEnough /\ BackoffHonoured
    BY DEF Init, LockedExact, UriExclusive, NoFetchWithAnswer, SleepsEnough,
           BackoffHonoured, Locked, Holding
  <2>3. ServedWithText
    BY HostAssumption, OtherKinds DEF Init, ServedWithText
  <2>4. PermitsExact
    <3>1. Holders = {}
      BY DEF Init, Holders, Holding
    <3>2. QED
      BY <3>1, FS_EmptySet, LimitsType DEF Init, PermitsExact
  <2>5. QED
    BY <2>1, <2>2, <2>3, <2>4 DEF IInv
<1>2. IInv /\ [Next]_vars => IInv'
  BY TypeStep, LockStep, LookupStep, TextStep, PermitStep, BackoffStep DEF IInv
<1>3. QED
  BY <1>1, <1>2, PTL DEF Spec

\* The type invariant of the host.
THEOREM TypeCorrect == Spec => []TypeOK
BY Invariant, PTL DEF IInv

\* Per-URI mutual exclusion, and the lookup it protects.
THEOREM SingleFlight == Spec => [](UriExclusive /\ NoFetchWithAnswer)
<1>1. IInv => UriExclusive /\ NoFetchWithAnswer
  BY DEF IInv
<1>2. QED
  BY <1>1, Invariant, PTL

\* The semaphore's permits are conserved.
THEOREM PermitsConserved == Spec => []PermitsExact
<1>1. IInv => PermitsExact
  BY DEF IInv
<1>2. QED
  BY <1>1, Invariant, PTL

\* resolver.rs:59 is unreachable: a call that wants the text gets it.
THEOREM TextServed == Spec => []ServedWithText
<1>1. IInv => ServedWithText
  BY DEF IInv
<1>2. QED
  BY <1>1, Invariant, PTL

\* With one permit, no request leaves before the backoff is over.
THEOREM BackoffServed == Spec => []BackoffHonoured
<1>1. IInv => BackoffHonoured
  BY DEF IInv
<1>2. QED
  BY <1>1, Invariant, PTL

\* No step takes a text out of the cache.
THEOREM TextNeverLost == Spec => TextKept
<1> DEFINE Text(u) == cache[u] # None /\ cache[u].text
<1>1. ASSUME IInv, [Next]_vars, NEW u \in Uris, Text(u) PROVE Text(u)'
  <2>1. ASSUME NEW t \in Calls, pc[t] \in {"headers", "body"}, cache_result(t)
        PROVE  Text(u)'
    <3>1. ~Satisfied(t)
      BY <1>1, <2>1 DEF IInv, NoFetchWithAnswer, Locked, Holding
    <3>2. UriOf[t] # u
      BY <1>1, <3>1 DEF Satisfied
    <3>3. QED
      BY <1>1, <2>1, <3>2, HostAssumption DEF IInv, TypeOK, cache_result
  <2>2. CASE UNCHANGED cache
    BY <1>1, <2>2
  <2>3. QED
    BY <1>1, <2>1, <2>2
    DEF Next, Step, Idle, LockUri, AcquirePermit, WakeUp, Send, NetworkFails, Receive,
        Headers, ReadBody, BodyFails, PersistentHit, Tick, vars
<1>2. IInv /\ [Next]_vars =>
        [\A u \in Uris : cache[u] # None /\ cache[u].text
             => cache'[u] # None /\ cache'[u].text]_vars
  BY <1>1
<1>3. QED
  BY <1>2, Invariant, PTL DEF Spec, TextKept

\* Each counter is the number of the calls it stands for: no call and no answer is counted
\* twice, or not at all, or under a class of another.
THEOREM CountersBalance == Spec => []StatsBalance
<1>1. Init => StatsBalance /\ Untold
  <2> SUFFICES ASSUME Init PROVE StatsBalance /\ Untold
    OBVIOUS
  <2>1. Untold /\ Hits = {} /\ Begun = {}
    BY DEF Init, Untold, Hits, Begun, None
  <2>2. ASSUME NEW codes, 0 \notin codes PROVE Answered(codes) = {}
    BY <2>2 DEF Init, Answered
  <2>3. 0 \notin Codes
    BY HostAssumption
  <2>4. \A k \in Counters : CallsOf(k) = {}
    BY <2>1, <2>2, <2>3, CallsOfEach DEF Counters
  <2>5. \A k \in Counters : stats[k] = 0 /\ Cardinality(CallsOf(k)) = 0
    BY <2>4, FS_EmptySet DEF Init
  <2>6. QED
    BY <2>1, <2>5 DEF StatsBalance
<1>2. IInv /\ (StatsBalance /\ Untold) /\ [Next]_vars => (StatsBalance /\ Untold)'
  BY BalanceStep, UntoldStep DEF IInv
<1>3. QED
  BY <1>1, <1>2, Invariant, PTL DEF Spec
-----------------------------------------------------------------------------
(* The refinement: what HostPromise sees of a host *)

FetchOf(t) == [caller |-> t, page |-> UriOf[t], text |-> t \in NeedsBody]
Busy == {h \in Calls : pc[h] \in Locked}
Fetches == {FetchOf(t) : t \in Busy}
Known == [u \in Uris |-> IF cache[u] = None THEN {}
                         ELSE {[code |-> cache[u].code, text |-> cache[u].text]}]
LastingCodes == {c \in Codes : ~should_retry_code(c)}

\* A call begins or ends its fetch, and nobody else's.
LEMMA FetchesFollow ==
    ASSUME NEW t \in Calls
    PROVE  /\ Busy' = Busy => Fetches' = Fetches
           /\ Busy' = Busy \cup {t} => Fetches' = Fetches \cup {FetchOf(t)}
           /\ Busy' = Busy \ {t} => Fetches' = Fetches \ {FetchOf(t)}
           /\ t \in Busy <=> FetchOf(t) \in Fetches
<1>1. ASSUME NEW h, NEW g, FetchOf(h) = FetchOf(g) PROVE h = g
  <2>1. FetchOf(h).caller = h /\ FetchOf(g).caller = g
    BY DEF FetchOf
  <2>2. QED
    BY <1>1, <2>1
<1>2. Fetches' = {FetchOf(h) : h \in Busy'}
  BY DEF Fetches, FetchOf
<1> HIDE DEF Busy, FetchOf
<1>3. QED
  BY <1>1, <1>2 DEF Fetches

\* What a call in flight leaves behind.
LEMMA AnswerStep ==
    ASSUME IInv, NEW t \in Calls, pc[t] \in {"headers", "body"}, cache_result(t)
    PROVE  \/ Known' = Known
           \/ /\ code[t] \in LastingCodes
              /\ Known' = [Known EXCEPT ![UriOf[t]] =
                              {[code |-> code[t], text |-> t \in NeedsBody]}]
<1>1. code[t] \in Codes /\ UriOf[t] \in Uris /\ cache \in [Uris -> Responses \cup {None}]
  BY HostAssumption DEF IInv, CodeKnown, TypeOK
<1>2. CASE should_retry_code(code[t])
  BY <1>2 DEF cache_result, Known
<1>3. CASE ~should_retry_code(code[t])
  <2> DEFINE r == Response(code[t], t \in NeedsBody)
  <2>1. cache' = [cache EXCEPT ![UriOf[t]] = r]
    BY <1>3 DEF cache_result
  <2>2. r # None /\ r.code = code[t] /\ r.text = (t \in NeedsBody)
    BY DEF Response, None
  <2> HIDE DEF r
  <2>3. Known' = [Known EXCEPT ![UriOf[t]] = {[code |-> r.code, text |-> r.text]}]
    BY <1>1, <2>1, <2>2 DEF Known
  <2>4. QED
    BY <1>1, <1>3, <2>2, <2>3 DEF LastingCodes
<1>4. QED
  BY <1>2, <1>3

\* Every step of a host is a step of HostPromise, or none that it sees.
LEMMA PromiseStep ==
    ASSUME IInv, [Next]_vars
    PROVE  \/ Fetches' = Fetches /\ Known' = Known
           \/ \E t \in Calls : /\ t \notin Busy /\ ~Satisfied(t) /\ Known' = Known
                               /\ \A h \in Busy : UriOf[h] # UriOf[t]
                               /\ Fetches' = Fetches \cup {FetchOf(t)}
           \/ \E t \in Busy : /\ Fetches' = Fetches \ {FetchOf(t)}
                              /\ \/ Known' = Known
                                 \/ /\ code[t] \in LastingCodes
                                    /\ Known' = [Known EXCEPT ![UriOf[t]] =
                                        {[code |-> code[t], text |-> t \in NeedsBody]}]
<1> DEFINE Goal == \/ Fetches' = Fetches /\ Known' = Known
                   \/ \E t \in Calls : /\ t \notin Busy /\ ~Satisfied(t) /\ Known' = Known
                                       /\ \A h \in Busy : UriOf[h] # UriOf[t]
                                       /\ Fetches' = Fetches \cup {FetchOf(t)}
                   \/ \E t \in Busy : /\ Fetches' = Fetches \ {FetchOf(t)}
                                      /\ \/ Known' = Known
                                         \/ /\ code[t] \in LastingCodes
                                            /\ Known' = [Known EXCEPT ![UriOf[t]] =
                                                {[code |-> code[t], text |-> t \in NeedsBody]}]
<1>0. TypeOK /\ LockedExact
  BY DEF IInv
<1>1. UNCHANGED cache => Known' = Known
  BY DEF Known
<1>2. ASSUME NEW t \in Calls, NEW where \in Locked, GoTo(t, where), pc[t] \in Locked,
             UNCHANGED cache
      PROVE  Goal
  <2>1. Busy' = Busy
    BY <1>0, <1>2 DEF GoTo, TypeOK, Busy
  <2>2. QED
    BY <1>1, <1>2, <2>1, FetchesFollow
<1>3. ASSUME NEW t \in Calls, NEW value, Return(t, value), pc[t] = "start", UNCHANGED cache
      PROVE  Goal
  <2>1. Busy' = Busy
    BY <1>0, <1>3 DEF Return, GoTo, TypeOK, Busy, Locked, Holding
  <2>2. QED
    BY <1>1, <1>3, <2>1, FetchesFollow
<1>4. ASSUME NEW t \in Calls, NEW value, Return(t, value), pc[t] \in Locked,
             \/ Known' = Known
             \/ /\ code[t] \in LastingCodes
                /\ Known' = [Known EXCEPT ![UriOf[t]] =
                                {[code |-> code[t], text |-> t \in NeedsBody]}]
      PROVE  Goal
  <2>1. t \in Busy /\ Busy' = Busy \ {t}
    BY <1>0, <1>4 DEF Return, GoTo, TypeOK, Busy, Locked, Holding
  <2>2. Fetches' = Fetches \ {FetchOf(t)}
    BY <2>1, FetchesFollow
  <2>3. QED
    BY <1>4, <2>1, <2>2
<1>5. ASSUME NEW t \in Calls, LockUri(t) PROVE Goal
  <2>1. CASE Satisfied(t)
    BY <1>3, <1>5, <2>1 DEF LockUri
  <2>2. CASE ~Satisfied(t)
    <3>1. t \notin Busy /\ Busy' = Busy \cup {t}
      BY <1>0, <1>5, <2>2 DEF LockUri, GoTo, TypeOK, Busy, Locked, Holding
    <3>2. \A h \in Busy : UriOf[h] # UriOf[t]
      BY <1>0, <1>5 DEF LockUri, MutexFree, LockedExact, Busy
    <3>3. Fetches' = Fetches \cup {FetchOf(t)} /\ Known' = Known
      BY <1>1, <1>5, <3>1, FetchesFollow DEF LockUri
    <3>4. QED
      BY <2>2, <3>1, <3>2, <3>3
  <2>3. QED
    BY <2>1, <2>2
<1>6. ASSUME NEW t \in Calls,
             \/ AcquirePermit(t) \/ WakeUp(t) \/ Send(t) \/ \E c \in Codes : Receive(t, c)
      PROVE  Goal
  <2>1. /\ pc[t] \in {"permit", "sleep", "limiter", "sent"} /\ UNCHANGED cache
        /\ \E where \in {"sleep", "limiter", "sent", "headers"} : GoTo(t, where)
    BY <1>6 DEF AcquirePermit, WakeUp, Send, Receive
  <2>2. QED
    BY <1>2, <2>1 DEF Locked, Holding
<1>7. ASSUME NEW t \in Calls, NetworkFails(t) \/ BodyFails(t) PROVE Goal
  <2>1. pc[t] \in {"sent", "body"} /\ UNCHANGED cache /\ \E value : Return(t, value)
    BY <1>7 DEF NetworkFails, BodyFails
  <2>2. QED
    BY <1>1, <1>4, <2>1 DEF Locked, Holding
<1>8. ASSUME NEW t \in Calls, NEW asked \in Asked, Headers(t, asked) PROVE Goal
  <2>1. CASE t \in NeedsBody
    <3>1. pc[t] = "headers" /\ GoTo(t, "body") /\ UNCHANGED cache
      BY <1>8, <2>1 DEF Headers
    <3>2. QED
      BY <1>2, <3>1 DEF Locked, Holding
  <2>2. CASE t \notin NeedsBody
    <3>1. pc[t] = "headers" /\ cache_result(t) /\ \E value : Return(t, value)
      BY <1>8, <2>2 DEF Headers
    <3>2. QED
      BY <1>4, <3>1, AnswerStep DEF Locked, Holding
  <2>3. QED
    BY <2>1, <2>2
<1>9. ASSUME NEW t \in Calls, ReadBody(t) PROVE Goal
  <2>1. pc[t] = "body" /\ cache_result(t) /\ \E value : Return(t, value)
    BY <1>9 DEF ReadBody
  <2>2. QED
    BY <1>4, <2>1, AnswerStep DEF Locked, Holding
<1>10. ASSUME NEW t \in Calls, PersistentHit(t) PROVE Goal
  BY <1>3, <1>10 DEF PersistentHit
<1>11. CASE Tick \/ UNCHANGED vars
  <2>1. UNCHANGED <<pc, cache>>
    BY <1>11 DEF Tick, vars
  <2>2. QED
    BY <2>1 DEF Fetches, FetchOf, Busy, Known
<1>12. QED
  BY <1>5, <1>6, <1>7, <1>8, <1>9, <1>10, <1>11 DEF Next, Step, Idle

\* A host implements HostPromise: one fetch for each page, and none for what is known.
THEOREM KeepsPromise == Spec => ImplementsHostPromise
<1>1. Init => Promise!Init
  BY DEF Init, Promise!Init, Locked, Holding
<1>2. IInv /\ [Next]_vars => [Promise!Next]_(Promise!vars)
  <2> SUFFICES ASSUME IInv, [Next]_vars PROVE [Promise!Next]_(Promise!vars)
    OBVIOUS
  <2>0. /\ \A u \in Uris : cache[u] # None =>
               Known[u] = {[code |-> cache[u].code, text |-> cache[u].text]}
        /\ \A u \in Uris : cache[u] = None => Known[u] = {}
    BY DEF Known
  <2>1. CASE Fetches' = Fetches /\ Known' = Known
    BY <2>1 DEF Promise!vars, Fetches, FetchOf, Busy, Known
  <2>2. ASSUME NEW t \in Calls, t \notin Busy, ~Satisfied(t), Known' = Known,
               \A h \in Busy : UriOf[h] # UriOf[t], Fetches' = Fetches \cup {FetchOf(t)}
        PROVE  Promise!Next
    <3>1. UriOf[t] \in Uris /\ (t \in NeedsBody) \in BOOLEAN
      BY HostAssumption
    <3>2. \A f \in Fetches : f.caller # t /\ f.page # UriOf[t]
      BY <2>2 DEF Fetches, FetchOf
    <3>3. ~\E a \in Known[UriOf[t]] : t \in NeedsBody => a.text
      BY <2>0, <2>2, <3>1 DEF Satisfied
    <3>4. Promise!Begin(t, UriOf[t], t \in NeedsBody)
      BY <2>2, <3>2, <3>3
      DEF Promise!Begin, Promise!Known, Promise!Fetch, Fetches, FetchOf, Busy, Known
    <3>5. QED
      BY <3>1, <3>4 DEF Promise!Next
  <2>3. ASSUME NEW t \in Busy, Fetches' = Fetches \ {FetchOf(t)},
               \/ Known' = Known
               \/ /\ code[t] \in LastingCodes
                  /\ Known' = [Known EXCEPT ![UriOf[t]] =
                                  {[code |-> code[t], text |-> t \in NeedsBody]}]
        PROVE  Promise!Next
    <3>1. FetchOf(t) \in Fetches
      BY DEF Fetches
    <3>2. CASE Known' = Known
      <4>1. Promise!GiveUp(FetchOf(t))
        BY <2>3, <3>2 DEF Promise!GiveUp, Fetches, FetchOf, Busy, Known
      <4>2. QED
        BY <3>1, <4>1 DEF Promise!Next, Fetches, FetchOf, Busy
    <3>3. CASE /\ code[t] \in LastingCodes
               /\ Known' = [Known EXCEPT ![UriOf[t]] =
                               {[code |-> code[t], text |-> t \in NeedsBody]}]
      <4>1. PICK c \in {k \in Codes : ~should_retry_code(k)} :
              Known' = [Known EXCEPT ![UriOf[t]] = {[code |-> c, text |-> t \in NeedsBody]}]
        BY <3>3 DEF LastingCodes
      <4>2. FetchOf(t).page = UriOf[t] /\ FetchOf(t).text = (t \in NeedsBody)
        BY DEF FetchOf
      <4>3. Promise!Remember(FetchOf(t), c)
        BY <2>3, <4>1, <4>2 DEF Promise!Remember, Fetches, FetchOf, Busy, Known
      <4>4. QED
        BY <3>1, <4>3 DEF Promise!Next, Fetches, FetchOf, Busy
    <3>4. QED
      BY <2>3, <3>2, <3>3
  <2>4. QED
    BY <2>1, <2>2, <2>3, PromiseStep
<1>3. QED
  BY <1>1, <1>2, Invariant, PTL DEF Spec, ImplementsHostPromise, Promise!Spec

\* The limits are those promised from the beginning.
LimitsKnown ==
    concurrency = PromisedConcurrency(setup) /\ interval = PromisedInterval(setup)

\* At any time, no more requests are under way than there are permits.
WithinLimit == Cardinality({h \in Calls : pc[h] \in {"sent", "headers", "body"}}) <= concurrency

LEMMA UnderWay == IInv => WithinLimit
<1> SUFFICES ASSUME IInv PROVE WithinLimit
  OBVIOUS
<1> DEFINE S == {h \in Calls : pc[h] \in {"sent", "headers", "body"}}
<1>1. S \subseteq Holders
  BY DEF Holders, Holding
<1>2. IsFiniteSet(Holders) /\ Cardinality(Holders) \in Nat
  BY HoldersFinite, FS_CardinalityType
<1>3. IsFiniteSet(S) /\ Cardinality(S) \in Nat /\ Cardinality(S) <= Cardinality(Holders)
  BY <1>1, <1>2, FS_Subset, FS_CardinalityType
<1>4. permits \in Nat /\ concurrency \in Nat /\ permits + Cardinality(Holders) = concurrency
  BY DEF IInv, TypeOK, PermitsExact
<1> HIDE DEF S
<1>5. Cardinality(S) <= concurrency
  BY <1>2, <1>3, <1>4
<1>6. QED
  BY <1>5 DEF S, WithinLimit

\* Only Send takes a request on its way.
LEMMA OnlySend ==
    ASSUME IInv, Next, NEW t \in Calls, pc[t] # "sent", pc'[t] = "sent"
    PROVE  cooldown' = interval
<1>1. DOMAIN pc = Calls
  BY DEF IInv, TypeOK
<1>2. ASSUME NEW h \in Calls, NEW where, GoTo(h, where), where # "sent" PROVE FALSE
  BY <1>1, <1>2 DEF GoTo
<1>3. ASSUME NEW h \in Calls, NEW value, Return(h, value) PROVE FALSE
  BY <1>2, <1>3 DEF Return
<1>4. PICK h \in Calls : Step(h) \/ PersistentHit(h)
  BY DEF Next, Tick, Idle, vars
<1>5. CASE LockUri(h) \/ PersistentHit(h)
  BY <1>2, <1>3, <1>5 DEF LockUri, PersistentHit
<1>6. CASE AcquirePermit(h) \/ WakeUp(h)
  BY <1>2, <1>6 DEF AcquirePermit, WakeUp
<1>7. CASE Send(h)
  BY <1>7 DEF Send
<1>8. CASE NetworkFails(h) \/ \E c \in Codes : Receive(h, c)
  BY <1>2, <1>3, <1>8 DEF NetworkFails, Receive
<1>9. CASE (\E asked \in Asked : Headers(h, asked)) \/ ReadBody(h) \/ BodyFails(h)
  BY <1>2, <1>3, <1>9 DEF Headers, ReadBody, BodyFails
<1>10. QED
  BY <1>4, <1>5, <1>6, <1>7, <1>8, <1>9 DEF Step

\* However many config files there are and whatever they set, no more requests of a host
\* are under way, and none is closer to the one before, than the options say by their
\* documented precedence.
THEOREM LimitsAreAsPromised == Spec => LimitsAsPromised
<1>1. Init => LimitsKnown
  BY EffectiveIsPromised DEF Init, LimitsKnown
<1>2. LimitsKnown /\ [Next]_vars => LimitsKnown'
  <2> SUFFICES ASSUME LimitsKnown, [Next]_vars PROVE LimitsKnown'
    OBVIOUS
  <2>1. UNCHANGED limits
    BY DEF Next, Step, Idle, LockUri, AcquirePermit, WakeUp, Send, NetworkFails, Receive,
           Headers, ReadBody, BodyFails, PersistentHit, Tick, vars
  <2>2. setup' = setup /\ concurrency' = concurrency /\ interval' = interval
    BY <2>1 DEF limits
  <2>3. PromisedConcurrency(setup)' = PromisedConcurrency(setup')
        /\ PromisedInterval(setup)' = PromisedInterval(setup')
    OBVIOUS
  <2>4. QED
    BY <2>2, <2>3 DEF LimitsKnown
<1>3. IInv /\ WithinLimit' /\ LimitsKnown /\ [Next]_vars =>
        [\A t \in Calls : pc[t] # "sent" /\ pc'[t] = "sent" =>
           /\ Cardinality({h \in Calls : pc'[h] \in {"sent", "headers", "body"}})
                 <= PromisedConcurrency(setup)
           /\ cooldown' = PromisedInterval(setup)]_vars
  <2> SUFFICES ASSUME IInv, WithinLimit', LimitsKnown, [Next]_vars,
                      NEW t \in Calls, pc[t] # "sent", pc'[t] = "sent"
               PROVE  /\ Cardinality({h \in Calls : pc'[h] \in {"sent", "headers", "body"}})
                           <= PromisedConcurrency(setup)
                      /\ cooldown' = PromisedInterval(setup)
    BY Zenon
  <2>1. Next
    BY DEF vars
  <2>2. cooldown' = interval
    BY <2>1, OnlySend
  <2>3. concurrency' = concurrency
    BY SameConcurrency
  <2>4. Cardinality({h \in Calls : pc'[h] \in {"sent", "headers", "body"}}) <= concurrency'
    BY DEF WithinLimit
  <2>5. QED
    BY <2>2, <2>3, <2>4 DEF LimitsKnown
<1>4. QED
  BY <1>1, <1>2, <1>3, UnderWay, Invariant, PTL DEF Spec, LimitsAsPromised
=============================================================================
