-------------------------------- MODULE Host --------------------------------
(***************************************************************************)
(* lychee_lib::ratelimit::Host: the calls of execute_request for one host. *)
(*                                                                         *)
(* A call locks its URI, looks it up in the host's cache and, on a miss,   *)
(* takes a permit, sleeps the backoff, waits for the rate limiter, sends   *)
(* the request and lets the response adjust the backoff and fill the       *)
(* cache.  Calls come from the check task and from the tasks that fetch    *)
(* inputs, so they run in parallel.  Durations are counted in ticks; the   *)
(* timers run down, and a sleeper may wake up late.                        *)
(***************************************************************************)
EXTENDS Settings, FiniteSets

CONSTANTS
    Calls,          \* the calls of execute_request
    Uris,           \* fragment-less URIs
    UriOf,          \* the URI a call asks for
    NeedsBody,      \* the calls that want the body's text
    Codes,          \* the status codes the server may answer with
    Asked,          \* the delays its headers may ask for
    FirstBackoff,   \* 500 ms, after the first 429
    LimitedCap,     \* 30 s, the most a 429 leads to
    ServerStep,     \* 200 ms, added by a server error
    ServerCap,      \* 10 s, the most a server error leads to
    MAXIMUM_BACKOFF \* 60 s

ASSUME HostAssumption ==
    /\ IsFiniteSet(Calls)
    /\ UriOf \in [Calls -> Uris]
    /\ NeedsBody \subseteq Calls
    /\ Codes \subseteq 100 .. 999
    /\ Asked \subseteq Nat
    /\ FirstBackoff \in Nat /\ LimitedCap \in Nat
    /\ ServerStep \in Nat /\ ServerCap \in Nat /\ MAXIMUM_BACKOFF \in Nat
    /\ FirstBackoff <= LimitedCap
    /\ ServerCap <= LimitedCap
    /\ LimitedCap <= MAXIMUM_BACKOFF

VARIABLES
    setup,       \* what lychee was started with
    concurrency, \* the permits this host was made with
    interval,    \* its rate limiter's period, 0 for no limiter
    pc,        \* where each call is, see Waiting and Holding
    timer,     \* the sleep a call has left in await_backoff
    locked,    \* the calls that hold their URI's mutex in active_requests
    permits,   \* permits left in the semaphore
    cooldown,  \* ticks until the rate limiter lets a request through
    backoff,   \* backoff_duration
    cache,     \* the response cached for each URI
    code,      \* the status of a call's response
    result,    \* what a call returned
    stats,     \* HostStats
    quiet      \* ticks since the last response, for BackoffHonoured

\* What a host is made with never changes.
limits == <<setup, concurrency, interval>>

vars == <<limits, pc, timer, locked, permits, cooldown, backoff, cache,
          code, result, stats, quiet>>

\* A call holds its permit from "sleep" on.
Holding == {"sleep", "limiter", "sent", "headers", "body"}
Locked == {"permit"} \cup Holding

None == [kind |-> "none"]
Response(c, text) == [kind |-> "response", code |-> c, text |-> text]
Responses == {Response(c, b) : c \in Codes, b \in BOOLEAN}
NetworkRequest == [kind |-> "NetworkRequest"]
ReadResponseBody == [kind |-> "ReadResponseBody"]
Persisted == [kind |-> "persisted"]   \* answered by lychee's disk cache

Counters == {"total_requests", "successful_requests", "rate_limited",
             "client_errors", "server_errors", "cache_hits", "cache_misses"}

is_success_status(c) == c \in 200 .. 299

\* retry.rs: server errors, request timeout, too many requests.
should_retry_code(c) == c \in 500 .. 599 \cup {408, 429}

Least(a, b) == IF a <= b THEN a ELSE b
Greatest(a, b) == IF a <= b THEN b ELSE a

TypeOK ==
    /\ pc \in [Calls -> {"start", "done"} \cup Locked]
    /\ timer \in [Calls -> Nat]
    /\ locked \subseteq Calls
    /\ setup \in Setups /\ concurrency \in Nat /\ interval \in Nat
    /\ permits \in Nat
    /\ cooldown \in Nat
    /\ backoff \in 0 .. MAXIMUM_BACKOFF
    /\ cache \in [Uris -> Responses \cup {None}]
    /\ code \in [Calls -> Codes \cup {0}]
    /\ result \in [Calls -> Responses \cup {None, NetworkRequest,
                                            ReadResponseBody, Persisted}]
    /\ stats \in [Counters -> Nat]
    /\ quiet \in Nat

Init ==
    /\ pc = [t \in Calls |-> "start"]
    /\ timer = [t \in Calls |-> 0]
    /\ locked = {}
    /\ setup \in Setups
    /\ concurrency = effective_concurrency(load_config(setup))
    /\ interval = effective_request_interval(load_config(setup))
    /\ permits = concurrency
    /\ cooldown = 0
    /\ backoff = 0
    /\ cache = [u \in Uris |-> None]
    /\ code = [t \in Calls |-> 0]
    /\ result = [t \in Calls |-> None]
    /\ stats = [k \in Counters |-> 0]
    /\ quiet = 0
-----------------------------------------------------------------------------
(* HostStats: which counters an event adds one to *)

Count(ks) == stats' = [k \in Counters |-> IF k \in ks THEN stats[k] + 1 ELSE stats[k]]

record_cache_hit == Count({"cache_hits", "total_requests", "successful_requests"})
CountMissTwice == Count({"cache_misses", "total_requests"})   \* mutant
record_cache_miss == Count({"cache_misses"})
record_response(c) ==
    Count({"total_requests"}
          \cup (IF is_success_status(c) THEN {"successful_requests"} ELSE {})
          \cup (IF c = 429 THEN {"rate_limited"} ELSE {})
          \cup (IF c \in 400 .. 499 \ {429} THEN {"client_errors"} ELSE {})
          \cup (IF c \in 500 .. 599 THEN {"server_errors"} ELSE {}))

(* The backoff after a status, and after a header asking for a delay *)

update_backoff(b, c) ==
    CASE is_success_status(c) -> 0
      [] c = 429 -> Least(IF b = 0 THEN FirstBackoff ELSE 2 * b, LimitedCap)
      [] c \in 500 .. 599 -> Least(b + ServerStep, ServerCap)
      [] OTHER -> b

increase_backoff(b, asked) == Greatest(b, Least(asked, MAXIMUM_BACKOFF))

(* The cache *)

\* mutant: the wish for a body must be met exactly.
SatisfiedExactly(t) ==
    cache[UriOf[t]] # None /\ (t \in NeedsBody <=> cache[UriOf[t]].text)

\* get_cached_status has an answer for the call.
Satisfied(t) ==
    LET hit == cache[UriOf[t]] IN
        hit # None /\ (t \in NeedsBody => hit.text)

\* cache_result: what may be retried is not cached.
cache_result(t) ==
    cache' = IF should_retry_code(code[t]) THEN cache
             ELSE [cache EXCEPT ![UriOf[t]] = Response(code[t], t \in NeedsBody)]

(* Moving a call on, and ending it: its guards are dropped *)

GoTo(t, where) == pc' = [pc EXCEPT ![t] = where]

\* mutants: a cache hit returns a permit it never took; the mutex stays locked.
ReturnPermitAlways(t, value) ==
    /\ GoTo(t, "done")
    /\ result' = [result EXCEPT ![t] = value]
    /\ locked' = locked \ {t}
    /\ permits' = permits + 1
ReturnLocked(t, value) ==
    /\ GoTo(t, "done")
    /\ result' = [result EXCEPT ![t] = value]
    /\ permits' = IF pc[t] \in Holding THEN permits + 1 ELSE permits
    /\ UNCHANGED locked

Return(t, value) ==
    /\ GoTo(t, "done")
    /\ result' = [result EXCEPT ![t] = value]
    /\ locked' = locked \ {t}
    /\ permits' = IF pc[t] \in Holding THEN permits + 1 ELSE permits
-----------------------------------------------------------------------------
(* execute_request *)

\* active_requests has one mutex for each URI.
MutexPerCall(t) == t \notin locked   \* mutant: the entry is replaced, not reused
MutexFree(t) == \A h \in locked : UriOf[h] # UriOf[t]

\* lock_uri_mutex, then the lookup in the same poll.
LockUri(t) ==
    /\ pc[t] = "start"
    /\ MutexFree(t)
    /\ \/ /\ Satisfied(t)
          /\ record_cache_hit
          /\ Return(t, cache[UriOf[t]])
       \/ /\ ~Satisfied(t)
          /\ record_cache_miss
          /\ GoTo(t, "permit")
          /\ locked' = locked \cup {t}
          /\ UNCHANGED <<permits, result>>
    /\ UNCHANGED <<limits, timer, cooldown, backoff, cache, code, quiet>>

sleep_short == Least(backoff, ServerCap)   \* mutant: the cap of another branch
sleep_for == backoff

\* acquire_semaphore; await_backoff reads the backoff once and sleeps.
AcquirePermit(t) ==
    /\ pc[t] = "permit"
    /\ permits > 0
    /\ permits' = permits - 1
    /\ timer' = [timer EXCEPT ![t] = sleep_for]
    /\ GoTo(t, "sleep")
    /\ UNCHANGED <<limits, locked, cooldown, backoff, cache, code, result, stats, quiet>>

WakeUp(t) ==
    /\ pc[t] = "sleep"
    /\ timer[t] = 0
    /\ GoTo(t, "limiter")
    /\ UNCHANGED <<limits, timer, locked, permits, cooldown, backoff, cache, code, result,
                   stats, quiet>>

\* until_ready lets one request through per period; the request leaves.
Send(t) ==
    /\ pc[t] = "limiter"
    /\ cooldown = 0
    /\ cooldown' = interval
    /\ GoTo(t, "sent")
    /\ UNCHANGED <<limits, timer, locked, permits, backoff, cache, code, result, stats, quiet>>

\* perform_request: the request fails below HTTP, or times out.
NetworkFails(t) ==
    /\ pc[t] = "sent"
    /\ Return(t, NetworkRequest)
    /\ UNCHANGED <<limits, timer, cooldown, backoff, cache, code, stats, quiet>>

\* update_stats and update_backoff.
Receive(t, c) ==
    /\ pc[t] = "sent"
    /\ code' = [code EXCEPT ![t] = c]
    /\ record_response(c)
    /\ backoff' = update_backoff(backoff, c)
    /\ quiet' = 0
    /\ GoTo(t, "headers")
    /\ UNCHANGED <<limits, timer, locked, permits, cooldown, cache, result>>

\* handle_rate_limit_headers locks the backoff anew.  A response whose body is
\* not wanted is cached and returned at once.
Headers(t, asked) ==
    /\ pc[t] = "headers"
    /\ backoff' = increase_backoff(backoff, asked)
    /\ IF t \in NeedsBody
         THEN /\ GoTo(t, "body")
              /\ UNCHANGED <<locked, permits, cache, result>>
         ELSE /\ cache_result(t)
              /\ Return(t, Response(code[t], FALSE))
    /\ quiet' = 0
    /\ UNCHANGED <<limits, timer, cooldown, code, stats>>

ReadBody(t) ==
    /\ pc[t] = "body"
    /\ cache_result(t)
    /\ Return(t, Response(code[t], TRUE))
    /\ UNCHANGED <<limits, timer, cooldown, backoff, code, stats, quiet>>

BodyFails(t) ==
    /\ pc[t] = "body"
    /\ Return(t, ReadResponseBody)
    /\ UNCHANGED <<limits, timer, cooldown, backoff, cache, code, stats, quiet>>

\* HostPool::record_persistent_cache_hit: lychee's disk cache has answered, the
\* call is not made.
PersistentHit(t) ==
    /\ pc[t] = "start"
    /\ record_cache_hit
    /\ Return(t, Persisted)
    /\ UNCHANGED <<limits, timer, cooldown, backoff, cache, code, quiet>>

\* Time passes; it is not counted while nobody waits for it.
Tick ==
    /\ cooldown > 0 \/ \E t \in Calls : timer[t] > 0
    /\ timer' = [t \in Calls |-> IF timer[t] > 0 THEN timer[t] - 1 ELSE 0]
    /\ cooldown' = IF cooldown > 0 THEN cooldown - 1 ELSE 0
    /\ quiet' = Least(quiet + 1, MAXIMUM_BACKOFF)
    /\ UNCHANGED <<limits, pc, locked, permits, backoff, cache, code, result, stats>>

Step(t) ==
    \/ LockUri(t) \/ AcquirePermit(t) \/ WakeUp(t) \/ Send(t)
    \/ NetworkFails(t) \/ (\E c \in Codes : Receive(t, c))
    \/ (\E asked \in Asked : Headers(t, asked))
    \/ ReadBody(t) \/ BodyFails(t)

AllDone == \A t \in Calls : pc[t] = "done"

Idle == AllDone /\ cooldown = 0 /\ UNCHANGED vars

Next == (\E t \in Calls : Step(t) \/ PersistentHit(t)) \/ Tick \/ Idle

Spec == Init /\ [][Next]_vars

\* Tokio polls what is ready, timers fire, reqwest's timeout ends a request; the
\* two locks are fair queues, and the limiter serves one of finitely many calls.
FairSpec == Spec /\ WF_vars(Tick) /\ \A t \in Calls : WF_vars(Step(t))
-----------------------------------------------------------------------------
(* What a host promises *)

\* "Prevent duplicate concurrent requests" (host.rs:70): no two calls between
\* lookup and cache_result ask for the same URI.
UriExclusive ==
    \A t, h \in Calls :
        pc[t] \in Locked /\ pc[h] \in Locked /\ t # h => UriOf[t] # UriOf[h]

\* A permit is neither leaked nor returned twice on any way out of a call, so at
\* most `concurrency' calls are past the semaphore.
Holders == {t \in Calls : pc[t] \in Holding}
PermitsExact == permits + Cardinality(Holders) = concurrency

\* No more requests are under way, and none closer to the one before, than the options
\* say by their precedence (config/mod.rs:53 and 905, main.rs:177, lychee.example.toml:221).
\* Of the tables in [hosts] this is about those whose name is in lower case; the others are
\* the matter of OwnTableHonoured, which does not hold.
LimitsAsPromised ==
    [][\A t \in Calls : pc[t] # "sent" /\ pc'[t] = "sent" =>
        /\ Cardinality({h \in Calls : pc'[h] \in {"sent", "headers", "body"}})
              <= PromisedConcurrency(setup)
        /\ cooldown' = PromisedInterval(setup)]_vars

\* What a host's own table says of the interval overrules the options for all hosts
\* (lychee.example.toml:222, config/mod.rs:335): also when its name has capital letters,
\* which do not tell hosts apart (key.rs:42) and do not keep its headers from being sent.
OwnTableHonoured ==
    [][\A t \in Calls : pc[t] # "sent" /\ pc'[t] = "sent" =>
        cooldown' = PromisedIntervalByName(setup)]_vars

\* What the lookup found under the mutex still holds when the request is sent,
\* however long the call waits between: no answer is fetched that is there.
NoFetchWithAnswer == \A t \in Calls : pc[t] \in Locked => ~Satisfied(t)

\* resolver.rs:59: a call that wants the body gets its text, from the network or
\* from the cache; its absence is `unreachable!`.
ServedWithText ==
    \A t \in NeedsBody : result[t].kind = "response" => result[t].text

\* A later call that wants no body never replaces a cached text.
TextKept ==
    [][\A u \in Uris : cache[u] # None /\ cache[u].text
                           => cache'[u] # None /\ cache'[u].text]_vars

\* With one permit, every request leaves at least the current backoff after the
\* response before it: the sleep's duration, read once, cannot be outdated.
BackoffHonoured ==
    concurrency = 1 => \A t \in Calls : pc[t] = "limiter" => quiet >= backoff

(* The invariant that the properties above rest on *)

\* A call holds its URI's mutex from the lookup to its return.
LockedExact == \A t \in Calls : pc[t] \in Locked <=> t \in locked

\* A call past the response knows its status, and reads only a body it wants.
CodeKnown ==
    \A t \in Calls : /\ pc[t] \in {"headers", "body"} => code[t] \in Codes
                     /\ pc[t] = "body" => t \in NeedsBody

\* A sleeper of the only permit wakes up late enough.
SleepsEnough ==
    concurrency = 1 => \A t \in Calls : pc[t] = "sleep" => quiet + timer[t] >= backoff

IInv == /\ TypeOK /\ LockedExact /\ CodeKnown /\ UriExclusive /\ PermitsExact
        /\ NoFetchWithAnswer /\ ServedWithText /\ SleepsEnough /\ BackoffHonoured

\* The calls a counter stands for.  A call that is answered from a cache counts as a
\* successful request (stats.rs:157); an answer of the server counts by its class.
Hits == {t \in Calls : code[t] = 0 /\ result[t].kind \in {"response", "persisted"}}
Begun == {t \in Calls : pc[t] # "start"}
Answered(codes) == {t \in Calls : code[t] \in codes}
CallsOf(counter) ==
    CASE counter = "cache_hits" -> Hits
      [] counter = "cache_misses" -> Begun \ Hits
      [] counter = "total_requests" -> Hits \cup Answered(Codes)
      [] counter = "successful_requests" -> Hits \cup Answered(200 .. 299)
      [] counter = "rate_limited" -> Answered({429})
      [] counter = "client_errors" -> Answered(400 .. 499 \ {429})
      [] counter = "server_errors" -> Answered(500 .. 599)

\* Whatever becomes of the calls, each of them is counted once, as a hit or as a miss, and
\* each answer once, under its own class: a miss adds nothing to the requests, "to avoid
\* double-counting" (stats.rs:170).
StatsBalance == \A k \in Counters : stats[k] = Cardinality(CallsOf(k))

\* No call waits forever for its mutex, its permit or the limiter.
AllCallsReturn == \A t \in Calls : <>(pc[t] = "done")
-----------------------------------------------------------------------------
(* What is left of a host when its permits, timers and counters are hidden *)

Promise == INSTANCE HostPromise
           WITH Callers <- Calls, Pages <- Uris,
                Lasting <- {c \in Codes : ~should_retry_code(c)},
                fetching <- {[caller |-> t, page |-> UriOf[t], text |-> t \in NeedsBody] :
                                t \in {h \in Calls : pc[h] \in Locked}},
                answers <- [u \in Uris |->
                               IF cache[u] = None THEN {}
                               ELSE {[code |-> cache[u].code, text |-> cache[u].text]}]

\* However the calls wait for each other, a page is fetched by one of them at a time, and
\* by none that could have had the answer to another (host.rs:70 and 144-197).
ImplementsHostPromise == Promise!Spec
=============================================================================
