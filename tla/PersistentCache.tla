--------------------------- MODULE PersistentCache ---------------------------
(***************************************************************************)
(* lychee's disk cache over several runs of the program: load_cache,       *)
(* Cache::handle for the requests of a run, the exit code and store.       *)
(*                                                                         *)
(* The requests of a run are handled concurrently; a check is in flight    *)
(* between Lookup and CheckDone.  A run may end at any point, with the     *)
(* file cut off when that happens in store.  Configuration, file and clock *)
(* are what one run leaves to the next.                                    *)
(***************************************************************************)
EXTENDS Status, LinkPolicy, FiniteSets

CONSTANTS
    Requests,   \* the links of a run, in whatever order they arrive
    UriOf,      \* the URI of a request
    Outcomes,   \* what a check of a URI may come to
    Configs,    \* what the user may ask for in a run
    Clock,      \* readings of the system clock, in seconds
    Wrap,       \* 2^64, the modulus of timestamps
    MaxRuns     \* bound on the runs

Config == [cache : BOOLEAN, accept : SUBSET StatusCodes,
           cacheExclude : SUBSET StatusCodes, options : Options,
           acceptTimeouts : BOOLEAN, maxAge : Nat]

\* A response, a file or mailbox that is there, an error of the given kind, or an
\* uncertain mail check.
Outcome == [is : {"response"}, code : StatusCodes] \cup [is : {"error"}, kind : STRING]
           \cup [is : {"success", "uncertain"}]

\* No clock is set so far back that a timestamp short of a digit passes as a
\* time before it, and all readings are below the modulus.
ASSUME CacheAssumption ==
    /\ IsFiniteSet(Requests)
    /\ UriOf \in [Requests -> Uris]
    /\ \A u \in Uris : Outcomes[u] # {} /\ Outcomes[u] \subseteq Outcome
    /\ \A u \in Uris : \A o \in Outcomes[u] :
          /\ o.is = "response" => checker(u) = "website"
          /\ o.is = "success" => checker(u) \in {"file", "mail"}
          /\ o.is = "uncertain" => checker(u) = "mail"
    /\ Configs \subseteq Config
    /\ Wrap \in Nat /\ MaxRuns \in Nat
    /\ Clock \subseteq 0 .. Wrap - 1
    /\ \A n, m \in Clock, c \in Configs :
          /\ m \div 10 <= n /\ n - (m \div 10) >= c.maxAge
          /\ n < m => Wrap + n - m >= c.maxAge

VARIABLES
    now,      \* the system clock
    disk,     \* the cache file
    phase,    \* "off", or a run is on, or has finished, or has failed
    cfg,      \* configuration of the run
    mem,      \* Cache: an entry or none for each URI
    at,       \* "todo", "checking", "done" for each request
    result,   \* the status of each request
    exit,     \* exit code
    runs,     \* number of runs begun
    loadedAt, \* the clock when the run began
    checks    \* every check performed, by URI, status, time and run

vars == <<now, disk, phase, cfg, mem, at, result, exit, runs, loadedAt, checks>>

None == [status |-> CacheStatus("None", NoCode), timestamp |-> 0]
Empty == [u \in Uris |-> None]
Entry(cs, ts) == [status |-> cs, timestamp |-> ts]
NoRow == [text |-> serialize(None.status), timestamp |-> 0]
Blank == [u \in Uris |-> NoRow]
Pending == Plain("Pending", NoCode)

Entries == [status : CacheStatuses, timestamp : Clock]
Rows == [text : {serialize(cs) : cs \in CacheStatuses}, timestamp : Nat]

TypeOK ==
    /\ now \in Clock /\ loadedAt \in Clock
    /\ disk \in [exists : BOOLEAN, valid : BOOLEAN, modified : Clock,
                 rows : [Uris -> Rows \cup {NoRow}]]
    /\ phase \in {"off", "run", "finished", "failed"}
    /\ cfg \in Configs
    /\ mem \in [Uris -> Entries \cup {None}]
    /\ at \in [Requests -> {"todo", "checking", "done"}]
    /\ result \in [Requests -> Statuses \cup {Pending}]
    /\ exit \in 0 .. 2
    /\ runs \in 0 .. MaxRuns
    /\ checks \subseteq [uri : Uris, status : Statuses, timestamp : Clock, run : Nat]

Init ==
    /\ now \in Clock
    /\ disk = [exists |-> FALSE, valid |-> TRUE, modified |-> now, rows |-> Blank]
    /\ phase = "off"
    /\ cfg \in Configs
    /\ mem = Empty
    /\ at = [t \in Requests |-> "todo"]
    /\ result = [t \in Requests |-> Pending]
    /\ exit = 0
    /\ runs = 0
    /\ loadedAt = now
    /\ checks = {}
-----------------------------------------------------------------------------
(* load_cache *)

\* mutant: saturating_sub
AgeSaturating(ts) == IF now < ts THEN 0 ELSE now - ts
\* u64 subtraction, which wraps in the release build.
Age(ts) == IF ts <= now THEN now - ts ELSE Wrap + now - ts

is_code_excluded(cs, codes) == cs.code \in codes

\* mutant: errors are kept.
KeptWithErrors(row, c) ==
    /\ Age(row.timestamp) < c.maxAge
    /\ ~is_code_excluded(deserialize(row.text), c.cacheExclude)

Kept(row, c) ==
    /\ Age(row.timestamp) < c.maxAge
    /\ deserialize(row.text).kind # "Error"
    /\ ~is_code_excluded(deserialize(row.text), c.cacheExclude)

\* The file is there, not from the future, recent enough, and all of it parses.
Usable(c) ==
    /\ c.cache
    /\ disk.exists
    /\ disk.modified <= now
    /\ now - disk.modified <= c.maxAge
    /\ disk.valid

load(c) ==
    [u \in Uris |->
        LET row == disk.rows[u] IN
            IF Usable(c) /\ row # NoRow /\ Kept(row, c)
              THEN Entry(deserialize(row.text), row.timestamp) ELSE None]

StartRun(c) ==
    /\ phase # "run"
    /\ runs < MaxRuns
    /\ phase' = "run"
    /\ cfg' = c
    /\ mem' = load(c)
    /\ at' = [t \in Requests |-> "todo"]
    /\ result' = [t \in Requests |-> Pending]
    /\ exit' = 0
    /\ runs' = runs + 1
    /\ loadedAt' = now
    /\ UNCHANGED <<now, disk, checks>>
-----------------------------------------------------------------------------
(* Cache::handle *)

\* Client::remap: the URI that is checked in the end.
remap(t) == remap_uri(cfg.options.remap, UriOf[t])

\* Client::is_excluded
excluded(u) == is_uri_excluded(FilterOf(cfg.options), u)

KeyUnmapped(t) == UriOf[t]   \* mutant: the URI before remaps
Key(t) == remap(t)

Stored(t) == IF Key(t) = NoUri THEN None ELSE mem[Key(t)]

HitAlways(t) == from_cache_status(Stored(t).status, cfg.accept)   \* mutant
cache_hit(t) ==
    IF excluded(Key(t)) THEN Excluded
    ELSE from_cache_status(Stored(t).status, cfg.accept)

should_ignore(u, s) ==
    \/ is_file(u)
    \/ is_excluded(s)
    \/ is_unsupported(s)
    \/ s.code \in cfg.cacheExclude

Resolve(t, status) ==
    /\ at' = [at EXCEPT ![t] = "done"]
    /\ result' = [result EXCEPT ![t] = status]

\* Up to the await: a hit is the response, a miss starts the check.
Lookup(t) ==
    /\ phase = "run"
    /\ at[t] = "todo"
    /\ \/ /\ Stored(t) # None
          /\ Resolve(t, cache_hit(t))
       \/ /\ Stored(t) = None
          /\ at' = [at EXCEPT ![t] = "checking"]
          /\ UNCHANGED result
    /\ UNCHANGED <<now, disk, phase, cfg, mem, exit, runs, loadedAt, checks>>

\* Client::check ends without a check: the remap failed, or the URI is excluded.
CheckSkipped(t) ==
    /\ phase = "run"
    /\ at[t] = "checking"
    /\ remap(t) # NoUri => excluded(remap(t))
    /\ Resolve(t, IF remap(t) = NoUri THEN Error ELSE Excluded)
    /\ UNCHANGED <<now, disk, phase, cfg, mem, exit, runs, loadedAt, checks>>

StatusOf(o) ==
    CASE o.is = "response" -> new(o.code, cfg.accept)
      [] o.is = "success" -> Ok(200)
      [] o.is = "error" -> FromErrorKind(o.kind)
      [] OTHER -> UnknownMailStatus

Stamp == now

\* The check ends, and its status enters the cache, over what a concurrent check
\* of the same key has put there.
CheckDone(t, o) ==
    /\ phase = "run"
    /\ at[t] = "checking"
    /\ remap(t) # NoUri /\ ~excluded(remap(t))
    /\ LET u == Key(t)  s == StatusOf(o) IN
          /\ Resolve(t, s)
          /\ mem' = IF should_ignore(u, s) THEN mem
                    ELSE [mem EXCEPT ![u] = Entry(ToCacheStatus(s), Stamp)]
          /\ checks' = checks \cup
                {[uri |-> remap(t), status |-> s, timestamp |-> now, run |-> runs]}
    /\ UNCHANGED <<now, disk, phase, cfg, exit, runs, loadedAt>>
-----------------------------------------------------------------------------
(* The end of a run *)

AllDone == \A t \in Requests : at[t] = "done"

\* is_success and is_success_ignoring_timeouts of ResponseStats: timeout_map is
\* filled before error_map is considered.
Fails(s) == is_error(s) /\ ~(is_timeout(s) /\ cfg.acceptTimeouts)
Verdict == IF \E t \in Requests : Fails(result[t]) THEN 2 ELSE 0

\* mutant: only what this run has checked
StorableChecked ==
    {u \in Uris : /\ mem[u] # None /\ mem[u].status.kind # "Error"
                  /\ \E c \in checks : c.uri = u /\ c.run = runs}
\* store leaves out errors.
storable == {u \in Uris : mem[u] # None /\ mem[u].status.kind # "Error"}

Row(u) == [text |-> serialize(mem[u].status), timestamp |-> mem[u].timestamp]
Written(us) == [u \in Uris |-> IF u \in us THEN Row(u) ELSE NoRow]
File(rows, valid) ==
    [exists |-> TRUE, valid |-> valid, modified |-> now, rows |-> rows]

\* run, to its end.
Finish ==
    /\ phase = "run" /\ AllDone
    /\ disk' = IF cfg.cache THEN File(Written(storable), TRUE) ELSE disk
    /\ phase' = "finished"
    /\ exit' = Verdict
    /\ UNCHANGED <<now, cfg, mem, at, result, runs, loadedAt, checks>>

\* The process ends early: what it had in memory is gone.
Die(code) ==
    /\ phase' = "failed"
    /\ exit' = code
    /\ mem' = Empty
    /\ at' = [t \in Requests |-> "todo"]
    /\ result' = [t \in Requests |-> Pending]
    /\ UNCHANGED <<now, cfg, runs, loadedAt, checks>>

\* The statistics cannot be written: a broken pipe counts as success, anything
\* else is an error, and the cache is not stored.
OutputFails ==
    /\ phase = "run" /\ AllDone
    /\ \E code \in {0, 1} : Die(code)
    /\ UNCHANGED disk

\* store stops halfway: rows are missing and the last one may be cut, inside its
\* timestamp, or so that the file does not parse.  Killed and failing writes end
\* the run with an error; the last flush, when the writer is dropped, fails
\* without one.
StoreCut ==
    /\ phase = "run" /\ AllDone
    /\ cfg.cache
    /\ \E us \in SUBSET storable, valid \in BOOLEAN :
          \/ disk' = File(Written(us), valid)
          \/ \E last \in us, n \in {10, 100} :
                disk' = File([Written(us) EXCEPT ![last].timestamp = @ \div n], TRUE)
    /\ \E code \in {1, Verdict} : Die(code)

\* An error the user has to fix, a panic, or the process is killed.
Abort ==
    /\ phase = "run"
    /\ Die(1)
    /\ UNCHANGED disk

\* The clock goes on, or is set.
ClockChanges ==
    /\ now' \in Clock \ {now}
    /\ UNCHANGED <<disk, phase, cfg, mem, at, result, exit, runs, loadedAt, checks>>

Next ==
    \/ \E c \in Configs : StartRun(c)
    \/ \E t \in Requests : \/ Lookup(t) \/ CheckSkipped(t)
                           \/ \E u \in Uris : \E o \in Outcomes[u] : remap(t) = u /\ CheckDone(t, o)
    \/ Finish \/ OutputFails \/ StoreCut \/ Abort \/ ClockChanges

Spec == Init /\ [][Next]_vars
-----------------------------------------------------------------------------
(* What the cache promises *)

Before(c) == c.timestamp <= loadedAt /\ loadedAt - c.timestamp < cfg.maxAge

\* A link that is green from the cache was checked: its final URI gave this code,
\* which was or is an accepted one, in this run or within max_cache_age before it,
\* whatever files, clocks and configurations came between.
GreenIsEarned ==
    \A t \in Requests : result[t].from = "cache" /\ is_success(result[t]) =>
        \E c \in checks : /\ c.uri = remap(t)
                          /\ c.status.code = result[t].code
                          /\ is_success(c.status) \/ c.status.code \in cfg.accept
                          /\ c.run = runs \/ Before(c)

\* cache.rs:58, "We always want to recheck failing links": a cached error is the
\* result of a check in this run, never of one before.
ErrorsRechecked ==
    \A t \in Requests : result[t].from = "cache" /\ is_error(result[t]) =>
        \E c \in checks : c.uri = remap(t) /\ c.run = runs /\ ~is_success(c.status)

\* cache.rs:98: a status code excluded from the cache is never served from it,
\* even when it was cached before it was excluded.
ExcludedStatusNotServed ==
    \A t \in Requests : result[t].from = "cache" => result[t].code \notin cfg.cacheExclude

\* The comments of Filter and its is_excluded: a link is reported as
\* excluded, cached or not, exactly when its final URI is none that the options of
\* this run ask for.
ExcludedConsistently ==
    \A t \in Requests : at[t] = "done" /\ remap(t) # NoUri =>
        (result[t] = Excluded <=> ~Wanted(cfg.options, remap(t)))

\* A run that ends in good order leaves every success it has reported on disk for
\* the next, unless another check of the same link came out differently.
SuccessesStored ==
    phase = "finished" /\ cfg.cache =>
        \A t \in Requests :
            /\ is_success(result[t])
            /\ remap(t) # NoUri /\ ~is_file(remap(t)) /\ result[t].code \notin cfg.cacheExclude
            /\ \A c \in checks : c.run = runs /\ c.uri = remap(t) =>
                                     c.status.code = result[t].code
            => disk.rows[remap(t)].text.code = result[t].code

(* The invariant that the four properties of what is served rest on *)

\* An entry in memory is the outcome of a check, with its time: of one in this
\* run, or of a success recent enough when the run began.
MemEarned ==
    \A u \in Uris : mem[u] # None =>
        /\ mem[u].status.kind \in {"Ok", "Error"}
        /\ mem[u].status.code \notin cfg.cacheExclude
        /\ \E c \in checks :
              /\ c.uri = u
              /\ mem[u] = Entry(ToCacheStatus(c.status), c.timestamp)
              /\ c.run = runs \/ (is_success(c.status) /\ Before(c))

\* A row on disk is a success, with its time or with what a cut has left of it.
DiskEarned ==
    \A u \in Uris : disk.rows[u] # NoRow =>
        \E c \in checks :
            /\ c.uri = u
            /\ is_success(c.status)
            /\ disk.rows[u].text = serialize(ToCacheStatus(c.status))
            /\ disk.rows[u].timestamp \in
                  {c.timestamp, c.timestamp \div 10, c.timestamp \div 100}

NoCheckAhead == \A c \in checks : c.run <= runs

IInv == /\ TypeOK /\ MemEarned /\ DiskEarned /\ NoCheckAhead
        /\ GreenIsEarned /\ ErrorsRechecked
        /\ ExcludedStatusNotServed /\ ExcludedConsistently

(* What it does not keep to *)

\* config/mod.rs:506: "Accept timed out requests and return exit code 0 when
\* encountering timeouts but not any other errors".  A link that times out and
\* occurs twice fails the run: its second occurrence is a cached error.
TimeoutsAccepted ==
    phase = "finished" /\ cfg.acceptTimeouts /\ exit = 2 =>
        \E c \in checks : c.run = runs /\ is_error(c.status) /\ ~is_timeout(c.status)

\* status.rs:102: "The set of accepted status codes can change between runs,
\* necessitating more complex logic".  A cached 2xx is green even if it is not in
\* the set of this run.
AcceptedNow ==
    \A t \in Requests : result[t].from = "cache" /\ is_success(result[t]) =>
        result[t].code \in cfg.accept
=============================================================================
