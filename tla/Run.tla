-------------------------------- MODULE Run --------------------------------
(***************************************************************************)
(* The commands of lychee (commands/) once the client is there, and what   *)
(* run (main.rs) does with their outcome: the statistics of the responses, *)
(* the progress bar, the search for archived pages, the report in each of  *)
(* its formats, the files that are saved, the exit code.                   *)
(*                                                                         *)
(* The tasks and channels of the check command are in CheckPipeline; here  *)
(* a request that was sent is answered at any later time.                  *)
(***************************************************************************)
EXTENDS Options, Status, FiniteSets

CONSTANT Runs   \* options and what the collector makes of the inputs

StatsFormats == {"compact", "detailed", "json", "junit", "markdown"}
Schemes == {"https", "mailto", "data", "file"}   \* "https" is any from the web

\* Links and sources are sequences; a response is a Status; the format is a StatsFormat.
ASSUME RunsAssumption ==
    \A r \in Runs :
        /\ Len(r.requests) \in Nat /\ DOMAIN r.requests = 1 .. Len(r.requests)
        /\ Len(r.sources) \in Nat /\ DOMAIN r.sources = 1 .. Len(r.sources)
        /\ \A i \in DOMAIN r.requests : \A body \in r.requests[i].answers :
               body.status \in Statuses /\ body.scheme \in Schemes
        /\ value(r.config, "format") \in StatsFormats

VARIABLES
    given,      \* config, requests, inputs, whether stdin is the only input, and
                \* whether what is written goes into a pipe: stdout, or a FIFO as --output
    phase,
    next,       \* the request that is announced or dumped next
    sending,    \* send_requests has announced a request and not sent it yet
    flight,     \* requests sent and not answered yet
    responses,  \* the response to each request, for the properties
    stats,      \* ResponseStats: counters, maps and seen_uris
    bar,        \* length and position of the progress bar
    lookups,    \* failed links to ask the archive about: waiting and asked
    seen,       \* seen_sources of dump_inputs
    lines,      \* what dump and dump_inputs have written
    shown,      \* the report, once it is formatted
    saved,      \* what has been written: "report", "cache", "cookies"
    exit

checkVars == <<sending, flight, responses, stats>>
dumpVars == <<seen, lines>>
endVars == <<shown, saved, exit>>
runVars == <<given, phase, next, checkVars, bar, lookups, dumpVars, endVars>>

Exit(code) == phase' = "exited" /\ exit' = {code}

option(f) == value(given.config, f)
flag(f) == enabled(given.config, f)
Info == 2
level == log_level(option("verbose"))
max_concurrency == option("max_concurrency")

StatusCounters == {"successful", "errors", "timeouts", "unknown", "excludes", "unsupported"}
Counters == StatusCounters \cup {"total", "unique", "redirects", "remaps", "cached"}
Maps == {"success", "error", "timeout", "excluded", "redirect", "suggestion"}

RunInit ==
    /\ given \in Runs
    /\ phase = IF flag("dump_inputs") \/ flag("dump") THEN "open" ELSE "check"
    /\ next = 1 /\ sending = FALSE /\ flight = {} /\ responses = [i \in {} |-> 0]
    /\ stats = [counts |-> [c \in Counters |-> 0], maps |-> [m \in Maps |-> {}], seen_uris |-> {}]
    /\ bar = [length |-> 0, position |-> 0]
    /\ lookups = [waiting |-> {}, asked |-> {}]
    /\ seen = {} /\ lines = <<>> /\ shown = <<>> /\ saved = <<>> /\ exit = {}
-----------------------------------------------------------------------------
(* Progress.  Without a bar nothing counts. *)

Visible == ~(flag("no_progress") \/ given.is_stdin_input \/ level >= Info)
inc_length == bar' = IF Visible THEN [bar EXCEPT !.length = @ + 1] ELSE bar
update == bar' = IF Visible THEN [bar EXCEPT !.position = @ + 1] ELSE bar
new_bar(n) == bar' = IF Visible THEN [length |-> n, position |-> 0] ELSE bar
-----------------------------------------------------------------------------
(* The statistics.  A response is its uri with its scheme, status, redirects and remap, *)
(* each of the last two "none" or some.  Of a map the entries are the pairs of an input *)
(* and what is said of it.                                                              *)

detailed_stats == level >= Info

CounterOf(status) ==
    CASE status.kind = "Ok" -> "successful"
      [] status.kind = "Error" -> "errors"
      [] status.kind = "Timeout" -> "timeouts"
      [] status.kind = "UnknownMailStatus" -> "unknown"
      [] status.kind = "Excluded" -> "excludes"
      [] status.kind = "Unsupported" -> "unsupported"
increment_status_counters_cached(status) ==   \* mutant: a cached status is only that
    IF status.from = "cache" THEN {"cached"} ELSE {CounterOf(status)}
increment_status_counters(status) ==
    {CounterOf(status)} \cup (IF status.from = "cache" THEN {"cached"} ELSE {})

MapOf(status) ==
    CASE is_timeout(status) -> {"timeout"}
      [] ~is_timeout(status) /\ is_error(status) -> {"error"}
      [] is_excluded(status) -> {"excluded"}
      [] is_success(status) /\ detailed_stats -> {"success"}
      [] OTHER -> {}

Entry(source, item) == [source |-> source, item |-> item]
add_response_status(maps, source, body) ==
    [m \in Maps |-> maps[m] \cup
        (IF m \in MapOf(body.status) THEN {Entry(source, body)}
         ELSE IF m = "redirect" /\ detailed_stats /\ body.redirects # "none"
         THEN {Entry(source, body.redirects)} ELSE {})]

add(s, source, body) ==
    LET counted == {"total"} \cup increment_status_counters(body.status)
                   \cup (IF body.uri \in s.seen_uris THEN {} ELSE {"unique"})
                   \cup (IF body.redirects = "none" THEN {} ELSE {"redirects"})
                   \cup (IF body.remap = "none" THEN {} ELSE {"remaps"})
    IN [counts |-> [c \in Counters |-> s.counts[c] + (IF c \in counted THEN 1 ELSE 0)],
        maps |-> add_response_status(s.maps, source, body),
        seen_uris |-> s.seen_uris \cup {body.uri}]

is_success_ignoring_timeouts == stats.maps["error"] = {}
no_failures == stats.maps["error"] = {} /\ stats.maps["timeout"] = {}
-----------------------------------------------------------------------------
(* check *)

\* send_requests: the bar grows before the request is on its way.
Announce ==
    /\ phase = "check" /\ ~sending /\ next <= Len(given.requests)
    /\ sending' = TRUE /\ inc_length
    /\ UNCHANGED <<given, phase, next, flight, responses, stats, lookups, dumpVars, endVars>>

SendRequest ==
    /\ phase = "check" /\ sending
    /\ sending' = FALSE /\ flight' = flight \cup {next} /\ next' = next + 1
    /\ UNCHANGED <<given, phase, responses, stats, bar, lookups, dumpVars, endVars>>

\* RequestError::into_response: all such responses have one uri, "error:".
ErrorBody == [uri |-> "error:", scheme |-> "error", status |-> Error, redirects |-> "none",
              remap |-> "none"]
into_response(request) == IF request.error = "none" THEN request.answers ELSE {ErrorBody}

CollectResponse(i) ==
    /\ phase = "check" /\ i \in flight /\ given.requests[i].error # "UserInputContent"
    /\ \E body \in into_response(given.requests[i]) :
           /\ stats' = add(stats, given.requests[i].source, body)
           /\ responses' = [j \in DOMAIN responses \cup {i} |-> IF j = i THEN body ELSE responses[j]]
    /\ flight' = flight \ {i}
    /\ update
    /\ UNCHANGED <<given, phase, next, sending, lookups, dumpVars, endVars>>

CollectUserError(i) ==
    /\ phase = "check" /\ i \in flight /\ given.requests[i].error = "UserInputContent"
    /\ Exit(UnexpectedFailure)
    /\ UNCHANGED <<given, next, checkVars, bar, lookups, dumpVars, shown, saved>>

get_failed_urls_all(error_map) == error_map   \* mutant: links to mailboxes and files as well
get_failed_urls(error_map) ==
    {e \in error_map : e.item.scheme \notin {"data", "mailto", "file"}}

EndCheck ==
    /\ phase = "check" /\ ~sending /\ next > Len(given.requests) /\ flight = {}
    /\ IF flag("suggest")
       THEN LET failed_urls == get_failed_urls(stats.maps["error"]) IN
            /\ phase' = "suggest"
            /\ lookups' = [lookups EXCEPT !.waiting = failed_urls]
            /\ new_bar(Cardinality(failed_urls))
       ELSE phase' = "report" /\ UNCHANGED <<lookups, bar>>
    /\ UNCHANGED <<given, next, checkVars, dumpVars, endVars>>
-----------------------------------------------------------------------------
(* suggest_archived_links *)

Ask(e) ==
    /\ phase = "suggest" /\ e \in lookups.waiting
    /\ Cardinality(lookups.asked) < max_concurrency
    /\ lookups' = [waiting |-> lookups.waiting \ {e}, asked |-> lookups.asked \cup {e}]
    /\ UNCHANGED <<given, phase, next, checkVars, bar, dumpVars, endVars>>

\* The archive's answer has a snapshot, whatever it says of its status; or it has none;
\* or it is no answer at all, which counts as none.
Replies == {"available", "not available", "no closest", "failed"}
wayback(reply) ==
    CASE reply \in {"available", "not available"} -> "snapshot"
      [] reply = "no closest" -> "none"
      [] reply = "failed" -> "error"
get_archive_snapshot(reply) == CASE option("archive") = "wayback" -> wayback(reply)

SuggestionFor(e) == Entry(e.source, [original |-> e.item.uri, suggestion |-> "snapshot"])
\* The bar moves on in any case.
advance_if_found(answer) ==   \* mutant: inside the `if let`
    IF answer = "snapshot" THEN update ELSE UNCHANGED bar
advance(answer) == update
Hear(e, reply) ==
    LET answer == get_archive_snapshot(reply) IN
    /\ phase = "suggest" /\ e \in lookups.asked
    /\ lookups' = [lookups EXCEPT !.asked = @ \ {e}]
    /\ stats' = IF answer = "snapshot"
                THEN [stats EXCEPT !.maps["suggestion"] = @ \cup {SuggestionFor(e)}]
                ELSE stats
    /\ advance(answer)
    /\ UNCHANGED <<given, phase, next, sending, flight, responses, dumpVars, endVars>>

EndSuggest ==
    /\ phase = "suggest" /\ lookups = [waiting |-> {}, asked |-> {}]
    /\ phase' = "report"
    /\ UNCHANGED <<given, next, checkVars, bar, lookups, dumpVars, endVars>>
-----------------------------------------------------------------------------
(* The report: what each format says of each map *)

Failing == {e.source : e \in stats.maps["error"] \cup stats.maps["timeout"]}
Only(names) == [m \in Maps |-> IF m \in names THEN stats.maps[m] ELSE {}]
\* Of the others only what is about an input with failures.
Under(names, others) ==
    [m \in Maps |-> IF m \in names THEN stats.maps[m]
                    ELSE IF m \in others THEN {e \in stats.maps[m] : e.source \in Failing}
                    ELSE {}]

Compact == Under({"error", "timeout"}, {"suggestion"})
Detailed == Under({"error", "timeout"}, {"suggestion", "redirect"})
Json == stats.maps
Junit == Only({"error", "excluded", "success"})
Markdown_no_timeouts == Only({"error", "redirect", "suggestion"})   \* mutant: a map forgotten
Markdown == Only({"error", "timeout", "redirect", "suggestion"})

get_stats_formatter(format) ==
    CASE format = "compact" -> Compact
      [] format = "detailed" -> Detailed
      [] format = "json" -> Json
      [] format = "junit" -> Junit
      [] format = "markdown" -> Markdown

\* The counters on top of the report; "detailed" prints one of them twice.
Printed == Counters \ {"remaps", "cached"}
Summary(format) ==
    CASE format = "json" -> stats.counts
      [] format = "junit" -> [c \in {} |-> 0]
      [] format = "detailed" -> [c \in Printed |-> stats.counts[IF c = "unsupported" THEN "errors" ELSE c]]
      [] OTHER -> [c \in Printed |-> stats.counts[c]]

\* Writing may fail; into a pipe, because nobody reads it any more.
Write(outcome) ==
    CASE outcome = "done" -> phase' = "cache" /\ saved' = Append(saved, "report") /\ UNCHANGED exit
      [] outcome = "BrokenPipe" -> Exit(Success) /\ UNCHANGED saved
      [] outcome = "failed" -> Exit(UnexpectedFailure) /\ UNCHANGED saved

output_statistics ==
    /\ phase = "report"
    /\ shown' = <<[maps |-> get_stats_formatter(option("format")),
                    counts |-> Summary(option("format"))]>>
    /\ \E outcome \in {"done", "failed"}
                      \cup (IF given.piped THEN {"BrokenPipe"} ELSE {}) :
           Write(outcome)
    /\ UNCHANGED <<given, next, checkVars, bar, lookups, dumpVars>>

\* A step that `?` may end.
Save(name, wanted, then) ==
    \/ ~wanted /\ phase' = then /\ UNCHANGED <<saved, exit>>
    \/ wanted /\ phase' = then /\ saved' = Append(saved, name) /\ UNCHANGED exit
    \/ wanted /\ Exit(UnexpectedFailure) /\ UNCHANGED saved

StoreCache ==
    /\ phase = "cache" /\ Save("cache", flag("cache"), "cookies")
    /\ UNCHANGED <<given, next, checkVars, bar, lookups, dumpVars, shown>>

SaveCookies ==
    /\ phase = "cookies" /\ Save("cookies", "cookie_jar" \in DOMAIN given.config, "code")
    /\ UNCHANGED <<given, next, checkVars, bar, lookups, dumpVars, shown>>

code_without_timeouts ==   \* mutant: the two ways to look at timeouts mixed up
    IF (IF flag("accept_timeouts") THEN no_failures ELSE is_success_ignoring_timeouts)
    THEN Success ELSE LinkCheckFailure
code ==
    IF (IF flag("accept_timeouts") THEN is_success_ignoring_timeouts ELSE no_failures)
    THEN Success ELSE LinkCheckFailure

ReturnCode ==
    /\ phase = "code" /\ Exit(code)
    /\ UNCHANGED <<given, next, checkVars, bar, lookups, dumpVars, shown, saved>>
-----------------------------------------------------------------------------
(* dump and dump_inputs *)

\* The output file is made anew before anything is written to it; dump_inputs also
\* compiles the patterns of excluded paths.
create_writer == IF "output" \in DOMAIN given.config THEN {"opened", "failed"} ELSE {"opened"}
Open ==
    /\ phase = "open"
    /\ \/ phase' = (IF flag("dump_inputs") THEN "dump_inputs" ELSE "dump") /\ UNCHANGED exit
       \/ /\ \/ "failed" \in create_writer
             \/ flag("dump_inputs") /\ items(given.config, "exclude_path") # <<>>
          /\ Exit(UnexpectedFailure)
    /\ UNCHANGED <<given, next, checkVars, bar, lookups, dumpVars, shown, saved>>

Aborts(request) == request.error = "UserInputContent" \/ (request.error = "none" /\ request.remap_fails)
Skipped(request) ==
    \/ request.error # "none"
    \/ level < Info /\ (request.excluded \/ request.scheme = "data")

\* A line that nobody reads is let go of; the loop goes on.
Dump ==
    /\ phase = "dump" /\ next <= Len(given.requests)
    /\ LET request == given.requests[next] IN
       \/ Aborts(request) /\ Exit(UnexpectedFailure) /\ UNCHANGED <<lines, next>>
       \/ /\ ~Aborts(request) /\ Skipped(request)
          /\ next' = next + 1 /\ UNCHANGED <<lines, phase, exit>>
       \/ /\ ~Aborts(request) /\ ~Skipped(request)
          /\ \/ lines' = Append(lines, next) /\ next' = next + 1 /\ UNCHANGED <<phase, exit>>
             \/ given.piped /\ next' = next + 1 /\ UNCHANGED <<lines, phase, exit>>
             \/ Exit(UnexpectedFailure) /\ UNCHANGED <<lines, next>>
    /\ UNCHANGED <<given, checkVars, bar, lookups, seen, shown, saved>>

\* The sources of an input are a sequence of names, the last of which may be an error.
insert_all(source) == TRUE   \* mutant: no deduplication
insert(source) == source \notin seen

DumpInput ==
    /\ phase = "dump_inputs" /\ next <= Len(given.sources)
    /\ LET source == given.sources[next] IN
       \/ source = "error" /\ Exit(UnexpectedFailure) /\ UNCHANGED <<dumpVars, next>>
       \/ /\ source # "error" /\ insert(source)
          /\ \/ lines' = Append(lines, source) /\ next' = next + 1 /\ UNCHANGED <<phase, exit>>
             \/ Exit(UnexpectedFailure) /\ UNCHANGED <<lines, next>>
             \/ given.piped /\ Exit(Success) /\ UNCHANGED <<lines, next>>
          /\ seen' = seen \cup {source}
       \/ /\ source # "error" /\ ~insert(source)
          /\ next' = next + 1 /\ UNCHANGED <<dumpVars, phase, exit>>
    /\ UNCHANGED <<given, checkVars, bar, lookups, shown, saved>>

EndDump ==
    /\ \/ phase = "dump" /\ next > Len(given.requests)
       \/ phase = "dump_inputs" /\ next > Len(given.sources)
    /\ Exit(Success)
    /\ UNCHANGED <<given, next, checkVars, bar, lookups, dumpVars, shown, saved>>

RunNext ==
    \/ Announce \/ SendRequest \/ EndCheck
    \/ \E i \in flight : CollectResponse(i) \/ CollectUserError(i)
    \/ \E e \in lookups.waiting : Ask(e)
    \/ \E e \in lookups.asked, reply \in Replies : Hear(e, reply)
    \/ EndSuggest \/ output_statistics \/ StoreCache \/ SaveCookies \/ ReturnCode
    \/ Open \/ Dump \/ DumpInput \/ EndDump

RunSpec == RunInit /\ [][RunNext]_runVars
-----------------------------------------------------------------------------
(* Properties *)

Failed == {i \in DOMAIN responses : is_error(responses[i].status)}
Accepted(i) == is_timeout(responses[i].status) /\ flag("accept_timeouts")
EntryOf(i) == Entry(given.requests[i].source, responses[i])
Checking == ~flag("dump_inputs") /\ ~flag("dump")
AllAnswered == DOMAIN responses = DOMAIN given.requests

\* A run whose report is written has had an answer to every request, saves what is to be
\* saved, and exits with 2 exactly if a link failed whose failure is not accepted; a run
\* never exits with 2 if none did, nor with 0 or 2 before there is a report
\* (commands/check.rs, check; main.rs, run and run_main).  A run whose report nobody reads
\* (saved = <<>>: the pipe is broken) is excepted, though src/README.md:752 promises the 2
\* to it as well: run_main makes a success of every BrokenPipe, whatever the links were.
ExitCodeTells ==
    Checking /\ exit # {} =>
    /\ exit = {LinkCheckFailure} => \E i \in Failed : ~Accepted(i)
    /\ exit = {Success} => (\A i \in Failed : Accepted(i)) \/ saved = <<>>
    /\ exit # {UnexpectedFailure} => AllAnswered /\ shown # <<>>
    /\ exit # {UnexpectedFailure} /\ saved # <<>> =>
           saved = <<"report">> \o (IF flag("cache") THEN <<"cache">> ELSE <<>>)
                   \o (IF "cookie_jar" \in DOMAIN given.config THEN <<"cookies">> ELSE <<>>)

\* Every failed link is in the report under its input, whatever the format (JUnit leaves
\* out timeouts), and nothing else is there as failed; an archived page is suggested only
\* for a link from the web that failed in the same input.
ReportShowsFailures ==
    shown # <<>> =>
    /\ \A i \in Failed :
           \/ EntryOf(i) \in shown[1].maps["error"] \cup shown[1].maps["timeout"]
           \/ option("format") = "junit" /\ is_timeout(responses[i].status)
    /\ shown[1].maps["error"] \cup shown[1].maps["timeout"] \subseteq {EntryOf(i) : i \in Failed}
    /\ \A e \in shown[1].maps["suggestion"] :
           \E f \in shown[1].maps["error"] :
               /\ f.source = e.source /\ f.item.uri = e.item.original
               /\ f.item.scheme \in {"https", "error"}

\* At any time the counters add up: every response is counted under one status, every uri
\* once, and there is an entry in a map of failures exactly if one has been counted, so
\* that the summary and the exit code agree (ResponseStats::add).
SummaryAgrees ==
    LET counts == stats.counts IN
    /\ counts["total"] = Cardinality(DOMAIN responses)
    /\ counts["total"] = counts["successful"] + counts["errors"] + counts["timeouts"]
                         + counts["unknown"] + counts["excludes"] + counts["unsupported"]
    /\ counts["unique"] = Cardinality({responses[i].uri : i \in DOMAIN responses})
    /\ counts["errors"] > 0 <=> stats.maps["error"] # {}
    /\ counts["timeouts"] > 0 <=> stats.maps["timeout"] # {}
    /\ counts["errors"] + counts["timeouts"] = Cardinality(Failed)
    /\ counts["cached"] = Cardinality({i \in DOMAIN responses : responses[i].status.from = "cache"})

\* The bar is never ahead of its length, and full when a command is done with it, though
\* it is lengthened and advanced by different tasks (progress.rs; check.rs, send_requests,
\* collect_responses and suggest_archived_links).
ProgressComplete ==
    /\ bar.position <= bar.length
    /\ phase \in {"report", "cache", "cookies", "code"} => bar.position = bar.length

\* A dump that ends well has gone through every input and every link: each source of the
\* inputs is written once; of the links, those that check would look at (dump.rs,
\* dump_inputs.rs).  Lines may be lost in a pipe that nobody reads any more.
DumpTells ==
    ~Checking /\ exit = {Success} =>
    /\ flag("dump_inputs") => IsInjective(lines)
    /\ flag("dump_inputs") /\ ~given.piped =>
           ToSet(lines) = ToSet(given.sources) \ {"error"} /\ "error" \notin ToSet(given.sources)
    /\ flag("dump") /\ ~flag("dump_inputs") =>
           /\ \A i \in DOMAIN given.requests : given.requests[i].error # "UserInputContent"
           /\ ~given.piped =>
                  {i \in DOMAIN given.requests : given.requests[i].error = "none"
                       /\ ~given.requests[i].excluded /\ given.requests[i].scheme # "data"}
                  \subseteq ToSet(lines)
=============================================================================
