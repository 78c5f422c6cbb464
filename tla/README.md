# A TLA+ model of lychee

lychee finds links in files, directories, globs, pages and standard input, and
checks each of them. The library (`src/lychee-lib`) collects, requests and judges;
the program (`src/lychee-bin`) joins the two over channels, keeps a cache on disk,
and turns the statistics into an exit code. Everything below is asynchronous Rust
on tokio: tasks on several threads, channels, mutexes, semaphores and timers.

This directory models the parts whose correctness depends on the order in which
things happen, or on how several rules combine. TLC checks each model on a small
instance; TLAPS proves all of the safety properties, and the refinements, for all
values of the constants.

## The system

| Component | State | Operations | Hard because | Correct when |
|---|---|---|---|---|
| check command, wait group (`commands/check.rs`, `waiter.rs`) | two bounded channels, the guards alive, statistics | send, handle, respond, collect, join | three tasks in a cycle of channels; a panic or a user error breaks it from any side | nothing is lost, nothing hangs, the right error is shown |
| host (`ratelimit/host/`) | response cache, one mutex per URI, permits, backoff, limiter, counters | execute_request | the cache is read before three waits and acted on after them | one fetch per URI; permits come back; a text is served to who needs it |
| host pool (`ratelimit/pool.rs`) | map of hosts | execute_request, record_persistent_cache_hit, remove_host | hosts are created on first use, by racing calls | every URL of a host meets the same limits |
| website checker (`checker/website.rs`, `chain/`, `retry.rs`) | chain lock, redirect history | check_website, with plugins, retries, GitHub, HTTPS | two rounds of a check, each with redirects and retries, sharing locks and a history | retries bounded, HTTPS asked for, every check ends |
| file checker (`checker/file.rs`, `checker/wikilink/`) | wikilink index, cached fragments | check | a dozen system calls while files change; several rules for what a link may lead to | what is accepted was there; what is there all the time is accepted |
| fragment checker (`utils/fragment_checker/`) | fragments by URL | check | the cache is filled by whoever comes first | the verdict is that of a file the link leads to |
| persistent cache (`cache.rs`, `types/cache.rs`, `types/status.rs`) | entries in memory, rows on disk | load, handle, store | crashes, clocks and options change between runs | what is green from the cache was checked by these rules |
| collector, input resolution (`collector.rs`, `types/input/`) | streams of contents, requests and errors | collect_links | an error ends its input, and some end the run | nothing is skipped in silence |
| bases and requests (`types/base_info.rs`, `utils/request.rs`) | none | resolve a link against source, `--base-url` and `--root-dir` | three functions share the decision | links lead where source and options say |
| client, filter, remaps (`client.rs`, `filter/`, `remap.rs`) | none | remap, is_excluded, dispatch by scheme | a dozen rules with precedence | includes, excludes and built-in rules as documented |
| extractors (`extract/`) | position in the document | links and fragments of HTML, Markdown, CSS, XML, text | nested elements, two HTML parsers | both parsers find the same links |
| run (`main.rs`, `config/`) | configuration, exit code | load, merge, run, store, print | fatal errors between the steps | exit code 0 is earned |
| statistics, formatters, progress, dump | counters and maps of responses | add, print | redirects and suggestions of the same URL | counters agree with the maps |
| archive suggestions (`archive/`) | none | one lookup per failed URL | concurrent, with timeouts | each failed URL gets its own suggestion |

How they interact: the collector yields requests into the request channel;
request_channel_task calls the persistent cache, which calls the client, which
remaps, filters and dispatches to the file, mail or website checker; the website
checker goes through the plugin chain and the host pool to a host; the responses
come back over the response channel into the statistics. The collector fetches
remote inputs through the same host pool, so that its requests meet those of the
checks in one host. Redirects come back by a callback of the HTTP client, into a
history that all checks share.

## The modules

| Module | What it is | Stands on |
|---|---|---|
| `CheckPipeline` | three tasks, two channels, the wait group | `LinkCheck` (abstract) |
| `LinkCheck` | what the check command promises: each request counted once, then success, or an error that a request caused | |
| `Settings` | the limits of a host, from the command line and the config files | |
| `Host` | the calls of execute_request for one host | `Settings`, `HostPromise` |
| `HostPromise` | what a host promises to its callers: one fetch for a page at a time, none that an answer would have saved, and answers that are kept (abstract) | |
| `Website` | the checks of websites, over plugins, hosts and redirects | `Status`, `HostPromise` |
| `Status` | kinds of status, predicates, conversions to and from the cached form and its text | |
| `PersistentCache` | lookups, checks, store and load over several runs | `Status`, `LinkPolicy` |
| `LinkPolicy` | remaps, filter and choice of the checker, from the options | |
| `Collector` | inputs, documents, links, errors | |
| `FileCheck` | file checks by system call, wikilinks, fragments | |
| `RawUris` | what the extractors share: raw URIs, link attributes, verbatim elements | |
| `Html5gum`, `Html5ever` | the two HTML extractors as functions from state and event to state | `RawUris` |
| `HtmlExtract` | a page being written, read by both of them | both |
| `MarkdownExtract` | a Markdown document being written, its links and its anchors | `Html5gum` |
| `Extract` | the dispatch by file type | both of the above |
| `Options` | the fields of the options with their defaults, the loaders of files, the merge | |
| `StatusCodes` | the ranges of `--accept` and the selector they are added to | |
| `Startup` | a start: arguments, files, lists, the client; each step may be the last | `Options`, `StatusCodes` |
| `HostPool` | the pool of hosts, quirks, credentials, headers of every request | `Startup` |
| `Run` | the commands and the end of run: statistics, progress, suggestions, report, files, exit code, dumps | `Options`, `Status` |
| `MC...` | an instance of each component for TLC | |
| `MCProgram`, `MCNetwork`, `MCFiles` | instances side by side, for one run | `MCStartup`, `MCRun`, `MCCheckPipeline`; `MCHost`, `MCWebsite`; `MCCollector`, `MCFileCheck` |
| `...Proofs` | the theorems | |

### CheckPipeline

`reqQ` and `respQ` are the channels, `hand` the request being sent, `checking` the
handlers in `for_each_concurrent`, `answered` those waiting for room in the
response channel. Every item has its `WaitGuard`, so a guard is the name of its
request; the sender's own is `Root`. `collect_responses` ends when no guard is
left (`take_until`), not when its channel closes: `show_results_task` holds a
second `send_req`. Actions: Pull, Send, SendFails, SendDone (send_requests); Take,
Handled, HandlePanics, Respond, RespondPanics, TaskDone (request_channel_task);
Collect, CollectFails, CollectDone, CollectClosed (collect_responses); Join
(`tokio::join!` and the order in which the three results are looked at). A panic
of the request task unwinds it: it drops its handlers, their guards, and both
channel ends (Unwind).

The module implements `LinkCheck` under the mapping that hides everything but
`counted` and the result.

### Host

A call is at "start", "permit" (past the URI mutex and the cache lookup), "sleep"
(permit taken, backoff read), "limiter", "sent", "headers", "body" or "done".
`cache` maps URIs to responses with or without text; `active_requests` is
`locked`. The backoff is read once before the sleep (`timer`), and changed by the
status and headers of a response. PersistentHit is the pool's
record_persistent_cache_hit, which counts a hit without a call. Tick is time.

Init makes the host: its permits and the period of its limiter come out of
`Settings`, which merges what the user has started lychee with (`setup`: the command
line, the files of `--config`, the file found in the directory) in the order of
load_config. `LimitsAsPromised` holds the requests that then leave against the
documented precedence, which looks at the sources one by one and merges nothing.
A `[hosts]` table under a name with capital letters is there too, since `HostKey` is
put in lower case by its constructors and not by its deserializer: what its table
promises is OwnTableHonoured, which the code does not keep.

With permits, timers, limits and counters hidden, a host is a `HostPromise`:
`fetching` are the calls past the lookup and not yet answered, `answers` the cache.
LockUri is Begin when the lookup misses, ReadBody is Remember or GiveUp, NetworkFails
and BodyFails are GiveUp, and every other step is a stutter. That the promise
survives three waits between the lookup and the request is what the URI mutex is for.

### Website

The steps of a check: build the request, lock and traverse the plugins (a plugin
may end the check, the lock is held over all of them), attempt, flight,
sleep, GitHub, and the probe over HTTPS with the whole chain once more. The hosts
are there as their promise (one request for a page at a time, a cached response
when there is one): every behaviour of `Website` is one of `HostPromise`, which `Host`
implements, so that a check relies on no more than a host gives. What is
asked of GitHub depends on the domain of a URL, on the segments of its path and on
whether there is a token; a repository is public, private or not there. Redirect is
the callback of
reqwest's policy: it records each hop in the history of the URL that the request
began at, while other requests run.

### Status and PersistentCache

`Status` is a translation of the enums and their conversions, with the file's text
in between. `PersistentCache` has runs: StartRun (load_cache, with what the file
holds, its age and its rows), Lookup and CheckDone (the two halves of
Cache::handle around the await), CheckSkipped (an excluded or unmappable URI),
Finish (exit code and store), StoreCut (the program dies while writing, the last
row loses digits or is missing), OutputFails, Abort, ClockChanges. A run that ends
early takes its memory with it (Die): only the file goes on. `checks` remembers every check ever made; the properties relate what is served to it.
Timestamps wrap at `Wrap`, as the subtraction of u64 does in a release build.

The fate of a link is decided by `LinkPolicy`: the first remap that matches, then
the eleven rules of Filter::is_excluded in their order, then the scheme. The options
come as both client.rs take them, and `FilterOf` is what they make of them. A
regular expression is the set of URIs it matches; a domain is a sequence of
syllables with "." among them, so that comparing by suffix and splitting at the
first dot do what they do on strings. `Wanted` says the same of the options with no
order of rules: a link is checked if it is of a kind that is asked for, and either
included, or neither excluded nor a known false positive while `--include` does not
stand alone. ExcludedConsistently is the equivalence, for the final URI of every link,
cached or not.

### Collector

One input at a time (`try_stream!` over a hash set of inputs), several documents
under extraction (`par_then_unordered`). OpenInput, ReadDocument, Skip, Fail, WalkFails,
Close are the ways an input can go; Extract turns a document into requests and failed
links by `create` and the three functions over `BaseInfo`.

### FileCheck

A name is the sequence of its parts between dots and a path a sequence of names,
which is what `set_extension`, `join` and `file_name` tell apart; the empty name at
the end is a trailing slash. A check is at "start", in the extension loop
("missing" when the link was not there, "itself" when a directory was its own
index file), in the index loop, at the wikilink index, or past the resolution. Each
system call (metadata, is_file, exists, is_dir, read_to_string) is a step, and Edit
lets another program change the files between any two of them. `past` remembers
the states the files were in: what a property can say of a check is that its answer
was true at some time of the run, or that it could not be otherwise.

### Extract

Both extractors are machines over the events of a parser, and what is hard about
them is the state they carry from one event to the next. So the model has two
sides. One is an author who writes a document, event by event, and a reader who
knows what it means: `page.open` are the verbatim elements that are really open,
`page.wanted` the links outside them; `text.within` the containers of Markdown,
`text.wanted` the links, `text.anchors` what can be linked to. The other is the
code: `gum` is html5gum's LinkExtractor with its stack and its attributes, `ever`
html5ever's with the one element it remembers, `md` the four flags and the buffer
of `extract_markdown`, `frags` and `counter` those of
`extract_markdown_fragments`. The properties compare the two sides.

html5gum sees names, attributes and ends of tags one by one, html5ever whole tags:
WriteOpenTag and WriteAttribute are steps of the first only, WriteCloseTag,
WriteEndTag and WriteText are steps of both. `page.told` is whether the tokenizer
reports a value for an attribute without one; the code has a branch for either.
The pieces of HTML in a Markdown document go through the same operators as a
page, folded over the piece (`extract_html_with_span`, `extract_html_fragments`).

A page may have oddities, which the two engines read in their own way, or html5gum in
a way that a reader would not; `page.oddities` names them and each property
excuses only those it has to:

| Oddity | The page | What happens |
|---|---|---|
| nested | a verbatim element within one of the same name | html5ever ends at the first end tag (`html5ever.rs:147-163`) |
| unbalanced | an end tag for an outer element | html5gum's stack keeps the inner ones, and links after them are lost (`html5gum.rs:313-320`) |
| self_closing | `<code/>` | html5gum ends the element, html5ever does not |
| style | `<style>` within a verbatim element | its URLs are extracted nevertheless |
| bare | `prefix` or `disabled` without a value | seen by html5gum only as the last attribute's name, if at all |
| spaced | `rel="nofollow noopener"` | html5gum splits at commas and follows the link (`html5gum.rs:145`, `161-165`), html5ever does not |
| text | a URL in an attribute that holds none | html5ever extracts it, html5gum does not |
| sheet | a style sheet's URL in another attribute than `href` | the engines skip different ones |

### Startup and HostPool

`setup` is what the user has: arguments, the files that `--config` names or those in
the directory (`lychee.toml`, `Cargo.toml`, `pyproject.toml`, `package.json`, each
absent, unreadable, malformed or with its sections), `.lycheeignore` and the lists of
patterns, the limit of open files, the cookie jar. The steps are those of
load_config, run_main and run: ParseAccept takes in one part of `--accept` (the
selector of `StatusCodes`, which merges a range with the one before it), Parse ends
the command line, TryDefault and LoadNamed read one file each and merge it below what
is there, ReadLycheeignore and ReadExcludeFile append patterns, LimitConcurrency is
handle_fd_limits, ReadInputs and CreateClient make inputs and client. RejectArguments,
RejectFile, RejectList, ExitEarly and RejectClient are the ways out, with their exit
codes. A configuration is a function from the options that are set to their values,
so that the merge is a union in which one side wins, but for the lists that are chained
and the tables of hosts. `create` says for each field of the builder which option goes
into it.

`HostPool` goes on when the client is "ready". A call gets the host of its link from
the pool and builds its request (build_request), the quirks and the first matching
credentials change it (HandleChain), and it is executed by the host of the URL it then
has (execute_request), whose client adds headers: those of the host's table, over
`--header`, over the user agent. `hosts` is the map, `made` are all hosts ever made,
since a removed one lives on in the calls that hold it.

### Run

`given` are the options and what the collector makes of the inputs. check announces
a request to the progress bar, sends it and collects responses in any order (its
channels are the business of `CheckPipeline`); with `--suggest` EndCheck goes to the
archive, where Ask and Hear are the lookups of `buffer_unordered`, else to the report.
`stats` are the counters, maps and seen URIs of ResponseStats. The formats are
functions of the maps: what of each of them a reader gets to see.
output_statistics, StoreCache, SaveCookies and ReturnCode follow, each of which but
the last may fail. Open, Dump and DumpInput are the two other commands.

## The runs

| Run | Instance | States | Shows |
|---|---|---|---|
| `program` | **start**: some 1200 setups, namely two files and the command line, the kinds of files in their states, all lists of up to 3 out of 10 parts for `--accept`, all sets of the flags for private addresses, every way to end early; 3 links and 1 removal. **channels**: 4 requests, capacity 2, one that may be a user error and one whose handler may panic. **report**: 2 inputs with up to 3 links, 5 formats, with and without `--accept-timeouts` and `--verbose`, suggestions, writes that fail, 3 kinds of request errors; dumps of links and of inputs | 119,300 | start: OptionsInOrder, ConfigErrorsExit3, ClientAsSet, CodesAsAsked, RequestsPerHost. channels: NothingLeftWhenDone, NoResponseLost, UserErrorShown; CheckReturns; ImplementsLinkCheck. report: ExitCodeTells, ReportShowsFailures, SummaryAgrees, ProgressComplete, DumpTells |
| `network` | **calls**: 3 calls, 2 URIs, 1 or 2 permits by two files or by lychee.toml against the command line, statuses 200, 404, 429 and 503, Retry-After 0 or 4 ticks. **checks**: 3 checks, 8 URLs, redirects in a chain and in a circle, 1 retry, at most 2 redirects | 177,001 | calls: PermitsExact, NoFetchWithAnswer, StatsBalance, BackoffHonoured; ImplementsHostPromise, LimitsAsPromised; CallsReturn. checks: HopsInOrder, RetriesUsedUp, HttpsPreferred; ChecksEnd |
| `files` | **inputs**: 5 inputs of all kinds, 10 documents of all kinds, all options. **links**: 2 checks of 12 links, 4 states of a site with 6 paths, 25 configurations, 1 edit | 2,697,712 | inputs: NothingSkippedSilently, UserErrorAlone. links: AcceptedHasTarget, ExistingAccepted, AnchorVerdicts |
| `cache` | 2 links, 5 URIs (a page, localhost, a file, a mail address, a known false positive), 6 configurations with and without includes, excludes, schemes, remaps and `--offline`, 2 runs, 2 clock readings | 1,153,480 | GreenIsEarned, ErrorsRechecked, ExcludedConsistently, SuccessesStored |
| `extract` | pages of 5 elements, 5 tags and 3 attributes; Markdown of 6 events nested 3 deep, with a tag written in one piece and in two | 4.3 million | HtmlLinks, EnginesAgree; MarkdownLinks, MarkdownAnchors, HeadingsTellApart |

The first three runs hold several instances that share no state. The variable `part`
says which of them moves; the others stay in one initial state, so that the states of
a run are the sum of those of its parts and every behaviour of a part is one of the
run. The specification of each part is the component's own, with a step of nothing
where a part may be over: a start or a run that has its exit code, website checks
that have their results. Deadlock is therefore looked for in the channels, the calls
of a host, the inputs and the file checks, and only there a stop would mean anything.
Fairness is that of the component under the condition that it is the part that moves,
and CallsReturn and ChecksEnd are AllCallsReturn and AllChecksEnd under the same
condition. `Extract` stops when the document is as long as its bound; its run is the
only passing one that leaves deadlocks out.

The inductive invariant of each proof (IInv, and those with names of their own in
Collector, Website, `StartupProofs` and `CheckProofs`) was an invariant of a run before
it was proved; of `StartupProofs`, the parts that TLC can evaluate, which excludes
ClientInv and the merge below files that cannot be read. It is no property of the runs
above, nor are theorems that say little that the others do not: ExpectNeverReached,
UriExclusive, ServedWithText, ExcludedStatusNotServed, RemoteLinksStay,
LinkErrorsJustified, ErrorHaltsInput, DirectoryNeedsIndex, AnchorsFound, and TextKept,
which ImplementsHostPromise comprises.

Why the bounds are enough. In the pipeline both channels and the limit on
handlers fill up with capacity 2 and four requests, and one request can fail in
each way while others are at every other stage. In a host two calls for one
URI suffice for exclusion, a third for a second holder of a permit; the durations
are scaled so that each cap binds (500 ms, 30 s, 200 ms, 10 s, 60 s become 1, 2,
1, 1, 3 ticks, keeping their order). In the cache a second run is the first that
can be misled, and two clock readings are an entry just young and just old
enough. In the website model one retry and two redirects are the fewest that tell
"again" from "still", and a circle of two stops at the bound. In a file check one
edit separates any two system calls, and two checks are what shares a cache. A
page of five tags can open two verbatim elements, end the wrong one and go on with
a link, and three attributes are a link with two reasons to be passed over; three
containers are a link in a heading with an image in it, and six events the third
heading of a name or a tag that begins in one piece of a block and ends in another.
Two files and the command line are the fewest sources of which the middle one both
wins and loses. Of three parts for `--accept` the third meets a selector in which two
have merged or stayed apart. Three links are two that meet in one host by way of a
quirk, and one more. In a run, two links are the same in one input or in two, and a third
is another kind of failure.

Runs that end in a counterexample show where the code does not keep to its
documentation. Each checks one property, which states what the document says:

| Run | Property | Finding |
|---|---|---|
| `cache_timeout_twice` | TimeoutsAccepted | `--accept-timeouts`: a link that times out and occurs twice still fails the run, since the second occurrence is a cached Error (`types/cache.rs:119`) |
| `cache_accept_changed` | AcceptedNow | a cached 200 is green in a run that does not accept 200 (`types/status.rs:112`) |
| `accept_ranges` | AcceptedAsListed | `--accept 200..=204,100..=300` does not accept 150: a range that engulfs the one before it only moves that one's end (`types/accept/range.rs:151`) |
| `host_tables` | OwnTableHonoured | the interval in a `[hosts]` table whose name has a capital letter is not kept, though its headers are sent (`ratelimit/pool.rs:104` against `client.rs:440`) |
| `header_order` | HeadersInOrder | for a `--header` that a config file has as well, the file's value is sent: merge chains the lists and `headers` keeps the last (`config/mod.rs:901-917`), where the command line has precedence (`main.rs:177`) |
| `resolved_path` | ResolvedExists | a wikilink is accepted that leads to a symbolic link to nowhere: the index lists it (`checker/wikilink/index.rs:47`), and what the index has is "guaranteed to exist" (`checker/file.rs:111`) |
| `glob_errors` | GlobErrorsInStream | a place below a glob that cannot be read is printed and passed over (`types/input/resolver.rs:148`), where an error in the stream is promised (`resolver.rs:41`), so the run may succeed |

## Fairness

Weak fairness throughout. Tokio polls every task that has been woken;
requests end by reqwest's timeout, retries and redirects are bounded, sleeps end
(`Tick` in `Host`). Tokio's mutexes and semaphores serve their waiters in order,
and each of them is asked for by finitely many calls, so weak fairness of the
steps of each call says as much. No fairness is assumed of failures, panics,
plugin answers, clock changes and edits; PersistentHit in `Host`, which stands for a
call that is never made, has none either. Without
these assumptions CheckReturns, CallsReturn and ChecksEnd would be void:
a task that is never polled never ends.

## What is proved

TLAPS checks, for every finite or infinite set that the constants allow:

- **CheckProofs**, on the pipeline: IInv is inductive. Its parts are where each request is
  (OnePlace, Accounted), that the guards are exactly those of the messages on
  their way and the sender's own (GuardsExact), and what each task's end says about
  what it left (Endings). NoLoss, WaitGroupCorrect and FailuresInOrder follow,
  and Refinement: the pipeline implements LinkCheck. NothingLeftWhenDone alone is not
  inductive: it needs GuardsExact, which needs OnePlace. On what is made of the
  responses: RunIInv is inductive for any number of links and sources. Which requests
  have been answered follows from where the loop is (OnTheirWay); the maps of timeouts
  and of errors hold exactly the failed links, each under its source (MapsExact), and
  the six counters sum up to the total, which is the number of the responses
  (CountersExact). What a format shows is then a matter of its maps: ReportTheorem needs
  for each format that the failures are in what it prints. The bar is as long as the
  requests announced and as far as those answered, and with `--suggest` the lookups
  waiting or under way make up the rest (BarExact). ExitCodeTheorem, ReportTheorem,
  SummaryTheorem, ProgressTheorem and DumpTheorem follow.
- **HostProofs**: IInv is inductive: a call holds its URI's mutex from lookup to
  return (LockedExact), so nobody can change what the lookup found
  (NoFetchWithAnswer); with one permit, `quiet + timer >= backoff` while a call
  sleeps (SleepsEnough). SingleFlight, PermitsConserved, TextServed,
  BackoffServed, TextNeverLost and TypeCorrect follow, for whatever limits the
  settings give (LimitsType). LimitsAreAsPromised is about any number of config files,
  and about tables of `[hosts]` whose name is in lower case, as LimitsAsPromised is:
  load_config folds them from the right, which LoadSteps takes apart into one merge
  after the other; of options merged in a row the first that is set decides
  (FirstDecides), which is what the documentation promises (EffectiveIsPromised). That
  no more requests are under way is then PermitsExact. CountersBalance
  needs only that a call has no result before its end and no code before its answer
  (Untold): each step then moves one call between the sets that the counters stand for,
  and no counter but theirs. KeepsPromise: the host implements HostPromise.
- **PersistentCacheProofs**: IInv is inductive over any number of runs: what is in
  memory goes back to a check in this run or a fresh success (MemEarned), and each
  row on disk to a success, with its time or what a cut left of it (DiskEarned).
  GreenCached, ErrorsNotCarriedOver and ExclusionsKept follow. The last rests on
  FilterAsPromised: for all options and every URI, the branches of
  Filter::is_excluded come to the opposite of Wanted. SuccessesOnDisk needs an
  invariant of its own (KInv): a success stays in memory until the run ends, unless
  another check of the link came out differently (SuccessesKept); that is so because
  within a run a code says whether a check was a success (SuccessByCode), and because
  an entry that turns up while a link is being checked is of a check in this run
  (EnteredMeanwhile).
- **WebsiteProofs**: WebsiteInv is inductive: requests for one page exclude each other
  (PagesExclusive), so that the last entry of a history is where its request is
  (LocationKnown). RedirectsInOrder, RetriesBounded and HttpsRequired follow.
  StandsOnHosts: what the checks do with hosts is a behaviour of HostPromise. With
  KeepsPromise it joins the two models at one specification.
- **CollectorProofs**: CollectorInv is inductive: each wanted document waits, is being
  read, has come out, or is accounted for (Progress), and inputs are read one
  after the other (Sequential). NothingSkipped, FatalAlone, ErrorEnds, RemoteLinks
  and LinkErrors follow.
- **FileCheckProofs**: IInv is inductive for any number of edits and checks.
  Placed says what a check has resolved its link to at every step: extensions keep
  a path beside itself (the lemmas from FrontLast to LeadsBeside are about
  sequences of names), index files and the wikilink index lead where Leads says.
  ByIndexFile and Straight follow a check through the loops; InputSound and
  CacheSound say that what is read and cached are the fragments of some file the
  link leads to. TargetTheorem, DirectoryTheorem, ExistingTheorem and
  AnchorTheorem follow.
- **ExtractProofs**: ExtractInv is inductive for pages and documents of any length.
  html5gum's stack holds the elements that are open in their order, and if none
  is ended out of order nothing else (StackHoldsOpen); its attributes are those of
  the tag being written (AttributesOfTheTag); html5ever's one element is the
  outermost (OutermostKnown). For Markdown, the flags say what the next event
  stands in (FlagsRight), which needs that links hold no links and blocks no blocks
  (Nested), and the counter has passed every number given (IdsCounted).
  HtmlLinksAlways, EnginesAgreeAlways, AnchorsFoundAlways, MarkdownLinksAlways
  and HeadingsTellApartAlways follow, with the oddities that each property names.
  MarkdownAnchorsAlways adds what html5gum makes of
  a piece of HTML of any length: after each event the extractor has the attributes of
  the tag it is in, and the anchors of all tags before it, but for those passed over
  (PieceRead, PieceAnchors); and every text the generator has counted is an anchor
  (AnchorsKnown), since the first heading of a text has the text itself for its id.
- **StartupProofs**: for any list of parts and any limits of codes, the selector
  holds only codes that were asked for, each of its ranges begins where some part
  does, and it holds all of them as long as no part engulfs another (CodesInv).
  AddRange goes through the two ways to merge; CodesTheorem follows. For any files and
  lists, LoadInv says at every step of the start which sources have been merged: a
  field has the value of the first source that sets it, a list the values of all of them
  in their order (MergedAs), and the patterns of `.lycheeignore` and of the exclude files
  come behind those of the options (ListsRead). OptionsTheorem and ConfigErrorsTheorem
  follow. ClientInv keeps what the client was made of, whence ClientTheorem: each field
  of the builder by the options it depends on, all of them at once. For any number
  of calls and hosts, the host that a running call uses is the one in the pool until
  one is removed (PoolInv), whence SharedTheorem; and every host has the client of its
  name and every request sent the headers of that client over its own (SentInv), whence
  RequestsTheorem, by the case of a host with a table and without.

Where a definition folds over a list, as merging, extracting and adding do, the proof is
an induction over its length. The induction theorems of the library take an operator
as a parameter, so NatInd states induction for sets of numbers, and gets it from the
well-foundedness of the order; FoldExists shows that the function behind a fold exists,
and lemmas such as TokenizedSteps and LoadSteps then give the fold as a sequence of
states, each made of the one before.

Assumptions on constants are named in each module (PipelineAssumption,
HostAssumption, ...). Five deserve a word. HostAssumption orders the caps as the
code's constants are. CacheAssumption keeps the clock from being set back so far
that a timestamp without its last digits passes for an earlier time: GreenIsEarned would be false, a file cut in the middle of a number being as good as
a whole one to the reader. MarkdownAssumption says of a piece of HTML that in a tag there
is nothing but attributes up to its end (IsPiece), as html5gum's tokenizer has it; a tag
that the piece does not end is cut off. StartAssumption and RunsAssumption say of what types
the options, files, requests and answers are (IsSetup; statuses and schemes that exist).
None of them says anything about what the model's operators return.

Only model-checked: liveness (CheckReturns, CallsReturn, ChecksEnd), since
the prover has no fairness.

## What is not modelled

- Network protocols, TLS, cookies, HTTP/2, DNS: a request ends with a status or an
  error kind from a small set.
- Parsing: of URLs, options and status ranges, the tokenizers of HTML and of
  Markdown, the search for URLs in text and CSS. URLs are classes of URLs
  (`RawUris`), texts the sets of the URLs in them. To `Collector` a document is its
  set of links, to `FileCheck` a page its set of fragments and texts.
- In `Extract`: two attributes of the same name in one tag, attributes of end tags,
  several URLs in an attribute other than `srcset`. pulldown_cmark is taken at its
  word that links hold no links but autolinks.
- The XML and the plain-text extractor, which keep no state; the former panics on
  malformed XML (`extract/xml.rs:15`).
- The end of a progress bar (`finish`, which sets the bar to its length whatever it
  has reached): ProgressComplete asks for the position that the tasks have brought it to.
- Layout of the output, colours, logging; the tables of host statistics with their
  times and averages, which `Host` counts without; the texts that generate writes.
- The wording of errors (`types/error.rs`, `utils/reqwest.rs`): error kinds are there
  as far as a decision depends on them.
- The cookies themselves, of which `Startup` and `Run` have the file; the archive's
  answers beyond whether there is a snapshot; a mail server's side of the
  conversation.

## Where code and documentation part

The seven runs above that end in a counterexample are about one of these each. The
others have no run of their own: a property that some run checks, or the model itself,
makes the exception named here, and says so in its comment where it does.

- Exit codes. 3 is for "errors in the config file" (`src/README.md:754`). A
  `lychee.toml`, `Cargo.toml` or `pyproject.toml` in the directory that cannot be read
  counts as an empty one (`config/loaders/mod.rs:47`), so that lychee goes on with its
  defaults; an unreadable `package.json` is an error, since empty text is no JSON.
  ConfigErrorsExit3 excepts the former. 2 is for "at least one non-excluded link failed"
  (`src/README.md:752`). A report that nobody reads, on a closed pipe or in a FIFO named by
  `--output`, ends the run with 0 (`main.rs:335`), and neither cache nor cookies are
  stored. ExitCodeTells excepts it.
- Statistics. "Cache misses will be followed by actual requests that increment
  total_requests" (`host/stats.rs:168-170`): a request that fails below HTTP leaves a miss
  and no request (`host.rs:184`). StatsBalance says what each counter stands for: a miss
  is a call without a hit, a request a hit or an answer. The two differ by the calls
  under way and by those that failed.
- `--include` "has preference over all excludes" (`config/mod.rs:372`). The rules for
  schemes, addresses, mail, example and unsupported domains come first
  (`filter/mod.rs:204-217`), and Wanted follows them. With both `--include` and
  `--exclude`, a link that matches neither is checked.
- Headers. Of those that several sources give, RequestsPerHost promises one of the
  values, and HeadersInOrder the first. Names on the command line are put in lower case
  and those in files are not, so that with capital letters either may be sent. The
  `[hosts]` headers of two files are all sent, where `config/mod.rs:704` gives one file
  precedence.
- `[hosts]` limits. LimitsAsPromised is about names in lower case, OwnTableHonoured about
  all.
- Text fragments. `--include-fragments=text-only` is "for text fragments"
  (`config/mod.rs:514`), but a local file has none checked (`checker/file.rs:255`).
- JUnit is for "failing links" (`formatters/stats/junit.rs:10-12`), and leaves out
  timeouts (`junit.rs:44-55`), which make the exit code 2. ReportShowsFailures excepts
  them. `detailed.rs:56` prints the number of errors as "Unsupported".
- Anchors. Fragments come from "id attributes within a HTML string" (`html5gum.rs:375`),
  but of a tag that is passed over (`nofollow`, `prefix`, `disabled`) flush_links clears
  the attributes before it looks at them (`html5gum.rs:161-173`). MarkdownAnchors names
  these tags and excepts them. Heading ids are to be as GitHub's (`markdown.rs:271`), but
  the headings "a", "a" and "a-1" give the ids a, a-1 and a-1: HeadingsTellApart is about
  headings of the same text.
- Link labels are not searched (the test at `markdown.rs:582`), but the end of an autolink
  in a label clears the flag of the link around it (`markdown.rs:203-206`), and the rest of
  the label is searched. MarkdownLinks names the links it may find there.
- `-qq` is to "silence output" (`verbosity.rs:11`), and leaves errors.
- `..100`, which the help of `--cache-exclude-status` gives as an example
  (`config/mod.rs:261`), is rejected.
- With a remote `--base-url`, `--root-dir` has no effect (`types/base_info.rs:355`),
  though the help (`config/mod.rs:589`) puts the root directory between the domain and
  the link's own path when both are given.
- Of an example domain only the first level below counts, where the comment
  (`filter/mod.rs:81`) says subdomain: `a.b.example.com` is checked.
- `ratelimit/pool.rs:137` says that only hosts with requests are in the statistics; a
  request that is built makes a host. `formatters/stats/response.rs:57` says that the map
  of excluded links is kept for detailed statistics only; it always is.

## Oddities

What follows was seen while modelling. The models have it as the code does, and no
document says otherwise.

- A 5xx or a 429 can lower a backoff that Retry-After has set (`host.rs:254-262`).
- A hit on a cached 404 is counted as a successful request of the host.
- An uncertain mail check is cached as an Error, so its second occurrence fails the
  run; store keeps the timestamps of loaded entries; the last flush of the CSV
  writer may fail in silence.
- Server errors and request timeouts are never retried by the website checker,
  whose test for a retry looks at the error kind, RejectedStatusCode(429) only. A retry
  records the redirects once more behind the first ones
  (`types/redirect_history.rs:85`).
- `--skip-missing` does not skip a missing file named on the command line, which
  Input::new rejects beforehand.
- The wikilink index lists directories; a later entry of the same name replaces an
  earlier one; without fallback extensions no wikilink resolves.
- Extensions are tried on one buffer: behind an extension with a dot in it
  ("en.html") the later ones are tried on another stem.
- A tag of a Markdown HTML block that is spread over several lines loses its
  anchors: `extract_markdown_fragments` looks at each piece alone
  (`markdown.rs:308`), where `extract_markdown` gathers the block. MarkdownAnchors
  promises the anchors of tags within one piece only.
- An inline `<code>` written as HTML in Markdown is over before its text comes: each
  inline tag is a piece of its own.
- Domains are compared by suffix: `nottwitter.com` counts as an unsupported
  domain, as `twitter.com` does.
- `verbose = "info"` in a file means debug, and `"error"` warn; the logger looks at the
  command line only.
- Lines of blanks in `.lycheeignore` are patterns; in `--files-from` they are not. Usage
  errors exit with 2, as failed links do.
- `--offline` does not keep lychee from fetching remote inputs. `--base`, the old name of
  `--base-url`, reaches the collector alone, not the client.
- The compact format counts an input with errors and timeouts as two with issues. An
  UnknownMailStatus is in no map.
- Suggestions are for errors and not for timeouts, and a request that could not be made
  has the archive asked about "error:". Whether the snapshot is `available` is not
  looked at.
- A remap that fails ends `--dump`, where check reports one link. `--dump` prints links
  of schemes that check excludes, such as tel; DumpTells promises the links that check
  would look at, and not that there are no others.
- A password with a colon is no password to `--basic-auth`.

## Plan

All modules that were planned are there, and every safety property of the runs is a
theorem. What is left, in the order in which it is worth most:

1. The pool and the host in one refinement: that the calls of `HostPool` at one host are
   those of `Host`, as StandsOnHosts joins `Website` and `HostPromise`.
2. What the abstract specifications have in common with their users: `Collector` hands
   the pipeline its requests, which `LinkCheck` takes as given.
