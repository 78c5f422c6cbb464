------------------------------ MODULE Startup ------------------------------
(***************************************************************************)
(* How lychee starts: load_config, run_main and the first half of run      *)
(* (main.rs), with the options of Options and the codes of StatusCodes.    *)
(* The arguments are parsed, the configuration files are read one after    *)
(* the other, then the lists of excluded patterns; what comes out is made  *)
(* into the client (client.rs of both crates).  Every step may be the last *)
(* one, with an exit code.                                                 *)
(***************************************************************************)
EXTENDS Options, StatusCodes, FiniteSetsExt

CONSTANTS
    Setups,     \* what a user may start lychee with
    Invalid,    \* values that their parser rejects
    BASELINE_OVERHEAD   \* 20

\* The arguments are typed values, and --accept is a text of its own; the soft limit on
\* open files is a set of at most one number: it may be unknown.
IsSetup(s) ==
    /\ IsConfig(s.cli) /\ "accept" \notin DOMAIN s.cli
    /\ IsList(s.named) /\ \A i \in DOMAIN s.named : IsFile(s.named[i])
    /\ \A i \in DOMAIN LOADERS : IsFile(s.dir[LOADERS[i]])
    /\ s.soft_limit \subseteq Nat /\ \A m, n \in s.soft_limit : m = n

ASSUME StartAssumption == BASELINE_OVERHEAD \in Nat /\ \A s \in Setups : IsSetup(s)

VARIABLES
    setup,      \* the arguments and what is in the directory
    stage,
    config,     \* opts.config
    next_file,       \* the file or list that is read next
    max_level,      \* of the logger
    inputs,
    client,     \* what client::create makes of the configuration
    exit_code        \* the exit code, or {} before the exit

startVars == <<setup, stage, config, next_file, max_level, inputs, client, exit_code, texts, ranges, asked>>
unread == <<setup, max_level, exit_code, texts, ranges, asked>>

UsageFailure == 2       \* clap's, the one of LinkCheckFailure

ExitWith(code) ==
    /\ stage' = "exited" /\ exit_code' = {code}
    /\ UNCHANGED <<setup, config, next_file, max_level, inputs, client>>

StartInit ==
    /\ setup \in Setups
    /\ stage = "parse" /\ config = [f \in {} |-> 0] /\ next_file = 1 /\ max_level = Warn
    /\ inputs = <<>> /\ client = [b \in {} |-> 0] /\ exit_code = {}
    /\ texts = setup.accept /\ ranges = <<>> /\ asked = {}
-----------------------------------------------------------------------------
(* The command line *)

\* A header's text is split at its first colon, if it has one.
HeaderParser(parts) == Len(parts) = 2 /\ {parts[1], parts[2]} \cap Invalid = {}

\* A selector is a pattern and credentials, two words; a name and a password, with one
\* colon between them, are credentials.
BasicAuthCredentials(parts) == Len(parts) = 2 /\ "" \notin {parts[1], parts[2]}
BasicAuthSelector(s) == s.words = 2 /\ BasicAuthCredentials(s.credentials)
ReadableSelectors(c) ==
    \A i \in DOMAIN items(c, "basic_auth") : BasicAuthSelector(c.basic_auth[i])

UsageError ==
    LET cli == setup.cli IN
    \/ setup.raw_inputs = <<>> /\ {"files_from", "generate"} \cap DOMAIN cli = {}
    \/ "include_wikilinks" \in DOMAIN cli /\ "base_url" \notin DOMAIN cli
    \/ "verbose" \in DOMAIN cli /\ cli.verbose.verbose > 0 /\ cli.verbose.quiet > 0
    \/ \E f \in {"base", "base_url"} \cap DOMAIN cli : cli[f] \in Invalid
    \/ \E i \in DOMAIN items(cli, "header") : ~HeaderParser(cli.header[i])
    \/ ~ReadableSelectors(cli)

ParseAccept ==
    /\ stage = "parse" /\ ReadPart
    /\ UNCHANGED <<setup, stage, config, next_file, max_level, inputs, client, exit_code>>

RejectArguments ==
    /\ stage = "parse"
    /\ BadPart \/ (texts = <<>> /\ UsageError)
    /\ ExitWith(UsageFailure) /\ UNCHANGED statusVars

Typed(cli) ==
    IF "header" \in DOMAIN cli
    THEN [cli EXCEPT !.header = [i \in DOMAIN @ |-> parse_single_header(@[i])]]
    ELSE cli

\* The logger is set up before the files are read; RUST_LOG, if it is set, has its way.
init_logging(verbose) ==
    IF setup.rust_log = {} THEN log_level(verbose) ELSE CHOOSE l \in setup.rust_log : TRUE

Parse ==
    /\ stage = "parse" /\ texts = <<>> /\ ~UsageError
    /\ config' = IF ranges = <<>> THEN Typed(setup.cli) ELSE or([accept |-> ranges], Typed(setup.cli))
    /\ max_level' = init_logging(value(setup.cli, "verbose"))
    /\ next_file' = IF setup.named = <<>> THEN 1 ELSE Len(setup.named)
    /\ stage' = "files"
    /\ UNCHANGED <<setup, inputs, client, exit_code, statusVars>>
-----------------------------------------------------------------------------
(* The configuration files *)

\* A number, a text or a list of both in a file becomes a selector in the same way.
visit_seq(values) ==
    FoldLeft(LAMBDA selector, v : add_range(selector, from_str(v)), <<>>, values)
Readable(c) ==
    ReadableSelectors(c) /\ \A i \in DOMAIN items(c, "accept") : Valid(from_str(c.accept[i]))
Section(c) == IF "accept" \in DOMAIN c THEN [c EXCEPT !.accept = visit_seq(@)] ELSE c
Deserialize(file) ==
    IF \A i \in DOMAIN file.sections : Readable(file.sections[i])
    THEN [file EXCEPT !.sections = [i \in DOMAIN @ |-> Section(@[i])]]
    ELSE Malformed

Default_file(i) == Deserialize(contents_or_empty(LOADERS[i], setup.dir[LOADERS[i]]))
Named_file(i) == Deserialize(setup.named[i])

\* default_config_file: the first file with options for lychee.
TryDefault ==
    /\ stage = "files" /\ setup.named = <<>> /\ next_file <= Len(LOADERS)
    /\ LET file == Default_file(next_file) IN
       /\ file.state # "malformed"
       /\ IF Found(file) THEN config' = merge_file(config, file) /\ stage' = "ignore" /\ next_file' = 1
          ELSE next_file' = next_file + 1 /\ UNCHANGED <<config, stage>>
    /\ UNCHANGED <<unread, inputs, client>>

NoDefault ==
    /\ stage = "files" /\ setup.named = <<>> /\ next_file > Len(LOADERS)
    /\ stage' = "ignore" /\ next_file' = 1
    /\ UNCHANGED <<unread, config, inputs, client>>

\* The files named by --config, the last one first.
LoadNamed ==
    /\ stage = "files" /\ setup.named # <<>>
    /\ LET file == Named_file(next_file) IN
       /\ Found(file)
       /\ config' = merge_file(config, file)
    /\ IF next_file = 1 THEN stage' = "ignore" /\ UNCHANGED next_file
       ELSE next_file' = next_file - 1 /\ UNCHANGED stage
    /\ UNCHANGED <<unread, inputs, client>>

RejectFile ==
    /\ stage = "files"
    /\ IF setup.named # <<>> THEN ~Found(Named_file(next_file))
       ELSE next_file <= Len(LOADERS) /\ Default_file(next_file).state = "malformed"
    /\ ExitWith(ConfigFile) /\ UNCHANGED statusVars
-----------------------------------------------------------------------------
(* .lycheeignore and the lists of --exclude-file.  A list is "absent", "unreadable" (it *)
(* can be opened, not read) or "lines".  Of a line it matters if it is empty, blank or  *)
(* begins with a "#".                                                                   *)

read_lines(list) == SelectSeq(list.lines, LAMBDA line : line \notin {"", "#"})
Excluding(lines) == or([exclude |-> items(config, "exclude") \o lines], config)

\* A list that is not a file at all is as absent.
ReadIgnore_before(list) ==   \* mutant: the lines before those of the other sources
    config' = IF list.state = "absent" THEN config
              ELSE or([exclude |-> read_lines(list) \o items(config, "exclude")], config)
ReadIgnore(list) ==
    config' = IF list.state = "absent" THEN config ELSE Excluding(read_lines(list))

ReadLycheeignore ==
    /\ stage = "ignore" /\ setup.lycheeignore.state # "unreadable"
    /\ ReadIgnore(setup.lycheeignore)
    /\ stage' = "lists"
    /\ UNCHANGED <<unread, next_file, inputs, client>>

ReadExcludeFile ==
    /\ stage = "lists" /\ next_file <= Len(items(config, "exclude_file"))
    /\ LET list == setup.lists[config.exclude_file[next_file]] IN
       list.state = "lines" /\ config' = Excluding(read_lines(list))
    /\ next_file' = next_file + 1
    /\ UNCHANGED <<unread, stage, inputs, client>>

RejectList ==
    /\ \/ stage = "ignore" /\ setup.lycheeignore.state = "unreadable"
       \/ /\ stage = "lists" /\ next_file <= Len(items(config, "exclude_file"))
          /\ setup.lists[config.exclude_file[next_file]].state # "lines"
    /\ ExitWith(ConfigFile) /\ UNCHANGED statusVars

Allowed(limit) == Max({1, limit - BASELINE_OVERHEAD})
handle_fd_limits ==
    IF \A n \in setup.soft_limit : value(config, "max_concurrency") <= Allowed(n) THEN config
    ELSE or([max_concurrency |-> Allowed(CHOOSE n \in setup.soft_limit : TRUE)], config)

LimitConcurrency ==
    /\ stage = "lists" /\ next_file > Len(items(config, "exclude_file"))
    /\ config' = handle_fd_limits
    /\ stage' = "loaded"
    /\ UNCHANGED <<unread, next_file, inputs, client>>
-----------------------------------------------------------------------------
(* run_main and run *)

NoParent == "output" \in DOMAIN config /\ config.output \in setup.without_parent

ExitEarly ==
    /\ stage = "loaded"
    /\ NoParent \/ "generate" \in DOMAIN config
    /\ ExitWith(IF NoParent THEN UnexpectedFailure ELSE Success)
    /\ UNCHANGED statusVars

\* LycheeOptions::inputs
filter_lines(lines) == SelectSeq(lines, LAMBDA line : line \notin {"", " ", "#"})
FilesFrom ==
    IF "files_from" \in DOMAIN config THEN setup.lists[config.files_from]
    ELSE [state |-> "lines", lines |-> <<>>]

ReadInputs ==
    /\ stage = "loaded" /\ ~NoParent /\ "generate" \notin DOMAIN config
    /\ LET all_inputs == setup.raw_inputs \o filter_lines(FilesFrom.lines) IN
       IF FilesFrom.state = "lines" /\ ToSet(all_inputs) \cap Invalid = {}
       THEN /\ inputs' = all_inputs
            /\ stage' = IF enabled(config, "dump_inputs") THEN "dump_inputs" ELSE "inputs"
            /\ UNCHANGED <<setup, config, next_file, max_level, client, exit_code>>
       ELSE ExitWith(UnexpectedFailure)
    /\ UNCHANGED statusVars

\* The collector's base: what --base says counts only without --base-url.
base(c) == IF value(c, "base_url") = "none" THEN value(c, "base") ELSE value(c, "base_url")
-----------------------------------------------------------------------------
(* The client: its builder's fields with the option that each is set to *)

FilterOptions_swapped ==   \* mutant: two of the flags mixed up
    [includes |-> "include", excludes |-> "exclude",
     exclude_all_private |-> "exclude_all_private", exclude_private_ips |-> "exclude_private",
     exclude_link_local_ips |-> "exclude_loopback", exclude_loopback_ips |-> "exclude_link_local",
     include_mail |-> "include_mail"]
FilterOptions ==
    [includes |-> "include", excludes |-> "exclude",
     exclude_all_private |-> "exclude_all_private", exclude_private_ips |-> "exclude_private",
     exclude_link_local_ips |-> "exclude_link_local", exclude_loopback_ips |-> "exclude_loopback",
     include_mail |-> "include_mail"]
WebsiteOptions ==
    [method |-> "method", retry_wait_time |-> "retry_wait_time",
     max_retries |-> "max_retries", github_token |-> "github_token",
     require_https |-> "require_https", fragment_checker_options |-> "include_fragments"]
RequestOptions ==
    [user_agent |-> "user_agent", allow_insecure |-> "insecure",
     max_redirects |-> "max_redirects", timeout |-> "timeout",
     min_tls_version |-> "min_tls", cookie_jar |-> "cookie_jar"]
FileOptions ==
    [base |-> "base_url", fallback_extensions |-> "fallback_extensions",
     index_files |-> "index_files", include_wikilinks |-> "include_wikilinks",
     remaps |-> "remap"]
BuilderOptions == or(or(FilterOptions, WebsiteOptions), or(RequestOptions, FileOptions))

\* A builder has a value in each field: the option's, or the one that stands for it.
set(c, f) == f \in DOMAIN c \cup DOMAIN Default
schemes(c) == IF enabled(c, "offline") THEN {"file"} ELSE ToSet(items(c, "scheme"))
accept(c) == IF "accept" \in DOMAIN c THEN c.accept ELSE default_accepted
create(c, custom_headers) ==
    or([b \in {b \in DOMAIN BuilderOptions : set(c, BuilderOptions[b])} |-> value(c, BuilderOptions[b])],
       [schemes |-> schemes(c),
        accepted |-> {code \in MIN .. MAX : \E i \in DOMAIN accept(c) : contains(accept(c)[i], code)},
        custom_headers |-> custom_headers, hosts |-> items(c, "hosts")])

\* Header maps have the set of its values for each name.
TRANSFER_ENCODING == [n \in {"transfer-encoding"} |-> {"chunked"}]
default_headers(b) ==
    or(or(TRANSFER_ENCODING, [n \in {"user-agent"} |-> {b.user_agent}]),
       [n \in DOMAIN b.custom_headers |-> {b.custom_headers[n]}])

host_headers(table) ==
    [n \in {table[i][1] : i \in DOMAIN table} |->
        {table[i][2] : i \in {i \in DOMAIN table : table[i][1] = n}}]

build_client_global(b, table) ==   \* mutant: the extend() the other way round
    or(default_headers(b), host_headers(table))
build_client(b, table) == or(host_headers(table), default_headers(b))

\* Of two spellings of a host in [hosts] either may come last.
build_host_clients(b) ==
    {[key \in DOMAIN pick |-> build_client(b, b.hosts[pick[key]])] :
        pick \in {p \in [{lower(h) : h \in DOMAIN b.hosts} -> DOMAIN b.hosts] :
                      \A key \in DOMAIN p : lower(p[key]) = key}}

\* ClientBuilder::client: a flag for all private addresses sets the three others.
on(b, f) == f \in DOMAIN b /\ b[f]
Client(b, client_map) ==
    or(b, [default_client |-> build_client(b, <<>>), client_map |-> client_map,
           filter |-> [ips |-> {f \in {"exclude_private_ips", "exclude_link_local_ips",
                                       "exclude_loopback_ips"} : on(b, "exclude_all_private") \/ on(b, f)},
                       include_mail |-> on(b, "include_mail")]])

\* A jar that is not there is an empty one; one that is not in the new format may be in
\* the old one.
CookieJarLoads == setup.jar \in {"absent", "json", "legacy"}

\* Parsers that only run now; the resolver of wikilinks wants a base URL.
CannotCreate ==
    \/ {value(config, "method"), value(config, "user_agent")} \cap Invalid # {}
    \/ \E f \in {"remap", "include", "exclude", "exclude_path"} : ToSet(items(config, f)) \cap Invalid # {}
    \/ LET h == headers(items(config, "header")) IN
       (DOMAIN h \cup {h[n] : n \in DOMAIN h}) \cap Invalid # {}
    \/ enabled(config, "include_wikilinks") /\ value(config, "base_url") = "none"
    \/ "cookie_jar" \in DOMAIN config /\ ~CookieJarLoads
    \/ \E i \in DOMAIN items(config, "basic_auth") : config.basic_auth[i].uri \in Invalid

CreateClient ==
    /\ stage = "inputs" /\ ~CannotCreate
    /\ \E custom_headers \in from_header_pairs(headers(items(config, "header"))) :
           LET b == create(config, custom_headers) IN
           \E client_map \in build_host_clients(b) : client' = Client(b, client_map)
    /\ stage' = "ready"
    /\ UNCHANGED <<unread, config, next_file, inputs>>

RejectClient ==
    /\ stage = "inputs" /\ CannotCreate
    /\ ExitWith(UnexpectedFailure) /\ UNCHANGED statusVars

StartNext ==
    \/ ParseAccept \/ RejectArguments \/ Parse
    \/ TryDefault \/ NoDefault \/ LoadNamed \/ RejectFile
    \/ ReadLycheeignore \/ ReadExcludeFile \/ RejectList \/ LimitConcurrency
    \/ ExitEarly \/ ReadInputs \/ CreateClient \/ RejectClient
-----------------------------------------------------------------------------
(* Properties *)

Loaded == stage \in {"loaded", "dump_inputs", "inputs", "ready"}

\* The sources of options, the one that counts most first: the command line, then the
\* files that are named, the last one first, or else the first file with options.
Offers(file) ==
    IF file.state = "parsed" /\ \A i \in DOMAIN file.sections : Readable(file.sections[i])
    THEN file.sections ELSE <<>>
DirFile(i) ==
    LET file == setup.dir[LOADERS[i]]
    IN IF file.state = "unreadable" /\ LOADERS[i] = "lychee.toml" THEN Parsed(<<<<>>>>) ELSE file
Usable == {i \in DOMAIN LOADERS : Offers(DirFile(i)) # <<>>}
Sources ==
    <<Typed(setup.cli)>> \o
    IF setup.named # <<>>
    THEN [i \in DOMAIN setup.named |-> setup.named[Len(setup.named) + 1 - i].sections[1]]
    ELSE IF Usable = {} THEN <<>> ELSE <<DirFile(Min(Usable)).sections[1]>>

Promised(f) ==
    LET set_in == {i \in DOMAIN Sources : f \in DOMAIN Sources[i]}
    IN IF f \in Chained THEN FlattenSeq([i \in DOMAIN Sources |-> items(Sources[i], f)])
       ELSE IF set_in = {} THEN Default[f] ELSE Sources[Min(set_in)][f]
Promises == DOMAIN Default \cup UNION {DOMAIN Sources[i] : i \in DOMAIN Sources}

\* Every option has the value of the first source that sets it, or its default; the lists
\* have what all sources say, in their order, and the patterns to exclude those of
\* .lycheeignore and of every excluded list after them; what is more, no more files are
\* opened than the system allows (load_config, Config::merge, handle_fd_limits).
OptionsInOrder ==
    Loaded =>
    /\ \A f \in Promises \ {"accept", "exclude", "hosts", "max_concurrency"} :
           (IF f \in Chained THEN items(config, f) ELSE value(config, f)) = Promised(f)
    /\ LET lists == Promised("exclude_file")
           ignored == IF setup.lycheeignore.state = "absent" THEN <<>>
                      ELSE read_lines(setup.lycheeignore)
       IN items(config, "exclude") =
              FlattenSeq(<<Promised("exclude"), ignored>>
                         \o [i \in DOMAIN lists |-> read_lines(setup.lists[lists[i]])])
    /\ value(config, "max_concurrency") =
           Min({Promised("max_concurrency")}
               \cup {Max({1, n - BASELINE_OVERHEAD}) : n \in setup.soft_limit})

Offering(i) == Offers(setup.dir[LOADERS[i]]) # <<>>
MalformedDefault(i) ==
    LET file == setup.dir[LOADERS[i]]
    IN file.state = "malformed" \/ \E j \in DOMAIN file.sections : ~Readable(file.sections[j])
FaultyFile ==
    IF setup.named # <<>> THEN \E i \in DOMAIN setup.named : Offers(setup.named[i]) = <<>>
    ELSE \E i \in DOMAIN LOADERS : MalformedDefault(i) /\ \A j \in 1 .. i - 1 : ~Offering(j)
UnreadableFile ==
    /\ setup.named = <<>>
    /\ \E i \in DOMAIN LOADERS :
           setup.dir[LOADERS[i]].state = "unreadable" /\ \A j \in 1 .. i - 1 : ~Offering(j)
FaultyList ==
    \/ setup.lycheeignore.state = "unreadable"
    \/ \E i \in DOMAIN Promised("exclude_file") :
           setup.lists[Promised("exclude_file")[i]].state # "lines"

\* A list of patterns that should be read and is missing or unreadable, a file named with
\* --config that offers no options, for whatever reason, and a malformed file in the
\* directory, if none before it has options, end the program with their own exit code,
\* before anything else is done; nothing else has that code (main.rs, ExitCode and
\* run_main).  A file in the directory that is there and cannot be read is excepted, though
\* src/README.md:754 promises the code for it as well: default_config_file takes it as an
\* empty one (unwrap_or_default), and the program may go on with the defaults.
ConfigErrorsExit3 ==
    /\ exit_code = {ConfigFile} => FaultyFile \/ UnreadableFile \/ FaultyList
    /\ Loaded \/ exit_code \in {{Success}, {UnexpectedFailure}} =>
           ~FaultyList /\ (FaultyFile => UnreadableFile)

\* The client keeps private addresses out as the options of that name say, whatever
\* source sets them, asks only for files when offline, and takes as good the codes of
\* the first source with some (create, ClientBuilder::client).
On(f) == f \in Promises /\ Promised(f)
ClientAsSet ==
    stage = "ready" =>
    /\ client.filter.ips =
           {ips \in {"exclude_private_ips", "exclude_link_local_ips", "exclude_loopback_ips"} :
               \/ On("exclude_all_private")
               \/ ips = "exclude_private_ips" /\ On("exclude_private")
               \/ ips = "exclude_link_local_ips" /\ On("exclude_link_local")
               \/ ips = "exclude_loopback_ips" /\ On("exclude_loopback")}
    /\ client.filter.include_mail <=> On("include_mail")
    /\ client.schemes = IF On("offline") THEN {"file"} ELSE ToSet(Promised("scheme"))
    /\ LET from == IF ranges # <<>> THEN ranges
                   ELSE IF "accept" \in Promises THEN visit_seq(Promised("accept"))
                   ELSE default_accepted
       IN client.accepted = {c \in MIN .. MAX : \E i \in DOMAIN from : contains(from[i], c)}
=============================================================================
