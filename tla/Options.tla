------------------------------ MODULE Options ------------------------------
(***************************************************************************)
(* The options of lychee: the fields of Config (config/mod.rs), how two    *)
(* configurations are merged, what an option that nobody has set stands    *)
(* for, and the files that options are read from (config/loaders/).        *)
(*                                                                         *)
(* A configuration is a function from the fields that are set to their     *)
(* values.  What Settings says of the limits in [hosts] is left out here:  *)
(* a host's table is the sequence of its headers.                          *)
(***************************************************************************)
EXTENDS Naturals, SequencesExt

CONSTANT Lower   \* names that have capital letters, with what to_lowercase makes of them

lower(name) == IF name \in DOMAIN Lower THEN Lower[name] ELSE name

\* ExitCode
Success == 0
UnexpectedFailure == 1
LinkCheckFailure == 2
ConfigFile == 3
-----------------------------------------------------------------------------
(* The fields, in the order of the struct *)

InputFields == {"files_from", "verbose", "no_progress", "host_stats", "extensions",
                "default_extension"}
CacheFields == {"cache", "max_cache_age", "cache_exclude_status", "dump", "dump_inputs",
                "archive", "suggest"}
LimitFields == {"max_redirects", "max_retries", "min_tls", "max_concurrency",
                "host_concurrency", "host_request_interval", "threads", "user_agent",
                "insecure"}
FilterFields == {"scheme", "offline", "include", "exclude", "exclude_file", "exclude_path",
                 "exclude_all_private", "exclude_private", "exclude_link_local",
                 "exclude_loopback", "include_mail", "remap"}
FileFields == {"fallback_extensions", "index_files"}
RequestFields == {"header", "accept", "accept_timeouts", "include_fragments", "timeout",
                  "retry_wait_time", "method"}
BaseFields == {"base", "base_url", "root_dir", "basic_auth", "github_token"}
CollectFields == {"skip_missing", "no_ignore", "hidden", "include_verbatim",
                  "glob_ignore_case"}
OutputFields == {"output", "mode", "format", "generate", "require_https", "cookie_jar",
                 "include_wikilinks", "preprocess", "hosts"}
Fields == UNION {InputFields, CacheFields, LimitFields, FilterFields, FileFields,
                 RequestFields, BaseFields, CollectFields, OutputFields}

Chained == {"exclude", "exclude_file", "exclude_path", "include", "fallback_extensions",
            "remap", "scheme", "header"}
-----------------------------------------------------------------------------
(* Merging *)

items(c, f) == IF f \in DOMAIN c THEN c[f] ELSE <<>>

\* Option::or, for every field: what c sets counts before what d does.
or(c, d) == [f \in DOMAIN c \cup DOMAIN d |-> IF f \in DOMAIN c THEN c[f] ELSE d[f]]

\* The values of a header that is in both tables are both kept.
merge_hosts(mine, other) ==
    [h \in DOMAIN mine \cup DOMAIN other |-> items(mine, h) \o items(other, h)]

merge_late(mine, other) ==   \* mutant: the arguments of or() the other way round
    [f \in DOMAIN mine \cup DOMAIN other |->
        IF f = "hosts" THEN merge_hosts(items(mine, f), items(other, f))
        ELSE IF f \in Chained THEN items(mine, f) \o items(other, f)
        ELSE or(other, mine)[f]]

merge(mine, other) ==
    [f \in DOMAIN mine \cup DOMAIN other |->
        IF f = "hosts" THEN merge_hosts(items(mine, f), items(other, f))
        ELSE IF f \in Chained THEN items(mine, f) \o items(other, f)
        ELSE or(mine, other)[f]]

\* Only merge_file says which file it was.
Found(file) == file.sections # <<>>
merge_file(c, file) == merge(c, Head(file.sections))
-----------------------------------------------------------------------------
(* What stands for an option that is not set *)

enabled(c, f) == f \in DOMAIN c /\ c[f]

Default ==
    [timeout |-> 20, retry_wait_time |-> 1, method |-> "get",
     max_cache_age |-> 86400, verbose |-> [verbose |-> 0, quiet |-> 0],
     extensions |-> "default", archive |-> "wayback", mode |-> "color",
     format |-> "compact", max_concurrency |-> 128, max_redirects |-> 10,
     max_retries |-> 3, user_agent |-> "lychee", cache_exclude_status |-> <<>>,
     include_fragments |-> "none", base |-> "none", base_url |-> "none"]

value(c, f) == IF f \in DOMAIN c THEN c[f] ELSE Default[f]

FragmentCheckerOptions(mode) ==
    [check_anchor_fragments |-> mode \in {"anchor-only", "full"},
     check_text_fragments |-> mode \in {"text-only", "full"}]
any_enabled(fragments) == fragments.check_anchor_fragments \/ fragments.check_text_fragments

\* Levels are numbers, from Error (0) to Trace (4).  A level in a config file becomes
\* a number of "v", which counts from Warn.
Warn == 1
verbosity(v) == (IF v.quiet >= Warn THEN 0 ELSE Warn - v.quiet) + v.verbose
log_level(v) == IF verbosity(v) >= 4 THEN 4 ELSE verbosity(v)
VerbosityOf(level) == [verbose |-> level, quiet |-> 0]

\* On the command line the name of a header loses its capitals.
parse_single_header(pair) == <<lower(pair[1]), pair[2]>>
\* headers: a later pair of the same spelling replaces an earlier one.
headers(pairs) ==
    [n \in {pairs[i][1] : i \in DOMAIN pairs} |->
        LET last == CHOOSE i \in DOMAIN pairs :
                        pairs[i][1] = n /\ \A j \in DOMAIN pairs : pairs[j][1] = n => j <= i
        IN pairs[last][2]]
\* HeaderMap::from_header_pairs goes over a hash map, in any order, and has no capitals:
\* of several spellings of a name any may be the last.
from_header_pairs(map) ==
    {h \in [{lower(n) : n \in DOMAIN map} -> {map[n] : n \in DOMAIN map}] :
        \A name \in DOMAIN h : \E n \in DOMAIN map : lower(n) = name /\ h[name] = map[n]}
-----------------------------------------------------------------------------
(* What the parsers of clap and serde let through *)

IsList(s) == s \in Seq(ToSet(s))
\* The name of a header is in a HeaderMap without its capitals.
IsHeaderMap(table) ==
    IsList(table) /\ \A i \in DOMAIN table : lower(table[i][1]) = table[i][1]
IsConfig(c) ==
    /\ DOMAIN c \subseteq Fields
    /\ \A f \in Chained : IsList(items(c, f))
    /\ \A h \in DOMAIN items(c, "hosts") : IsHeaderMap(c.hosts[h])
    /\ value(c, "max_concurrency") \in Nat
-----------------------------------------------------------------------------
(* Files: "absent", "unreadable", "malformed", or "parsed" with the sections for       *)
(* lychee that have been found, a package's before a workspace's                       *)

Absent == [state |-> "absent", sections |-> <<>>]
Unreadable == [state |-> "unreadable", sections |-> <<>>]
Malformed == [state |-> "malformed", sections |-> <<>>]
Parsed(sections) == [state |-> "parsed", sections |-> sections]

IsFile(file) ==
    /\ DOMAIN file = {"state", "sections"} /\ IsList(file.sections)
    /\ file.state # "parsed" => file.sections = <<>>
    /\ \A i \in DOMAIN file.sections : IsConfig(file.sections[i])

LOADERS == <<"lychee.toml", "Cargo.toml", "pyproject.toml", "package.json">>

lychee_toml(contents) == Parsed(<<contents>>)
cargo_toml(package, workspace) == Parsed(package \o workspace)
pyproject_toml(tool) == Parsed(tool)
package_json(lychee) == Parsed(lychee)

contents_or_empty_lenient(loader, file) ==   \* mutant: a file that does not parse is passed over
    IF file.state = "malformed" THEN Parsed(<<>>)
    ELSE IF file.state # "unreadable" THEN file
    ELSE IF loader = "lychee.toml" THEN lychee_toml(<<>>) ELSE Parsed(<<>>)

\* A file that is there and cannot be read counts as an empty one.
contents_or_empty(loader, file) ==
    IF file.state # "unreadable" THEN file
    ELSE
    CASE loader = "lychee.toml" -> lychee_toml(<<>>)
      [] loader = "Cargo.toml" -> cargo_toml(<<>>, <<>>)
      [] loader = "pyproject.toml" -> pyproject_toml(<<>>)
      [] loader = "package.json" -> Malformed
=============================================================================
