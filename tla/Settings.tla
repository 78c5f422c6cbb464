------------------------------- MODULE Settings -------------------------------
(***************************************************************************)
(* How the limits of one host come out of the command line and the config  *)
(* files: load_config (main.rs) merges them (config/mod.rs), client.rs     *)
(* makes a RateLimitConfig of the result, and the pool gives a new host    *)
(* what its own table in [hosts] and the RateLimitConfig say.              *)
(*                                                                         *)
(* An option that may be left out is a set of at most one number.          *)
(***************************************************************************)
EXTENDS Naturals, SequencesExt

CONSTANTS
    Setups,                  \* what a user may start lychee with
    Spellings,               \* the ways the name of the host is written in [hosts]
    HostKey,                 \* the one in lower case
    DEFAULT_CONCURRENCY,     \* 10
    DEFAULT_REQUEST_INTERVAL \* 50 ms

Optional == {o \in SUBSET Nat : \A m, n \in o : m = n}
or(mine, other) == IF mine = {} THEN other ELSE mine
unwrap_or(option, default) == IF option = {} THEN default ELSE CHOOSE n \in option : TRUE

\* A host without a table has one without options.
HostConfig == [concurrency : Optional, request_interval : Optional]
Config == [host_concurrency : Optional, host_request_interval : Optional,
           hosts : [Spellings -> HostConfig]]

merge_host(mine, other) ==
    [concurrency |-> or(mine.concurrency, other.concurrency),
     request_interval |-> or(mine.request_interval, other.request_interval)]

merge_over(mine, other) ==   \* mutant: the tables are replaced as a whole
    [host_concurrency |-> or(mine.host_concurrency, other.host_concurrency),
     host_request_interval |-> or(mine.host_request_interval, other.host_request_interval),
     hosts |-> [h \in Spellings |->
                    IF mine.hosts[h].concurrency \cup mine.hosts[h].request_interval = {}
                    THEN other.hosts[h] ELSE mine.hosts[h]]]

merge(mine, other) ==
    [host_concurrency |-> or(mine.host_concurrency, other.host_concurrency),
     host_request_interval |-> or(mine.host_request_interval, other.host_request_interval),
     hosts |-> [h \in Spellings |-> merge_host(mine.hosts[h], other.hosts[h])]]

load_config_in_order(s) ==   \* mutant: without the rev() of main.rs:189
    IF s.files = <<>> THEN merge(s.cli, s.default)
    ELSE FoldLeft(merge, s.cli, s.files)

\* Later files first; the file that is found in the directory only without others.
load_config(s) ==
    IF s.files = <<>> THEN merge(s.cli, s.default)
    ELSE FoldRight(LAMBDA file, config : merge(config, file), s.files, s.cli)

from_options(c) ==
    [concurrency |-> unwrap_or(c.host_concurrency, DEFAULT_CONCURRENCY),
     request_interval |-> unwrap_or(c.host_request_interval, DEFAULT_REQUEST_INTERVAL)]

\* HostKey is in lower case when it is made of a URL, but not when it is read from
\* a config file.
host_config(c) == c.hosts[HostKey]
effective_concurrency(c) ==
    unwrap_or(host_config(c).concurrency, from_options(c).concurrency)
effective_request_interval(c) ==
    unwrap_or(host_config(c).request_interval, from_options(c).request_interval)

ASSUME SettingsAssumption ==
    /\ HostKey \in Spellings
    /\ DEFAULT_CONCURRENCY \in Nat /\ DEFAULT_REQUEST_INTERVAL \in Nat
    /\ Setups \subseteq [cli : Config, files : Seq(Config), default : Config]
-----------------------------------------------------------------------------
(* What the documentation promises *)

\* The command line has precedence, then the later file.
Sources(s) ==
    <<s.cli>> \o IF s.files = <<>> THEN <<s.default>> ELSE Reverse(s.files)

\* The first source that sets an option decides; a host's own table counts before
\* the options for all hosts, wherever they are set, and these before the default.
Promised(s, own(_), all(_), default) ==
    LET sources == Sources(s)
        Setting(option(_)) == {i \in DOMAIN sources : option(sources[i]) # {}}
        Decided(option(_)) == CHOOSE n \in option(sources[Min(Setting(option))]) : TRUE
    IN IF Setting(own) # {} THEN Decided(own)
       ELSE IF Setting(all) # {} THEN Decided(all)
       ELSE default

\* These two know only the table under the name in lower case.
PromisedConcurrency(s) ==
    Promised(s, LAMBDA c : c.hosts[HostKey].concurrency,
                LAMBDA c : c.host_concurrency, DEFAULT_CONCURRENCY)
PromisedInterval(s) ==
    Promised(s, LAMBDA c : c.hosts[HostKey].request_interval,
                LAMBDA c : c.host_request_interval, DEFAULT_REQUEST_INTERVAL)

\* A host has one name, however it is written: with a table of that name in any spelling.
AnySpelling(c, option(_)) == UNION {option(c.hosts[h]) : h \in Spellings}
PromisedIntervalByName(s) ==
    Promised(s, LAMBDA c : AnySpelling(c, LAMBDA table : table.request_interval),
                LAMBDA c : c.host_request_interval, DEFAULT_REQUEST_INTERVAL)
=============================================================================
