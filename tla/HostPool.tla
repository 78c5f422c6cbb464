------------------------------ MODULE HostPool ------------------------------
(***************************************************************************)
(* The pool of hosts (ratelimit/pool.rs) once the client is there.  A call *)
(* builds its request with the client of the host that its link names; the *)
(* quirks (quirks/mod.rs) may then send it to another host, and it is that *)
(* one's client that executes it.  Host says what a host does with it.     *)
(***************************************************************************)
EXTENDS Startup

CONSTANT MaxRemovals    \* bound on remove_host, which a user of the library may call

VARIABLES
    hosts,      \* hosts: for each name in the pool, which Host it is
    made,       \* every Host made so far: its name, its client and its requests
    at,         \* where each call is
    request,    \* the request of each call: its URL and headers
    sent,       \* the headers that went out
    used,       \* the Host that executed it
    removals

poolVars == <<hosts, made, at, request, sent, used, removals>>
programVars == <<startVars, poolVars>>

NoHeaders == [n \in {} |-> {}]

\* One call for each link in the inputs.
Calls == DOMAIN setup.links

PoolInit ==
    /\ hosts = [h \in {} |-> 0] /\ made = <<>> /\ removals = 0
    /\ at = [t \in Calls |-> "new"]
    /\ request = [t \in Calls |-> [url |-> setup.links[t], headers |-> NoHeaders]]
    /\ sent = [t \in Calls |-> NoHeaders] /\ used = [t \in Calls |-> 0]
-----------------------------------------------------------------------------
(* A URL is a host, a kind of page and a kind of fragment *)

HostKey(url) == lower(url.host)

\* The quirks, each with its pattern, in the order in which they are applied.
crates_io(r) ==
    IF r.url.host = "crates.io" THEN [r EXCEPT !.headers = or([accept |-> {"text/html"}], @)]
    ELSE r
youtube(r) ==
    IF r.url.host \in {"youtube.com", "youtu.be"} /\ r.url.page = "video"
    THEN [r EXCEPT !.url = [host |-> "img.youtube.com", page |-> "thumbnail", fragment |-> "none"]]
    ELSE r
github_line(r) ==
    IF r.url.host = "github.com" /\ r.url.page \in {"blob", "markdown"} /\ r.url.fragment = "line"
    THEN [r EXCEPT !.url.fragment = "none"]
    ELSE r
github_markdown(r) ==
    IF r.url.host = "github.com" /\ r.url.page = "markdown" /\ r.url.fragment # "none"
    THEN [r EXCEPT !.url.host = "raw.githubusercontent.com"]
    ELSE r
apply(r) == github_markdown(github_line(youtube(crates_io(r))))

\* The first selector that matches the link, before the quirks.
matches(t) ==
    SelectSeq(items(config, "basic_auth"), LAMBDA selector : setup.links[t].host = selector.uri)
append_to_request(r, selectors) ==
    IF selectors = <<>> THEN r
    ELSE [r EXCEPT !.headers = or([authorization |-> {selectors[1].credentials}], @)]
-----------------------------------------------------------------------------
(* The pool *)

Client_of(key) ==
    IF key \in DOMAIN client.client_map THEN client.client_map[key] ELSE client.default_client
New(key) == [name |-> key, client |-> Client_of(key), requests |-> 0]

\* The entry of the map is locked from the look-up to the insertion.  A host with its
\* request counted is what a call that executes leaves.
entered(key) == [k \in DOMAIN hosts \cup {key} |-> IF k = key THEN Len(made) + 1 ELSE hosts[k]]
get_or_create_host_anew(key, counted) ==   \* mutant: the entry is always a new one
    /\ hosts' = entered(key)
    /\ made' = Append(made, [New(key) EXCEPT !.requests = counted])
get_or_create_host(key, counted) ==
    IF key \in DOMAIN hosts
    THEN /\ made' = [made EXCEPT ![hosts[key]].requests = @ + counted]
         /\ UNCHANGED hosts
    ELSE /\ hosts' = entered(key)
         /\ made' = Append(made, [New(key) EXCEPT !.requests = counted])

\* The link comes out of the persistent cache; nothing is sent.
record_persistent_cache_hit(t) ==
    /\ at[t] = "new"
    /\ get_or_create_host(HostKey(setup.links[t]), 0)
    /\ at' = [at EXCEPT ![t] = "done"]
    /\ UNCHANGED <<request, sent, used, removals>>

build_request(t) ==
    /\ at[t] = "new"
    /\ get_or_create_host(HostKey(setup.links[t]), 0)
    /\ at' = [at EXCEPT ![t] = "built"]
    /\ UNCHANGED <<request, sent, used, removals>>

\* The chain of quirks and credentials.
HandleChain(t) ==
    /\ at[t] = "built"
    /\ request' = [request EXCEPT ![t] = append_to_request(apply(@), matches(t))]
    /\ at' = [at EXCEPT ![t] = "chained"]
    /\ UNCHANGED <<hosts, made, sent, used, removals>>

executing_key_built(t) == HostKey(setup.links[t])   \* mutant: the host it was built for
executing_key(t) == HostKey(request[t].url)

\* The client adds its own headers to those that the request has.
execute_request(t) ==
    /\ at[t] = "chained"
    /\ get_or_create_host(executing_key(t), 1)
    /\ used' = [used EXCEPT ![t] = hosts'[executing_key(t)]]
    /\ sent' = [sent EXCEPT ![t] = or(request[t].headers, made'[hosts'[executing_key(t)]].client)]
    /\ at' = [at EXCEPT ![t] = "running"]
    /\ UNCHANGED <<request, removals>>

Answer(t) ==
    /\ at[t] = "running"
    /\ at' = [at EXCEPT ![t] = "done"]
    /\ UNCHANGED <<hosts, made, request, sent, used, removals>>

remove_host(h) ==
    /\ h \in DOMAIN hosts /\ removals < MaxRemovals
    /\ hosts' = [k \in DOMAIN hosts \ {h} |-> hosts[k]]
    /\ removals' = removals + 1
    /\ UNCHANGED <<made, at, request, sent, used>>

all_host_stats == [h \in DOMAIN hosts |-> made[hosts[h]].requests]
host_stats(h) == IF h \in DOMAIN hosts THEN made[hosts[h]].requests ELSE 0

PoolNext ==
    \/ \E t \in Calls : \/ record_persistent_cache_hit(t) \/ build_request(t)
                        \/ HandleChain(t) \/ execute_request(t) \/ Answer(t)
    \/ \E h \in DOMAIN hosts : remove_host(h)

ProgramInit == StartInit /\ PoolInit
ProgramNext ==
    \/ StartNext /\ UNCHANGED poolVars
    \/ stage = "ready" /\ PoolNext /\ UNCHANGED startVars
ProgramSpec == ProgramInit /\ [][ProgramNext]_programVars
-----------------------------------------------------------------------------
(* Properties *)

\* The tables that may be the host's, which has none of its own or two by different spellings.
Tables(key) ==
    LET own == {h \in DOMAIN items(config, "hosts") : lower(h) = key}
    IN IF own = {} THEN {<<>>} ELSE {config.hosts[h] : h \in own}
Says(pairs, name) ==
    {pairs[i][2] : i \in {i \in DOMAIN pairs : lower(pairs[i][1]) = name}}

Said(table, n) ==
    IF Says(table, n) # {} THEN Says(table, n)
    ELSE IF n = "user-agent" THEN {value(config, "user_agent")}
    ELSE Says(items(config, "header"), n)

\* A request goes out with every header of the host it goes to, which is not always the
\* host it was built for, and with those for all hosts; the value of a header is one that
\* the host's own table gives or, if it gives none, one that is given for all hosts, and
\* never one of another host's (pool.rs, execute_request; client.rs, build_host_clients).
\* Where one value is given the header has that one.  Where several sources give one, or
\* two spellings of the host's name have a table, this does not say which: see
\* HeadersInOrder.
HeadersPerHost ==
    \A t \in Calls : used[t] # 0 =>
        LET all == items(config, "header")
        IN \E table \in Tables(HostKey(request[t].url)) :
               /\ \A n \in DOMAIN sent[t] \ DOMAIN request[t].headers :
                      \/ n = "transfer-encoding" /\ Says(table, n) = {}
                      \/ sent[t][n] # {} /\ sent[t][n] \subseteq Said(table, n)
               /\ \A i \in DOMAIN all : lower(all[i][1]) \in DOMAIN sent[t]
               /\ \A i \in DOMAIN table : table[i][1] \in DOMAIN sent[t]

\* Of a header for all hosts that several sources give, the value of the first of them is
\* sent: "parsed CLI args have highest precedence" (main.rs, load_config).  Config::headers
\* collects the pairs of all sources into one map, where the last one stays.
HeadersInOrder ==
    \A t \in Calls : used[t] # 0 =>
        \A i \in DOMAIN Sources : \A n \in DOMAIN sent[t] :
            LET said(j) == Says(items(Sources[j], "header"), n)
            IN /\ said(i) # {} /\ \A j \in 1 .. i - 1 : said(j) = {}
               /\ \A table \in Tables(HostKey(request[t].url)) : Says(table, n) = {}
               /\ n \notin DOMAIN request[t].headers \cup {"user-agent", "transfer-encoding"}
               => sent[t][n] \subseteq said(i)

\* Two requests under way to one host are limited by one Host, unless it was removed.
HostShared ==
    \A t, u \in Calls :
        /\ at[t] = "running" /\ at[u] = "running"
        /\ HostKey(request[t].url) = HostKey(request[u].url) /\ removals = 0
        => used[t] = used[u]

\* So every request is sent with what is said of its own host, wherever the link leads at
\* first (pool.rs, build_request, execute_request and get_or_create_host).
RequestsPerHost == HeadersPerHost /\ HostShared
=============================================================================
