-------------------------- MODULE MCPersistentCache --------------------------
(* Two links to one page, and a link to this machine; by remaps they may lead *)
(* to each other, to a file, to a mail address or to a known false positive.  *)
EXTENDS PersistentCache

CONSTANTS t1, t2, t3, a, b, f, m, x

Part(scheme, domain, address) ==
    [scheme |-> scheme, domain |-> domain, address |-> address, path |-> <<"/">>]

MCParts == [u \in Uris |->
    CASE u = a -> Part("https", <<"docs", ".", "rs">>, "none")
      [] u = b -> Part("http", <<"localhost">>, "none")
      [] u = f -> Part("file", <<>>, "none")
      [] u = m -> Part("mailto", <<>>, "none")
      [] u = x -> Part("http", <<"ogp", ".", "me">>, "none")]

MCUriOf == [t \in Requests |-> IF t = t3 THEN b ELSE a]
Rule(from, to) == [pattern |-> {from}, replacement |-> [u \in Uris |-> to]]

Defaults == [include |-> {}, exclude |-> {}, scheme |-> {}, offline |-> FALSE,
             exclude_all_private |-> FALSE, exclude_private |-> FALSE,
             exclude_link_local |-> FALSE, exclude_loopback |-> FALSE,
             include_mail |-> FALSE, remap |-> <<>>]
Moved == [Defaults EXCEPT !.remap = <<Rule(b, a), Rule(b, x)>>]

Base == [cache |-> TRUE, accept |-> {200}, cacheExclude |-> {},
         options |-> Defaults, acceptTimeouts |-> FALSE, maxAge |-> 2]
Remapped == [Base EXCEPT !.options = Moved]
Lenient == [Remapped EXCEPT !.accept = {200, 403}, !.options.include = {{a}},
                            !.options.exclude = {{a, b}, {f}}]
Strict == [Base EXCEPT !.accept = {403}, !.maxAge = 1]
Unmappable == [Base EXCEPT !.options.remap = <<Rule(b, NoUri)>>,
                           !.acceptTimeouts = TRUE, !.cache = FALSE]
Offline == [Base EXCEPT !.options.remap = <<Rule(b, f)>>, !.options.offline = TRUE]
Never200 == [Base EXCEPT !.cacheExclude = {200}, !.options.exclude_all_private = TRUE]
Mailed == [Base EXCEPT !.options.remap = <<Rule(b, m), Rule(a, x)>>,
                       !.options.include_mail = TRUE]

Http(c) == [is |-> "response", code |-> c]
Failing(k) == [is |-> "error", kind |-> k]
Success == [is |-> "success"]
Uncertain == [is |-> "uncertain"]

MCConfigs ==
    {Lenient, Strict, Never200, Unmappable, Offline, Mailed}
MCOutcomes ==
    [u \in Uris |->
        CASE u = a -> {Http(200), Http(403), Failing("timeout")}
          [] u = b -> {Http(200), Failing("builder")}
          [] u = f -> {Success, Failing("InvalidFilePath")}
          [] u = m -> {Success, Uncertain}
          [] u = x -> {Http(200)}]
MCStrictConfigs == {Lenient, Strict}
MCSlowConfigs == {[Base EXCEPT !.acceptTimeouts = TRUE]}
MCSlowOutcomes ==
    [MCOutcomes EXCEPT ![a] = {Http(200), Failing("timeout")}]
==============================================================================
