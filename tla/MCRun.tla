------------------------------- MODULE MCRun -------------------------------
(***************************************************************************)
(* Small runs: two inputs with up to three links, among them two to one    *)
(* uri, one that times out, one to a mailbox; every format of the report,  *)
(* what may fail while the inputs are read; and dumps of the same links.   *)
(***************************************************************************)
EXTENDS Run

NoLower == [n \in {} |-> n]

Body(uri, scheme, status, redirects, remap) ==
    [uri |-> uri, scheme |-> scheme, status |-> status, redirects |-> redirects, remap |-> remap]
Web(uri, statuses) == {Body(uri, "https", s, "none", "none") : s \in statuses}

Link(source, scheme, answers) ==
    [source |-> source, scheme |-> scheme, answers |-> answers, error |-> "none",
     excluded |-> FALSE, remap_fails |-> FALSE]
Broken(source, error) == [Link(source, "none", {}) EXCEPT !.error = error]

Same(source) ==
    Link(source, "https",
         Web("same", {Ok(200), RejectedStatusCode(404), Cached(CacheStatus("Error", 404)),
                      Cached(CacheStatus("Ok", 200))}))
Slow == Link("a.md", "https", Web("slow", {Timeout, Ok(200)})
                              \cup {Body("slow", "https", Ok(200), "followed", "remapped")})
Mail == Link("b.md", "mailto", {Body("mail", "mailto", UnknownMailStatus, "none", "none"),
                                Body("mail", "mailto", Error, "none", "none")})
Elsewhere == Link("b.md", "https", Web("elsewhere", {Unsupported, Excluded})
                                   \cup {Body("elsewhere", "https", Error, "followed", "none")})

Given(config, requests) ==
    [config |-> config, requests |-> requests, sources |-> <<>>, is_stdin_input |-> FALSE,
     piped |-> "output" \notin DOMAIN config]

Verbose == "verbose" :> [verbose |-> 1, quiet |-> 0]
Two == "max_concurrency" :> 2

Checks ==
    {Given("format" :> format @@ "suggest" :> TRUE @@ "accept_timeouts" :> accept @@ Two @@ more,
           requests) :
        format \in StatsFormats, accept \in BOOLEAN, more \in {[f \in {} |-> 0], Verbose},
        requests \in {<<Same("a.md"), Slow, Mail>>, <<Same("a.md"), Same("b.md"), Elsewhere>>}}
    \cup {Given("cache" :> TRUE @@ "cookie_jar" :> "jar" @@ more, requests) :
            more \in {[f \in {} |-> 0], "output" :> "report.txt", "no_progress" :> TRUE},
            requests \in {<<>>, <<Same("a.md"), Broken("b.md", "UserInputContent")>>,
                          <<Slow, Broken("b.md", "CreateRequestItem")>>}}
    \cup {[Given("suggest" :> TRUE, <<Broken("b.md", "GetInputContent"), Mail>>)
              EXCEPT !.is_stdin_input = TRUE]}

Skip(request) == [request EXCEPT !.excluded = TRUE]
Data == Link("a.md", "data", {})
Dumps ==
    {Given("dump" :> TRUE @@ more, requests) :
        more \in {[f \in {} |-> 0], "output" :> "links.txt", Verbose},
        requests \in {<<Slow, Skip(Mail), Data, Elsewhere>>,
                      <<Slow, Broken("b.md", "GetInputContent"), Mail>>,
                      <<Slow, Broken("b.md", "UserInputContent")>>,
                      <<Slow, [Mail EXCEPT !.remap_fails = TRUE], Data>>}}
    \cup {[Given("dump_inputs" :> TRUE @@ more, <<>>) EXCEPT !.sources = sources] :
            more \in {[f \in {} |-> 0], "output" :> "inputs.txt"},
            sources \in {<<"a.md", "b.md", "a.md">>, <<"a.md", "error", "b.md">>}}

\* The output is a file that is a FIFO.
Fifos ==
    {[Given("output" :> "fifo", <<Same("a.md"), Slow>>) EXCEPT !.piped = TRUE],
     [Given("dump" :> TRUE @@ "output" :> "fifo", <<Slow, Elsewhere>>) EXCEPT !.piped = TRUE]}

MCRuns == Checks \cup Dumps \cup Fifos
=============================================================================
