----------------------------- MODULE MCStartup -----------------------------
(***************************************************************************)
(* What a user may start lychee with: every way in which a start may end,  *)
(* options from every kind of source, each list of up to three parts for   *)
(* --accept, each set of flags for private addresses on the command line   *)
(* and in a file; and three links, two of which a quirk sends to another   *)
(* host, where the third may go as well.                                   *)
(***************************************************************************)
EXTENDS HostPool

MCLower == "X-Key" :> "x-key" @@ "GitHub.com" :> "github.com"
MCInvalid == {"(", "[input", "no base"}

None == [f \in {} |-> 0]
List(lines) == [state |-> "lines", lines |-> lines]
AbsentList == [state |-> "absent", lines |-> <<>>]
UnreadableList == [state |-> "unreadable", lines |-> <<>>]

Bare ==
    [cli |-> None, accept |-> <<>>, raw_inputs |-> <<"README.md">>, named |-> <<>>,
     dir |-> [f \in ToSet(LOADERS) |-> Absent], lycheeignore |-> AbsentList,
     lists |-> "list" :> List(<<"p", "", "#", "q", " ">>) @@ "missing" :> AbsentList
               @@ "broken" :> UnreadableList,
     soft_limit |-> {}, rust_log |-> {}, jar |-> "absent", without_parent |-> {"nowhere/out"}, links |-> <<>>]

With(options) == [Bare EXCEPT !.cli = options]
In(loader, file) == [Bare EXCEPT !.dir[loader] = file]
Named(files) == [Bare EXCEPT !.named = files]

File1 == lychee_toml("timeout" :> 7 @@ "max_retries" :> 1 @@ "exclude" :> <<"f1">>
                     @@ "header" :> <<<<"X-Key", "f1">>>> @@ "scheme" :> <<"https">>
                     @@ "hosts" :> ("github.com" :> <<<<"x-key", "github">>>>))
File2 == lychee_toml("timeout" :> 8 @@ "max_redirects" :> 2 @@ "exclude" :> <<"f2">>
                     @@ "exclude_file" :> <<"list">> @@ "max_concurrency" :> 90
                     @@ "hosts" :> ("github.com" :> <<<<"x-key", "again">>, <<"x-two", "two">>>>))

Loading ==
    {[Named(<<File1, File2>>) EXCEPT !.cli = cli, !.lycheeignore = ignore, !.soft_limit = limit] :
        cli \in {None, "timeout" :> 9 @@ "exclude" :> <<"cli">> @@ "exclude_file" :> <<"list">>},
        ignore \in {AbsentList, List(<<"i">>)}, limit \in {{}, {100}, {10}, {1000}}}
    \cup {In("lychee.toml", Unreadable), In("package.json", Unreadable),
          In("Cargo.toml", Malformed), In("pyproject.toml", Unreadable),
          [In("Cargo.toml", cargo_toml(<<>>, <<>>)) EXCEPT !.dir["pyproject.toml"] =
              pyproject_toml(<<"timeout" :> 3>>), !.dir["package.json"] = Malformed],
          [In("Cargo.toml", cargo_toml(<<"timeout" :> 3>>, <<"timeout" :> 4>>))
              EXCEPT !.dir["package.json"] = package_json(<<"timeout" :> 5>>)],
          In("package.json", package_json(<<"dump_inputs" :> TRUE>>)),
          Named(<<Absent>>), Named(<<Malformed, File1>>), Named(<<File1, package_json(<<>>)>>),
          [Bare EXCEPT !.lycheeignore = UnreadableList]}

Selector(uri, words, credentials) == [uri |-> uri, words |-> words, credentials |-> credentials]
Ending ==
    {With("exclude_file" :> <<"list", "missing">>), With("exclude_file" :> <<"broken">>),
     With("output" :> "nowhere/out" @@ "generate" :> "man"), With("generate" :> "man"),
     [With("generate" :> "man") EXCEPT !.raw_inputs = <<>>], [Bare EXCEPT !.raw_inputs = <<>>],
     [With("files_from" :> "list") EXCEPT !.raw_inputs = <<>>],
     With("files_from" :> "missing"), [Bare EXCEPT !.raw_inputs = <<"[input">>],
     With("include_wikilinks" :> TRUE), With("base_url" :> "no base"),
     With("include_wikilinks" :> TRUE @@ "base_url" :> "https://a"),
     Named(<<lychee_toml("include_wikilinks" :> TRUE)>>),
     [With("base" :> "https://a") EXCEPT !.named = <<lychee_toml("include_wikilinks" :> TRUE)>>],
     With("verbose" :> [verbose |-> 1, quiet |-> 1]), With("verbose" :> [verbose |-> 2, quiet |-> 0]),
     With("exclude" :> <<"(">>), With("header" :> <<<<"x-key", "(">>>>), With("header" :> <<<<"x-key">>>>),
     Named(<<lychee_toml("header" :> <<<<"x-key", "(">>>>)>>), With("cookie_jar" :> "jar"),
     With("basic_auth" :> <<Selector("github.com", 1, <<>>)>>),
     With("basic_auth" :> <<Selector("github.com", 2, <<"user", "pass", "word">>)>>),
     Named(<<lychee_toml("basic_auth" :> <<Selector("github.com", 2, <<"user", "">>)>>)>>),
     Named(<<lychee_toml("basic_auth" :> <<Selector("(", 2, <<"user", "pass">>)>>)>>),
     [With("cookie_jar" :> "jar") EXCEPT !.jar = "malformed", !.rust_log = {4}], With("method" :> "(")}

Flags == {"exclude_all_private", "exclude_private", "exclude_link_local", "exclude_loopback"}
single(code) == [kind |-> "single", code |-> code]
inclusive(start, end) == [kind |-> "inclusive", start |-> start, end |-> end]
exclusive(start, end) == [kind |-> "exclusive", start |-> start, end |-> end]

Filtering ==
    {[Named(<<lychee_toml([f \in there |-> TRUE])>>) EXCEPT !.cli = [f \in here |-> TRUE]] :
        here \in SUBSET Flags, there \in {{}, {"exclude_all_private", "include_mail"}}}
    \cup {With("offline" :> TRUE @@ "scheme" :> <<"https">>),
          Named(<<lychee_toml("offline" :> TRUE @@ "accept" :> <<inclusive({200}, {204})>>)>>),
          Named(<<lychee_toml("accept" :> <<inclusive({200}, {204}), single(404), inclusive({203}, {207})>>)>>),
          Named(<<lychee_toml("accept" :> <<single(200), single(99)>>)>>),
          In("Cargo.toml", cargo_toml(<<>>, <<"accept" :> <<exclusive({100}, {100})>>>>))}

MCParts ==
    {single(202), single(99), inclusive({200}, {204}), inclusive({100}, {300}),
     inclusive({198}, {203}), exclusive({205}, {207}), exclusive({206}, {}), exclusive({}, {101}),
     exclusive({}, {100}), exclusive({}, {0})}
Selecting ==
    {[With("dump_inputs" :> TRUE) EXCEPT !.accept = parts] :
        parts \in UNION {[1 .. n -> MCParts] : n \in 1 .. 3}}
    \cup {[Named(<<lychee_toml("accept" :> <<inclusive({300}, {301})>>)>>)
              EXCEPT !.accept = <<inclusive({200}, {204}), single(404)>>]}

MCLinks ==
    <<[host |-> "github.com", page |-> "markdown", fragment |-> "text"],
      [host |-> "youtu.be", page |-> "video", fragment |-> "none"],
      [host |-> "raw.githubusercontent.com", page |-> "file", fragment |-> "none"]>>
OtherLinks ==
    <<[host |-> "crates.io", page |-> "file", fragment |-> "none"],
      [host |-> "github.com", page |-> "markdown", fragment |-> "line"]>>

Sending ==
    {[Named(<<File1, File2, lychee_toml("hosts" :> h)>>) EXCEPT !.links = links, !.cli =
          "header" :> <<<<"x-key", "cli">>>>
          @@ "basic_auth" :> <<Selector("github.com", 2, <<"user", "pass">>)>>] :
        links \in {MCLinks, OtherLinks},
        h \in {None, "raw.githubusercontent.com" :> <<<<"x-key", "raw">>>>,
               "GitHub.com" :> <<<<"x-key", "spelled">>>>
               @@ "img.youtube.com" :> <<<<"user-agent", "thumb">>>>}}

\* A header that is given twice.
MCTwice ==
    {[Named(<<lychee_toml("header" :> <<<<"x-key", "file">>>>)>>) EXCEPT !.links = MCLinks,
          !.cli = "header" :> <<<<"x-key", "cli">>>>]}

MCSetups == {Bare} \cup Loading \cup Ending \cup Filtering \cup Selecting \cup Sending

=============================================================================
