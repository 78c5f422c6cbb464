---------------------------- MODULE MCFileCheck ----------------------------
(* Two checks over a small site, in states that other programs bring about. *)
EXTENDS FileCheck

CONSTANTS c1, c2

MCSymmetry == Permutations({c1, c2})

web_page == <<"page">>
guide == <<"guide">>
HtmlNamed(n) == Append(n, "html")
MdNamed(n) == Append(n, "md")
IndexHtml == <<"index", "html">>

Dir == [kind |-> "dir", ids |-> {}, texts |-> {}, utf8 |-> FALSE]
Dangling == [Dir EXCEPT !.kind = "dangling"]
File(ids) == [kind |-> "file", ids |-> ids, texts |-> {}, utf8 |-> TRUE]
Page == [File({"a"}) EXCEPT !.texts = {"words"}]

\* Each path with what may be there: a page under three names, and a guide that
\* is a directory with or without an index file, beside a page of that name.
Base(p, q, g, i, m) ==
    <<HtmlNamed(web_page)>> :> p @@ <<web_page \o <<"en">> >> :> q
        @@ <<guide>> :> Dir @@ <<guide, IndexHtml>> :> i
        @@ <<HtmlNamed(guide)>> :> g @@ <<guide, MdNamed(web_page)>> :> m

MCPaths == {<<HtmlNamed(web_page)>>, <<web_page \o <<"en">> >>, <<guide>>, <<guide, IndexHtml>>,
            <<HtmlNamed(guide)>>, <<guide, MdNamed(web_page)>>}
Site == Base(Page, Dir, File({"b"}), File({"a"}), File({"b"}))
Without(v, ps) == [p \in DOMAIN v \ ps |-> v[p]]

MCFileSystems ==
    {Site,
     Without(Site, {<<guide, IndexHtml>>, <<HtmlNamed(web_page)>>}),
     [Without(Site, {<<HtmlNamed(web_page)>>}) EXCEPT ![<<guide, MdNamed(web_page)>>] = Dangling,
                                            ![<<guide, IndexHtml>>] = Dir],
     [Site EXCEPT ![<<HtmlNamed(web_page)>>].ids = {"b"}, ![<<guide, IndexHtml>>].utf8 = FALSE]}

MCLinks ==
    {[mapped |-> TRUE, path |-> p, id |-> i, texts |-> {}] :
         p \in {<<web_page>>, <<guide>>, <<guide, web_page>>}, i \in {"a"}}
      \cup {[mapped |-> TRUE, path |-> <<HtmlNamed(web_page)>>, id |-> i, texts |-> {}] :
               i \in {"a", "A", ""}}
      \cup {[mapped |-> FALSE, path |-> <<web_page>>, id |-> "", texts |-> {}],
            [mapped |-> TRUE, path |-> <<guide, web_page>>, id |-> "B", texts |-> {}],
            [mapped |-> TRUE, path |-> <<guide, <<>>>>, id |-> "", texts |-> {"words"}],
            [mapped |-> TRUE, path |-> <<HtmlNamed(web_page), <<>>>>, id |-> "", texts |-> {}]}

MCConfig(exts, names, wiki, anchors, text) ==
    [fallback_extensions |-> exts, index_files |-> names, wikilinks |-> wiki,
     check_anchor_fragments |-> anchors, check_text_fragments |-> text]

MCConfigs ==
    {MCConfig(e, n, w, TRUE, x) :
        e \in {<<>>, << <<"html">>, <<"md">> >>},
        n \in {<< <<>> >>, << <<IndexHtml>> >>, << <<IndexHtml>>, <<>> >>},
        w \in BOOLEAN, x \in BOOLEAN}
      \cup {MCConfig(<<>>, <<>>, FALSE, FALSE, FALSE)}

\* Text fragments only.
TextConfigs == {MCConfig(<<>>, <<<<>>>>, FALSE, FALSE, TRUE)}
TextLinks == {[mapped |-> TRUE, path |-> <<HtmlNamed(web_page)>>, id |-> "", texts |-> {"more"}]}

MCWikiBase == <<>>
MCDecoded == [i \in {"", "a", "A", "b", "B", "top", "%"} |-> IF i = "%" THEN "error" ELSE i]
MCLower == [i \in DOMAIN MCDecoded |-> CASE i = "A" -> "a" [] i = "B" -> "b" [] OTHER -> i]
=============================================================================
