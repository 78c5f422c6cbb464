------------------------------ MODULE MCExtract ------------------------------
\* Pages of links, verbatim elements and a style sheet; documents of every kind
\* of Markdown event, with a tag written in one piece and in two.
EXTENDS Extract

Attr(name, urls, rel, id) == [name |-> name, urls |-> urls, rel |-> rel, id |-> id]

Href == Attr("href", {"web"}, {}, <<>>)
NoFollow == Attr("rel", {}, {{"nofollow"}}, <<>>)
Id(n) == Attr("id", {}, {}, <<n>>)

MCElements == {"a", "link", "pre", "code", "style"}
MCAttributesOf == [e \in MCElements |->
  CASE e = "a"    -> {Href, Attr("href", {"email"}, {}, <<>>), Attr("title", {"web"}, {}, <<>>),
                      Attr("rel", {}, {{"noopener"}, {"nofollow"}}, <<>>),
                      Attr("rel", {}, {{"noopener", "nofollow"}}, <<>>)}
    [] e = "link" -> {Attr("href", {"path"}, {}, <<>>), Attr("disabled", {}, {}, <<>>),
                      Attr("rel", {}, {{"stylesheet"}}, <<>>)}
    [] e = "code" -> {Id(50)}
    [] OTHER      -> {}]
MCContents == {{"web"}}

Event(event, name, attr) == [event |-> event, name |-> name, attr |-> attr]

MCTexts == { [urls |-> {"web"}, slug |-> <<60>>], [urls |-> {}, slug |-> <<1>>] }
MCPieces == { <<Event("OpenStartTag", "a", Href), Event("Attribute", "", Href),
                Event("Attribute", "", Id(70)), Event("CloseStartTag", "", Href),
                Event("OpenStartTag", "a", Href), Event("Attribute", "", NoFollow),
                Event("Attribute", "", Id(75)), Event("CloseStartTag", "", Href)>>,
              <<Event("OpenStartTag", "a", Href)>>,
              <<Event("Attribute", "", Id(80)), Event("Attribute", "", Href),
                Event("CloseStartTag", "", Href)>> }
MCTargets == {"web", "email"}
MCPages == {"path", "TOC"}
MCHeadingIds == {<<>>, <<90>>}

=============================================================================
