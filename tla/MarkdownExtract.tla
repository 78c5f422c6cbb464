---------------------------- MODULE MarkdownExtract --------------------------
\* extract/markdown.rs: the links and the anchors of a Markdown document, read
\* off pulldown_cmark's events by two loops that carry flags from one event to
\* the next.  The document is written event by event, nested as CommonMark
\* nests it: code blocks hold text, HTML blocks hold pieces of HTML (a line
\* each, so that a tag may be spread over several), links hold no links but
\* autolinks.
EXTENDS Html5gum

CONSTANTS
  Texts,      \* runs of text: [urls, the URLs in it; slug, its kebab case]
  Pieces,     \* pieces of HTML: the sequence of what a piece holds
  Targets,    \* the classes of the URLs links and images lead to
  Pages,      \* the targets of wikilinks; "TOC" and "" are special
  HeadingIds, \* the ids heading attributes give
  MaxEvents,  \* the document ends after so many events
  MaxDepth    \* and is nested so deep

\* A slug is a sequence of numbers: "-1" is 1, and other words are greater
\* numbers than any document has headings.
NoId == <<>>
NoText == [empty |-> TRUE, slug |-> <<>>]
Pushed(heading, t) == [empty |-> FALSE, slug |-> heading.slug \o t.slug]

\* What html5gum's tokenizer makes of any text: in a tag there is nothing but its
\* attributes, up to its end or the end of the piece.
IsPiece(html) ==
  /\ html \in Seq({html[i] : i \in DOMAIN html})
  /\ \A i \in DOMAIN html :
       /\ "event" \in DOMAIN html[i]
       /\ html[i].event \in {"OpenStartTag", "Attribute", "CloseStartTag", "EndTag", "String"}
       /\ InTag(html, i) => html[i].event \in {"Attribute", "CloseStartTag"}

ASSUME MarkdownAssumption ==
  /\ \A t \in Texts : t.slug \in Seq(Nat)
  /\ HeadingIds \subseteq Seq(Nat)
  /\ \A html \in Pieces : IsPiece(html)

LinkTypes == {"Inline", "Reference", "Autolink", "Email", "WikiLink"}
LinkKinds == LinkTypes \cup {"PlainWikiLink"}
Autolinks == {"Autolink", "Email"}
LabelKinds == LinkKinds \ Autolinks   \* links with a label of running text

VARIABLES
  text,   \* what has been written, and what a reader would want extracted
  md,     \* the locals of extract_markdown
  frags,  \* the locals of extract_markdown_fragments
  counter \* its HeadingIdGenerator

markdownVars == <<text, md, frags, counter>>

\* text.n         events so far
\* text.within    the containers the next event stands in, outermost first
\* text.block     the HTML block being written;  text.start: where it starts
\* text.heading   the text of the heading being written;  text.id: its attribute
\* text.wanted    the links to be extracted;  text.anchors: the anchors
\* text.headings  the headings so far, with their slugs and ids
\* text.cut       an autolink has ended in the link label being written
\* text.odd       the URLs in the texts of labels after an autolink
\* text.passed    the anchors of tags whose links are not to be followed
MarkdownInit ==
  \E include_verbatim, include_wikilinks \in BOOLEAN :
    /\ text = [n |-> 0, within |-> <<>>, block |-> <<>>, start |-> 0, heading |-> NoText, id |-> NoId,
               wanted |-> {}, anchors |-> {}, headings |-> {}, cut |-> FALSE, odd |-> {},
               passed |-> {}]
    /\ md = [include_verbatim |-> include_verbatim, include_wikilinks |-> include_wikilinks,
             inside_code_block |-> FALSE, inside_link_label |-> FALSE,
             inside_extracted_link |-> FALSE, inside_html_block |-> FALSE,
             html_block_buffer |-> <<>>, html_block_start_offset |-> 0, links |-> {}]
    /\ frags = [in_heading |-> FALSE, heading_text |-> NoText,
                heading_id |-> NoId, out |-> {}]
    /\ counter = [s \in {} |-> 0]

Inside(containers, kinds) == \E i \in DOMAIN containers : containers[i] \in kinds
Within(kinds) == Inside(text.within, kinds)

\* Running text: paragraphs, headings, link labels and image descriptions.
Running == ~Within({"CodeBlock", "HtmlBlock"}) /\ ~Within(Autolinks)

MoreEvents == text.n < MaxEvents

Enter(kind) == Append(text.within, kind)
Leave(kinds) == text.within # <<>> /\ Last(text.within) \in kinds

raw_uri(dest_url, span) == {RawUri(dest_url, "a", "href", span)}
extract_image(dest_url, span) == {RawUri(dest_url, "img", "src", span)}

\* Without --include-wikilinks they are plain text; a table of contents is no
\* link, nor is a wikilink that only has a fragment or a label.
wikilinks(dest_url, span) ==
  IF dest_url \in {"TOC", ""} THEN {} ELSE {RawUri(dest_url, "a", "wikilink", span)}

-----------------------------------------------------------------------------
\* What a reader would want of the run of text t.
WantedText(t) ==
  IF \/ Within({"Autolink", "Email", "WikiLink"})
     \/ ~md.include_verbatim /\ Within({"Inline", "Reference", "CodeBlock"})
  THEN {} ELSE extract_raw_uri_from_plaintext(t.urls, text.n)

Write(within, wanted) ==
  text' = [text EXCEPT !.n = @ + 1, !.within = within, !.wanted = @ \cup wanted]

StartLink(link_type, dest_url) ==
  /\ MoreEvents /\ Running /\ Len(text.within) < MaxDepth
  /\ ~Within(LinkKinds) \/ link_type \in Autolinks
  /\ \/ /\ link_type \in {"Inline", "Reference"} /\ dest_url \in Targets
        /\ md' = [md EXCEPT !.inside_link_label = TRUE, !.links = @ \cup raw_uri(dest_url, text.n)]
        /\ Write(Enter(link_type), raw_uri(dest_url, text.n))
     \/ /\ <<link_type, dest_url>> \in {<<"Autolink", "web">>, <<"Email", "email">>}
        /\ LET found == extract_raw_uri_from_plaintext({dest_url}, text.n)
           IN /\ md' = [md EXCEPT !.inside_extracted_link = TRUE, !.links = @ \cup found]
              /\ Write(Enter(link_type), {RawUri(dest_url, None, None, text.n)})
     \/ /\ link_type = "WikiLink" /\ dest_url \in Pages /\ md.include_wikilinks
        /\ md' = [md EXCEPT !.inside_extracted_link = TRUE,
                            !.links = @ \cup wikilinks(dest_url, text.n)]
        /\ Write(Enter(link_type), {l \in {RawUri(dest_url, "a", "wikilink", text.n)} :
                                      dest_url \notin {"TOC", ""}})
     \/ /\ link_type = "WikiLink" /\ dest_url \in Pages /\ ~md.include_wikilinks
        /\ UNCHANGED md
        /\ Write(Enter("PlainWikiLink"), {})
  /\ UNCHANGED <<frags, counter>>

WriteEndLink ==
  text' = [text EXCEPT !.n = @ + 1, !.within = Front(@),
                       !.cut = Inside(Front(text.within), LinkKinds)]

\* mutant: inside_extracted_link is left behind.
EndLinkLabel ==
  /\ MoreEvents /\ Leave(LinkKinds)
  /\ md' = [md EXCEPT !.inside_link_label = FALSE]
  /\ WriteEndLink
  /\ UNCHANGED <<frags, counter>>

EndLink ==
  /\ MoreEvents /\ Leave(LinkKinds)
  /\ md' = [md EXCEPT !.inside_link_label = FALSE, !.inside_extracted_link = FALSE]
  /\ WriteEndLink
  /\ UNCHANGED <<frags, counter>>

StartImage(dest_url) ==
  /\ MoreEvents /\ Running /\ Len(text.within) < MaxDepth
  /\ md' = [md EXCEPT !.links = @ \cup extract_image(dest_url, text.n)]
  /\ Write(Enter("Image"), extract_image(dest_url, text.n))
  /\ UNCHANGED <<frags, counter>>

EndImage ==
  /\ MoreEvents /\ Leave({"Image"})
  /\ Write(Front(text.within), {})
  /\ UNCHANGED <<md, frags, counter>>

StartCodeBlock ==
  /\ MoreEvents /\ text.within = <<>>
  /\ md' = [md EXCEPT !.inside_code_block = TRUE]
  /\ Write(Enter("CodeBlock"), {})
  /\ UNCHANGED <<frags, counter>>

EndCodeBlock ==
  /\ MoreEvents /\ Leave({"CodeBlock"})
  /\ md' = [md EXCEPT !.inside_code_block = FALSE]
  /\ Write(Front(text.within), {})
  /\ UNCHANGED <<frags, counter>>

\* The text of a heading is gathered by the other loop.
heading_push(t) ==
  /\ frags' = [frags EXCEPT !.heading_text =
                 IF frags.in_heading THEN Pushed(@, t) ELSE @]
  /\ UNCHANGED counter

WriteRun(t, wanted, odd) ==
  text' = [text EXCEPT !.n = @ + 1, !.wanted = @ \cup wanted, !.odd = @ \cup odd,
                       !.heading = IF Within({"Heading"}) THEN Pushed(@, t) ELSE @]

Text(t) ==
  /\ MoreEvents /\ ~Within({"HtmlBlock"})
  /\ md' = IF \/ md.inside_extracted_link
              \/ md.inside_link_label /\ ~md.include_verbatim
              \/ md.inside_code_block /\ ~md.include_verbatim
           THEN md
           ELSE [md EXCEPT !.links = @ \cup extract_raw_uri_from_plaintext(t.urls, text.n)]
  /\ WriteRun(t, WantedText(t), {l \in extract_raw_uri_from_plaintext(t.urls, text.n) : text.cut})
  /\ heading_push(t)

\* An inline code node.
Code(t) ==
  /\ MoreEvents /\ Running
  /\ md' = IF md.include_verbatim
           THEN [md EXCEPT !.links = @ \cup extract_raw_uri_from_plaintext(t.urls, text.n)]
           ELSE md
  /\ WriteRun(t, {l \in extract_raw_uri_from_plaintext(t.urls, text.n) : md.include_verbatim}, {})
  /\ heading_push(t)

\* The tags of a piece of HTML that begin and end in it: their attributes.
TagsOf(html) ==
  { {html[k].attr : k \in p[1] + 1 .. p[2] - 1} :
      p \in {q \in (DOMAIN html) \X (DOMAIN html) :
               /\ html[q[1]].event = "OpenStartTag" /\ html[q[2]].event = "CloseStartTag"
               /\ \A k \in q[1] + 1 .. q[2] - 1 : html[k].event = "Attribute"} }

HtmlAnchors(html) == UNION {AnchorsOf(attrs) : attrs \in TagsOf(html)}
LostAnchors(html) == UNION {AnchorsOf(attrs) : attrs \in {t \in TagsOf(html) : ~Followed(t)}}

StartHtmlBlock ==
  /\ MoreEvents /\ text.within = <<>>
  /\ md' = [md EXCEPT !.inside_html_block = TRUE, !.html_block_buffer = <<>>,
                      !.html_block_start_offset = text.n]
  /\ text' = [text EXCEPT !.n = @ + 1, !.within = Enter("HtmlBlock"),
                          !.block = <<>>, !.start = text.n]
  /\ UNCHANGED <<frags, counter>>

Html(piece) ==
  /\ MoreEvents /\ (text.within = <<>> \/ Leave({"HtmlBlock"}))
  /\ md' = IF md.inside_html_block
           THEN [md EXCEPT !.html_block_buffer = @ \o piece]
           ELSE [md EXCEPT !.links =
                   @ \cup extract_html_with_span(piece, md.include_verbatim, text.n)]
  /\ frags' = [frags EXCEPT !.out = @ \cup extract_html_fragments(piece)]
  /\ UNCHANGED counter
  /\ text' = [text EXCEPT
       !.n = @ + 1,
       !.block = IF Within({"HtmlBlock"}) THEN @ \o piece ELSE @,
       !.wanted = IF Within({"HtmlBlock"}) THEN @
                  ELSE @ \cup extract_html_with_span(piece, md.include_verbatim, text.n),
       !.anchors = @ \cup HtmlAnchors(piece), !.passed = @ \cup LostAnchors(piece)]

EndHtmlBlock ==
  /\ MoreEvents /\ Leave({"HtmlBlock"})
  /\ md' = [md EXCEPT
       !.inside_html_block = FALSE,
       !.links = IF md.html_block_buffer = <<>> THEN @
                 ELSE @ \cup extract_html_with_span(md.html_block_buffer, md.include_verbatim,
                                                    md.html_block_start_offset)]
  /\ text' = [text EXCEPT
       !.n = @ + 1, !.within = Front(@),
       !.wanted = IF text.block = <<>> THEN @
                  ELSE @ \cup extract_html_with_span(text.block, md.include_verbatim, text.start)]
  /\ UNCHANGED <<frags, counter>>

\* An inline tag is a piece of its own.
InlineHtml(piece) ==
  /\ MoreEvents /\ Running
  /\ LET found == extract_html_with_span(piece, md.include_verbatim, text.n)
     IN /\ md' = [md EXCEPT !.links = @ \cup found]
        /\ text' = [text EXCEPT !.n = @ + 1, !.wanted = @ \cup found,
                                !.anchors = @ \cup HtmlAnchors(piece),
                                !.passed = @ \cup LostAnchors(piece)]
  /\ frags' = [frags EXCEPT !.out = @ \cup extract_html_fragments(piece)]
  /\ UNCHANGED counter

-----------------------------------------------------------------------------
StartHeading(id) ==
  /\ MoreEvents /\ text.within = <<>>
  /\ text' = [text EXCEPT !.n = @ + 1, !.within = Enter("Heading"), !.heading = NoText, !.id = id]
  /\ frags' = [frags EXCEPT !.heading_id = id, !.in_heading = TRUE]
  /\ UNCHANGED <<md, counter>>

\* HeadingIdGenerator: the id of the heading, and the counter after it.
Count(slug) == IF slug \in DOMAIN counter THEN counter[slug] ELSE 0

generate_numbered(slug) == Append(slug, Count(slug))      \* mutant

generate(slug) == IF Count(slug) = 0 THEN slug ELSE Append(slug, Count(slug))

\* mutant: the first occurrence is not counted.
CountedLate(slug) ==
  [s \in DOMAIN counter \cup {slug} |-> IF s = slug THEN Count(slug) ELSE counter[s]]

Counted(slug) ==
  [s \in DOMAIN counter \cup {slug} |-> IF s = slug THEN Count(slug) + 1 ELSE counter[s]]

EndHeading ==
  LET heading == frags.heading_text
      named == {i \in {frags.heading_id} : i # NoId}
  IN /\ MoreEvents /\ Leave({"Heading"})
     /\ frags' = IF heading.empty
                 THEN [frags EXCEPT !.heading_id = NoId, !.in_heading = FALSE,
                                    !.out = @ \cup named]
                 ELSE [frags EXCEPT !.heading_id = NoId, !.in_heading = FALSE,
                                    !.heading_text = NoText,
                                    !.out = @ \cup named \cup {generate(heading.slug)}]
     /\ counter' = IF heading.empty THEN counter ELSE Counted(heading.slug)
     /\ text' = [text EXCEPT
          !.n = @ + 1, !.within = Front(@),
          !.anchors = @ \cup {i \in {text.id} : i # NoId}
                        \cup {s \in {text.heading.slug} : ~text.heading.empty},
          !.headings = IF text.heading.empty THEN @
                       ELSE @ \cup {[at |-> text.n, slug |-> text.heading.slug,
                                     id |-> generate(heading.slug)]}]
     /\ UNCHANGED md

MarkdownNext ==
  \/ \E link_type \in LinkTypes, dest_url \in Targets \cup Pages : StartLink(link_type, dest_url)
  \/ EndLink
  \/ \E dest_url \in Targets : StartImage(dest_url)
  \/ EndImage
  \/ StartCodeBlock \/ EndCodeBlock
  \/ \E t \in Texts : Text(t) \/ Code(t)
  \/ StartHtmlBlock \/ EndHtmlBlock
  \/ \E piece \in Pieces : Html(piece) \/ InlineHtml(piece)
  \/ \E id \in HeadingIds : StartHeading(id)
  \/ EndHeading

-----------------------------------------------------------------------------
Containers == LinkKinds \cup {"Image", "CodeBlock", "HtmlBlock", "Heading"}
Slugs == Seq(Nat)
Headline == [empty : BOOLEAN, slug : Slugs]

\* (The fields are those the extractors give; what a fold over HTML returns is
\* not typed.)
MarkdownTypeOK ==
  /\ DOMAIN text = {"n", "within", "block", "start", "heading", "id", "wanted", "anchors",
                     "headings", "cut", "odd", "passed"}
  /\ DOMAIN md = {"include_verbatim", "include_wikilinks", "inside_code_block",
                   "inside_link_label", "inside_extracted_link", "inside_html_block",
                   "html_block_buffer", "html_block_start_offset", "links"}
  /\ DOMAIN frags = {"in_heading", "heading_text", "heading_id", "out"}
  /\ text.n \in Nat /\ text.within \in Seq(Containers)
  /\ text.start \in Nat /\ text.heading \in Headline /\ text.id \in Slugs
  /\ \A h \in text.headings : h \in [at : Nat, slug : Slugs, id : Slugs]
  /\ DOMAIN counter \subseteq Slugs /\ \A s \in DOMAIN counter : counter[s] \in Nat \ {0}

\* Blocks hold no blocks, and links no links but autolinks.
Nested(s) ==
  \A i \in DOMAIN s :
    /\ s[i] \in {"CodeBlock", "HtmlBlock"} => Len(s) = 1
    /\ s[i] = "Heading" => i = 1
    /\ \A j \in DOMAIN s : i < j /\ s[i] \in LinkKinds /\ s[j] \in LinkKinds
                            => s[i] \in LabelKinds /\ s[j] \in Autolinks

\* The flags say what the next event stands in, up to an autolink in a label.
FlagsRight ==
  /\ md.inside_code_block = Within({"CodeBlock"})
  /\ md.inside_html_block = Within({"HtmlBlock"})
  /\ md.inside_link_label = (Within({"Inline", "Reference"}) /\ ~text.cut)
  /\ md.inside_extracted_link = (Within(Autolinks) \/ (Within({"WikiLink"}) /\ ~text.cut))
  /\ text.cut \in BOOLEAN /\ (text.cut => Within(LabelKinds))
  /\ md.inside_html_block => /\ md.html_block_buffer = text.block
                             /\ md.html_block_start_offset = text.start
  /\ frags.in_heading = Within({"Heading"})
  /\ text.heading.empty => text.heading = NoText
  /\ IF frags.in_heading
     THEN frags.heading_text = text.heading /\ frags.heading_id = text.id
     ELSE frags.heading_text = NoText /\ frags.heading_id = NoId

\* The id of a heading is its slug, with a number the counter has passed.
IdsCounted ==
  \A h \in text.headings :
    /\ h.at < text.n /\ h.slug \in DOMAIN counter
    /\ \/ h.id = h.slug
       \/ \E k \in 1 .. counter[h.slug] - 1 : h.id = Append(h.slug, k)

-----------------------------------------------------------------------------
\* Every link of the document is returned once, at its place, and nothing of
\* what is verbatim: the flags of extract_markdown say at every event what the
\* event stands in, and leave nothing behind.  One oddity: the end of an
\* autolink in a label clears the flags of the link around it
\* (markdown.rs:203-206), and what follows in the label may be returned as well.
MarkdownLinks == text.wanted \subseteq md.links /\ md.links \subseteq text.wanted \cup text.odd

\* The anchors of headings, and of tags within one piece of HTML, can be linked
\* to.  One oddity: of a tag whose links are passed over (nofollow, a prefix, a
\* disabled style sheet) the ids are lost with them (html5gum.rs:161-173).
MarkdownAnchors == text.anchors \subseteq frags.out \cup text.passed

\* Headings with the same text get different ids, and all of them are known.
HeadingsTellApart ==
  \A g, h \in text.headings :
    /\ g.id \in frags.out
    /\ g.at # h.at /\ g.slug = h.slug => g.id # h.id

MarkdownInv ==
  /\ MarkdownTypeOK /\ Nested(text.within) /\ FlagsRight /\ IdsCounted
  /\ MarkdownLinks /\ HeadingsTellApart

=============================================================================
