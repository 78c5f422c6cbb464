------------------------------- MODULE Html5gum ------------------------------
\* extract/html/html5gum.rs: the default HTML link extractor, a state machine
\* over the tokenizer's events.  An extractor is a record with the fields of
\* struct LinkExtractor; every operator below returns the record after one
\* event (links and attributes are sets: their order is of no consequence).
EXTENDS RawUris, SequencesExt

LinkExtractor(include_verbatim) ==
  [include_verbatim |-> include_verbatim, links |-> {}, fragments |-> {},
   current_element |-> "", current_attributes |-> {}, current_attribute_name |-> "",
   verbatim_stack |-> <<>>, in_style_tag |-> FALSE, style_content |-> {}]

filter_verbatim_always(g) ==      \* mutant: include_verbatim is not looked at
  is_verbatim_elem(g.current_element) \/ g.verbatim_stack # <<>>

filter_verbatim_here(g) ==
  ~g.include_verbatim /\ (is_verbatim_elem(g.current_element) \/ g.verbatim_stack # <<>>)

extract_urls_from_elem_attr(g, span) ==
  UNION { {RawUri(u, g.current_element, a.name, span) :
             u \in IF a.name = "srcset" THEN srcset_parse(a.urls)
                   ELSE IF HoldsLink(g.current_element, a.name) THEN a.urls ELSE {}}
          : a \in g.current_attributes }

\* A part of rel between two commas must be the word and nothing else.
UnfollowedRel(attrs) ==
  \E a \in AttributesNamed(attrs, "rel"), w \in {"nofollow", "preconnect", "dns-prefetch"} :
    {w} \in a.rel

IsStylesheet(attrs) ==
  \E a \in AttributesNamed(attrs, "rel") : \E part \in a.rel : "stylesheet" \in part

UnusedStylesheet(g) ==
  /\ IsStylesheet(g.current_attributes)
  /\ \/ \E a \in AttributesNamed(g.current_attributes, "href") : "virtual" \in a.urls
     \/ g.current_attribute_name = "disabled"
     \/ Has(g.current_attributes, "disabled")

PassedOver(g) ==
  \/ filter_verbatim_here(g)
  \/ UnfollowedRel(g.current_attributes)
  \/ Has(g.current_attributes, "prefix")
  \/ UnusedStylesheet(g)

AcceptedLinks(g, span) ==
  {l \in extract_urls_from_elem_attr(g, span) : AcceptedUrl(l.attribute, l.text)}

AnchorNames(g) ==
  {a.id : a \in UNION {AttributesNamed(g.current_attributes, n) : n \in {"id", "name"}}}

flush_links_used(g, span) ==      \* mutant: attributes passed over are kept
  IF PassedOver(g)
  THEN g
  ELSE [g EXCEPT !.links = @ \cup AcceptedLinks(g, span),
                 !.fragments = @ \cup AnchorNames(g),
                 !.current_attributes = {}]

flush_links(g, span) ==
  IF PassedOver(g)
  THEN [g EXCEPT !.current_attributes = {}]
  ELSE [g EXCEPT !.links = @ \cup AcceptedLinks(g, span),
                 !.fragments = @ \cup AnchorNames(g),
                 !.current_attributes = {}]

\* Leave the innermost verbatim element, if it is called name.
LeaveVerbatim(g, name) ==
  IF g.verbatim_stack # <<>> /\ Last(g.verbatim_stack) = name
  THEN [g EXCEPT !.verbatim_stack = Front(@)]
  ELSE g

OpenStartTag(g, name) ==
  LET h == [g EXCEPT !.current_element = name,
                     !.in_style_tag = @ \/ name = "style",
                     !.style_content = IF name = "style" THEN {} ELSE @]
  IN IF filter_verbatim_here(h) /\ is_verbatim_elem(name)
     THEN [h EXCEPT !.verbatim_stack = Append(@, name)]
     ELSE h

\* AttributeName and, when the tokenizer tells of a value, AttributeValue.
Attribute(g, a, told) ==
  [g EXCEPT !.current_attribute_name = a.name,
            !.current_attributes = IF told THEN @ \cup {a} ELSE @]

CloseStartTag(g, self_closing, span) ==
  LET h == flush_links(g, span)
  IN IF self_closing /\ filter_verbatim_here(h)
     THEN LeaveVerbatim(h, h.current_element)
     ELSE h

EndTag(g, name) ==
  LET h == IF name = "style" /\ g.in_style_tag
           THEN [g EXCEPT !.in_style_tag = FALSE,
                          !.links = @ \cup g.style_content,
                          !.style_content = {}]
           ELSE g
  IN IF h.include_verbatim THEN h ELSE LeaveVerbatim(h, name)

String(g, urls, span) ==
  IF g.in_style_tag
  THEN [g EXCEPT !.style_content = @ \cup extract_css(urls, span)]
  ELSE IF filter_verbatim_here(g) THEN g
  ELSE [g EXCEPT !.links = @ \cup extract_raw_uri_from_plaintext(urls, span)]

\* An event of a piece of HTML: its kind, and the parts that kind has.
handle_event(g, e, span) ==
  CASE e.event = "OpenStartTag"  -> OpenStartTag(g, e.name)
    [] e.event = "Attribute"     -> Attribute(g, e.attr, TRUE)
    [] e.event = "CloseStartTag" -> CloseStartTag(g, FALSE, span)
    [] e.event = "EndTag"        -> EndTag(g, e.name)
    [] e.event = "String"        -> String(g, e.attr.urls, span)

\* An attribute or a ">" is one only within a start tag.
InTag(html, i) ==
  \E j \in 1 .. i - 1 : /\ html[j].event = "OpenStartTag"
                        /\ \A k \in j + 1 .. i - 1 : html[k].event = "Attribute"

\* The tokenizer's events for a piece of HTML: what looks like an attribute and
\* stands in no tag is text.
Tokenizer(html) ==
  [i \in DOMAIN html |->
     IF html[i].event \in {"Attribute", "CloseStartTag"} /\ ~InTag(html, i)
     THEN [html[i] EXCEPT !.event = "String"]
     ELSE html[i]]

Tokenized(html, include_verbatim, span) ==
  FoldLeft(LAMBDA g, e : handle_event(g, e, span), LinkExtractor(include_verbatim),
           Tokenizer(html))

\* Links in plain text are kept only on request.
extracted(g) == {l \in g.links : l.attribute # None \/ g.include_verbatim}

extract_html_with_span(html, include_verbatim, span) ==
  extracted(Tokenized(html, include_verbatim, span))

extract_html_fragments(html) == Tokenized(html, TRUE, 0).fragments

=============================================================================
