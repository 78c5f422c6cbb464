------------------------------- MODULE Html5ever -----------------------------
\* extract/html/html5ever.rs: the alternative HTML link extractor, which sees
\* whole tags.  An extractor is a record with the fields of its struct.
EXTENDS RawUris

Html5everExtractor(include_verbatim) ==
  [include_verbatim |-> include_verbatim, links |-> {},
   current_verbatim_element_name |-> None, in_style_tag |-> FALSE, style_content |-> {}]

\* A style sheet's URLs are looked at one by one.
SkippedUrl(attrs, url) ==
  RelContains(attrs, "stylesheet") /\ (url = "virtual" \/ Has(attrs, "disabled"))

\* The links of one attribute; an attribute that holds none is searched as text.
LinksOf(name, attrs, a, span) ==
  IF a.name = "srcset" \/ HoldsLink(name, a.name)
  THEN {RawUri(u, name, a.name, span) :
          u \in {v \in IF a.name = "srcset" THEN srcset_parse(a.urls) ELSE a.urls :
                   ~SkippedUrl(attrs, v) /\ AcceptedUrl(a.name, v)}}
  ELSE extract_raw_uri_from_plaintext(a.urls, span)

\* <style> and </style>, in whatever element.
process_style(e, kind) ==
  IF kind = "StartTag"
  THEN [e EXCEPT !.in_style_tag = TRUE, !.style_content = {}]
  ELSE [e EXCEPT !.in_style_tag = FALSE, !.links = @ \cup e.style_content, !.style_content = {}]

\* mutant: any verbatim end tag ends it.
process_verbatim_any(e, kind, name) ==
  IF kind = "EndTag"
  THEN [e EXCEPT !.current_verbatim_element_name = None]
  ELSE IF e.current_verbatim_element_name # None THEN e
  ELSE [e EXCEPT !.current_verbatim_element_name = name]

\* The outermost verbatim element is remembered; its next end tag ends it.
process_verbatim(e, kind, name) ==
  IF e.current_verbatim_element_name # None
  THEN IF e.current_verbatim_element_name = name /\ kind = "EndTag"
       THEN [e EXCEPT !.current_verbatim_element_name = None]
       ELSE e
  ELSE IF kind = "StartTag" THEN [e EXCEPT !.current_verbatim_element_name = name] ELSE e

process_tag(e, kind, name, attrs, span) ==
  LET s == IF name = "style" THEN process_style(e, kind) ELSE e
      v == IF ~s.include_verbatim /\ is_verbatim_elem(name)
           THEN process_verbatim(s, kind, name) ELSE s
  IN IF \/ v.current_verbatim_element_name # None
        \/ \E w \in {"nofollow", "preconnect", "dns-prefetch"} : RelContains(attrs, w)
        \/ Has(attrs, "prefix")
     THEN v
     ELSE [v EXCEPT !.links = @ \cup UNION {LinksOf(name, attrs, a, span) : a \in attrs}]

CharacterTokens(e, urls, span) ==
  IF e.in_style_tag
  THEN [e EXCEPT !.style_content = @ \cup extract_css(urls, span)]
  ELSE IF e.current_verbatim_element_name # None \/ ~e.include_verbatim THEN e
  ELSE [e EXCEPT !.links = @ \cup extract_raw_uri_from_plaintext(urls, span)]

=============================================================================
