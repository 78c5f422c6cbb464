------------------------------- MODULE RawUris -------------------------------
\* What the extractors of lychee-lib/src/extract share: the raw URIs they
\* return, the attributes that hold links, the elements that are verbatim, and
\* the searches in plain text and in CSS.
\*
\* A URL is one of the classes the extractors tell apart:
\*   "web"      https://example.com       "path"    ./page.html
\*   "email"    foo@example.com           "mailto"  mailto:foo@example.com
\*   "tel"      tel:123                   "virtual" /@global/x.css, @tailwind/x
\* and two links of one class are told apart by their spans, the number of the
\* event that brought them.  A text is the set of the URLs that occur in it.
\*
\* The value of an attribute is a record of what the extractors read of it:
\* urls, the URLs it holds (several in a srcset); rel, its parts between
\* commas, each the set of its words; id, the anchor it names.
EXTENDS Naturals, Sequences

None == "None"

\* ("malformed" marks a srcset that does not parse.)
UrlClasses == {"web", "path", "email", "mailto", "tel", "virtual", "malformed"}

RawUri(text, element, attribute, span) ==
  [text |-> text, element |-> element, attribute |-> attribute, span |-> span]

is_email_link(url) == url \in {"email", "mailto"}

is_verbatim_elem(name) ==
  name \in {"code", "kbd", "listing", "noscript", "plaintext", "pre", "samp",
            "script", "textarea", "var", "xmp"}

\* linkify finds URLs with a scheme and "//", and email addresses; in a mailto:
\* URL it finds the address.
find_links(urls) ==
  (urls \cap {"web"}) \cup {u \in {"email"} : urls \cap {"email", "mailto"} # {}}

extract_raw_uri_from_plaintext(urls, span) ==
  {RawUri(u, None, None, span) : u \in find_links(urls)}

\* The url() functions of a style sheet.
extract_css(urls, span) == {RawUri(u, "style", "url", span) : u \in urls}

\* One syntax error, and the srcset counts for nothing.
srcset_parse(urls) == IF "malformed" \in urls THEN {} ELSE urls

\* The attributes that hold a link, whatever the element or in some elements.
HoldsLink(elem, attr) ==
  \/ attr \in {"href", "src", "cite", "usemap"}
  \/ <<elem, attr>> \in
       {<<"applet", "codebase">>, <<"body", "background">>, <<"button", "formaction">>,
        <<"command", "icon">>, <<"form", "action">>, <<"frame", "longdesc">>,
        <<"head", "profile">>, <<"html", "manifest">>, <<"iframe", "longdesc">>,
        <<"img", "longdesc">>, <<"input", "formaction">>, <<"object", "classid">>,
        <<"object", "codebase">>, <<"object", "data">>, <<"video", "poster">>}

\* Email addresses count only as mailto: links in an href.
AcceptedUrl(attr, url) ==
  \/ ~is_email_link(url)
  \/ url \in {"mailto", "tel"} /\ attr = "href"

\* Of the attributes attrs of an element: those with a name.
AttributesNamed(attrs, name) == {a \in attrs : a.name = name}

Has(attrs, name) == \E a \in attrs : a.name = name

\* rel.contains(word)
RelContains(attrs, word) ==
  \E a \in AttributesNamed(attrs, "rel") : \E part \in a.rel : word \in part

-----------------------------------------------------------------------------
\* A tag whose links a reader would follow.
Followed(attrs) ==
  /\ \A w \in {"nofollow", "preconnect", "dns-prefetch"} : ~RelContains(attrs, w)
  /\ ~Has(attrs, "prefix")
  /\ RelContains(attrs, "stylesheet") =>
       /\ ~Has(attrs, "disabled")
       /\ \A a \in AttributesNamed(attrs, "href") : "virtual" \notin a.urls

\* The anchors of a tag with these attributes.
AnchorsOf(attrs) == {a.id : a \in {b \in attrs : b.name \in {"id", "name"} /\ b.id # <<>>}}

=============================================================================
