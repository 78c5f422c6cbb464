----------------------------- MODULE ExtractProofs ---------------------------
\* Proofs about Extract, for all elements, attributes, texts and documents: the
\* links html5gum returns of a page, the two HTML engines' agreement, the links
\* of a Markdown document, the ids of its headings and its anchors.
EXTENDS Extract, SequenceTheorems, WellFoundedInduction, TLAPS

(* What taking the last element off a sequence leaves *)

\* Front and Last of a sequence of any elements.
LEMMA FrontLast ==
    ASSUME NEW S, NEW s \in Seq(S), s # <<>>
    PROVE  /\ Front(s) \in Seq(S) /\ Last(s) \in S
           /\ Len(Front(s)) = Len(s) - 1
           /\ \A i \in 1 .. Len(s) - 1 : Front(s)[i] = s[i]
<1>1. Len(s) \in Nat \ {0}
  BY EmptySeq
<1>2. \A i \in 1 .. Len(s) : s[i] \in S
  BY ElementOfSeq
<1>3. \A i \in 1 .. Len(s) - 1 : s[i] \in S
  BY <1>1, <1>2
<1> DEFINE n == Len(s) - 1
           f == SubSeq(s, 1, n)
<1>4. /\ f \in Seq(S) /\ Len(f) = IF 1 <= n THEN n - 1 + 1 ELSE 0
      /\ \A i \in 1 .. n - 1 + 1 : f[i] = s[1 + i - 1]
  BY <1>1, <1>3, SubSeqProperties
<1> HIDE DEF f
<1>5. /\ f \in Seq(S) /\ Len(f) = Len(s) - 1
      /\ \A i \in 1 .. Len(s) - 1 : f[i] = s[i]
  <2>1. n - 1 + 1 = n /\ n \in Nat /\ \A i \in 1 .. n : 1 + i - 1 = i
    BY <1>1
  <2> HIDE DEF n
  <2>2. f \in Seq(S) /\ Len(f) = n
    BY <1>4, <2>1
  <2>3. ASSUME NEW i \in 1 .. n PROVE f[i] = s[i]
    <3>1. f[i] = s[1 + i - 1] /\ 1 + i - 1 = i
      BY <1>4, <2>1
    <3>2. QED
      BY <3>1
  <2>4. QED
    BY <2>2, <2>3 DEF n
<1>6. Last(s) \in S
  BY <1>1, <1>2 DEF Last
<1>7. QED
  BY <1>5, <1>6 DEF Front, f

\* Taking a name off and putting one on.
LEMMA FrontAppend ==
    ASSUME NEW S, NEW s \in Seq(S), NEW e \in S
    PROVE  /\ s \o <<e>> \in Seq(S) /\ s \o <<e>> # <<>>
           /\ Last(s \o <<e>>) = e /\ Front(s \o <<e>>) = s
<1> DEFINE r == s \o <<e>>
<1>1. <<e>> \in Seq(S) /\ Len(<<e>>) = 1 /\ <<e>>[1] = e /\ Len(s) \in Nat
  BY LenProperties
<1>2. /\ r \in Seq(S) /\ Len(r) = Len(s) + 1
      /\ \A i \in 1 .. Len(s) + 1 : r[i] = IF i <= Len(s) THEN s[i] ELSE <<e>>[i - Len(s)]
  BY <1>1, ConcatProperties
<1>3. r # <<>>
  BY <1>1, <1>2, EmptySeq
<1> HIDE DEF r
<1>4. /\ Front(r) \in Seq(S) /\ Len(Front(r)) = Len(r) - 1
      /\ \A i \in 1 .. Len(r) - 1 : Front(r)[i] = r[i]
  BY <1>2, <1>3, FrontLast
<1>5. Len(Front(r)) = Len(s) /\ \A i \in 1 .. Len(s) : Front(r)[i] = s[i]
  BY <1>1, <1>2, <1>4
<1>6. Front(r) = s
  BY <1>4, <1>5, SeqEqual
<1>7. Last(r) = e
  BY <1>1, <1>2 DEF Last
<1>8. QED
  BY <1>2, <1>3, <1>6, <1>7 DEF r
-----------------------------------------------------------------------------

-----------------------------------------------------------------------------
\* The events of html5gum, field by field.

\* A start tag is opened: the element is on the stack if it is verbatim and
\* verbatim elements are left out.
LEMMA GumOpens ==
  ASSUME NEW g \in GumState, NEW name \in Elements
  PROVE  /\ OpenStartTag(g, name) \in GumState
         /\ OpenStartTag(g, name).include_verbatim = g.include_verbatim
         /\ OpenStartTag(g, name).links = g.links
         /\ OpenStartTag(g, name).fragments = g.fragments
         /\ OpenStartTag(g, name).current_element = name
         /\ OpenStartTag(g, name).current_attributes = g.current_attributes
         /\ OpenStartTag(g, name).current_attribute_name = g.current_attribute_name
         /\ OpenStartTag(g, name).verbatim_stack =
              IF ~g.include_verbatim /\ is_verbatim_elem(name)
              THEN Append(g.verbatim_stack, name) ELSE g.verbatim_stack
         /\ OpenStartTag(g, name).in_style_tag = (g.in_style_tag \/ name = "style")
         /\ OpenStartTag(g, name).style_content =
              IF name = "style" THEN {} ELSE g.style_content
<1> DEFINE h == [g EXCEPT !.current_element = name,
                          !.in_style_tag = @ \/ name = "style",
                          !.style_content = IF name = "style" THEN {} ELSE @]
<1>1. h \in GumState
  BY DEF GumState
<1>2. OpenStartTag(g, name) =
        IF ~g.include_verbatim /\ is_verbatim_elem(name)
        THEN [h EXCEPT !.verbatim_stack = Append(@, name)] ELSE h
  BY DEF OpenStartTag, filter_verbatim_here, GumState
<1>3. h.include_verbatim = g.include_verbatim /\ h.links = g.links /\ h.fragments = g.fragments
  BY DEF GumState
<1>4. /\ h.current_element = name /\ h.current_attributes = g.current_attributes
      /\ h.current_attribute_name = g.current_attribute_name
      /\ h.verbatim_stack = g.verbatim_stack
  BY DEF GumState
<1>5. /\ h.in_style_tag = (g.in_style_tag \/ name = "style")
      /\ h.style_content = IF name = "style" THEN {} ELSE g.style_content
  BY DEF GumState
<1> HIDE DEF h
<1>6. CASE ~g.include_verbatim /\ is_verbatim_elem(name)
  <2>0. h.verbatim_stack \in Seq(Elements)
    BY <1>1 DEF GumState
  <2>1. Append(h.verbatim_stack, name) \in Seq(Elements)
    BY <2>0, AppendProperties
  <2> DEFINE k == [h EXCEPT !.verbatim_stack = Append(@, name)]
  <2>2. k \in GumState /\ k.verbatim_stack = Append(h.verbatim_stack, name)
    BY <1>1, <2>1 DEF GumState
  <2>3. /\ k.include_verbatim = h.include_verbatim /\ k.links = h.links
        /\ k.fragments = h.fragments /\ k.current_element = h.current_element
    BY <1>1 DEF GumState
  <2>4. /\ k.current_attributes = h.current_attributes
        /\ k.current_attribute_name = h.current_attribute_name
        /\ k.in_style_tag = h.in_style_tag /\ k.style_content = h.style_content
    BY <1>1 DEF GumState
  <2>5. OpenStartTag(g, name) = k
    BY <1>2, <1>6
  <2> HIDE DEF k
  <2>6. QED
    BY <1>3, <1>4, <1>5, <1>6, <2>2, <2>3, <2>4, <2>5
<1>7. CASE ~(~g.include_verbatim /\ is_verbatim_elem(name))
  BY <1>1, <1>2, <1>3, <1>4, <1>5, <1>7
<1>8. QED
  BY <1>6, <1>7

\* An attribute is added to those of the tag, if its value is told.
LEMMA GumReads ==
  ASSUME NEW g \in GumState, NEW a \in HtmlAttribute, NEW told \in BOOLEAN
  PROVE  /\ Attribute(g, a, told) \in GumState
         /\ Attribute(g, a, told).include_verbatim = g.include_verbatim
         /\ Attribute(g, a, told).links = g.links
         /\ Attribute(g, a, told).fragments = g.fragments
         /\ Attribute(g, a, told).current_element = g.current_element
         /\ Attribute(g, a, told).current_attributes =
              IF told THEN g.current_attributes \cup {a} ELSE g.current_attributes
         /\ Attribute(g, a, told).current_attribute_name = a.name
         /\ Attribute(g, a, told).verbatim_stack = g.verbatim_stack
         /\ Attribute(g, a, told).in_style_tag = g.in_style_tag
         /\ Attribute(g, a, told).style_content = g.style_content
<1>1. a.name \in AttributeNames
  BY DEF HtmlAttribute
<1>2. Attribute(g, a, told) \in GumState
  BY <1>1 DEF GumState, Attribute
<1>3. QED
  BY <1>2 DEF GumState, Attribute

\* The links of a tag are raw URIs, and its anchors are ids.
LEMMA GumFinds ==
  ASSUME NEW g \in GumState, NEW span \in Nat
  PROVE  AcceptedLinks(g, span) \subseteq RawUriSet /\ AnchorNames(g) \subseteq Seq(Nat)
<1>0. g.current_element \in Elements \cup {""} /\ g.current_attributes \subseteq HtmlAttribute
  BY DEF GumState
<1>1. g.current_element \in Elements \cup {None, "", "style"}
  BY <1>0
<1>2. \A a \in g.current_attributes :
         a.name \in AttributeNames /\ a.urls \subseteq UrlClasses /\ a.id \in Seq(Nat)
  BY <1>0 DEF HtmlAttribute
<1>3. ASSUME NEW a \in g.current_attributes, NEW u \in a.urls
      PROVE  RawUri(u, g.current_element, a.name, span) \in RawUriSet
  BY <1>1, <1>2 DEF RawUri, RawUriSet
<1>4. ASSUME NEW l \in extract_urls_from_elem_attr(g, span)
      PROVE  l \in RawUriSet
  <2>1. PICK a \in g.current_attributes :
          l \in {RawUri(u, g.current_element, a.name, span) :
             u \in IF a.name = "srcset" THEN srcset_parse(a.urls)
                   ELSE IF HoldsLink(g.current_element, a.name) THEN a.urls ELSE {}}
    BY <1>4 DEF extract_urls_from_elem_attr
  <2>2. PICK u \in a.urls : l = RawUri(u, g.current_element, a.name, span)
    BY <2>1 DEF srcset_parse
  <2>3. QED
    BY <2>2, <1>3
<1>5. AnchorNames(g) \subseteq Seq(Nat)
  BY <1>2 DEF AnchorNames, AttributesNamed
<1>6. QED
  BY <1>4, <1>5 DEF AcceptedLinks

\* A tag is complete: its links and anchors are taken, or it is passed over.
LEMMA GumFlushes ==
  ASSUME NEW g \in GumState, NEW span \in Nat
  PROVE  /\ flush_links(g, span) \in GumState
         /\ flush_links(g, span).include_verbatim = g.include_verbatim
         /\ flush_links(g, span).links =
              IF PassedOver(g) THEN g.links ELSE g.links \cup AcceptedLinks(g, span)
         /\ flush_links(g, span).fragments =
              IF PassedOver(g) THEN g.fragments ELSE g.fragments \cup AnchorNames(g)
         /\ flush_links(g, span).current_element = g.current_element
         /\ flush_links(g, span).current_attributes = {}
         /\ flush_links(g, span).current_attribute_name = g.current_attribute_name
         /\ flush_links(g, span).verbatim_stack = g.verbatim_stack
         /\ flush_links(g, span).in_style_tag = g.in_style_tag
         /\ flush_links(g, span).style_content = g.style_content
<1>1. CASE PassedOver(g)
  BY <1>1 DEF flush_links, GumState
<1>2. CASE ~PassedOver(g)
  <2> DEFINE f == [g EXCEPT !.links = @ \cup AcceptedLinks(g, span),
                            !.fragments = @ \cup AnchorNames(g),
                            !.current_attributes = {}]
  <2>1. flush_links(g, span) = f
    BY <1>2 DEF flush_links
  <2>2. f \in GumState
    BY GumFinds DEF GumState
  <2>3. /\ f.links = g.links \cup AcceptedLinks(g, span)
        /\ f.fragments = g.fragments \cup AnchorNames(g)
        /\ f.current_attributes = {}
    BY DEF GumState
  <2>4. /\ f.include_verbatim = g.include_verbatim /\ f.current_element = g.current_element
        /\ f.current_attribute_name = g.current_attribute_name
        /\ f.verbatim_stack = g.verbatim_stack /\ f.in_style_tag = g.in_style_tag
        /\ f.style_content = g.style_content
    BY DEF GumState
  <2> HIDE DEF f
  <2>5. QED
    BY <1>2, <2>1, <2>2, <2>3, <2>4
<1>3. QED
  BY <1>1, <1>2

\* At most the innermost verbatim element is left.
LEMMA GumLeaves ==
  ASSUME NEW g \in GumState, NEW name
  PROVE  /\ LeaveVerbatim(g, name) \in GumState
         /\ LeaveVerbatim(g, name).include_verbatim = g.include_verbatim
         /\ LeaveVerbatim(g, name).links = g.links
         /\ LeaveVerbatim(g, name).fragments = g.fragments
         /\ LeaveVerbatim(g, name).current_element = g.current_element
         /\ LeaveVerbatim(g, name).current_attributes = g.current_attributes
         /\ LeaveVerbatim(g, name).current_attribute_name = g.current_attribute_name
         /\ LeaveVerbatim(g, name).verbatim_stack =
              IF g.verbatim_stack # <<>> /\ Last(g.verbatim_stack) = name
              THEN Front(g.verbatim_stack) ELSE g.verbatim_stack
         /\ LeaveVerbatim(g, name).in_style_tag = g.in_style_tag
         /\ LeaveVerbatim(g, name).style_content = g.style_content
<1>1. g.verbatim_stack \in Seq(Elements)
  BY DEF GumState
<1>2. g.verbatim_stack # <<>> => Front(g.verbatim_stack) \in Seq(Elements)
  BY <1>1, FrontLast
<1>3. CASE g.verbatim_stack # <<>> /\ Last(g.verbatim_stack) = name
  <2>1. LeaveVerbatim(g, name) = [g EXCEPT !.verbatim_stack = Front(@)]
    BY <1>3 DEF LeaveVerbatim
  <2>2. [g EXCEPT !.verbatim_stack = Front(@)] \in GumState
    BY <1>2, <1>3 DEF GumState
  <2>3. QED
    BY <1>3, <2>1, <2>2 DEF GumState
<1>4. CASE ~(g.verbatim_stack # <<>> /\ Last(g.verbatim_stack) = name)
  BY <1>4 DEF LeaveVerbatim
<1>5. QED
  BY <1>3, <1>4

\* What html5gum, in state g, makes of the end of a start tag: state c.
GumAfterClose(c, g, self_closing, span) ==
  /\ c \in GumState
  /\ c.include_verbatim = g.include_verbatim
  /\ c.links = IF PassedOver(g) THEN g.links ELSE g.links \cup AcceptedLinks(g, span)
  /\ c.fragments = IF PassedOver(g) THEN g.fragments ELSE g.fragments \cup AnchorNames(g)
  /\ c.current_attributes = {}
  /\ c.verbatim_stack =
       IF /\ self_closing /\ ~g.include_verbatim
          /\ g.verbatim_stack # <<>> /\ Last(g.verbatim_stack) = g.current_element
       THEN Front(g.verbatim_stack) ELSE g.verbatim_stack
  /\ c.in_style_tag = g.in_style_tag
  /\ c.style_content = g.style_content

\* A tag is closed: its links are taken, and if it closes itself, its element is
\* left.
LEMMA GumCloses ==
  ASSUME NEW g \in GumState, NEW self_closing \in BOOLEAN, NEW span \in Nat
  PROVE  GumAfterClose(CloseStartTag(g, self_closing, span), g, self_closing, span)
<1> DEFINE h == flush_links(g, span)
           l == LeaveVerbatim(h, h.current_element)
<1>1. /\ h \in GumState /\ h.include_verbatim = g.include_verbatim
      /\ h.links = IF PassedOver(g) THEN g.links ELSE g.links \cup AcceptedLinks(g, span)
      /\ h.fragments = IF PassedOver(g) THEN g.fragments ELSE g.fragments \cup AnchorNames(g)
      /\ h.current_element = g.current_element
      /\ h.current_attributes = {} /\ h.verbatim_stack = g.verbatim_stack
      /\ h.in_style_tag = g.in_style_tag /\ h.style_content = g.style_content
  BY GumFlushes
<1>2. CloseStartTag(g, self_closing, span) =
        IF self_closing /\ filter_verbatim_here(h) THEN l ELSE h
  BY DEF CloseStartTag
<1>3. /\ h.verbatim_stack # <<>> /\ ~h.include_verbatim => filter_verbatim_here(h)
      /\ h.include_verbatim => ~filter_verbatim_here(h)
  BY DEF filter_verbatim_here
<1> HIDE DEF h
<1>4. /\ l \in GumState /\ l.include_verbatim = h.include_verbatim
      /\ l.links = h.links /\ l.fragments = h.fragments
      /\ l.current_element = h.current_element
      /\ l.current_attributes = h.current_attributes
      /\ l.verbatim_stack =
           IF h.verbatim_stack # <<>> /\ Last(h.verbatim_stack) = h.current_element
           THEN Front(h.verbatim_stack) ELSE h.verbatim_stack
      /\ l.in_style_tag = h.in_style_tag /\ l.style_content = h.style_content
  BY <1>1, GumLeaves
<1> HIDE DEF l
<1>5. CASE self_closing /\ filter_verbatim_here(h)
  BY <1>1, <1>2, <1>3, <1>4, <1>5 DEF GumAfterClose
<1>6. CASE ~(self_closing /\ filter_verbatim_here(h))
  BY <1>1, <1>2, <1>3, <1>6 DEF GumAfterClose
<1>7. QED
  BY <1>5, <1>6

\* What html5gum, in state g, makes of an end tag: state c.
GumAfterEnd(c, g, name) ==
  /\ c \in GumState
  /\ c.include_verbatim = g.include_verbatim
  /\ c.links = IF name = "style" /\ g.in_style_tag
               THEN g.links \cup g.style_content ELSE g.links
  /\ c.fragments = g.fragments
  /\ c.current_attributes = g.current_attributes
  /\ c.verbatim_stack =
       IF ~g.include_verbatim /\ g.verbatim_stack # <<>> /\ Last(g.verbatim_stack) = name
       THEN Front(g.verbatim_stack) ELSE g.verbatim_stack
  /\ c.in_style_tag = (g.in_style_tag /\ name # "style")
  /\ c.style_content = IF name = "style" /\ g.in_style_tag THEN {} ELSE g.style_content

\* An end tag: a style sheet is taken, a verbatim element left.
LEMMA GumEnds ==
  ASSUME NEW g \in GumState, NEW name
  PROVE  GumAfterEnd(EndTag(g, name), g, name)
<1> DEFINE f == [g EXCEPT !.in_style_tag = FALSE,
                          !.links = @ \cup g.style_content,
                          !.style_content = {}]
           h == IF name = "style" /\ g.in_style_tag THEN f ELSE g
           l == LeaveVerbatim(h, name)
<1>1. f \in GumState
  BY DEF GumState
<1>2. /\ f.include_verbatim = g.include_verbatim /\ f.links = g.links \cup g.style_content
      /\ f.fragments = g.fragments /\ f.current_attributes = g.current_attributes
      /\ f.verbatim_stack = g.verbatim_stack /\ f.in_style_tag = FALSE /\ f.style_content = {}
  BY DEF GumState
<1>3. EndTag(g, name) = IF h.include_verbatim THEN h ELSE l
  BY DEF EndTag
<1>4. g.in_style_tag \in BOOLEAN
  BY DEF GumState
<1> HIDE DEF f
<1>5. /\ h \in GumState /\ h.include_verbatim = g.include_verbatim
      /\ h.links = IF name = "style" /\ g.in_style_tag
                   THEN g.links \cup g.style_content ELSE g.links
      /\ h.fragments = g.fragments /\ h.current_attributes = g.current_attributes
      /\ h.verbatim_stack = g.verbatim_stack
      /\ h.in_style_tag = (g.in_style_tag /\ name # "style")
      /\ h.style_content = IF name = "style" /\ g.in_style_tag THEN {} ELSE g.style_content
  BY <1>1, <1>2, <1>4
<1> HIDE DEF h
<1>6. /\ l \in GumState /\ l.include_verbatim = h.include_verbatim
      /\ l.links = h.links /\ l.fragments = h.fragments
      /\ l.current_attributes = h.current_attributes
      /\ l.verbatim_stack = IF h.verbatim_stack # <<>> /\ Last(h.verbatim_stack) = name
                            THEN Front(h.verbatim_stack) ELSE h.verbatim_stack
      /\ l.in_style_tag = h.in_style_tag /\ l.style_content = h.style_content
  BY <1>5, GumLeaves
<1> HIDE DEF l
<1>7. CASE h.include_verbatim
  BY <1>3, <1>5, <1>7 DEF GumAfterEnd
<1>8. CASE ~h.include_verbatim
  BY <1>3, <1>5, <1>6, <1>8 DEF GumAfterEnd
<1>9. QED
  BY <1>7, <1>8

\* Raw URIs of text and of style sheets.
LEMMA TextUris ==
  ASSUME NEW urls \in SUBSET UrlClasses, NEW span \in Nat
  PROVE  /\ extract_raw_uri_from_plaintext(urls, span) \subseteq RawUriSet
         /\ \A l \in extract_raw_uri_from_plaintext(urls, span) : l.attribute = None
         /\ extract_css(urls, span) \subseteq RawUriSet
         /\ \A l \in extract_css(urls, span) : l.attribute # None
<1>1. ASSUME NEW u \in UrlClasses
      PROVE  /\ RawUri(u, None, None, span) \in RawUriSet
             /\ RawUri(u, None, None, span).attribute = None
             /\ RawUri(u, "style", "url", span) \in RawUriSet
             /\ RawUri(u, "style", "url", span).attribute # None
  BY DEF RawUri, RawUriSet, None
<1>2. find_links(urls) \subseteq UrlClasses
  BY DEF find_links, UrlClasses
<1>3. QED
  BY <1>1, <1>2 DEF extract_raw_uri_from_plaintext, extract_css

\* What html5gum, in state g, makes of text: state c.
GumAfterText(c, g, urls, span) ==
  /\ c \in GumState
  /\ c.include_verbatim = g.include_verbatim
  /\ c.links = IF g.in_style_tag \/ filter_verbatim_here(g) THEN g.links
               ELSE g.links \cup extract_raw_uri_from_plaintext(urls, span)
  /\ c.fragments = g.fragments
  /\ c.current_attributes = g.current_attributes
  /\ c.current_element = g.current_element
  /\ c.verbatim_stack = g.verbatim_stack
  /\ c.in_style_tag = g.in_style_tag
  /\ c.style_content = IF g.in_style_tag THEN g.style_content \cup extract_css(urls, span)
                       ELSE g.style_content

\* Text: of a style sheet, of a verbatim element, or searched.
LEMMA GumString ==
  ASSUME NEW g \in GumState, NEW urls \in SUBSET UrlClasses, NEW span \in Nat
  PROVE  GumAfterText(String(g, urls, span), g, urls, span)
<1>1. CASE g.in_style_tag
  <2>1. String(g, urls, span) = [g EXCEPT !.style_content = @ \cup extract_css(urls, span)]
    BY <1>1 DEF String
  <2>2. QED
    BY <1>1, <2>1, TextUris DEF GumState, GumAfterText
<1>2. CASE ~g.in_style_tag /\ filter_verbatim_here(g)
  BY <1>2 DEF String, GumAfterText
<1>3. CASE ~g.in_style_tag /\ ~filter_verbatim_here(g)
  <2>1. String(g, urls, span) =
          [g EXCEPT !.links = @ \cup extract_raw_uri_from_plaintext(urls, span)]
    BY <1>3 DEF String
  <2>2. QED
    BY <1>3, <2>1, TextUris DEF GumState, GumAfterText
<1>4. QED
  BY <1>1, <1>2, <1>3

-----------------------------------------------------------------------------
\* The events of html5ever, field by field.

EverLinks(name, attrs, span) == UNION {LinksOf(name, attrs, a, span) : a \in attrs}

EverSkips(attrs) ==
  \/ \E w \in {"nofollow", "preconnect", "dns-prefetch"} : RelContains(attrs, w)
  \/ Has(attrs, "prefix")

\* The verbatim element that html5ever remembers after a tag.
Remembered(e, kind, name) ==
  IF e.include_verbatim \/ ~is_verbatim_elem(name) THEN e.current_verbatim_element_name
  ELSE IF e.current_verbatim_element_name = None
       THEN IF kind = "StartTag" THEN name ELSE None
       ELSE IF e.current_verbatim_element_name = name /\ kind = "EndTag" THEN None
            ELSE e.current_verbatim_element_name

\* The links of a tag are raw URIs.
LEMMA EverFinds ==
  ASSUME NEW name \in Elements, NEW attrs \in SUBSET HtmlAttribute, NEW span \in Nat
  PROVE  EverLinks(name, attrs, span) \subseteq RawUriSet
<1>1. ASSUME NEW a \in attrs
      PROVE  LinksOf(name, attrs, a, span) \subseteq RawUriSet
  <2>1. a.name \in AttributeNames /\ a.urls \in SUBSET UrlClasses
    BY DEF HtmlAttribute
  <2>2. \A u \in a.urls : RawUri(u, name, a.name, span) \in RawUriSet
    BY <2>1 DEF RawUri, RawUriSet
  <2>3. CASE a.name = "srcset" \/ HoldsLink(name, a.name)
    BY <2>2, <2>3 DEF LinksOf, srcset_parse
  <2>4. CASE ~(a.name = "srcset" \/ HoldsLink(name, a.name))
    BY <2>1, <2>4, TextUris DEF LinksOf
  <2>5. QED
    BY <2>3, <2>4
<1>2. QED
  BY <1>1 DEF EverLinks

\* <style> and </style>.
LEMMA EverStyles ==
  ASSUME NEW e \in EverState, NEW kind \in {"StartTag", "EndTag"}
  PROVE  LET s == process_style(e, kind) IN
         /\ s \in EverState
         /\ s.include_verbatim = e.include_verbatim
         /\ s.links = IF kind = "EndTag" THEN e.links \cup e.style_content ELSE e.links
         /\ s.current_verbatim_element_name = e.current_verbatim_element_name
         /\ s.in_style_tag = (kind = "StartTag")
         /\ s.style_content = {}
<1>1. CASE kind = "StartTag"
  <2>1. process_style(e, kind) = [e EXCEPT !.in_style_tag = TRUE, !.style_content = {}]
    BY <1>1 DEF process_style
  <2>2. QED
    BY <1>1, <2>1 DEF EverState
<1>2. CASE kind = "EndTag"
  <2>1. process_style(e, kind) =
          [e EXCEPT !.in_style_tag = FALSE, !.links = @ \cup e.style_content, !.style_content = {}]
    BY <1>2 DEF process_style
  <2>2. QED
    BY <1>2, <2>1 DEF EverState
<1>3. QED
  BY <1>1, <1>2

\* A verbatim element is remembered, or forgotten.
LEMMA EverRemembers ==
  ASSUME NEW e \in EverState, NEW kind \in {"StartTag", "EndTag"}, NEW name \in Elements,
         ~e.include_verbatim, is_verbatim_elem(name)
  PROVE  LET v == process_verbatim(e, kind, name) IN
         /\ v \in EverState
         /\ v.include_verbatim = e.include_verbatim
         /\ v.links = e.links
         /\ v.current_verbatim_element_name = Remembered(e, kind, name)
         /\ v.in_style_tag = e.in_style_tag
         /\ v.style_content = e.style_content
<1> DEFINE n == Remembered(e, kind, name)
<1>1. n \in Elements \cup {None}
  BY DEF Remembered, EverState
<1>2. \/ process_verbatim(e, kind, name) = [e EXCEPT !.current_verbatim_element_name = n]
      \/ process_verbatim(e, kind, name) = e /\ n = e.current_verbatim_element_name
  BY DEF process_verbatim, Remembered
<1> HIDE DEF n
<1>3. QED
  BY <1>1, <1>2 DEF EverState, n

\* What html5ever, in state e, makes of a tag: state p.
EverAfterTag(p, e, kind, name, attrs, span) ==
  /\ p \in EverState
  /\ p.include_verbatim = e.include_verbatim
  /\ p.current_verbatim_element_name = Remembered(e, kind, name)
  /\ p.links = e.links
       \cup (IF name = "style" /\ kind = "EndTag" THEN e.style_content ELSE {})
       \cup (IF Remembered(e, kind, name) # None \/ EverSkips(attrs)
             THEN {} ELSE EverLinks(name, attrs, span))
  /\ name = "style" => p.in_style_tag = (kind = "StartTag")
  /\ name # "style" => p.in_style_tag = e.in_style_tag
  /\ p.style_content = IF name = "style" THEN {} ELSE e.style_content

\* A tag.
LEMMA EverTag ==
  ASSUME NEW e \in EverState, NEW kind \in {"StartTag", "EndTag"}, NEW name \in Elements,
         NEW attrs \in SUBSET HtmlAttribute, NEW span \in Nat
  PROVE  EverAfterTag(process_tag(e, kind, name, attrs, span), e, kind, name, attrs, span)
<1> DEFINE s == IF name = "style" THEN process_style(e, kind) ELSE e
           v == IF ~s.include_verbatim /\ is_verbatim_elem(name)
                THEN process_verbatim(s, kind, name) ELSE s
           l == [v EXCEPT !.links = @ \cup EverLinks(name, attrs, span)]
           styled == e.links
             \cup (IF name = "style" /\ kind = "EndTag" THEN e.style_content ELSE {})
<1>1. process_tag(e, kind, name, attrs, span) =
        IF v.current_verbatim_element_name # None \/ EverSkips(attrs) THEN v ELSE l
  BY DEF process_tag, EverSkips, EverLinks
<1>2. /\ s \in EverState /\ s.include_verbatim = e.include_verbatim
      /\ s.links = styled
      /\ s.current_verbatim_element_name = e.current_verbatim_element_name
      /\ name = "style" => s.in_style_tag = (kind = "StartTag")
      /\ name # "style" => s.in_style_tag = e.in_style_tag
      /\ s.style_content = IF name = "style" THEN {} ELSE e.style_content
  <2>1. CASE name = "style"
    BY <2>1, EverStyles
  <2>2. CASE name # "style"
    BY <2>2
  <2>3. QED
    BY <2>1, <2>2
<1> HIDE DEF s, styled
<1>3. Remembered(s, kind, name) = Remembered(e, kind, name)
  BY <1>2 DEF Remembered
<1>4. /\ v \in EverState /\ v.include_verbatim = e.include_verbatim
      /\ v.links = s.links
      /\ v.current_verbatim_element_name = Remembered(e, kind, name)
      /\ v.in_style_tag = s.in_style_tag /\ v.style_content = s.style_content
  <2>1. CASE ~s.include_verbatim /\ is_verbatim_elem(name)
    BY <1>2, <1>3, <2>1, EverRemembers
  <2>2. CASE ~(~s.include_verbatim /\ is_verbatim_elem(name))
    BY <1>2, <1>3, <2>2 DEF Remembered
  <2>3. QED
    BY <2>1, <2>2
<1> HIDE DEF v
<1>5. /\ l \in EverState /\ l.include_verbatim = v.include_verbatim
      /\ l.links = v.links \cup EverLinks(name, attrs, span)
      /\ l.current_verbatim_element_name = v.current_verbatim_element_name
      /\ l.in_style_tag = v.in_style_tag /\ l.style_content = v.style_content
  BY <1>4, EverFinds DEF EverState
<1> HIDE DEF l
<1>6. QED
  BY <1>1, <1>2, <1>4, <1>5 DEF styled, EverAfterTag

\* What html5ever, in state e, makes of text: state c.
EverAfterText(c, e, urls, span) ==
  /\ c \in EverState
  /\ c.include_verbatim = e.include_verbatim
  /\ c.current_verbatim_element_name = e.current_verbatim_element_name
  /\ c.links = IF \/ e.in_style_tag \/ ~e.include_verbatim
                  \/ e.current_verbatim_element_name # None
               THEN e.links
               ELSE e.links \cup extract_raw_uri_from_plaintext(urls, span)
  /\ c.in_style_tag = e.in_style_tag
  /\ c.style_content = IF e.in_style_tag THEN e.style_content \cup extract_css(urls, span)
                       ELSE e.style_content

\* Text.
LEMMA EverTexts ==
  ASSUME NEW e \in EverState, NEW urls \in SUBSET UrlClasses, NEW span \in Nat
  PROVE  EverAfterText(CharacterTokens(e, urls, span), e, urls, span)
<1>1. CASE e.in_style_tag
  <2>1. CharacterTokens(e, urls, span) =
          [e EXCEPT !.style_content = @ \cup extract_css(urls, span)]
    BY <1>1 DEF CharacterTokens
  <2>2. QED
    BY <1>1, <2>1, TextUris DEF EverState, EverAfterText
<1>2. CASE /\ ~e.in_style_tag
           /\ e.current_verbatim_element_name # None \/ ~e.include_verbatim
  BY <1>2 DEF CharacterTokens, EverAfterText
<1>3. CASE /\ ~e.in_style_tag
           /\ ~(e.current_verbatim_element_name # None \/ ~e.include_verbatim)
  <2>1. CharacterTokens(e, urls, span) =
          [e EXCEPT !.links = @ \cup extract_raw_uri_from_plaintext(urls, span)]
    BY <1>3 DEF CharacterTokens
  <2>2. QED
    BY <1>3, <2>1, TextUris DEF EverState, EverAfterText
<1>4. QED
  BY <1>1, <1>2, <1>3

-----------------------------------------------------------------------------
\* A sequence embedded in another, when one or both lose or gain an element.

LEMMA EmbeddedEmpty ==
  ASSUME NEW S, NEW s \in Seq(S), NEW t \in Seq(S)
  PROVE  /\ Embedded(<<>>, t)
         /\ Embedded(s, <<>>) => s = <<>>
<1>1. DOMAIN <<>> = {}
  OBVIOUS
<1>2. Embedded(<<>>, t)
  <2> DEFINE f == [i \in {} |-> 1]
  <2>1. f \in [DOMAIN <<>> -> DOMAIN t]
    BY <1>1
  <2>2. QED
    BY <1>1, <2>1 DEF Embedded
<1>3. ASSUME Embedded(s, <<>>) PROVE s = <<>>
  <2>1. PICK f \in [DOMAIN s -> DOMAIN <<>>] : TRUE
    BY <1>3 DEF Embedded
  <2>2. DOMAIN s = {}
    BY <1>1, <2>1
  <2>3. DOMAIN s = 1 .. Len(s) /\ Len(s) \in Nat
    BY LenProperties
  <2>4. Len(s) = 0
    BY <2>2, <2>3
  <2>5. QED
    BY <2>4, EmptySeq
<1>4. QED
  BY <1>2, <1>3

LEMMA EmbeddedAppend ==
  ASSUME NEW S, NEW s \in Seq(S), NEW t \in Seq(S), NEW x \in S, Embedded(s, t)
  PROVE  Embedded(Append(s, x), Append(t, x))
<1> DEFINE a == Append(s, x)
           b == Append(t, x)
           m == Len(s)
           n == Len(t)
<1>1. /\ a \in Seq(S) /\ Len(a) = m + 1 /\ a[m + 1] = x /\ \A i \in 1 .. m : a[i] = s[i]
      /\ b \in Seq(S) /\ Len(b) = n + 1 /\ b[n + 1] = x /\ \A i \in 1 .. n : b[i] = t[i]
  BY AppendProperties
<1>2. /\ m \in Nat /\ n \in Nat /\ DOMAIN s = 1 .. m /\ DOMAIN t = 1 .. n
      /\ DOMAIN a = 1 .. m + 1 /\ DOMAIN b = 1 .. n + 1
  BY <1>1, LenProperties
<1>3. PICK f \in [1 .. m -> 1 .. n] :
        /\ \A i, j \in 1 .. m : i < j => f[i] < f[j]
        /\ \A i \in 1 .. m : t[f[i]] = s[i]
  BY <1>2 DEF Embedded
<1> DEFINE g == [i \in 1 .. m + 1 |-> IF i = m + 1 THEN n + 1 ELSE f[i]]
<1> HIDE DEF a, b, m, n
<1>4. g \in [1 .. m + 1 -> 1 .. n + 1]
  BY <1>2
<1>5. ASSUME NEW i \in 1 .. m + 1, NEW j \in 1 .. m + 1, i < j
      PROVE  g[i] < g[j]
  <2>1. i \in 1 .. m /\ f[i] \in 1 .. n /\ g[i] = f[i]
    BY <1>2, <1>5
  <2>2. CASE j = m + 1
    BY <1>2, <2>1, <2>2
  <2>3. CASE j # m + 1
    <3>1. j \in 1 .. m /\ g[j] = f[j]
      BY <1>2, <2>3
    <3>2. QED
      BY <1>3, <1>5, <2>1, <3>1
  <2>4. QED
    BY <2>2, <2>3
<1>6. ASSUME NEW i \in 1 .. m + 1
      PROVE  b[g[i]] = a[i]
  <2>1. CASE i = m + 1
    BY <1>1, <1>2, <2>1
  <2>2. CASE i # m + 1
    <3>1. i \in 1 .. m /\ f[i] \in 1 .. n /\ g[i] = f[i]
      BY <1>2, <2>2
    <3>2. QED
      BY <1>1, <1>3, <3>1
  <2>3. QED
    BY <2>1, <2>2
<1> HIDE DEF g
<1>7. Embedded(a, b)
  BY <1>2, <1>4, <1>5, <1>6 DEF Embedded
<1>8. QED
  BY <1>7 DEF a, b

\* What stands before the k-th element.
LEMMA Prefix ==
  ASSUME NEW S, NEW s \in Seq(S), NEW k \in 1 .. Len(s)
  PROVE  LET p == SubSeq(s, 1, k - 1) IN
         p \in Seq(S) /\ DOMAIN p = 1 .. k - 1 /\ \A i \in 1 .. k - 1 : p[i] = s[i]
<1> DEFINE m == Len(s)
           p == SubSeq(s, 1, k - 1)
<1>1. m \in Nat /\ DOMAIN s = 1 .. m /\ k \in 1 .. m
  BY LenProperties
<1>2. \A i \in 1 .. k - 1 : s[i] \in S
  BY <1>1, ElementOfSeq
<1>3. /\ p \in Seq(S) /\ Len(p) = IF 1 <= k - 1 THEN k - 1 - 1 + 1 ELSE 0
      /\ \A i \in 1 .. k - 1 - 1 + 1 : p[i] = s[1 + i - 1]
  <2>1. k - 1 \in Int /\ 1 \in Int
    BY <1>1
  <2>2. \A i \in 1 .. k - 1 : s[i] \in S
    BY <1>2
  <2>3. QED
    BY <1>1, <2>1, <2>2, SubSeqProperties
<1> HIDE DEF p
<1>4. DOMAIN p = 1 .. k - 1 /\ \A i \in 1 .. k - 1 : p[i] = s[i]
  <2>1. Len(p) = k - 1 /\ k - 1 - 1 + 1 = k - 1 /\ \A i \in 1 .. k - 1 : 1 + i - 1 = i
    BY <1>1, <1>3
  <2>2. DOMAIN p = 1 .. Len(p)
    BY <1>3, LenProperties
  <2>3. ASSUME NEW i \in 1 .. k - 1 PROVE p[i] = s[i]
    <3>1. p[i] = s[1 + i - 1] /\ 1 + i - 1 = i
      BY <1>3, <2>1
    <3>2. QED
      BY <3>1
  <2>4. QED
    BY <2>1, <2>2, <2>3
<1>5. QED
  BY <1>3, <1>4 DEF p

\* What stands before an element is embedded even without the last of t.
LEMMA EmbeddedCut ==
  ASSUME NEW S, NEW s \in Seq(S), NEW t \in Seq(S), NEW k \in 1 .. Len(s), Embedded(s, t)
  PROVE  /\ t # <<>>
         /\ Embedded(SubSeq(s, 1, k - 1), t)
         /\ Embedded(SubSeq(s, 1, k - 1), Front(t))
<1> DEFINE m == Len(s)
           n == Len(t)
           p == SubSeq(s, 1, k - 1)
<1>1. m \in Nat /\ n \in Nat /\ DOMAIN s = 1 .. m /\ DOMAIN t = 1 .. n /\ k \in 1 .. m
  BY LenProperties
<1>4. DOMAIN p = 1 .. k - 1 /\ \A i \in 1 .. k - 1 : p[i] = s[i]
  BY Prefix
<1> HIDE DEF p
<1>5. PICK f \in [1 .. m -> 1 .. n] :
        /\ \A i, j \in 1 .. m : i < j => f[i] < f[j]
        /\ \A i \in 1 .. m : t[f[i]] = s[i]
  BY <1>1 DEF Embedded
<1>6. f[k] \in 1 .. n /\ n >= 1
  BY <1>1, <1>5
<1>7. t # <<>>
  <2>1. Len(<<>>) = 0
    OBVIOUS
  <2>2. QED
    BY <1>1, <1>6, <2>1
<1>8. /\ Front(t) \in Seq(S) /\ Len(Front(t)) = n - 1
      /\ \A i \in 1 .. n - 1 : Front(t)[i] = t[i]
  BY <1>7, FrontLast
<1>9. DOMAIN Front(t) = 1 .. n - 1
  BY <1>8, LenProperties
<1> DEFINE g == [i \in 1 .. k - 1 |-> f[i]]
<1> HIDE DEF m, n
<1>10. \A i \in 1 .. k - 1 : f[i] \in 1 .. n - 1 /\ i \in 1 .. m
  BY <1>1, <1>5, <1>6
<1>11. g \in [1 .. k - 1 -> 1 .. n - 1] /\ g \in [1 .. k - 1 -> 1 .. n]
  <2>1. \A i \in 1 .. n - 1 : i \in 1 .. n
    BY <1>1
  <2>2. QED
    BY <1>10, <2>1
<1>12. \A i, j \in 1 .. k - 1 : i < j => g[i] < g[j]
  BY <1>5, <1>10
<1>13. \A i \in 1 .. k - 1 : t[g[i]] = p[i] /\ Front(t)[g[i]] = p[i]
  <2>1. SUFFICES ASSUME NEW i \in 1 .. k - 1
                 PROVE  t[g[i]] = p[i] /\ Front(t)[g[i]] = p[i]
    OBVIOUS
  <2>2. g[i] = f[i] /\ f[i] \in 1 .. n - 1 /\ t[f[i]] = s[i]
    BY <1>5, <1>10
  <2>3. QED
    BY <1>4, <1>8, <2>2
<1> HIDE DEF g
<1>14. Embedded(p, t) /\ Embedded(p, Front(t))
  BY <1>1, <1>4, <1>9, <1>11, <1>12, <1>13 DEF Embedded
<1>15. QED
  BY <1>7, <1>14 DEF p

\* The last of t is not needed, if s does not have it.
LEMMA EmbeddedFront ==
  ASSUME NEW S, NEW s \in Seq(S), NEW t \in Seq(S), Embedded(s, t), t # <<>>,
         \A i \in 1 .. Len(s) : s[i] # Last(t)
  PROVE  Embedded(s, Front(t))
<1> DEFINE m == Len(s)
           n == Len(t)
<1>1. m \in Nat /\ n \in Nat /\ DOMAIN s = 1 .. m /\ DOMAIN t = 1 .. n
  BY LenProperties
<1>2. /\ Front(t) \in Seq(S) /\ Len(Front(t)) = n - 1
      /\ \A i \in 1 .. n - 1 : Front(t)[i] = t[i]
  BY FrontLast
<1>3. DOMAIN Front(t) = 1 .. n - 1 /\ Last(t) = t[n]
  BY <1>2, LenProperties DEF Last
<1>4. PICK f \in [1 .. m -> 1 .. n] :
        /\ \A i, j \in 1 .. m : i < j => f[i] < f[j]
        /\ \A i \in 1 .. m : t[f[i]] = s[i]
  BY <1>1 DEF Embedded
<1>5. \A i \in 1 .. m : s[i] # t[n]
  BY <1>3
<1> HIDE DEF m, n
<1>6. \A i \in 1 .. m : f[i] \in 1 .. n - 1
  <2>1. SUFFICES ASSUME NEW i \in 1 .. m PROVE f[i] \in 1 .. n - 1
    OBVIOUS
  <2>2. f[i] \in 1 .. n /\ f[i] # n
    BY <1>4, <1>5
  <2>3. QED
    BY <1>1, <2>2
<1>7. f \in [1 .. m -> 1 .. n - 1]
  BY <1>4, <1>6
<1>8. \A i \in 1 .. m : Front(t)[f[i]] = s[i]
  BY <1>2, <1>4, <1>6
<1>9. QED
  BY <1>1, <1>3, <1>4, <1>7, <1>8 DEF Embedded

-----------------------------------------------------------------------------
\* The invariant of the HTML page, event by event.

LEMMA HtmlInitially == HtmlInit => HtmlInv
<1> SUFFICES ASSUME HtmlInit PROVE HtmlInv
  OBVIOUS
<1>1. PICK iv \in BOOLEAN, told \in BOOLEAN :
        /\ page = [told |-> told, n |-> 0, attributes |-> 0, tag |-> NoTag, open |-> <<>>,
                   styling |-> FALSE, style |-> {}, wanted |-> {}, anchors |-> {},
                   oddities |-> {}]
        /\ gum = LinkExtractor(iv)
        /\ ever = Html5everExtractor(iv)
  BY DEF HtmlInit
<1>2. <<>> \in Seq(Elements) /\ DOMAIN <<>> = {}
  BY EmptySeq
<1>3. /\ page \in PageState /\ page.tag = NoTag /\ page.open = <<>> /\ page.styling = FALSE
      /\ page.style = {} /\ page.wanted = {} /\ page.anchors = {} /\ page.oddities = {}
      /\ page.tag.attrs = {}
  BY <1>1, <1>2 DEF PageState, NoTag
<1>4. /\ gum \in GumState /\ gum.include_verbatim = iv /\ gum.links = {}
      /\ gum.current_attributes = {} /\ gum.verbatim_stack = <<>>
      /\ gum.in_style_tag = FALSE /\ gum.style_content = {}
  BY <1>1, <1>2 DEF GumState, LinkExtractor
<1>5. /\ ever \in EverState /\ ever.include_verbatim = iv /\ ever.links = {}
      /\ ever.current_verbatim_element_name = None
      /\ ever.in_style_tag = FALSE /\ ever.style_content = {}
  BY <1>1 DEF EverState, Html5everExtractor
<1>6. extracted(gum) = {}
  BY <1>4 DEF extracted
<1>7. TagOpen /\ AttributesOfTheTag
  BY <1>2, <1>3, <1>4 DEF TagOpen, AttributesOfTheTag
<1>8. StackHoldsOpen
  BY <1>2, <1>3, <1>4, EmbeddedEmpty DEF StackHoldsOpen, include_verbatim
<1>9. OutermostKnown /\ StyleRead
  BY <1>3, <1>4, <1>5 DEF OutermostKnown, StyleRead, SeenOpen, include_verbatim, InVerbatim
<1>10. HtmlLinks /\ EnginesAgree /\ AnchorsFound
  BY <1>3, <1>5, <1>6 DEF HtmlLinks, EnginesAgree, AnchorsFound
<1>11. QED
  BY <1>3, <1>4, <1>5, <1>7, <1>8, <1>9, <1>10 DEF HtmlInv, HtmlTypeOK

\* A start tag is opened.
LEMMA OpenTagStep ==
  ASSUME HtmlInv, NEW name \in Elements, WriteOpenTag(name)
  PROVE  HtmlInv'
<1> DEFINE verbatim == is_verbatim_elem(name)
<1>1. page \in PageState /\ gum \in GumState /\ ever \in EverState
  BY DEF HtmlInv, HtmlTypeOK
<1>2. /\ page.tag = NoTag /\ ~page.styling /\ UNCHANGED ever /\ gum' = OpenStartTag(gum, name)
      /\ page' = [page EXCEPT
           !.n = @ + 1,
           !.tag.element = name,
           !.open = IF is_verbatim_elem(name) THEN Append(@, name) ELSE @,
           !.styling = name = "style",
           !.style = {},
           !.oddities = @ \cup When("nested", name \in ToSet(page.open))
                          \cup When("style", name = "style" /\ InVerbatim)]
  BY DEF WriteOpenTag
<1>3. page.open \in Seq(Elements) /\ gum.verbatim_stack \in Seq(Elements)
  BY <1>1 DEF PageState, GumState
<1>4. /\ Append(page.open, name) \in Seq(Elements)
      /\ Len(Append(page.open, name)) = Len(page.open) + 1
      /\ \A i \in 1 .. Len(page.open) : Append(page.open, name)[i] = page.open[i]
      /\ Append(page.open, name)[Len(page.open) + 1] = name
      /\ Len(page.open) \in Nat /\ DOMAIN page.open = 1 .. Len(page.open)
      /\ DOMAIN Append(page.open, name) = 1 .. Len(page.open) + 1
  BY <1>3, AppendProperties, LenProperties
<1>5. /\ page'.tag = [element |-> name, attrs |-> {}]
      /\ page'.open = IF verbatim THEN Append(page.open, name) ELSE page.open
      /\ page'.styling = (name = "style") /\ page'.style = {}
      /\ page'.wanted = page.wanted /\ page'.anchors = page.anchors
      /\ page'.oddities = page.oddities
           \cup When("nested", name \in ToSet(page.open))
           \cup When("style", name = "style" /\ InVerbatim)
  <2>1. page'.tag = [page.tag EXCEPT !.element = name]
    BY <1>1, <1>2 DEF PageState
  <2>2. page'.tag = [element |-> name, attrs |-> {}]
    BY <1>2, <2>1 DEF NoTag
  <2>3. page'.open = IF verbatim THEN Append(page.open, name) ELSE page.open
    BY <1>1, <1>2 DEF PageState
  <2>4. /\ page'.styling = (name = "style") /\ page'.style = {}
        /\ page'.wanted = page.wanted /\ page'.anchors = page.anchors
    BY <1>1, <1>2 DEF PageState
  <2>5. page'.oddities = page.oddities
           \cup When("nested", name \in ToSet(page.open))
           \cup When("style", name = "style" /\ InVerbatim)
    BY <1>1, <1>2 DEF PageState
  <2>6. QED
    BY <2>2, <2>3, <2>4, <2>5
<1>6. page'.told = page.told /\ page'.n = page.n + 1 /\ page'.attributes = page.attributes
  BY <1>1, <1>2 DEF PageState
<1>7. page' \in PageState
  <2>1. page'.oddities \subseteq Oddities
    BY <1>1, <1>5 DEF PageState, When, Oddities
  <2>2. page'.open \in Seq(Elements)
    BY <1>3, <1>4, <1>5
  <2>3. page'.tag \in [element : Elements \cup {None}, attrs : SUBSET HtmlAttribute]
    BY <1>5
  <2>4. page.n + 1 \in Nat
    BY <1>1 DEF PageState
  <2>5. QED
    BY <1>1, <1>2, <2>1, <2>2, <2>3, <2>4 DEF PageState
<1>8. /\ gum' \in GumState
      /\ gum'.include_verbatim = gum.include_verbatim
      /\ gum'.links = gum.links /\ gum'.fragments = gum.fragments
      /\ gum'.current_element = name /\ gum'.current_attributes = gum.current_attributes
      /\ gum'.verbatim_stack = IF ~gum.include_verbatim /\ verbatim
                               THEN Append(gum.verbatim_stack, name) ELSE gum.verbatim_stack
      /\ gum'.in_style_tag = (gum.in_style_tag \/ name = "style")
      /\ gum'.style_content = IF name = "style" THEN {} ELSE gum.style_content
  BY <1>1, <1>2, GumOpens
<1>9. /\ page'.tag # NoTag /\ page'.tag.element = name /\ page'.tag.attrs = {}
      /\ page.tag.attrs = {}
  BY <1>2, <1>5, HtmlAssumption DEF NoTag
<1>10. /\ page.oddities \subseteq page'.oddities
       /\ "nested" \notin page'.oddities => name \notin ToSet(page.open)
       /\ "style" \notin page'.oddities => ~(name = "style" /\ InVerbatim)
       /\ name = "style" /\ InVerbatim => "style" \in page'.oddities
  BY <1>5 DEF When
<1>11. HtmlTypeOK'
  BY <1>1, <1>2, <1>7, <1>8 DEF HtmlTypeOK
<1>12. TagOpen'
  <2>1. verbatim => page'.open # <<>> /\ Last(page'.open) = name
    BY <1>4, <1>5, EmptySeq DEF Last
  <2>2. \A i \in DOMAIN page'.open : is_verbatim_elem(page'.open[i])
    BY <1>4, <1>5 DEF HtmlInv, TagOpen
  <2>3. ASSUME "nested" \notin page'.oddities, NEW i \in DOMAIN page'.open,
               NEW j \in DOMAIN page'.open, page'.open[i] = page'.open[j]
        PROVE  i = j
    <3>1. \A k \in DOMAIN page.open : page.open[k] # name
      BY <1>10, <2>3 DEF ToSet
    <3>2. \A k, l \in DOMAIN page.open : page.open[k] = page.open[l] => k = l
      BY <1>10, <2>3 DEF HtmlInv, TagOpen
    <3>3. QED
      BY <1>4, <1>5, <2>3, <3>1, <3>2
  <2>4. QED
    BY <1>5, <1>8, <1>9, <2>1, <2>2, <2>3, HtmlAssumption DEF TagOpen
<1>13. AttributesOfTheTag'
  <2>1. gum.current_attributes = {}
    BY <1>9 DEF HtmlInv, AttributesOfTheTag
  <2>2. QED
    BY <1>8, <1>9, <2>1 DEF AttributesOfTheTag
<1>14. StackHoldsOpen'
  <2> DEFINE t == gum.verbatim_stack
  <2>1. /\ \A i \in DOMAIN t : is_verbatim_elem(t[i])
        /\ gum.include_verbatim => t = <<>>
        /\ ~gum.include_verbatim => Embedded(page.open, t)
        /\ ~gum.include_verbatim /\ "unbalanced" \notin page.oddities => t = page.open
    BY DEF HtmlInv, StackHoldsOpen, include_verbatim
  <2>2. CASE verbatim /\ ~gum.include_verbatim
    <3>1. page'.open = Append(page.open, name) /\ gum'.verbatim_stack = Append(t, name)
      BY <1>5, <1>8, <2>2
    <3>2. Embedded(Append(page.open, name), Append(t, name))
      BY <1>3, <2>1, <2>2, EmbeddedAppend
    <3>3. \A i \in DOMAIN Append(t, name) : is_verbatim_elem(Append(t, name)[i])
      <4>1. /\ Len(Append(t, name)) = Len(t) + 1
            /\ \A i \in 1 .. Len(t) : Append(t, name)[i] = t[i]
            /\ Append(t, name)[Len(t) + 1] = name
            /\ Len(t) \in Nat /\ DOMAIN t = 1 .. Len(t)
            /\ DOMAIN Append(t, name) = 1 .. Len(t) + 1
        BY <1>3, AppendProperties, LenProperties
      <4>2. QED
        BY <2>1, <2>2, <4>1
    <3>4. QED
      BY <1>8, <1>10, <2>1, <2>2, <3>1, <3>2, <3>3 DEF StackHoldsOpen, include_verbatim
  <2>3. CASE ~verbatim \/ gum.include_verbatim
    <3>1. gum'.verbatim_stack = t /\ (~gum.include_verbatim => page'.open = page.open)
      BY <1>5, <1>8, <2>3
    <3>2. QED
      BY <1>8, <1>10, <2>1, <3>1 DEF StackHoldsOpen, include_verbatim
  <2>4. QED
    BY <2>2, <2>3
<1>15. SeenOpen' = page.open /\ SeenOpen = page.open
  <2>1. verbatim => Front(Append(page.open, name)) = page.open
    <3>1. Append(page.open, name) = page.open \o <<name>>
      BY <1>3, AppendIsConcat
    <3>2. Front(page.open \o <<name>>) = page.open
      BY <1>3, FrontAppend
    <3>3. QED
      BY <3>1, <3>2
  <2>2. QED
    BY <1>2, <1>5, <1>9, <2>1 DEF SeenOpen
<1>16. OutermostKnown'
  BY <1>2, <1>8, <1>10, <1>15 DEF HtmlInv, OutermostKnown, include_verbatim
<1>17. StyleRead'
  <2>1. /\ gum.in_style_tag = FALSE /\ ever.in_style_tag = FALSE
        /\ ever.style_content = {} /\ gum.style_content = {} /\ page.style = {}
    BY <1>1, <1>2 DEF HtmlInv, StyleRead, PageState
  <2>2. name = "style" => page'.open = page.open
    BY <1>5 DEF is_verbatim_elem
  <2>3. name = "style" /\ InVerbatim' => "style" \in page'.oddities
    BY <1>8, <1>10, <2>2 DEF InVerbatim, include_verbatim
  <2>4. QED
    BY <1>2, <1>5, <1>8, <1>9, <2>1, <2>3 DEF StyleRead
<1>18. HtmlLinks' /\ EnginesAgree' /\ AnchorsFound'
  <2>1. extracted(gum') = extracted(gum)
    BY <1>8 DEF extracted
  <2>2. QED
    BY <1>2, <1>5, <1>8, <1>10, <2>1 DEF HtmlInv, HtmlLinks, EnginesAgree, AnchorsFound, include_verbatim
<1>19. QED
  BY <1>11, <1>12, <1>13, <1>14, <1>16, <1>17, <1>18 DEF HtmlInv

\* An attribute is written.
LEMMA AttributeStep ==
  ASSUME HtmlInv, NEW a, WriteAttribute(a)
  PROVE  HtmlInv'
<1>1. page \in PageState /\ gum \in GumState /\ ever \in EverState
  BY DEF HtmlInv, HtmlTypeOK
<1>2. /\ page.tag # NoTag /\ a \in AttributesOf[page.tag.element]
      /\ ~Has(page.tag.attrs, a.name)
      /\ gum' = Attribute(gum, a, ~Untold(a)) /\ UNCHANGED ever
      /\ page' = [page EXCEPT
           !.attributes = @ + 1,
           !.tag.attrs = @ \cup {a},
           !.oddities = @ \cup When("bare", a.name = "prefix" /\ Untold(a))
                          \cup When("bare", \E d \in AttributesNamed(page.tag.attrs, "disabled") : Untold(d))]
  BY DEF WriteAttribute
<1>3. page.tag.element \in Elements
  BY <1>2 DEF HtmlInv, TagOpen
<1>4. a \in HtmlAttribute
  BY <1>2, <1>3, HtmlAssumption
<1>5. page'.tag = [element |-> page.tag.element, attrs |-> page.tag.attrs \cup {a}]
  <2>1. page.tag \in [element : Elements \cup {None}, attrs : SUBSET HtmlAttribute]
    BY <1>1 DEF PageState
  <2>2. page'.tag = [page.tag EXCEPT !.attrs = @ \cup {a}]
    BY <1>1, <1>2 DEF PageState
  <2>3. QED
    BY <2>1, <2>2
<1>6. /\ page'.told = page.told /\ page'.n = page.n /\ page'.attributes = page.attributes + 1
      /\ page'.open = page.open /\ page'.styling = page.styling /\ page'.style = page.style
      /\ page'.wanted = page.wanted /\ page'.anchors = page.anchors
  BY <1>1, <1>2 DEF PageState
<1>7. page'.oddities = page.oddities
        \cup When("bare", a.name = "prefix" /\ Untold(a))
        \cup When("bare", \E d \in AttributesNamed(page.tag.attrs, "disabled") : Untold(d))
  BY <1>1, <1>2 DEF PageState
<1>8. /\ page.oddities \subseteq page'.oddities
      /\ \A o \in page'.oddities : o \in page.oddities \/ o = "bare"
      /\ "bare" \notin page'.oddities =>
           /\ ~(a.name = "prefix" /\ Untold(a))
           /\ ~ \E d \in AttributesNamed(page.tag.attrs, "disabled") : Untold(d)
  BY <1>7 DEF When
<1>9. page' \in PageState
  <2>1. page'.oddities \subseteq Oddities
    BY <1>1, <1>8 DEF PageState, Oddities
  <2>2. page.tag.attrs \subseteq HtmlAttribute
    BY <1>1 DEF PageState
  <2>3. page'.tag \in [element : Elements \cup {None}, attrs : SUBSET HtmlAttribute]
    BY <1>3, <1>4, <1>5, <2>2
  <2>4. page.attributes + 1 \in Nat
    BY <1>1 DEF PageState
  <2>5. QED
    BY <1>1, <1>2, <2>1, <2>3, <2>4 DEF PageState
<1>10. Untold(a) \in BOOLEAN
  BY DEF Untold
<1>11. /\ gum' \in GumState
       /\ gum'.include_verbatim = gum.include_verbatim
       /\ gum'.links = gum.links /\ gum'.fragments = gum.fragments
       /\ gum'.current_element = gum.current_element
       /\ gum'.current_attributes = IF ~Untold(a) THEN gum.current_attributes \cup {a}
                                    ELSE gum.current_attributes
       /\ gum'.current_attribute_name = a.name
       /\ gum'.verbatim_stack = gum.verbatim_stack
       /\ gum'.in_style_tag = gum.in_style_tag /\ gum'.style_content = gum.style_content
  BY <1>1, <1>2, <1>4, <1>10, GumReads
<1>12. /\ page'.tag.element = page.tag.element /\ page'.tag.attrs = page.tag.attrs \cup {a}
       /\ page'.tag # NoTag
  BY <1>3, <1>5, HtmlAssumption DEF NoTag
<1>13. HtmlTypeOK'
  BY <1>1, <1>2, <1>9, <1>11 DEF HtmlTypeOK
<1>14. TagOpen'
  <2>1. /\ gum.current_element = page.tag.element
        /\ page.styling = (page.tag.element = "style")
        /\ is_verbatim_elem(page.tag.element) =>
             page.open # <<>> /\ Last(page.open) = page.tag.element
        /\ \A i \in DOMAIN page.open : is_verbatim_elem(page.open[i])
        /\ "nested" \notin page.oddities =>
             \A i, j \in DOMAIN page.open : page.open[i] = page.open[j] => i = j
    BY <1>2 DEF HtmlInv, TagOpen
  <2>2. "nested" \notin page'.oddities => "nested" \notin page.oddities
    BY <1>8
  <2>3. page'.tag.element # None /\ page'.tag.element \in Elements
    BY <1>3, <1>12, HtmlAssumption
  <2>4. QED
    BY <1>6, <1>11, <1>12, <2>1, <2>2, <2>3 DEF TagOpen
<1>15. AttributesOfTheTag'
  <2>1. \A b : Untold(b)' = Untold(b)
    BY <1>6 DEF Untold
  <2>2. page'.tag.attrs \subseteq AttributesOf[page'.tag.element]
    BY <1>2, <1>12 DEF HtmlInv, AttributesOfTheTag
  <2>3. \A b, c \in page'.tag.attrs : b.name = c.name => b = c
    BY <1>2, <1>12 DEF HtmlInv, AttributesOfTheTag, Has
  <2>4. gum'.current_attributes \subseteq page'.tag.attrs
    BY <1>11, <1>12 DEF HtmlInv, AttributesOfTheTag
  <2>5. \A b \in page'.tag.attrs : b \in gum'.current_attributes \/ Untold(b)
    BY <1>11, <1>12 DEF HtmlInv, AttributesOfTheTag
  <2>6. Has(page'.tag.attrs, gum'.current_attribute_name)
    BY <1>11, <1>12 DEF Has
  <2>7. ASSUME "bare" \notin page'.oddities, NEW b \in page'.tag.attrs, Untold(b)
        PROVE  /\ b.name # "prefix"
               /\ b.name = "disabled" => gum'.current_attribute_name = "disabled"
    <3>1. CASE b = a
      BY <1>8, <1>11, <2>7, <3>1
    <3>2. CASE b \in page.tag.attrs
      <4>1. b.name # "disabled"
        BY <1>8, <2>7, <3>2 DEF AttributesNamed
      <4>2. b.name # "prefix"
        BY <1>8, <2>7, <3>2 DEF HtmlInv, AttributesOfTheTag
      <4>3. QED
        BY <4>1, <4>2
    <3>3. QED
      BY <1>12, <3>1, <3>2
  <2>8. QED
    BY <2>1, <2>2, <2>3, <2>4, <2>5, <2>6, <2>7 DEF AttributesOfTheTag
<1>16. StackHoldsOpen'
  BY <1>6, <1>8, <1>11 DEF HtmlInv, StackHoldsOpen, include_verbatim
<1>17. SeenOpen' = SeenOpen
  BY <1>2, <1>6, <1>12 DEF SeenOpen
<1>18. OutermostKnown'
  BY <1>2, <1>8, <1>11, <1>17 DEF HtmlInv, OutermostKnown, include_verbatim
<1>19. StyleRead'
  BY <1>2, <1>6, <1>8, <1>11, <1>12 DEF HtmlInv, StyleRead, InVerbatim, include_verbatim
<1>20. HtmlLinks' /\ EnginesAgree' /\ AnchorsFound'
  <2>1. extracted(gum') = extracted(gum)
    BY <1>11 DEF extracted
  <2>2. QED
    BY <1>2, <1>6, <1>8, <1>11, <2>1
       DEF HtmlInv, HtmlLinks, EnginesAgree, AnchorsFound, include_verbatim
<1>21. QED
  BY <1>13, <1>14, <1>15, <1>16, <1>18, <1>19, <1>20 DEF HtmlInv

-----------------------------------------------------------------------------
\* What the extractors make of a complete tag.

\* An attribute that html5gum has not got has no value.
LEMMA TagAttributes ==
  ASSUME HtmlInv, page.tag # NoTag
  PROVE  /\ page.tag.element \in Elements /\ gum.current_element = page.tag.element
         /\ page.tag.attrs \subseteq HtmlAttribute
         /\ \A a \in page.tag.attrs : a.name # None
         /\ \A a \in page.tag.attrs : HoldsLink(page.tag.element, a.name) =>
              \A u, v \in a.urls : u = v
         /\ gum.current_attributes \subseteq page.tag.attrs
         /\ \A a \in page.tag.attrs :
              a \in gum.current_attributes \/ (a.urls = {} /\ a.rel = {} /\ a.id = <<>>)
<1>1. page.tag.element \in Elements /\ gum.current_element = page.tag.element
  BY DEF HtmlInv, TagOpen
<1>2. page.tag.attrs \subseteq AttributesOf[page.tag.element]
  BY DEF HtmlInv, AttributesOfTheTag
<1>3. page.tag.attrs \subseteq HtmlAttribute
  BY <1>1, <1>2, HtmlAssumption
<1>4. /\ \A a \in page.tag.attrs : a.name # None
      /\ \A a \in page.tag.attrs : HoldsLink(page.tag.element, a.name) =>
           \A u, v \in a.urls : u = v
  BY <1>1, <1>2, HtmlAssumption
<1>5. gum.current_attributes \subseteq page.tag.attrs
  BY DEF HtmlInv, AttributesOfTheTag
<1>6. \A a \in page.tag.attrs :
        a \in gum.current_attributes \/ (a.urls = {} /\ a.rel = {} /\ a.id = <<>>)
  <2>1. \A a \in page.tag.attrs : a \in gum.current_attributes \/ Untold(a)
    BY DEF HtmlInv, AttributesOfTheTag
  <2>2. QED
    BY <2>1 DEF Untold, Valued
<1>7. QED
  BY <1>1, <1>3, <1>4, <1>5, <1>6

\* What the words of rel say.
LEMMA TagRel ==
  ASSUME HtmlInv, page.tag # NoTag
  PROVE  /\ \A w : RelContains(gum.current_attributes, w) = RelContains(page.tag.attrs, w)
         /\ IsStylesheet(gum.current_attributes) = RelContains(page.tag.attrs, "stylesheet")
         /\ UnfollowedRel(gum.current_attributes) =>
              \E w \in {"nofollow", "preconnect", "dns-prefetch"} : RelContains(page.tag.attrs, w)
         /\ ~Spaced(page.tag.attrs) =>
              \A w \in {"nofollow", "preconnect", "dns-prefetch"} :
                RelContains(page.tag.attrs, w) => UnfollowedRel(gum.current_attributes)
<1> DEFINE A == page.tag.attrs
           C == gum.current_attributes
<1>1. C \subseteq A /\ \A a \in A : a \in C \/ a.rel = {}
  BY TagAttributes
<1> HIDE DEF A, C
<1>2. \A w : RelContains(C, w) = RelContains(A, w)
  BY <1>1 DEF RelContains, AttributesNamed
<1>3. IsStylesheet(C) = RelContains(C, "stylesheet")
  BY DEF IsStylesheet, RelContains
<1>4. UnfollowedRel(C) =>
        \E w \in {"nofollow", "preconnect", "dns-prefetch"} : RelContains(A, w)
  <2>1. SUFFICES ASSUME UnfollowedRel(C)
                 PROVE  \E w \in {"nofollow", "preconnect", "dns-prefetch"} : RelContains(A, w)
    OBVIOUS
  <2>2. PICK a \in AttributesNamed(C, "rel"), w \in {"nofollow", "preconnect", "dns-prefetch"} :
          {w} \in a.rel
    BY <2>1 DEF UnfollowedRel
  <2>3. RelContains(C, w)
    BY <2>2 DEF RelContains
  <2>4. QED
    BY <1>2, <2>2, <2>3
<1>5. ASSUME ~Spaced(A), NEW w \in {"nofollow", "preconnect", "dns-prefetch"}, RelContains(A, w)
      PROVE  UnfollowedRel(C)
  <2>1. RelContains(C, w)
    BY <1>2, <1>5
  <2>2. PICK a \in AttributesNamed(C, "rel") : \E part \in a.rel : w \in part
    BY <2>1 DEF RelContains
  <2>3. PICK part \in a.rel : w \in part
    BY <2>2
  <2>4. a \in AttributesNamed(A, "rel")
    BY <1>1, <2>2 DEF AttributesNamed
  <2>5. part = {w}
    BY <1>5, <2>3, <2>4 DEF Spaced
  <2>6. QED
    BY <2>2, <2>3, <2>5 DEF UnfollowedRel
<1>6. QED
  BY <1>2, <1>3, <1>4, <1>5 DEF A, C

\* html5gum leaves out what stands in a verbatim element, and if the elements
\* are ended in order, nothing else.
LEMMA TagFilter ==
  ASSUME HtmlInv
  PROVE  /\ InVerbatim => gum.verbatim_stack # <<>> /\ filter_verbatim_here(gum)
         /\ /\ "unbalanced" \notin page.oddities
            /\ page.tag # NoTag \/ ~is_verbatim_elem(gum.current_element)
            /\ filter_verbatim_here(gum)
            => InVerbatim
<1>1. page.open \in Seq(Elements) /\ gum.verbatim_stack \in Seq(Elements)
  BY DEF HtmlInv, HtmlTypeOK, PageState, GumState
<1>2. InVerbatim => gum.verbatim_stack # <<>>
  <2>1. InVerbatim => Embedded(page.open, gum.verbatim_stack) /\ page.open # <<>>
    BY DEF HtmlInv, StackHoldsOpen, InVerbatim
  <2>2. QED
    BY <1>1, <2>1, EmbeddedEmpty
<1>3. InVerbatim => filter_verbatim_here(gum)
  BY <1>2 DEF filter_verbatim_here, InVerbatim, include_verbatim
<1>4. ASSUME "unbalanced" \notin page.oddities, filter_verbatim_here(gum),
             page.tag # NoTag \/ ~is_verbatim_elem(gum.current_element)
      PROVE  InVerbatim
  <2>1. ~include_verbatim /\ gum.verbatim_stack = page.open
    BY <1>4 DEF HtmlInv, StackHoldsOpen, filter_verbatim_here, include_verbatim
  <2>2. is_verbatim_elem(gum.current_element) => page.open # <<>>
    BY <1>4 DEF HtmlInv, TagOpen
  <2>3. QED
    BY <1>4, <2>1, <2>2 DEF filter_verbatim_here, InVerbatim
<1>5. QED
  BY <1>2, <1>3, <1>4

\* html5gum passes over no tag that is to be followed, unless it is verbatim.
LEMMA TagTaken ==
  ASSUME HtmlInv, page.tag # NoTag, Followed(page.tag.attrs), ~filter_verbatim_here(gum)
  PROVE  ~PassedOver(gum)
<1> DEFINE A == page.tag.attrs
           C == gum.current_attributes
<1>1. C \subseteq A
  BY TagAttributes
<1>2. ~UnfollowedRel(C)
  BY TagRel DEF Followed
<1>3. ~Has(C, "prefix")
  BY <1>1 DEF Followed, Has
<1>4. ~UnusedStylesheet(gum)
  <2>1. SUFFICES ASSUME IsStylesheet(C) PROVE ~UnusedStylesheet(gum)
    BY DEF UnusedStylesheet
  <2>2. RelContains(A, "stylesheet")
    BY <2>1, TagRel
  <2>3. ~Has(A, "disabled") /\ \A a \in AttributesNamed(A, "href") : "virtual" \notin a.urls
    BY <2>2 DEF Followed
  <2>4. Has(A, gum.current_attribute_name)
    <3>1. A # {}
      BY <2>2 DEF RelContains, AttributesNamed
    <3>2. QED
      BY <3>1 DEF HtmlInv, AttributesOfTheTag
  <2>5. gum.current_attribute_name # "disabled"
    BY <2>3, <2>4
  <2>6. ~Has(C, "disabled")
    BY <1>1, <2>3 DEF Has
  <2>7. \A a \in AttributesNamed(C, "href") : "virtual" \notin a.urls
    BY <1>1, <2>3 DEF AttributesNamed
  <2>8. QED
    BY <2>5, <2>6, <2>7 DEF UnusedStylesheet
<1>5. QED
  BY <1>2, <1>3, <1>4 DEF PassedOver

\* html5gum takes no tag that is not to be followed.
LEMMA TagLeft ==
  ASSUME HtmlInv, page.tag # NoTag, ~PassedOver(gum),
         "bare" \notin page.oddities, ~Spaced(page.tag.attrs)
  PROVE  Followed(page.tag.attrs) /\ ~InVerbatim
<1> DEFINE A == page.tag.attrs
           C == gum.current_attributes
<1>1. /\ ~filter_verbatim_here(gum) /\ ~UnfollowedRel(C) /\ ~Has(C, "prefix")
      /\ ~UnusedStylesheet(gum)
  BY DEF PassedOver
<1>2. ~InVerbatim
  BY <1>1, TagFilter
<1>3. \A w \in {"nofollow", "preconnect", "dns-prefetch"} : ~RelContains(A, w)
  BY <1>1, TagRel
<1>4. \A a \in A : a \in C \/ Untold(a)
  BY DEF HtmlInv, AttributesOfTheTag
<1>5. \A a \in A : Untold(a) =>
        a.name # "prefix" /\ (a.name = "disabled" => gum.current_attribute_name = "disabled")
  BY DEF HtmlInv, AttributesOfTheTag
<1>6. ~Has(A, "prefix")
  BY <1>1, <1>4, <1>5 DEF Has
<1>7. ASSUME RelContains(A, "stylesheet")
      PROVE  ~Has(A, "disabled") /\ \A a \in AttributesNamed(A, "href") : "virtual" \notin a.urls
  <2>1. IsStylesheet(C)
    BY <1>7, TagRel
  <2>2. /\ gum.current_attribute_name # "disabled" /\ ~Has(C, "disabled")
        /\ \A a \in AttributesNamed(C, "href") : "virtual" \notin a.urls
    BY <1>1, <2>1 DEF UnusedStylesheet
  <2>3. ~Has(A, "disabled")
    BY <1>4, <1>5, <2>2 DEF Has
  <2>4. \A a \in A : a \in C \/ a.urls = {}
    BY TagAttributes
  <2>5. QED
    BY <2>2, <2>3, <2>4 DEF AttributesNamed
<1>8. QED
  BY <1>2, <1>3, <1>6, <1>7 DEF Followed

\* What html5gum takes of a tag is what a reader would want of it.
LEMMA TagLinks ==
  ASSUME HtmlInv, page.tag # NoTag, NEW span
  PROVE  /\ AcceptedLinks(gum, span) = WantedOf(page.tag.element, page.tag.attrs, span)
         /\ \A l \in AcceptedLinks(gum, span) : l.attribute # None
         /\ AnchorsOf(page.tag.attrs) \subseteq AnchorNames(gum)
<1> DEFINE A == page.tag.attrs
           C == gum.current_attributes
           e == page.tag.element
<1>1. /\ gum.current_element = e /\ C \subseteq A
      /\ \A a \in A : a \in C \/ (a.urls = {} /\ a.rel = {} /\ a.id = <<>>)
      /\ \A a \in A : a.name # None
  BY TagAttributes
<1>2. \A u, n : /\ RawUri(u, e, n, span).text = u
                /\ RawUri(u, e, n, span).attribute = n
  BY DEF RawUri
<1>3. ASSUME NEW l \in AcceptedLinks(gum, span)
      PROVE  l \in WantedOf(e, A, span) /\ l.attribute # None
  <2>1. l \in extract_urls_from_elem_attr(gum, span) /\ AcceptedUrl(l.attribute, l.text)
    BY DEF AcceptedLinks
  <2>2. PICK a \in C :
          l \in {RawUri(u, e, a.name, span) :
             u \in IF a.name = "srcset" THEN srcset_parse(a.urls)
                   ELSE IF HoldsLink(e, a.name) THEN a.urls ELSE {}}
    BY <1>1, <2>1 DEF extract_urls_from_elem_attr
  <2>3. PICK u \in IF a.name = "srcset" THEN srcset_parse(a.urls)
                   ELSE IF HoldsLink(e, a.name) THEN a.urls ELSE {} :
          l = RawUri(u, e, a.name, span)
    BY <2>2
  <2>4. /\ u \in a.urls /\ IsLinkAttribute(e, a)
        /\ a.name = "srcset" => "malformed" \notin a.urls
    BY <2>3 DEF srcset_parse, IsLinkAttribute
  <2>5. AcceptedUrl(a.name, u)
    BY <1>2, <2>1, <2>3
  <2>6. l.attribute # None
    BY <1>1, <1>2, <2>3
  <2>7. QED
    BY <1>1, <2>3, <2>4, <2>5, <2>6 DEF WantedOf
<1>4. ASSUME NEW l \in WantedOf(e, A, span)
      PROVE  l \in AcceptedLinks(gum, span)
  <2>1. PICK a \in A :
          /\ IsLinkAttribute(e, a) /\ (a.name = "srcset" => "malformed" \notin a.urls)
          /\ l \in {RawUri(u, e, a.name, span) : u \in {v \in a.urls : AcceptedUrl(a.name, v)}}
    BY DEF WantedOf
  <2>2. PICK u \in a.urls : AcceptedUrl(a.name, u) /\ l = RawUri(u, e, a.name, span)
    BY <2>1
  <2>3. a \in C
    BY <1>1, <2>2
  <2>4. u \in IF a.name = "srcset" THEN srcset_parse(a.urls)
              ELSE IF HoldsLink(e, a.name) THEN a.urls ELSE {}
    BY <2>1, <2>2 DEF srcset_parse, IsLinkAttribute
  <2>5. l \in extract_urls_from_elem_attr(gum, span)
    BY <1>1, <2>2, <2>3, <2>4 DEF extract_urls_from_elem_attr
  <2>6. AcceptedUrl(l.attribute, l.text)
    BY <1>2, <2>2
  <2>7. QED
    BY <2>5, <2>6 DEF AcceptedLinks
<1>5. AnchorsOf(A) \subseteq AnchorNames(gum)
  BY <1>1 DEF AnchorsOf, AnchorNames, AttributesNamed
<1>6. QED
  BY <1>3, <1>4, <1>5

\* html5ever takes of an ordinary tag what html5gum takes.
LEMMA TagAgreed ==
  ASSUME HtmlInv, page.tag # NoTag, NEW span, "bare" \notin page.oddities,
         ~Spaced(page.tag.attrs), ~TextLink(page.tag.element, page.tag.attrs),
         ~SheetLink(page.tag.element, page.tag.attrs)
  PROVE  /\ ~PassedOver(gum) =>
              /\ ~EverSkips(page.tag.attrs)
              /\ EverLinks(page.tag.element, page.tag.attrs, span) = AcceptedLinks(gum, span)
         /\ PassedOver(gum) =>
              \/ filter_verbatim_here(gum) \/ EverSkips(page.tag.attrs)
              \/ EverLinks(page.tag.element, page.tag.attrs, span) = {}
<1> DEFINE A == page.tag.attrs
           C == gum.current_attributes
           e == page.tag.element
<1>1. \A a \in A : ~IsLinkAttribute(e, a) => LinksOf(e, A, a, span) = {}
  <2>1. SUFFICES ASSUME NEW a \in A, ~IsLinkAttribute(e, a) PROVE LinksOf(e, A, a, span) = {}
    OBVIOUS
  <2>2. find_links(a.urls) = {}
    BY <2>1 DEF TextLink
  <2>3. QED
    BY <2>1, <2>2 DEF LinksOf, IsLinkAttribute, extract_raw_uri_from_plaintext
<1>2. ASSUME NEW a \in A, IsLinkAttribute(e, a)
      PROVE  LinksOf(e, A, a, span) =
               {RawUri(u, e, a.name, span) :
                  u \in {v \in IF a.name = "srcset" THEN srcset_parse(a.urls) ELSE a.urls :
                           ~SkippedUrl(A, v) /\ AcceptedUrl(a.name, v)}}
  BY <1>2 DEF LinksOf, IsLinkAttribute
<1>3. RelContains(A, "stylesheet") => \A a \in A : IsLinkAttribute(e, a) => a.name = "href"
  BY DEF SheetLink
<1>4. ASSUME ~PassedOver(gum)
      PROVE  ~EverSkips(A) /\ EverLinks(e, A, span) = AcceptedLinks(gum, span)
  <2>1. Followed(A)
    BY <1>4, TagLeft
  <2>2. ~EverSkips(A)
    BY <2>1 DEF Followed, EverSkips
  <2>3. ASSUME NEW a \in A, IsLinkAttribute(e, a), NEW v \in a.urls
        PROVE  ~SkippedUrl(A, v)
    <3>1. SUFFICES ASSUME RelContains(A, "stylesheet")
                   PROVE  v # "virtual" /\ ~Has(A, "disabled")
      BY DEF SkippedUrl
    <3>2. a \in AttributesNamed(A, "href")
      BY <1>3, <2>3, <3>1 DEF AttributesNamed
    <3>3. QED
      BY <2>1, <2>3, <3>1, <3>2 DEF Followed
  <2>4. ASSUME NEW a \in A, IsLinkAttribute(e, a)
        PROVE  LinksOf(e, A, a, span) =
                 {RawUri(u, e, a.name, span) :
                    u \in {v \in IF a.name = "srcset" THEN srcset_parse(a.urls) ELSE a.urls :
                             AcceptedUrl(a.name, v)}}
    <3>1. (IF a.name = "srcset" THEN srcset_parse(a.urls) ELSE a.urls) \subseteq a.urls
      BY DEF srcset_parse
    <3>2. QED
      BY <1>2, <2>3, <2>4, <3>1
  <2>5. EverLinks(e, A, span) = WantedOf(e, A, span)
    <3>1. ASSUME NEW l \in EverLinks(e, A, span)
          PROVE  l \in WantedOf(e, A, span)
      <4>1. PICK a \in A : l \in LinksOf(e, A, a, span)
        BY DEF EverLinks
      <4>2. IsLinkAttribute(e, a)
        BY <1>1, <4>1
      <4>3. PICK u \in IF a.name = "srcset" THEN srcset_parse(a.urls) ELSE a.urls :
              AcceptedUrl(a.name, u) /\ l = RawUri(u, e, a.name, span)
        BY <2>4, <4>1, <4>2
      <4>4. u \in a.urls /\ (a.name = "srcset" => "malformed" \notin a.urls)
        BY <4>3 DEF srcset_parse
      <4>5. QED
        BY <4>2, <4>3, <4>4 DEF WantedOf
    <3>2. ASSUME NEW l \in WantedOf(e, A, span)
          PROVE  l \in EverLinks(e, A, span)
      <4>1. PICK a \in A :
              /\ IsLinkAttribute(e, a) /\ (a.name = "srcset" => "malformed" \notin a.urls)
              /\ l \in {RawUri(u, e, a.name, span) :
                          u \in {v \in a.urls : AcceptedUrl(a.name, v)}}
        BY DEF WantedOf
      <4>2. a.urls = IF a.name = "srcset" THEN srcset_parse(a.urls) ELSE a.urls
        BY <4>1 DEF srcset_parse
      <4>3. l \in LinksOf(e, A, a, span)
        BY <2>4, <4>1, <4>2
      <4>4. QED
        BY <4>3 DEF EverLinks
    <3>3. QED
      BY <3>1, <3>2
  <2>6. QED
    BY <2>2, <2>5, TagLinks
<1>5. ASSUME PassedOver(gum), ~filter_verbatim_here(gum), ~EverSkips(A)
      PROVE  EverLinks(e, A, span) = {}
  <2>1. ~UnfollowedRel(C)
    BY <1>5, TagRel DEF EverSkips
  <2>2. C \subseteq A
    BY TagAttributes
  <2>3. ~Has(C, "prefix")
    BY <1>5, <2>2 DEF EverSkips, Has
  <2>4. UnusedStylesheet(gum)
    BY <1>5, <2>1, <2>3 DEF PassedOver
  <2>5. RelContains(A, "stylesheet")
    BY <2>4, TagRel DEF UnusedStylesheet
  <2>6. ASSUME NEW a \in A, IsLinkAttribute(e, a), NEW v \in a.urls
        PROVE  SkippedUrl(A, v)
    <3>1. a.name = "href" /\ HoldsLink(e, a.name)
      BY <1>3, <2>5, <2>6 DEF HoldsLink
    <3>2. CASE \E b \in AttributesNamed(C, "href") : "virtual" \in b.urls
      <4>1. PICK b \in AttributesNamed(C, "href") : "virtual" \in b.urls
        BY <3>2
      <4>2. b = a
        BY <2>2, <3>1, <4>1 DEF HtmlInv, AttributesOfTheTag, AttributesNamed
      <4>3. v = "virtual"
        BY <2>6, <3>1, <4>1, <4>2, TagAttributes
      <4>4. QED
        BY <2>5, <4>3 DEF SkippedUrl
    <3>3. CASE gum.current_attribute_name = "disabled"
      BY <2>5, <2>6, <3>3 DEF SkippedUrl, HtmlInv, AttributesOfTheTag
    <3>4. CASE Has(C, "disabled")
      BY <2>2, <2>5, <3>4 DEF SkippedUrl, Has
    <3>5. QED
      BY <2>4, <3>2, <3>3, <3>4 DEF UnusedStylesheet
  <2>7. \A a \in A : LinksOf(e, A, a, span) = {}
    <3>1. SUFFICES ASSUME NEW a \in A, IsLinkAttribute(e, a)
                   PROVE  LinksOf(e, A, a, span) = {}
      BY <1>1
    <3>2. (IF a.name = "srcset" THEN srcset_parse(a.urls) ELSE a.urls) \subseteq a.urls
      BY DEF srcset_parse
    <3>3. QED
      BY <1>2, <2>6, <3>1, <3>2
  <2>8. QED
    BY <2>7 DEF EverLinks
<1>6. QED
  BY <1>4, <1>5

-----------------------------------------------------------------------------
\* A start tag is closed.
LEMMA CloseTagStep ==
  ASSUME HtmlInv, NEW self_closing \in BOOLEAN, WriteCloseTag(self_closing)
  PROVE  HtmlInv'
<1> DEFINE name == page.tag.element
           attrs == page.tag.attrs
           ends == self_closing /\ is_verbatim_elem(name)
           o == page.open
           t == gum.verbatim_stack
           iv == gum.include_verbatim
           R == Remembered(ever, "StartTag", name)
<1>1. page \in PageState /\ gum \in GumState /\ ever \in EverState
  BY DEF HtmlInv, HtmlTypeOK
<1>2. page.tag # NoTag
  BY DEF WriteCloseTag
<1>3. /\ gum' = CloseStartTag(gum, self_closing, page.n)
      /\ ever' = process_tag(ever, "StartTag", name, attrs, page.n)
  BY DEF WriteCloseTag
<1>4. page' = [page EXCEPT
         !.tag = NoTag,
         !.open = IF ends THEN Front(@) ELSE @,
         !.wanted = IF Followed(attrs) /\ ~InVerbatim
                    THEN @ \cup WantedOf(name, attrs, page.n) ELSE @,
         !.anchors = IF Followed(attrs) THEN @ \cup AnchorsOf(attrs) ELSE @,
         !.oddities = @ \cup When("self_closing", ends) \cup When("spaced", Spaced(attrs))
                        \cup When("text", TextLink(name, attrs))
                        \cup When("sheet", SheetLink(name, attrs))]
  BY DEF WriteCloseTag
<1>5. /\ name \in Elements /\ gum.current_element = name /\ attrs \in SUBSET HtmlAttribute
      /\ page.n \in Nat
  BY <1>1, <1>2, TagAttributes DEF PageState
<1>6. o \in Seq(Elements) /\ t \in Seq(Elements)
  BY <1>1 DEF PageState, GumState
<1>7. /\ page'.told = page.told /\ page'.n = page.n /\ page'.attributes = page.attributes
      /\ page'.tag = NoTag /\ page'.styling = page.styling /\ page'.style = page.style
  BY <1>1, <1>4 DEF PageState
<1>8. page'.open = IF ends THEN Front(o) ELSE o
  BY <1>1, <1>4 DEF PageState
<1>9. /\ page'.wanted = IF Followed(attrs) /\ ~InVerbatim
                        THEN page.wanted \cup WantedOf(name, attrs, page.n) ELSE page.wanted
      /\ page'.anchors = IF Followed(attrs) THEN page.anchors \cup AnchorsOf(attrs)
                         ELSE page.anchors
  BY <1>1, <1>4 DEF PageState
<1>10. page'.oddities = page.oddities \cup When("self_closing", ends)
         \cup When("spaced", Spaced(attrs)) \cup When("text", TextLink(name, attrs))
         \cup When("sheet", SheetLink(name, attrs))
  BY <1>1, <1>4 DEF PageState
<1>11. /\ page.oddities \subseteq page'.oddities
       /\ \A x \in page'.oddities :
            x \in page.oddities \/ x \in {"self_closing", "spaced", "text", "sheet"}
       /\ "self_closing" \notin page'.oddities => ~ends
       /\ "spaced" \notin page'.oddities => ~Spaced(attrs)
       /\ "text" \notin page'.oddities => ~TextLink(name, attrs)
       /\ "sheet" \notin page'.oddities => ~SheetLink(name, attrs)
  BY <1>10 DEF When
<1>12. /\ gum' \in GumState
       /\ gum'.include_verbatim = iv
       /\ gum'.links = IF PassedOver(gum) THEN gum.links
                       ELSE gum.links \cup AcceptedLinks(gum, page.n)
       /\ gum'.fragments = IF PassedOver(gum) THEN gum.fragments
                           ELSE gum.fragments \cup AnchorNames(gum)
       /\ gum'.current_attributes = {}
       /\ gum'.verbatim_stack = IF self_closing /\ ~iv /\ t # <<>> /\ Last(t) = name
                                THEN Front(t) ELSE t
       /\ gum'.in_style_tag = gum.in_style_tag
       /\ gum'.style_content = gum.style_content
  <2>1. GumAfterClose(gum', gum, self_closing, page.n)
    BY <1>1, <1>3, <1>5, GumCloses
  <2>2. QED
    BY <1>5, <2>1 DEF GumAfterClose
<1>13. /\ ever' \in EverState
       /\ ever'.include_verbatim = ever.include_verbatim
       /\ ever'.current_verbatim_element_name = R
       /\ ever'.links = IF R # None \/ EverSkips(attrs) THEN ever.links
                        ELSE ever.links \cup EverLinks(name, attrs, page.n)
       /\ name = "style" => ever'.in_style_tag = TRUE
       /\ name # "style" => ever'.in_style_tag = ever.in_style_tag
       /\ ever'.style_content = IF name = "style" THEN {} ELSE ever.style_content
  <2>1. EverAfterTag(ever', ever, "StartTag", name, attrs, page.n)
    BY <1>1, <1>3, <1>5, EverTag
  <2>2. QED
    BY <2>1 DEF EverAfterTag
<1>14. /\ is_verbatim_elem(name) => o # <<>> /\ Last(o) = name
       /\ \A i \in DOMAIN o : is_verbatim_elem(o[i])
       /\ "nested" \notin page.oddities => \A i, j \in DOMAIN o : o[i] = o[j] => i = j
       /\ page.styling = (name = "style")
  BY <1>2 DEF HtmlInv, TagOpen
<1>15. ends => /\ Front(o) \in Seq(Elements) /\ DOMAIN Front(o) \subseteq DOMAIN o
               /\ \A i \in DOMAIN Front(o) : Front(o)[i] = o[i]
  <2>1. SUFFICES ASSUME ends
                 PROVE  /\ Front(o) \in Seq(Elements) /\ DOMAIN Front(o) \subseteq DOMAIN o
                        /\ \A i \in DOMAIN Front(o) : Front(o)[i] = o[i]
    OBVIOUS
  <2>2. /\ Front(o) \in Seq(Elements) /\ Len(Front(o)) = Len(o) - 1
        /\ \A i \in 1 .. Len(o) - 1 : Front(o)[i] = o[i]
    BY <1>6, <1>14, <2>1, FrontLast
  <2>3. DOMAIN o = 1 .. Len(o) /\ DOMAIN Front(o) = 1 .. Len(o) - 1 /\ Len(o) \in Nat
    BY <1>6, <2>2, LenProperties
  <2>4. QED
    BY <2>2, <2>3
<1>16. page' \in PageState
  <2>1. page'.oddities \subseteq Oddities
    BY <1>1, <1>11 DEF PageState, Oddities
  <2>2. page'.open \in Seq(Elements)
    BY <1>6, <1>8, <1>15
  <2>3. page'.tag \in [element : Elements \cup {None}, attrs : SUBSET HtmlAttribute]
    BY <1>7 DEF NoTag
  <2>4. page'.wanted \subseteq RawUriSet
    <3>1. AcceptedLinks(gum, page.n) \subseteq RawUriSet
      BY <1>1, <1>5, GumFinds
    <3>2. WantedOf(name, attrs, page.n) \subseteq RawUriSet
      BY <1>2, <3>1, TagLinks
    <3>3. page.wanted \subseteq RawUriSet
      BY <1>1 DEF PageState
    <3>4. QED
      BY <1>9, <3>2, <3>3
  <2>5. page'.anchors \subseteq Seq(Nat)
    <3>1. AnchorsOf(attrs) \subseteq Seq(Nat)
      BY <1>5 DEF AnchorsOf, HtmlAttribute
    <3>2. page.anchors \subseteq Seq(Nat)
      BY <1>1 DEF PageState
    <3>3. QED
      BY <1>9, <3>1, <3>2
  <2>6. QED
    BY <1>1, <1>4, <2>1, <2>2, <2>3, <2>4, <2>5 DEF PageState
<1>17. HtmlTypeOK'
  BY <1>12, <1>13, <1>16 DEF HtmlTypeOK
<1> HIDE DEF R
<1>18. TagOpen'
  <2>1. \A i \in DOMAIN page'.open : is_verbatim_elem(page'.open[i])
    BY <1>8, <1>14, <1>15
  <2>2. "nested" \notin page'.oddities =>
          \A i, j \in DOMAIN page'.open : page'.open[i] = page'.open[j] => i = j
    BY <1>8, <1>11, <1>14, <1>15
  <2>3. QED
    BY <1>7, <2>1, <2>2 DEF TagOpen
<1>19. AttributesOfTheTag'
  BY <1>7, <1>12 DEF AttributesOfTheTag, NoTag
<1>20. /\ \A i \in DOMAIN t : is_verbatim_elem(t[i])
       /\ iv => t = <<>>
       /\ ~iv => Embedded(o, t)
       /\ ~iv /\ "unbalanced" \notin page.oddities => t = o
  BY DEF HtmlInv, StackHoldsOpen, include_verbatim
<1>21. t # <<>> => /\ Last(t) = t[Len(t)] /\ Len(t) \in DOMAIN t
                   /\ DOMAIN Front(t) \subseteq DOMAIN t
                   /\ \A i \in DOMAIN Front(t) : Front(t)[i] = t[i]
  <2>1. SUFFICES ASSUME t # <<>>
                 PROVE  /\ Last(t) = t[Len(t)] /\ Len(t) \in DOMAIN t
                        /\ DOMAIN Front(t) \subseteq DOMAIN t
                        /\ \A i \in DOMAIN Front(t) : Front(t)[i] = t[i]
    OBVIOUS
  <2>2. /\ Front(t) \in Seq(Elements) /\ Len(Front(t)) = Len(t) - 1
        /\ \A i \in 1 .. Len(t) - 1 : Front(t)[i] = t[i]
    BY <1>6, <2>1, FrontLast
  <2>3. /\ DOMAIN t = 1 .. Len(t) /\ DOMAIN Front(t) = 1 .. Len(t) - 1
        /\ Len(t) \in Nat /\ Len(t) # 0
    BY <1>6, <2>1, <2>2, LenProperties, EmptySeq
  <2>4. QED
    BY <2>2, <2>3 DEF Last
<1>22. StackHoldsOpen'
  <2>1. \A i \in DOMAIN gum'.verbatim_stack : is_verbatim_elem(gum'.verbatim_stack[i])
    BY <1>12, <1>20, <1>21
  <2>2. iv => gum'.verbatim_stack = <<>>
    BY <1>12, <1>20
  <2>3. ASSUME ~iv, ends
        PROVE  /\ Embedded(page'.open, gum'.verbatim_stack)
               /\ "unbalanced" \notin page'.oddities => gum'.verbatim_stack = page'.open
    <3>1. o # <<>> /\ Last(o) = name /\ page'.open = Front(o)
      BY <1>8, <1>14, <2>3
    <3>2. Len(o) \in 1 .. Len(o)
      BY <1>6, <3>1, EmptySeq, LenProperties
    <3>3. Embedded(SubSeq(o, 1, Len(o) - 1), t) /\ Embedded(SubSeq(o, 1, Len(o) - 1), Front(t))
      BY <1>6, <1>20, <2>3, <3>2, EmbeddedCut
    <3>4. Embedded(Front(o), t) /\ Embedded(Front(o), Front(t))
      BY <3>3 DEF Front
    <3>5. "unbalanced" \notin page'.oddities => gum'.verbatim_stack = Front(o)
      BY <1>11, <1>12, <1>20, <2>3, <3>1
    <3>6. QED
      BY <1>12, <3>1, <3>4, <3>5
  <2>4. ASSUME ~iv, ~ends
        PROVE  /\ Embedded(page'.open, gum'.verbatim_stack)
               /\ "unbalanced" \notin page'.oddities => gum'.verbatim_stack = page'.open
    <3>1. page'.open = o
      BY <1>8, <2>4
    <3>2. gum'.verbatim_stack = t
      BY <1>12, <1>20, <1>21, <2>4
    <3>3. QED
      BY <1>11, <1>20, <2>4, <3>1, <3>2
  <2>5. QED
    BY <1>12, <2>1, <2>2, <2>3, <2>4 DEF StackHoldsOpen, include_verbatim
<1>23. SeenOpen' = page'.open /\ (SeenOpen = IF is_verbatim_elem(name) THEN Front(o) ELSE o)
  BY <1>2, <1>7 DEF SeenOpen
<1>24. ASSUME page'.oddities \cap {"nested", "self_closing", "unbalanced"} = {}
       PROVE  page'.open = o /\ R = IF ~iv /\ o # <<>> THEN Head(o) ELSE None
  <2>1. page'.open = o
    BY <1>8, <1>11, <1>24
  <2>2. /\ ever.include_verbatim = iv
        /\ ever.current_verbatim_element_name =
             IF ~iv /\ SeenOpen # <<>> THEN Head(SeenOpen) ELSE None
    BY <1>11, <1>24 DEF HtmlInv, OutermostKnown, include_verbatim
  <2>3. CASE iv \/ ~is_verbatim_elem(name)
    <3>1. R = ever.current_verbatim_element_name
      BY <2>2, <2>3 DEF R, Remembered
    <3>2. iv \/ SeenOpen = o
      BY <1>23, <2>3
    <3>3. QED
      BY <2>1, <2>2, <3>1, <3>2
  <2>4. CASE ~iv /\ is_verbatim_elem(name)
    <3>1. o # <<>> /\ Last(o) = name
      BY <1>14, <2>4
    <3>2. /\ Front(o) \in Seq(Elements) /\ Len(Front(o)) = Len(o) - 1
          /\ \A i \in 1 .. Len(o) - 1 : Front(o)[i] = o[i]
          /\ Len(o) \in Nat /\ Len(o) # 0 /\ Last(o) = o[Len(o)]
      BY <1>6, <3>1, FrontLast, LenProperties, EmptySeq DEF Last
    <3>3. CASE Front(o) = <<>>
      <4>1. Len(o) = 1
        BY <3>2, <3>3, EmptySeq
      <4>2. Head(o) = name
        BY <1>6, <3>1, <3>2, <4>1
      <4>3. ever.current_verbatim_element_name = None
        BY <1>23, <2>2, <2>4, <3>3
      <4>4. QED
        BY <2>1, <2>2, <2>4, <3>1, <4>2, <4>3 DEF R, Remembered
    <3>4. CASE Front(o) # <<>>
      <4>1. 1 \in 1 .. Len(Front(o)) /\ 1 \in 1 .. Len(o) - 1
        <5>1. Len(Front(o)) # 0 /\ Len(Front(o)) \in Nat
          BY <3>2, <3>4, EmptySeq, LenProperties
        <5>2. Len(o) - 1 \in Nat /\ Len(o) - 1 # 0
          BY <3>2, <5>1
        <5>3. \A x \in Nat : x # 0 => 1 \in 1 .. x
          OBVIOUS
        <5>4. QED
          BY <5>1, <5>2, <5>3
      <4>2. Front(o)[1] = o[1] /\ Front(o)[1] \in Elements
        <5> DEFINE f == Front(o)
        <5>1. f \in Seq(Elements) /\ 1 \in 1 .. Len(f)
          BY <3>2, <4>1
        <5> HIDE DEF f
        <5>2. f[1] \in Elements
          BY <5>1, ElementOfSeq
        <5>3. f[1] = o[1]
          BY <3>2, <4>1 DEF f
        <5>4. QED
          BY <5>2, <5>3 DEF f
      <4>3. Head(Front(o)) = Front(o)[1] /\ Head(o) = o[1]
        BY <1>6, <3>1, <3>2, <3>4
      <4>4. ever.current_verbatim_element_name = Head(o) /\ Head(o) # None
        BY <1>23, <2>2, <2>4, <3>4, <4>2, <4>3, HtmlAssumption
      <4>5. QED
        BY <2>1, <2>2, <2>4, <3>1, <4>4 DEF R, Remembered
    <3>5. QED
      BY <3>3, <3>4
  <2>5. QED
    BY <2>1, <2>3, <2>4
<1>25. OutermostKnown'
  BY <1>12, <1>13, <1>23, <1>24 DEF HtmlInv, OutermostKnown, include_verbatim
<1>26. StyleRead'
  <2>1. /\ gum.style_content = {} /\ ever.style_content = {} /\ page.style = {}
        /\ gum.in_style_tag = page.styling /\ ever.in_style_tag = FALSE
        /\ page.styling /\ InVerbatim => "style" \in page.oddities
    BY <1>2 DEF HtmlInv, StyleRead
  <2>2. InVerbatim' => InVerbatim
    BY <1>8, <1>12, <1>14 DEF InVerbatim, include_verbatim
  <2>3. page.styling \in BOOLEAN
    BY <1>1 DEF PageState
  <2>4. ever'.in_style_tag = page.styling
    BY <1>13, <1>14, <2>1
  <2>5. QED
    BY <1>7, <1>11, <1>12, <1>13, <2>1, <2>2, <2>3, <2>4 DEF StyleRead
<1>27. extracted(gum') = extracted(gum) \cup
         (IF PassedOver(gum) THEN {} ELSE AcceptedLinks(gum, page.n))
  <2>1. \A l \in AcceptedLinks(gum, page.n) : l.attribute # None
    BY <1>2, TagLinks
  <2>2. QED
    BY <1>12, <2>1 DEF extracted
<1>28. AcceptedLinks(gum, page.n) = WantedOf(name, attrs, page.n)
  BY <1>2, TagLinks
<1>29. HtmlLinks'
  <2>1. ASSUME page'.oddities \cap {"spaced", "bare", "style"} = {}
        PROVE  extracted(gum') \subseteq page'.wanted
    <3>1. extracted(gum) \subseteq page.wanted
      BY <1>11, <2>1 DEF HtmlInv, HtmlLinks
    <3>2. ~PassedOver(gum) => Followed(attrs) /\ ~InVerbatim
      BY <1>2, <1>11, <2>1, TagLeft
    <3>3. QED
      BY <1>9, <1>27, <1>28, <3>1, <3>2
  <2>2. ASSUME "unbalanced" \notin page'.oddities
        PROVE  page'.wanted \subseteq extracted(gum')
    <3>1. page.wanted \subseteq extracted(gum)
      BY <1>11, <2>2 DEF HtmlInv, HtmlLinks
    <3>2. Followed(attrs) /\ ~InVerbatim => ~PassedOver(gum)
      BY <1>2, <1>11, <2>2, TagFilter, TagTaken
    <3>3. QED
      BY <1>9, <1>27, <1>28, <3>1, <3>2
  <2>3. QED
    BY <2>1, <2>2 DEF HtmlLinks
<1>30. EnginesAgree'
  <2>1. SUFFICES ASSUME page'.oddities = {} PROVE extracted(gum') = ever'.links
    BY DEF EnginesAgree
  <2>2. extracted(gum) = ever.links /\ page.oddities = {}
    BY <1>11, <2>1 DEF HtmlInv, EnginesAgree
  <2>3. R # None <=> InVerbatim
    <3>1. R = IF ~iv /\ o # <<>> THEN Head(o) ELSE None
      BY <1>24, <2>1
    <3>2. o # <<>> => Head(o) \in Elements
      BY <1>6
    <3>3. QED
      BY <3>1, <3>2, HtmlAssumption DEF InVerbatim, include_verbatim
  <2>4. filter_verbatim_here(gum) <=> InVerbatim
    BY <1>2, <2>2, TagFilter
  <2>5. /\ ~PassedOver(gum) =>
             ~EverSkips(attrs) /\ EverLinks(name, attrs, page.n) = AcceptedLinks(gum, page.n)
        /\ PassedOver(gum) =>
             \/ filter_verbatim_here(gum) \/ EverSkips(attrs)
             \/ EverLinks(name, attrs, page.n) = {}
    BY <1>2, <1>11, <2>1, <2>2, TagAgreed
  <2>6. CASE PassedOver(gum)
    BY <1>13, <1>27, <2>2, <2>3, <2>4, <2>5, <2>6
  <2>7. CASE ~PassedOver(gum)
    <3>1. ~filter_verbatim_here(gum)
      BY <2>7 DEF PassedOver
    <3>2. QED
      BY <1>13, <1>27, <2>2, <2>3, <2>4, <2>5, <2>7, <3>1
  <2>8. QED
    BY <2>6, <2>7
<1>31. AnchorsFound'
  <2>1. SUFFICES ASSUME iv PROVE page'.anchors \subseteq gum'.fragments
    BY <1>12 DEF AnchorsFound, include_verbatim
  <2>2. page.anchors \subseteq gum.fragments
    BY <2>1 DEF HtmlInv, AnchorsFound, include_verbatim
  <2>3. ~filter_verbatim_here(gum)
    BY <2>1 DEF filter_verbatim_here
  <2>4. Followed(attrs) => ~PassedOver(gum)
    BY <1>2, <2>3, TagTaken
  <2>5. AnchorsOf(attrs) \subseteq AnchorNames(gum)
    BY <1>2, TagLinks
  <2>6. QED
    BY <1>9, <1>12, <2>2, <2>4, <2>5
<1>32. QED
  BY <1>17, <1>18, <1>19, <1>22, <1>25, <1>26, <1>29, <1>30, <1>31 DEF HtmlInv

\* An end tag.
LEMMA EndTagStep ==
  ASSUME HtmlInv, NEW name \in Elements, WriteEndTag(name)
  PROVE  HtmlInv'
<1> DEFINE o == page.open
           t == gum.verbatim_stack
           iv == gum.include_verbatim
           R == Remembered(ever, "EndTag", name)
<1>1. page \in PageState /\ gum \in GumState /\ ever \in EverState
  BY DEF HtmlInv, HtmlTypeOK
<1>2. /\ page.tag = NoTag /\ (page.styling => name = "style")
      /\ gum' = EndTag(gum, name)
      /\ ever' = process_tag(ever, "EndTag", name, {}, page.n)
  BY DEF WriteEndTag
<1>3. PICK k \in 0 .. Len(o) :
        /\ k # 0 => o[k] = name
        /\ \A j \in k + 1 .. Len(o) : o[j] # name
        /\ page' = [page EXCEPT
             !.n = @ + 1,
             !.open = IF k = 0 THEN @ ELSE SubSeq(@, 1, k - 1),
             !.styling = FALSE,
             !.wanted = @ \cup page.style,
             !.style = {},
             !.oddities = @ \cup When("unbalanced", k \notin {0, Len(page.open)})]
  BY DEF WriteEndTag
<1>4. o \in Seq(Elements) /\ t \in Seq(Elements) /\ Len(o) \in Nat /\ DOMAIN o = 1 .. Len(o)
  BY <1>1, LenProperties DEF PageState, GumState
<1>5. page'.open = IF k = 0 THEN o ELSE SubSeq(o, 1, k - 1)
  BY <1>1, <1>3 DEF PageState
<1>6. /\ page'.tag = NoTag /\ page'.styling = FALSE /\ page'.style = {}
      /\ page'.wanted = page.wanted \cup page.style /\ page'.anchors = page.anchors
  BY <1>1, <1>2, <1>3 DEF PageState
<1>7. page'.oddities = page.oddities \cup When("unbalanced", k \notin {0, Len(o)})
  BY <1>1, <1>3 DEF PageState
<1>8. /\ page.oddities \subseteq page'.oddities
      /\ \A x \in page'.oddities : x \in page.oddities \/ x = "unbalanced"
      /\ "unbalanced" \notin page'.oddities => k \in {0, Len(o)}
  BY <1>7 DEF When
<1>9. k # 0 => /\ SubSeq(o, 1, k - 1) \in Seq(Elements)
               /\ DOMAIN SubSeq(o, 1, k - 1) = 1 .. k - 1
               /\ \A i \in 1 .. k - 1 : SubSeq(o, 1, k - 1)[i] = o[i] /\ i \in DOMAIN o
  <2>1. SUFFICES ASSUME k # 0
                 PROVE  /\ SubSeq(o, 1, k - 1) \in Seq(Elements)
                        /\ DOMAIN SubSeq(o, 1, k - 1) = 1 .. k - 1
                        /\ \A i \in 1 .. k - 1 : SubSeq(o, 1, k - 1)[i] = o[i] /\ i \in DOMAIN o
    OBVIOUS
  <2>2. k \in 1 .. Len(o)
    BY <1>4, <2>1
  <2>3. \A i \in 1 .. k - 1 : i \in DOMAIN o
    BY <1>4, <2>2
  <2>4. QED
    BY <1>4, <2>2, <2>3, Prefix
<1>10. /\ gum' \in GumState
       /\ gum'.include_verbatim = iv
       /\ gum'.links = IF name = "style" /\ gum.in_style_tag
                       THEN gum.links \cup gum.style_content ELSE gum.links
       /\ gum'.fragments = gum.fragments
       /\ gum'.current_attributes = gum.current_attributes
       /\ gum'.verbatim_stack = IF ~iv /\ t # <<>> /\ Last(t) = name THEN Front(t) ELSE t
       /\ gum'.in_style_tag = (gum.in_style_tag /\ name # "style")
       /\ gum'.style_content = IF name = "style" /\ gum.in_style_tag THEN {}
                               ELSE gum.style_content
  <2>1. GumAfterEnd(gum', gum, name)
    BY <1>1, <1>2, GumEnds
  <2>2. QED
    BY <2>1 DEF GumAfterEnd
<1>11. /\ ever' \in EverState
       /\ ever'.include_verbatim = ever.include_verbatim
       /\ ever'.current_verbatim_element_name = R
       /\ ever'.links = ever.links \cup (IF name = "style" THEN ever.style_content ELSE {})
       /\ name = "style" => ever'.in_style_tag = FALSE
       /\ name # "style" => ever'.in_style_tag = ever.in_style_tag
       /\ ever'.style_content = IF name = "style" THEN {} ELSE ever.style_content
  <2>1. {} \in SUBSET HtmlAttribute /\ page.n \in Nat
    BY <1>1 DEF PageState
  <2>2. EverAfterTag(ever', ever, "EndTag", name, {}, page.n)
    BY <1>1, <1>2, <2>1, EverTag
  <2>3. EverLinks(name, {}, page.n) = {}
    BY DEF EverLinks
  <2>4. QED
    BY <2>2, <2>3 DEF EverAfterTag
<1>12. HtmlTypeOK'
  <2>1. page'.oddities \subseteq Oddities
    BY <1>1, <1>8 DEF PageState, Oddities
  <2>2. page'.open \in Seq(Elements)
    BY <1>4, <1>5, <1>9
  <2>3. page.wanted \cup page.style \subseteq RawUriSet /\ page.n + 1 \in Nat
    BY <1>1 DEF PageState
  <2>4. page' \in PageState
    BY <1>1, <1>3, <2>1, <2>2, <2>3 DEF PageState
  <2>5. QED
    BY <1>10, <1>11, <2>4 DEF HtmlTypeOK
<1> HIDE DEF R
<1>13. /\ \A i \in DOMAIN o : is_verbatim_elem(o[i])
       /\ "nested" \notin page.oddities => \A i, j \in DOMAIN o : o[i] = o[j] => i = j
  BY DEF HtmlInv, TagOpen
<1>14. TagOpen'
  <2>1. \A i \in DOMAIN page'.open : is_verbatim_elem(page'.open[i])
    BY <1>5, <1>9, <1>13
  <2>2. "nested" \notin page'.oddities =>
          \A i, j \in DOMAIN page'.open : page'.open[i] = page'.open[j] => i = j
    BY <1>5, <1>8, <1>9, <1>13
  <2>3. QED
    BY <1>6, <2>1, <2>2 DEF TagOpen
<1>15. AttributesOfTheTag'
  BY <1>2, <1>6, <1>10 DEF HtmlInv, AttributesOfTheTag, NoTag
<1>16. /\ \A i \in DOMAIN t : is_verbatim_elem(t[i])
       /\ iv => t = <<>>
       /\ ~iv => Embedded(o, t)
       /\ ~iv /\ "unbalanced" \notin page.oddities => t = o
  BY DEF HtmlInv, StackHoldsOpen, include_verbatim
<1>17. t # <<>> => /\ DOMAIN Front(t) \subseteq DOMAIN t
                   /\ \A i \in DOMAIN Front(t) : Front(t)[i] = t[i]
  <2>1. SUFFICES ASSUME t # <<>>
                 PROVE  /\ DOMAIN Front(t) \subseteq DOMAIN t
                        /\ \A i \in DOMAIN Front(t) : Front(t)[i] = t[i]
    OBVIOUS
  <2>2. /\ Front(t) \in Seq(Elements) /\ Len(Front(t)) = Len(t) - 1
        /\ \A i \in 1 .. Len(t) - 1 : Front(t)[i] = t[i]
    BY <1>4, <2>1, FrontLast
  <2>3. /\ DOMAIN t = 1 .. Len(t) /\ DOMAIN Front(t) = 1 .. Len(t) - 1 /\ Len(t) \in Nat
    BY <1>4, <2>2, LenProperties
  <2>4. QED
    BY <2>2, <2>3
<1>18. StackHoldsOpen'
  <2>1. \A i \in DOMAIN gum'.verbatim_stack : is_verbatim_elem(gum'.verbatim_stack[i])
    BY <1>10, <1>16, <1>17
  <2>2. ASSUME ~iv, k = 0
        PROVE  /\ Embedded(page'.open, gum'.verbatim_stack)
               /\ "unbalanced" \notin page'.oddities => gum'.verbatim_stack = page'.open
    <3>1. page'.open = o /\ \A i \in 1 .. Len(o) : o[i] # name
      BY <1>3, <1>4, <1>5, <2>2
    <3>2. t # <<>> /\ Last(t) = name => Embedded(o, Front(t))
      BY <1>4, <1>16, <2>2, <3>1, EmbeddedFront
    <3>3. o # <<>> => Last(o) # name
      <4>1. o # <<>> => Len(o) \in 1 .. Len(o)
        BY <1>4, EmptySeq
      <4>2. QED
        BY <3>1, <4>1 DEF Last
    <3>4. QED
      BY <1>8, <1>10, <1>16, <2>2, <3>1, <3>2, <3>3
  <2>3. ASSUME ~iv, k # 0
        PROVE  /\ Embedded(page'.open, gum'.verbatim_stack)
               /\ "unbalanced" \notin page'.oddities => gum'.verbatim_stack = page'.open
    <3>1. k \in 1 .. Len(o) /\ page'.open = SubSeq(o, 1, k - 1)
      BY <1>4, <1>5, <2>3
    <3>2. Embedded(page'.open, t) /\ Embedded(page'.open, Front(t)) /\ t # <<>>
      BY <1>4, <1>16, <2>3, <3>1, EmbeddedCut
    <3>3. ASSUME "unbalanced" \notin page'.oddities
          PROVE  gum'.verbatim_stack = page'.open
      <4>1. k = Len(o) /\ t = o
        BY <1>8, <1>16, <2>3, <3>3
      <4>2. Last(t) = name /\ Front(t) = page'.open
        BY <1>3, <2>3, <3>1, <4>1 DEF Last, Front
      <4>3. QED
        BY <1>10, <2>3, <3>2, <4>2
    <3>4. QED
      BY <1>10, <3>2, <3>3
  <2>4. QED
    BY <1>10, <1>16, <2>1, <2>2, <2>3 DEF StackHoldsOpen, include_verbatim
<1>19. SeenOpen' = page'.open /\ SeenOpen = o
  BY <1>2, <1>6 DEF SeenOpen
<1>20. ASSUME page'.oddities \cap {"nested", "self_closing", "unbalanced"} = {}
       PROVE  R = IF ~iv /\ page'.open # <<>> THEN Head(page'.open) ELSE None
  <2>1. /\ ever.include_verbatim = iv
        /\ ever.current_verbatim_element_name = IF ~iv /\ o # <<>> THEN Head(o) ELSE None
    BY <1>8, <1>19, <1>20 DEF HtmlInv, OutermostKnown, include_verbatim
  <2>2. k \in {0, Len(o)} /\ \A i, j \in DOMAIN o : o[i] = o[j] => i = j
    BY <1>8, <1>13, <1>20
  <2>3. CASE iv
    BY <2>1, <2>3 DEF R, Remembered
  <2>4. CASE ~iv /\ o = <<>>
    <3>1. k = 0 /\ page'.open = <<>>
      BY <1>4, <1>5, <2>2, <2>4, EmptySeq
    <3>2. QED
      BY <2>1, <2>4, <3>1 DEF R, Remembered
  <2>5. CASE ~iv /\ o # <<>>
    <3>1. Len(o) # 0 /\ 1 \in DOMAIN o /\ Head(o) = o[1] /\ o[1] \in Elements
      <4>1. Len(o) # 0
        BY <1>4, <2>5, EmptySeq
      <4>2. 1 \in 1 .. Len(o)
        BY <1>4, <4>1
      <4>3. o[1] \in Elements
        BY <1>4, <4>2, ElementOfSeq
      <4>4. QED
        BY <1>4, <2>5, <4>1, <4>2, <4>3
    <3>2. ever.current_verbatim_element_name = o[1] /\ o[1] # None
      BY <2>1, <2>5, <3>1, HtmlAssumption
    <3>3. CASE k = 0
      <4>1. page'.open = o /\ o[1] # name
        BY <1>3, <1>4, <1>5, <3>1, <3>3
      <4>2. R = o[1]
        BY <3>2, <4>1 DEF R, Remembered
      <4>3. QED
        BY <2>5, <3>1, <4>1, <4>2
    <3>4. CASE k = Len(o) /\ k = 1
      <4>1. o[1] = name /\ is_verbatim_elem(name)
        BY <1>3, <1>13, <3>1, <3>4
      <4>2. R = None
        BY <2>1, <2>5, <3>2, <4>1 DEF R, Remembered
      <4>3. page'.open \in Seq(Elements) /\ DOMAIN page'.open = 1 .. 0
        BY <1>5, <1>9, <3>4
      <4>4. page'.open = <<>>
        <5>1. Len(page'.open) = 0
          <6>1. Len(page'.open) \in Nat /\ 1 .. Len(page'.open) = 1 .. 0
            BY <4>3, LenProperties
          <6>2. \A x \in Nat : 1 .. x = 1 .. 0 => x = 0
            OBVIOUS
          <6>3. QED
            BY <6>1, <6>2
        <5>2. QED
          BY <4>3, <5>1, EmptySeq
      <4>5. QED
        BY <4>2, <4>4
    <3>5. CASE k = Len(o) /\ k # 1
      <4>1. k \in DOMAIN o /\ k # 0
        BY <1>4, <3>1, <3>5
      <4>2. o[1] # name
        BY <1>3, <2>2, <3>1, <3>5, <4>1
      <4>3. R = o[1]
        BY <3>2, <4>2 DEF R, Remembered
      <4>4. 1 \in 1 .. k - 1
        <5>1. \A x \in Nat : x # 0 /\ x # 1 => 1 \in 1 .. x - 1
          OBVIOUS
        <5>2. QED
          BY <1>4, <3>5, <4>1, <5>1
      <4>5. /\ page'.open \in Seq(Elements) /\ DOMAIN page'.open = 1 .. k - 1
            /\ page'.open[1] = o[1]
        BY SMTT(30), <1>5, <1>9, <4>1, <4>4
      <4>6. page'.open # <<>>
        <5>1. DOMAIN <<>> = {}
          OBVIOUS
        <5>2. QED
          BY <4>4, <4>5, <5>1
      <4>7. Head(page'.open) = o[1]
        BY <4>5, <4>6
      <4>8. QED
        BY <2>5, <4>3, <4>6, <4>7
    <3>6. QED
      BY <2>2, <3>3, <3>4, <3>5
  <2>6. QED
    BY <2>3, <2>4, <2>5
<1>21. OutermostKnown'
  BY <1>10, <1>11, <1>19, <1>20 DEF HtmlInv, OutermostKnown, include_verbatim
<1>22. /\ gum.in_style_tag = page.styling /\ ever.in_style_tag = page.styling
       /\ page.styling \in BOOLEAN /\ ever.style_content = gum.style_content
       /\ page.style \subseteq gum.style_content
       /\ "style" \notin page.oddities => page.style = gum.style_content
       /\ gum.style_content # {} => page.styling
       /\ \A l \in gum.style_content : l.attribute # None
  <2>1. page.styling \in BOOLEAN
    BY <1>1 DEF PageState
  <2>2. QED
    BY <1>2, <2>1 DEF HtmlInv, StyleRead
<1>23. StyleRead'
  <2>1. gum'.style_content = {} /\ ever'.style_content = {}
    BY <1>2, <1>10, <1>11, <1>22
  <2>2. gum'.in_style_tag = FALSE /\ ever'.in_style_tag = FALSE
    BY <1>2, <1>10, <1>11, <1>22
  <2>3. QED
    BY <1>6, <2>1, <2>2 DEF StyleRead
<1>24. extracted(gum') = extracted(gum) \cup gum.style_content
  <2>1. gum'.links = gum.links \cup gum.style_content
    BY <1>2, <1>10, <1>22
  <2>2. QED
    BY <1>10, <1>22, <2>1 DEF extracted
<1>25. ever'.links = ever.links \cup gum.style_content
  BY <1>2, <1>11, <1>22
<1>26. HtmlLinks' /\ EnginesAgree' /\ AnchorsFound'
  <2>1. HtmlLinks'
    BY <1>6, <1>8, <1>22, <1>24 DEF HtmlInv, HtmlLinks
  <2>2. EnginesAgree'
    BY <1>8, <1>24, <1>25 DEF HtmlInv, EnginesAgree
  <2>3. AnchorsFound'
    BY <1>6, <1>10 DEF HtmlInv, AnchorsFound, include_verbatim
  <2>4. QED
    BY <2>1, <2>2, <2>3
<1>27. QED
  BY <1>12, <1>14, <1>15, <1>18, <1>21, <1>23, <1>26 DEF HtmlInv

\* A run of text.
LEMMA TextStep ==
  ASSUME HtmlInv, NEW urls \in Contents, WriteText(urls)
  PROVE  HtmlInv'
<1> DEFINE iv == gum.include_verbatim
           found == extract_raw_uri_from_plaintext(urls, page.n)
           css == extract_css(urls, page.n)
<1>1. page \in PageState /\ gum \in GumState /\ ever \in EverState
  BY DEF HtmlInv, HtmlTypeOK
<1>2. /\ page.tag = NoTag
      /\ gum' = String(gum, urls, page.n) /\ ever' = CharacterTokens(ever, urls, page.n)
      /\ page' = [page EXCEPT
           !.n = @ + 1,
           !.style = IF page.styling /\ ~InVerbatim THEN @ \cup css ELSE @,
           !.wanted = IF iv /\ ~page.styling THEN @ \cup found ELSE @]
  BY DEF WriteText, include_verbatim
<1>3. urls \in SUBSET UrlClasses /\ page.n \in Nat /\ page.styling \in BOOLEAN
  BY <1>1, HtmlAssumption DEF PageState
<1>4. /\ found \subseteq RawUriSet /\ css \subseteq RawUriSet
      /\ \A l \in found : l.attribute = None
      /\ \A l \in css : l.attribute # None
  BY <1>3, TextUris
<1>5. /\ page'.tag = page.tag /\ page'.open = page.open /\ page'.styling = page.styling
      /\ page'.anchors = page.anchors /\ page'.oddities = page.oddities
      /\ page'.told = page.told
  BY <1>1, <1>2 DEF PageState
<1>6. /\ page'.style = IF page.styling /\ ~InVerbatim THEN page.style \cup css ELSE page.style
      /\ page'.wanted = IF iv /\ ~page.styling THEN page.wanted \cup found ELSE page.wanted
  BY <1>1, <1>2 DEF PageState
<1>7. /\ gum' \in GumState
      /\ gum'.include_verbatim = iv
      /\ gum'.links = IF gum.in_style_tag \/ filter_verbatim_here(gum) THEN gum.links
                      ELSE gum.links \cup found
      /\ gum'.fragments = gum.fragments
      /\ gum'.current_attributes = gum.current_attributes
      /\ gum'.verbatim_stack = gum.verbatim_stack
      /\ gum'.in_style_tag = gum.in_style_tag
      /\ gum'.style_content = IF gum.in_style_tag THEN gum.style_content \cup css
                              ELSE gum.style_content
  <2>1. GumAfterText(gum', gum, urls, page.n)
    BY <1>1, <1>2, <1>3, GumString
  <2>2. QED
    BY <2>1 DEF GumAfterText
<1>8. /\ ever' \in EverState
      /\ ever'.include_verbatim = ever.include_verbatim
      /\ ever'.current_verbatim_element_name = ever.current_verbatim_element_name
      /\ ever'.links = IF \/ ever.in_style_tag \/ ~ever.include_verbatim
                          \/ ever.current_verbatim_element_name # None
                       THEN ever.links ELSE ever.links \cup found
      /\ ever'.in_style_tag = ever.in_style_tag
      /\ ever'.style_content = IF ever.in_style_tag THEN ever.style_content \cup css
                               ELSE ever.style_content
  <2>1. EverAfterText(ever', ever, urls, page.n)
    BY <1>1, <1>2, <1>3, EverTexts
  <2>2. QED
    BY <2>1 DEF EverAfterText
<1> HIDE DEF found, css
<1>9. HtmlTypeOK'
  <2>1. page'.style \subseteq RawUriSet /\ page'.wanted \subseteq RawUriSet
    BY <1>1, <1>4, <1>6 DEF PageState
  <2>2. page.n + 1 \in Nat
    BY <1>3
  <2>3. page' = [page EXCEPT !.n = page.n + 1, !.style = page'.style, !.wanted = page'.wanted]
    BY <1>1, <1>2 DEF PageState
  <2>4. page' \in PageState
    BY <1>1, <2>1, <2>2, <2>3 DEF PageState
  <2>5. QED
    BY <1>7, <1>8, <2>4 DEF HtmlTypeOK
<1>10. TagOpen'
  BY <1>2, <1>5 DEF HtmlInv, TagOpen
<1>11. AttributesOfTheTag'
  BY <1>2, <1>5, <1>7 DEF HtmlInv, AttributesOfTheTag, NoTag
<1>12. StackHoldsOpen'
  BY <1>5, <1>7 DEF HtmlInv, StackHoldsOpen, include_verbatim
<1>13. SeenOpen' = SeenOpen
  BY <1>5 DEF SeenOpen
<1>14. OutermostKnown'
  BY <1>5, <1>7, <1>8, <1>13 DEF HtmlInv, OutermostKnown, include_verbatim
<1>15. /\ gum.in_style_tag = page.styling /\ ever.in_style_tag = page.styling
       /\ ever.style_content = gum.style_content
       /\ page.style \subseteq gum.style_content
       /\ "style" \notin page.oddities => page.style = gum.style_content
       /\ page.styling /\ InVerbatim => "style" \in page.oddities
       /\ gum.style_content # {} => page.styling
       /\ \A l \in gum.style_content : l.attribute # None
  BY <1>2, <1>3 DEF HtmlInv, StyleRead
<1>16. StyleRead'
  <2>1. InVerbatim' = InVerbatim
    BY <1>5, <1>7 DEF InVerbatim, include_verbatim
  <2>2. CASE page.styling
    <3>1. /\ gum'.style_content = gum.style_content \cup css
          /\ ever'.style_content = gum.style_content \cup css
          /\ gum'.in_style_tag = TRUE /\ ever'.in_style_tag = TRUE
      BY <1>7, <1>8, <1>15, <2>2
    <3>2. page'.style \subseteq gum'.style_content
      BY <1>6, <1>15, <3>1
    <3>3. "style" \notin page'.oddities => page'.style = gum'.style_content
      BY <1>5, <1>6, <1>15, <2>2, <3>1
    <3>4. \A l \in gum'.style_content : l.attribute # None
      BY <1>4, <1>15, <3>1
    <3>5. QED
      BY <1>2, <1>3, <1>5, <1>15, <2>1, <2>2, <3>1, <3>2, <3>3, <3>4 DEF StyleRead
  <2>3. CASE ~page.styling
    <3>1. /\ gum'.style_content = gum.style_content /\ ever'.style_content = gum.style_content
          /\ gum'.in_style_tag = FALSE /\ ever'.in_style_tag = FALSE
          /\ page'.style = page.style
      BY <1>3, <1>6, <1>7, <1>8, <1>15, <2>3
    <3>2. QED
      BY <1>3, <1>5, <1>15, <2>3, <3>1 DEF StyleRead
  <2>4. QED
    BY <2>2, <2>3
<1>17. extracted(gum') = IF iv /\ ~page.styling THEN extracted(gum) \cup found ELSE extracted(gum)
  <2>1. iv => ~filter_verbatim_here(gum)
    BY DEF filter_verbatim_here
  <2>2. CASE iv
    <3>1. extracted(gum) = gum.links /\ extracted(gum') = gum'.links
      BY <1>7, <2>2 DEF extracted
    <3>2. QED
      BY <1>7, <1>15, <2>1, <2>2, <3>1
  <2>3. CASE ~iv
    <3>1. \A l \in gum'.links : l \in gum.links \/ l.attribute = None
      BY <1>4, <1>7
    <3>2. gum.links \subseteq gum'.links
      BY <1>7
    <3>3. QED
      BY <1>7, <2>3, <3>1, <3>2 DEF extracted
  <2>4. QED
    BY <2>2, <2>3
<1>18. HtmlLinks'
  BY <1>5, <1>6, <1>17 DEF HtmlInv, HtmlLinks
<1>19. EnginesAgree'
  <2>1. SUFFICES ASSUME page.oddities = {} PROVE extracted(gum') = ever'.links
    BY <1>5 DEF EnginesAgree
  <2>2. /\ extracted(gum) = ever.links
        /\ ever.include_verbatim = iv
        /\ iv => ever.current_verbatim_element_name = None
    BY <2>1 DEF HtmlInv, EnginesAgree, OutermostKnown, include_verbatim
  <2>3. QED
    BY <1>8, <1>15, <1>17, <2>2
<1>20. AnchorsFound'
  BY <1>5, <1>7 DEF HtmlInv, AnchorsFound, include_verbatim
<1>21. QED
  BY <1>9, <1>10, <1>11, <1>12, <1>14, <1>16, <1>18, <1>19, <1>20 DEF HtmlInv

\* Each event keeps the invariant of the page.
LEMMA HtmlSteps == HtmlInv /\ HtmlNext => HtmlInv'
<1> SUFFICES ASSUME HtmlInv, HtmlNext PROVE HtmlInv'
  OBVIOUS
<1>1. CASE \E e \in Elements : WriteOpenTag(e)
  BY <1>1, OpenTagStep
<1>2. CASE \E e \in Elements : WriteEndTag(e)
  BY <1>2, EndTagStep
<1>3. CASE \E a \in AttributesOf[page.tag.element] : WriteAttribute(a)
  BY <1>3, AttributeStep
<1>4. CASE \E self_closing \in BOOLEAN : WriteCloseTag(self_closing)
  BY <1>4, CloseTagStep
<1>5. CASE \E urls \in Contents : WriteText(urls)
  BY <1>5, TextStep
<1>6. QED
  BY <1>1, <1>2, <1>3, <1>4, <1>5 DEF HtmlNext

-----------------------------------------------------------------------------
\* The containers of a Markdown document.

\* One more container is opened.
LEMMA Entered ==
  ASSUME NEW s \in Seq(Containers), NEW kind \in Containers
  PROVE  /\ Append(s, kind) \in Seq(Containers)
         /\ \A kinds : Inside(Append(s, kind), kinds) <=> (Inside(s, kinds) \/ kind \in kinds)
         /\ (/\ Nested(s) /\ ~Inside(s, {"CodeBlock", "HtmlBlock"})
             /\ kind \in {"CodeBlock", "HtmlBlock", "Heading"} => s = <<>>
             /\ kind \in LinkKinds =>
                  ~Inside(s, LinkKinds) \/ (kind \in Autolinks /\ ~Inside(s, Autolinks)))
            => Nested(Append(s, kind))
<1> DEFINE r == Append(s, kind)
<1>1. /\ r \in Seq(Containers) /\ Len(s) \in Nat /\ Len(r) = Len(s) + 1
      /\ DOMAIN s = 1 .. Len(s) /\ DOMAIN r = 1 .. Len(r)
      /\ r[Len(s) + 1] = kind /\ \A i \in DOMAIN s : r[i] = s[i]
  OBVIOUS
<1> HIDE DEF r
<1>2. \A i : i \in DOMAIN r <=> i \in DOMAIN s \/ i = Len(s) + 1
  BY <1>1
<1>3. \A kinds : Inside(r, kinds) <=> (Inside(s, kinds) \/ kind \in kinds)
  BY <1>1, <1>2 DEF Inside
<1>4. ASSUME Nested(s), ~Inside(s, {"CodeBlock", "HtmlBlock"}),
             kind \in {"CodeBlock", "HtmlBlock", "Heading"} => s = <<>>,
             kind \in LinkKinds =>
               ~Inside(s, LinkKinds) \/ (kind \in Autolinks /\ ~Inside(s, Autolinks))
      PROVE  Nested(r)
  <2>1. SUFFICES ASSUME NEW i \in DOMAIN r
                 PROVE  /\ r[i] \in {"CodeBlock", "HtmlBlock"} => Len(r) = 1
                        /\ r[i] = "Heading" => i = 1
                        /\ \A j \in DOMAIN r : i < j /\ r[i] \in LinkKinds /\ r[j] \in LinkKinds
                                                => r[i] \in LabelKinds /\ r[j] \in Autolinks
    BY DEF Nested
  <2>2. s = <<>> => Len(s) = 0
    OBVIOUS
  <2>3. r[i] \in {"CodeBlock", "HtmlBlock"} => Len(r) = 1
    BY <1>1, <1>2, <1>4, <2>2 DEF Inside
  <2>4. r[i] = "Heading" => i = 1
    BY <1>1, <1>2, <1>4, <2>2 DEF Nested
  <2>5. ASSUME NEW j \in DOMAIN r, i < j, r[i] \in LinkKinds, r[j] \in LinkKinds
        PROVE  r[i] \in LabelKinds /\ r[j] \in Autolinks
    <3>1. i \in DOMAIN s /\ s[i] = r[i]
      BY <1>1, <1>2, <2>5
    <3>2. CASE j \in DOMAIN s
      BY <1>1, <1>4, <2>5, <3>1, <3>2 DEF Nested
    <3>3. CASE j = Len(s) + 1
      <4>1. r[j] = kind /\ Inside(s, LinkKinds)
        BY <1>1, <2>5, <3>1, <3>3 DEF Inside
      <4>2. kind \in Autolinks /\ ~Inside(s, Autolinks)
        BY <1>4, <2>5, <4>1
      <4>3. r[i] \notin Autolinks
        BY <3>1, <4>2 DEF Inside
      <4>4. QED
        BY <2>5, <4>1, <4>2, <4>3 DEF LabelKinds
    <3>4. QED
      BY <1>2, <3>2, <3>3
  <2>6. QED
    BY <2>3, <2>4, <2>5
<1>5. QED
  BY <1>1, <1>3, <1>4 DEF r

\* The innermost container is closed.
LEMMA Left ==
  ASSUME NEW s \in Seq(Containers), s # <<>>, Nested(s)
  PROVE  /\ Front(s) \in Seq(Containers) /\ Nested(Front(s))
         /\ \A kinds : Inside(s, kinds) <=> (Inside(Front(s), kinds) \/ Last(s) \in kinds)
         /\ Last(s) \in {"CodeBlock", "HtmlBlock", "Heading"} =>
              \A kinds : ~Inside(Front(s), kinds)
         /\ Last(s) \in LinkKinds => ~Inside(Front(s), Autolinks)
         /\ Last(s) \in LabelKinds => ~Inside(Front(s), LinkKinds)
<1> DEFINE f == Front(s)
<1>1. /\ f \in Seq(Containers) /\ Len(f) = Len(s) - 1 /\ Len(s) \in Nat \ {0}
      /\ \A i \in 1 .. Len(s) - 1 : f[i] = s[i]
  BY FrontLast, EmptySeq
<1>2. Last(s) = s[Len(s)]
  BY DEF Last
<1> HIDE DEF f
<1>3. /\ DOMAIN s = 1 .. Len(s) /\ DOMAIN f = 1 .. Len(s) - 1
  BY <1>1
<1>4. /\ \A i : i \in DOMAIN s <=> i \in DOMAIN f \/ i = Len(s)
      /\ \A i \in DOMAIN f : f[i] = s[i] /\ i # Len(s)
  BY <1>1, <1>3
<1>5. \A kinds : Inside(s, kinds) <=> (Inside(f, kinds) \/ Last(s) \in kinds)
  BY <1>2, <1>4 DEF Inside
<1>6. \A i \in DOMAIN f : f[i] \notin {"CodeBlock", "HtmlBlock"}
  BY <1>1, <1>3, <1>4 DEF Nested
<1>7. Nested(f)
  BY <1>4, <1>6 DEF Nested
<1>8. ASSUME Last(s) \in {"CodeBlock", "HtmlBlock", "Heading"}, NEW kinds
      PROVE  ~Inside(f, kinds)
  <2>1. Len(s) = 1
    BY <1>1, <1>2, <1>3, <1>8 DEF Nested
  <2>2. QED
    BY <1>3, <2>1 DEF Inside
<1>9. ASSUME Last(s) \in LinkKinds, NEW i \in DOMAIN f, f[i] \in LinkKinds
      PROVE  f[i] \in LabelKinds /\ Last(s) \in Autolinks
  <2>1. i \in DOMAIN s /\ Len(s) \in DOMAIN s /\ i < Len(s) /\ s[i] = f[i]
    BY <1>1, <1>3, <1>4
  <2>2. QED
    BY <1>2, <1>9, <2>1 DEF Nested
<1>10. /\ Autolinks \subseteq LinkKinds /\ LabelKinds \subseteq LinkKinds
       /\ \A k \in LabelKinds : k \notin Autolinks
  BY DEF LabelKinds, LinkKinds, LinkTypes, Autolinks
<1>11. /\ Last(s) \in LinkKinds => ~Inside(f, Autolinks)
       /\ Last(s) \in LabelKinds => ~Inside(f, LinkKinds)
  BY <1>9, <1>10 DEF Inside
<1>12. QED
  BY <1>1, <1>5, <1>7, <1>8, <1>11 DEF f

\* Being inside one of several kinds.
LEMMA InsideEither ==
  ASSUME NEW s
  PROVE  /\ Inside(s, {"Inline", "Reference", "CodeBlock"}) <=>
              (Inside(s, {"Inline", "Reference"}) \/ Inside(s, {"CodeBlock"}))
         /\ Inside(s, {"Autolink", "Email", "WikiLink"}) <=>
              (Inside(s, Autolinks) \/ Inside(s, {"WikiLink"}))
         /\ Inside(s, LinkKinds) <=> (Inside(s, Autolinks) \/ Inside(s, LabelKinds))
         /\ Inside(s, LabelKinds) <=>
              (\/ Inside(s, {"Inline", "Reference"}) \/ Inside(s, {"WikiLink"})
               \/ Inside(s, {"PlainWikiLink"}))
<1>1. \A k : /\ k \in LinkKinds <=> (k \in Autolinks \/ k \in LabelKinds)
             /\ k \in LabelKinds <=>
                  (k \in {"Inline", "Reference"} \/ k \in {"WikiLink"} \/ k \in {"PlainWikiLink"})
             /\ k \in {"Autolink", "Email", "WikiLink"} <=> (k \in Autolinks \/ k \in {"WikiLink"})
  BY DEF LinkKinds, LabelKinds, LinkTypes, Autolinks
<1>2. QED
  BY <1>1 DEF Inside

-----------------------------------------------------------------------------
\* What the flags of the two loops are after an event.
MdFlags(m, f, s, cut) ==
  /\ {m.inside_code_block, m.inside_html_block, m.inside_link_label,
      m.inside_extracted_link, f.in_heading, cut} \subseteq BOOLEAN
  /\ m.inside_code_block <=> Inside(s, {"CodeBlock"})
  /\ m.inside_html_block <=> Inside(s, {"HtmlBlock"})
  /\ m.inside_link_label <=> (Inside(s, {"Inline", "Reference"}) /\ ~cut)
  /\ m.inside_extracted_link <=> (Inside(s, Autolinks) \/ (Inside(s, {"WikiLink"}) /\ ~cut))
  /\ cut => Inside(s, LabelKinds)
  /\ f.in_heading <=> Inside(s, {"Heading"})

\* What they hold of the HTML block and of the heading.
Gathered(t, m, f) ==
  /\ m.inside_html_block => m.html_block_buffer = t.block /\ m.html_block_start_offset = t.start
  /\ t.heading.empty => t.heading = NoText
  /\ IF f.in_heading
     THEN f.heading_text = t.heading /\ f.heading_id = t.id
     ELSE f.heading_text = NoText /\ f.heading_id = NoId

LEMMA FlagIs ==
  ASSUME NEW flag, NEW p \in BOOLEAN
  PROVE  flag = p <=> (flag \in BOOLEAN /\ (flag <=> p))
OBVIOUS

LEMMA FlagsParts ==
  ASSUME NEW t, NEW m, NEW f
  PROVE  (/\ m.inside_code_block = Inside(t.within, {"CodeBlock"})
          /\ m.inside_html_block = Inside(t.within, {"HtmlBlock"})
          /\ m.inside_link_label = (Inside(t.within, {"Inline", "Reference"}) /\ ~t.cut)
          /\ m.inside_extracted_link =
               (Inside(t.within, Autolinks) \/ (Inside(t.within, {"WikiLink"}) /\ ~t.cut))
          /\ t.cut \in BOOLEAN /\ (t.cut => Inside(t.within, LabelKinds))
          /\ f.in_heading = Inside(t.within, {"Heading"}))
         <=> MdFlags(m, f, t.within, t.cut)
<1> DEFINE ofLabel == Inside(t.within, {"Inline", "Reference"}) /\ ~t.cut
           ofLink == Inside(t.within, Autolinks) \/ (Inside(t.within, {"WikiLink"}) /\ ~t.cut)
<1>1. MdFlags(m, f, t.within, t.cut) <=>
        /\ m.inside_code_block \in BOOLEAN /\ (m.inside_code_block <=> Inside(t.within, {"CodeBlock"}))
        /\ m.inside_html_block \in BOOLEAN /\ (m.inside_html_block <=> Inside(t.within, {"HtmlBlock"}))
        /\ m.inside_link_label \in BOOLEAN /\ (m.inside_link_label <=> ofLabel)
        /\ m.inside_extracted_link \in BOOLEAN /\ (m.inside_extracted_link <=> ofLink)
        /\ t.cut \in BOOLEAN /\ (t.cut => Inside(t.within, LabelKinds))
        /\ f.in_heading \in BOOLEAN /\ (f.in_heading <=> Inside(t.within, {"Heading"}))
  BY DEF MdFlags
<1>2. \A kinds : Inside(t.within, kinds) \in BOOLEAN
  BY DEF Inside
<1>3. ofLabel \in BOOLEAN /\ ofLink \in BOOLEAN
  OBVIOUS
<1> HIDE DEF ofLabel, ofLink
<1>4. (m.inside_code_block = Inside(t.within, {"CodeBlock"})) <=>
        (m.inside_code_block \in BOOLEAN /\ (m.inside_code_block <=> Inside(t.within, {"CodeBlock"})))
  BY <1>2, FlagIs, Zenon
<1>5. (m.inside_html_block = Inside(t.within, {"HtmlBlock"})) <=>
        (m.inside_html_block \in BOOLEAN /\ (m.inside_html_block <=> Inside(t.within, {"HtmlBlock"})))
  BY <1>2, FlagIs, Zenon
<1>6. (m.inside_link_label = ofLabel) <=>
        (m.inside_link_label \in BOOLEAN /\ (m.inside_link_label <=> ofLabel))
  BY <1>3, FlagIs, Zenon
<1>7. (m.inside_extracted_link = ofLink) <=>
        (m.inside_extracted_link \in BOOLEAN /\ (m.inside_extracted_link <=> ofLink))
  BY <1>3, FlagIs, Zenon
<1>8. (f.in_heading = Inside(t.within, {"Heading"})) <=>
        (f.in_heading \in BOOLEAN /\ (f.in_heading <=> Inside(t.within, {"Heading"})))
  BY <1>2, FlagIs, Zenon
<1>9. QED
  BY <1>1, <1>4, <1>5, <1>6, <1>7, <1>8, Zenon DEF ofLabel, ofLink

LEMMA FlagsNow ==
  FlagsRight <=> MdFlags(md, frags, text.within, text.cut) /\ Gathered(text, md, frags)
<1>1. FlagsRight <=>
        /\ md.inside_code_block = Inside(text.within, {"CodeBlock"})
        /\ md.inside_html_block = Inside(text.within, {"HtmlBlock"})
        /\ md.inside_link_label = (Inside(text.within, {"Inline", "Reference"}) /\ ~text.cut)
        /\ md.inside_extracted_link =
             (Inside(text.within, Autolinks) \/ (Inside(text.within, {"WikiLink"}) /\ ~text.cut))
        /\ text.cut \in BOOLEAN /\ (text.cut => Inside(text.within, LabelKinds))
        /\ frags.in_heading = Inside(text.within, {"Heading"})
        /\ Gathered(text, md, frags)
  BY Zenon DEF FlagsRight, Within, Gathered
<1>2. QED
  BY <1>1, FlagsParts, Zenon

LEMMA FlagsAfter ==
  FlagsRight' <=> MdFlags(md', frags', text'.within, text'.cut) /\ Gathered(text', md', frags')
<1>1. FlagsRight' <=>
        /\ md'.inside_code_block = Inside(text'.within, {"CodeBlock"})
        /\ md'.inside_html_block = Inside(text'.within, {"HtmlBlock"})
        /\ md'.inside_link_label = (Inside(text'.within, {"Inline", "Reference"}) /\ ~text'.cut)
        /\ md'.inside_extracted_link =
             (Inside(text'.within, Autolinks) \/ (Inside(text'.within, {"WikiLink"}) /\ ~text'.cut))
        /\ text'.cut \in BOOLEAN /\ (text'.cut => Inside(text'.within, LabelKinds))
        /\ frags'.in_heading = Inside(text'.within, {"Heading"})
        /\ Gathered(text', md', frags')
  BY Zenon DEF FlagsRight, Within, Gathered
<1>2. QED
  BY <1>1, FlagsParts, Zenon

\* The events that end no heading: what they all do.
SameHeadings ==
  /\ DOMAIN text' = DOMAIN text /\ DOMAIN md' = DOMAIN md /\ DOMAIN frags' = DOMAIN frags
  /\ text'.n = text.n + 1 /\ text'.start \in Nat
  /\ text'.heading \in Headline /\ text'.id \in Slugs
  /\ text'.headings = text.headings /\ counter' = counter
  /\ frags.out \subseteq frags'.out
  /\ text'.wanted \subseteq md'.links /\ md'.links \subseteq text'.wanted \cup text'.odd

\* Such an event keeps the invariant if the flags are right after it.
LEMMA EventStep ==
  ASSUME MarkdownInv, SameHeadings,
         text'.within \in Seq(Containers), Nested(text'.within),
         MdFlags(md', frags', text'.within, text'.cut), Gathered(text', md', frags')
  PROVE  MarkdownInv'
<1>1. MarkdownTypeOK /\ IdsCounted /\ HeadingsTellApart
  BY DEF MarkdownInv
<1>2. MarkdownTypeOK'
  BY <1>1 DEF SameHeadings, MarkdownTypeOK
<1>3. FlagsRight'
  BY FlagsAfter
<1>4. IdsCounted'
  <2>1. \A h \in text.headings : h.at < text'.n
    <3>1. \A x, y \in Nat : x < y => x < y + 1
      OBVIOUS
    <3>2. \A h \in text.headings : h.at \in Nat /\ h.at < text.n
      BY <1>1 DEF MarkdownTypeOK, IdsCounted
    <3>3. text.n \in Nat
      BY <1>1 DEF MarkdownTypeOK
    <3>4. QED
      BY <3>1, <3>2, <3>3 DEF SameHeadings
  <2>2. QED
    BY <1>1, <2>1 DEF SameHeadings, IdsCounted
<1>5. HeadingsTellApart'
  BY <1>1 DEF SameHeadings, HeadingsTellApart
<1>6. MarkdownLinks'
  BY DEF SameHeadings, MarkdownLinks
<1>7. Nested(text'.within) = Nested(text.within)'
  BY DEF Nested
<1>8. QED
  BY <1>2, <1>3, <1>4, <1>5, <1>6, <1>7 DEF MarkdownInv

\* A container is opened, and the flag of its kind is set.
Opens(kind) ==
  /\ text'.within = Append(text.within, kind) /\ text'.cut = text.cut
  /\ md'.inside_code_block = (md.inside_code_block \/ kind = "CodeBlock")
  /\ md'.inside_html_block = (md.inside_html_block \/ kind = "HtmlBlock")
  /\ md'.inside_link_label = (md.inside_link_label \/ kind \in {"Inline", "Reference"})
  /\ md'.inside_extracted_link =
       (md.inside_extracted_link \/ kind \in Autolinks \/ kind = "WikiLink")
  /\ frags'.in_heading = (frags.in_heading \/ kind = "Heading")

LEMMA OpenStep ==
  ASSUME MarkdownInv, SameHeadings, NEW kind \in Containers, Opens(kind),
         ~Within({"CodeBlock", "HtmlBlock"}),
         kind \in {"CodeBlock", "HtmlBlock", "Heading"} => text.within = <<>>,
         kind \in LinkKinds =>
           ~Within(LinkKinds) \/ (kind \in Autolinks /\ ~Within(Autolinks)),
         Gathered(text', md', frags')
  PROVE  MarkdownInv'
<1> DEFINE s == text.within
<1>1. s \in Seq(Containers) /\ Nested(s) /\ MdFlags(md, frags, s, text.cut)
  BY FlagsNow DEF MarkdownInv, MarkdownTypeOK
<1>2. /\ text'.within \in Seq(Containers) /\ Nested(text'.within)
      /\ \A kinds : Inside(text'.within, kinds) <=> (Inside(s, kinds) \/ kind \in kinds)
  BY <1>1, Entered DEF Opens, Within
<1>3. MdFlags(md', frags', text'.within, text'.cut)
  <2>1. /\ Inside(text'.within, {"CodeBlock"}) <=> (Inside(s, {"CodeBlock"}) \/ kind = "CodeBlock")
        /\ Inside(text'.within, {"HtmlBlock"}) <=> (Inside(s, {"HtmlBlock"}) \/ kind = "HtmlBlock")
        /\ Inside(text'.within, {"Inline", "Reference"}) <=>
             (Inside(s, {"Inline", "Reference"}) \/ kind \in {"Inline", "Reference"})
        /\ Inside(text'.within, Autolinks) <=> (Inside(s, Autolinks) \/ kind \in Autolinks)
        /\ Inside(text'.within, {"WikiLink"}) <=> (Inside(s, {"WikiLink"}) \/ kind = "WikiLink")
        /\ Inside(s, LabelKinds) => Inside(text'.within, LabelKinds)
        /\ Inside(text'.within, {"Heading"}) <=> (Inside(s, {"Heading"}) \/ kind = "Heading")
    BY <1>2
  <2>2. kind \in {"Inline", "Reference", "WikiLink"} => ~text.cut
    <3>1. kind \in {"Inline", "Reference", "WikiLink"} => kind \in LinkKinds /\ kind \notin Autolinks
      BY DEF LinkKinds, LinkTypes, Autolinks
    <3>2. text.cut => Inside(s, LinkKinds)
      BY <1>1, InsideEither DEF MdFlags
    <3>3. QED
      BY <3>1, <3>2 DEF Within
  <2>3. QED
    BY <1>1, <2>1, <2>2 DEF MdFlags, Opens
<1>4. QED
  BY <1>2, <1>3, EventStep

\* A container is closed, and the flags of its kind are cleared.
Closes ==
  /\ text'.within = Front(text.within)
  /\ md'.inside_code_block = (md.inside_code_block /\ Last(text.within) # "CodeBlock")
  /\ md'.inside_html_block = (md.inside_html_block /\ Last(text.within) # "HtmlBlock")
  /\ md'.inside_link_label = (md.inside_link_label /\ Last(text.within) \notin LinkKinds)
  /\ md'.inside_extracted_link = (md.inside_extracted_link /\ Last(text.within) \notin LinkKinds)
  /\ frags'.in_heading = (frags.in_heading /\ Last(text.within) # "Heading")
  /\ text'.cut = IF Last(text.within) \in LinkKinds THEN Inside(Front(text.within), LinkKinds)
                 ELSE text.cut

LEMMA CloseFlags ==
  ASSUME MarkdownInv, text.within # <<>>, Closes
  PROVE  /\ text'.within \in Seq(Containers) /\ Nested(text'.within)
         /\ MdFlags(md', frags', text'.within, text'.cut)
<1> DEFINE s == text.within
           last == Last(s)
<1>1. s \in Seq(Containers) /\ Nested(s) /\ MdFlags(md, frags, s, text.cut)
  BY FlagsNow DEF MarkdownInv, MarkdownTypeOK
<1>2. /\ text'.within \in Seq(Containers) /\ Nested(text'.within)
      /\ \A kinds : Inside(s, kinds) <=> (Inside(text'.within, kinds) \/ last \in kinds)
      /\ last \in {"CodeBlock", "HtmlBlock", "Heading"} => \A kinds : ~Inside(text'.within, kinds)
      /\ last \in LinkKinds => ~Inside(text'.within, Autolinks)
  BY <1>1, Left DEF Closes
<1>3. /\ \A k \in {"Inline", "Reference", "WikiLink"} : k \in LinkKinds
      /\ \A k \in Autolinks \cup LabelKinds : k \in LinkKinds
      /\ last \in LinkKinds => last \notin {"CodeBlock", "HtmlBlock", "Heading"}
  BY DEF LinkKinds, LinkTypes, LabelKinds, Autolinks
<1>4. text'.cut = IF last \in LinkKinds THEN Inside(text'.within, LinkKinds) ELSE text.cut
  BY DEF Closes
<1> HIDE DEF last
<1>5. /\ Inside(text'.within, {"CodeBlock"}) <=> (Inside(s, {"CodeBlock"}) /\ last # "CodeBlock")
      /\ Inside(text'.within, {"HtmlBlock"}) <=> (Inside(s, {"HtmlBlock"}) /\ last # "HtmlBlock")
      /\ Inside(text'.within, {"Heading"}) <=> (Inside(s, {"Heading"}) /\ last # "Heading")
  BY <1>2
<1>6. /\ md'.inside_code_block = (md.inside_code_block /\ last # "CodeBlock")
      /\ md'.inside_html_block = (md.inside_html_block /\ last # "HtmlBlock")
      /\ md'.inside_link_label = (md.inside_link_label /\ last \notin LinkKinds)
      /\ md'.inside_extracted_link = (md.inside_extracted_link /\ last \notin LinkKinds)
      /\ frags'.in_heading = (frags.in_heading /\ last # "Heading")
  BY DEF Closes, last
<1>7. ASSUME last \in LinkKinds PROVE MdFlags(md', frags', text'.within, text'.cut)
  <2>1. /\ text'.cut \in BOOLEAN
        /\ text'.cut <=> Inside(text'.within, LabelKinds)
        /\ Inside(text'.within, {"Inline", "Reference"}) => text'.cut
        /\ Inside(text'.within, {"WikiLink"}) => text'.cut
        /\ ~Inside(text'.within, Autolinks)
    <3>1. Inside(text'.within, LinkKinds) \in BOOLEAN
      BY DEF Inside
    <3>2. QED
      BY <1>2, <1>4, <1>7, <3>1, InsideEither
  <2>2. md'.inside_link_label = FALSE /\ md'.inside_extracted_link = FALSE
    BY <1>6, <1>7
  <2>3. QED
    BY <1>1, <1>5, <1>6, <2>1, <2>2 DEF MdFlags
<1>8. ASSUME last \notin LinkKinds PROVE MdFlags(md', frags', text'.within, text'.cut)
  <2>1. /\ Inside(text'.within, {"Inline", "Reference"}) <=> Inside(s, {"Inline", "Reference"})
        /\ Inside(text'.within, Autolinks) <=> Inside(s, Autolinks)
        /\ Inside(text'.within, {"WikiLink"}) <=> Inside(s, {"WikiLink"})
        /\ Inside(text'.within, LabelKinds) <=> Inside(s, LabelKinds)
    <3>1. /\ last \notin {"Inline", "Reference"} /\ last \notin Autolinks
          /\ last \notin {"WikiLink"} /\ last \notin LabelKinds
      BY <1>3, <1>8
    <3>2. QED
      BY <1>2, <3>1
  <2>2. text'.cut = text.cut
    BY <1>4, <1>8
  <2>3. /\ md.inside_link_label \in BOOLEAN /\ md.inside_extracted_link \in BOOLEAN
        /\ md'.inside_link_label = md.inside_link_label
        /\ md'.inside_extracted_link = md.inside_extracted_link
    BY <1>1, <1>6, <1>8 DEF MdFlags
  <2>4. QED
    BY <1>1, <1>5, <1>6, <2>1, <2>2, <2>3 DEF MdFlags
<1>9. QED
  BY <1>2, <1>7, <1>8

LEMMA CloseStep ==
  ASSUME MarkdownInv, SameHeadings, text.within # <<>>, Closes, Gathered(text', md', frags')
  PROVE  MarkdownInv'
BY CloseFlags, EventStep

\* Neither: the flags stay.
Stays ==
  /\ text'.within = text.within /\ text'.cut = text.cut
  /\ md'.inside_code_block = md.inside_code_block
  /\ md'.inside_html_block = md.inside_html_block
  /\ md'.inside_link_label = md.inside_link_label
  /\ md'.inside_extracted_link = md.inside_extracted_link
  /\ frags'.in_heading = frags.in_heading

LEMMA StayStep ==
  ASSUME MarkdownInv, SameHeadings, Stays, Gathered(text', md', frags')
  PROVE  MarkdownInv'
<1>1. /\ text.within \in Seq(Containers) /\ Nested(text.within)
      /\ MdFlags(md, frags, text.within, text.cut)
  BY FlagsNow DEF MarkdownInv, MarkdownTypeOK
<1>2. MdFlags(md', frags', text'.within, text'.cut)
  BY <1>1 DEF MdFlags, Stays
<1>3. QED
  BY <1>1, <1>2, EventStep DEF Stays

-----------------------------------------------------------------------------
\* The events, one by one.

\* What an event can rely on.
LEMMA MarkdownKnows ==
  ASSUME MarkdownInv
  PROVE  /\ MarkdownTypeOK /\ Gathered(text, md, frags)
         /\ MdFlags(md, frags, text.within, text.cut)
         /\ text.wanted \subseteq md.links /\ md.links \subseteq text.wanted \cup text.odd
         /\ text.within \in Seq(Containers)
         /\ text.within # <<>> => Last(text.within) \in Containers
<1>1. MarkdownTypeOK /\ FlagsRight /\ MarkdownLinks
  BY DEF MarkdownInv
<1>2. text.within \in Seq(Containers)
  BY <1>1 DEF MarkdownTypeOK
<1>3. text.within # <<>> => Last(text.within) \in Containers
  BY <1>2, FrontLast
<1>4. QED
  BY <1>1, <1>2, <1>3, FlagsNow DEF MarkdownLinks

\* A link is written.
LEMMA StartLinkStep ==
  ASSUME MarkdownInv, NEW link_type, NEW dest_url, StartLink(link_type, dest_url)
  PROVE  MarkdownInv'
<1> USE MarkdownKnows
<1>1. /\ ~Within({"CodeBlock", "HtmlBlock"}) /\ ~Within(Autolinks)
      /\ ~Within(LinkKinds) \/ link_type \in Autolinks
  BY DEF StartLink, Running
<1>2. frags' = frags /\ counter' = counter
  BY DEF StartLink
<1>3. ASSUME NEW kind \in LinkKinds, NEW found, ~Within(LinkKinds) \/ kind \in Autolinks,
             text' = [text EXCEPT !.n = @ + 1, !.within = Append(text.within, kind),
                                  !.wanted = @ \cup found],
             \/ /\ kind \in {"Inline", "Reference"}
                /\ md' = [md EXCEPT !.inside_link_label = TRUE, !.links = @ \cup found]
             \/ /\ kind \in Autolinks \cup {"WikiLink"}
                /\ md' = [md EXCEPT !.inside_extracted_link = TRUE, !.links = @ \cup found]
             \/ kind = "PlainWikiLink" /\ found = {} /\ md' = md
      PROVE  MarkdownInv'
  <2>1. /\ kind \in Containers /\ kind \notin {"CodeBlock", "HtmlBlock", "Heading"}
        /\ kind \in {"Inline", "Reference"} => kind \notin Autolinks \cup {"WikiLink"}
        /\ kind = "PlainWikiLink" => kind \notin Autolinks
    BY <1>3 DEF Containers, LinkKinds, LinkTypes, Autolinks
  <2>2. /\ DOMAIN text' = DOMAIN text /\ text'.n = text.n + 1
        /\ text'.within = Append(text.within, kind) /\ text'.wanted = text.wanted \cup found
        /\ text'.block = text.block /\ text'.start = text.start /\ text'.heading = text.heading
        /\ text'.id = text.id /\ text'.headings = text.headings
        /\ text'.cut = text.cut /\ text'.odd = text.odd
    BY <1>3 DEF MarkdownTypeOK
  <2>3. /\ DOMAIN md' = DOMAIN md /\ md'.links = md.links \cup found
        /\ md'.inside_code_block = md.inside_code_block
        /\ md'.inside_html_block = md.inside_html_block
        /\ md'.html_block_buffer = md.html_block_buffer
        /\ md'.html_block_start_offset = md.html_block_start_offset
        /\ md'.inside_link_label = (md.inside_link_label \/ kind \in {"Inline", "Reference"})
        /\ md'.inside_extracted_link =
             (md.inside_extracted_link \/ kind \in Autolinks \/ kind = "WikiLink")
    BY <1>3, <2>1 DEF MarkdownTypeOK, MdFlags
  <2>4. SameHeadings
    BY <1>2, <2>2, <2>3 DEF SameHeadings, MarkdownTypeOK
  <2>5. Opens(kind)
    BY <1>2, <2>1, <2>2, <2>3 DEF Opens, MdFlags
  <2>6. Gathered(text', md', frags')
    BY <1>2, <2>2, <2>3 DEF Gathered
  <2>7. QED
    BY <1>1, <1>3, <2>1, <2>4, <2>5, <2>6, OpenStep
<1>4. CASE /\ link_type \in {"Inline", "Reference"}
           /\ md' = [md EXCEPT !.inside_link_label = TRUE, !.links = @ \cup raw_uri(dest_url, text.n)]
           /\ Write(Enter(link_type), raw_uri(dest_url, text.n))
  <2>1. link_type \in LinkKinds
    BY <1>4 DEF LinkKinds, LinkTypes
  <2>2. ~Within(LinkKinds)
    BY <1>1, <1>4 DEF Autolinks
  <2>3. QED
    BY <1>3, <1>4, <2>1, <2>2 DEF Write, Enter
<1>5. CASE /\ <<link_type, dest_url>> \in {<<"Autolink", "web">>, <<"Email", "email">>}
           /\ LET found == extract_raw_uri_from_plaintext({dest_url}, text.n)
              IN /\ md' = [md EXCEPT !.inside_extracted_link = TRUE, !.links = @ \cup found]
                 /\ Write(Enter(link_type), {RawUri(dest_url, None, None, text.n)})
  <2> DEFINE found == extract_raw_uri_from_plaintext({dest_url}, text.n)
  <2>1. link_type \in Autolinks /\ dest_url \in {"web", "email"}
    BY <1>5 DEF Autolinks
  <2>2. link_type \in LinkKinds
    BY <2>1 DEF LinkKinds, LinkTypes, Autolinks
  <2>3. find_links({dest_url}) = {dest_url}
    BY <2>1 DEF find_links
  <2>4. found = {RawUri(dest_url, None, None, text.n)}
    BY <2>3 DEF extract_raw_uri_from_plaintext
  <2>5. /\ md' = [md EXCEPT !.inside_extracted_link = TRUE, !.links = @ \cup found]
        /\ text' = [text EXCEPT !.n = @ + 1, !.within = Append(text.within, link_type),
                                !.wanted = @ \cup found]
    BY <1>5, <2>4 DEF Write, Enter
  <2> HIDE DEF found
  <2>6. QED
    BY <1>3, <2>1, <2>2, <2>5
<1>6. CASE /\ link_type = "WikiLink"
           /\ md' = [md EXCEPT !.inside_extracted_link = TRUE,
                               !.links = @ \cup wikilinks(dest_url, text.n)]
           /\ Write(Enter(link_type), {l \in {RawUri(dest_url, "a", "wikilink", text.n)} :
                                         dest_url \notin {"TOC", ""}})
  <2> DEFINE found == wikilinks(dest_url, text.n)
  <2>1. link_type \in LinkKinds
    BY <1>6 DEF LinkKinds, LinkTypes
  <2>2. found = {l \in {RawUri(dest_url, "a", "wikilink", text.n)} : dest_url \notin {"TOC", ""}}
    BY DEF wikilinks
  <2>3. /\ md' = [md EXCEPT !.inside_extracted_link = TRUE, !.links = @ \cup found]
        /\ text' = [text EXCEPT !.n = @ + 1, !.within = Append(text.within, link_type),
                                !.wanted = @ \cup found]
    BY <1>6, <2>2 DEF Write, Enter
  <2> HIDE DEF found
  <2>4. ~Within(LinkKinds)
    BY <1>1, <1>6 DEF Autolinks
  <2>5. QED
    BY <1>3, <1>6, <2>1, <2>3, <2>4
<1>7. CASE link_type = "WikiLink" /\ md' = md /\ Write(Enter("PlainWikiLink"), {})
  <2>1. "PlainWikiLink" \in LinkKinds
    BY DEF LinkKinds
  <2>2. ~Within(LinkKinds)
    BY <1>1, <1>7 DEF Autolinks
  <2>3. QED
    BY <1>3, <1>7, <2>1, <2>2 DEF Write, Enter
<1>8. QED
  BY <1>4, <1>5, <1>6, <1>7 DEF StartLink

\* A link, an image or a code block ends.
LEMMA EndsStep ==
  ASSUME MarkdownInv, EndLink \/ EndImage \/ EndCodeBlock
  PROVE  MarkdownInv'
<1> USE MarkdownKnows
<1> DEFINE last == Last(text.within)
<1>1. /\ text.within # <<>> /\ frags' = frags /\ counter' = counter
  BY DEF EndLink, EndImage, EndCodeBlock, Leave
<1>2. /\ "HtmlBlock" \notin LinkKinds /\ "CodeBlock" \notin LinkKinds
      /\ "Heading" \notin LinkKinds /\ "Image" \notin LinkKinds
  BY DEF LinkKinds, LinkTypes
<1>3. /\ DOMAIN text' = DOMAIN text /\ text'.n = text.n + 1 /\ text'.within = Front(text.within)
      /\ text'.wanted = text.wanted /\ text'.block = text.block /\ text'.start = text.start
      /\ text'.heading = text.heading /\ text'.id = text.id /\ text'.headings = text.headings
      /\ text'.odd = text.odd
      /\ text'.cut = IF last \in LinkKinds THEN Inside(Front(text.within), LinkKinds)
                     ELSE text.cut
  <2>1. CASE EndLink
    BY <2>1 DEF EndLink, WriteEndLink, Leave, MarkdownTypeOK
  <2>2. CASE EndImage \/ EndCodeBlock
    <3>1. last \notin LinkKinds
      BY <1>2, <2>2 DEF EndImage, EndCodeBlock, Leave
    <3>2. Write(Front(text.within), {})
      BY <2>2 DEF EndImage, EndCodeBlock
    <3>3. QED
      BY <3>1, <3>2 DEF Write, MarkdownTypeOK
  <2>3. QED
    BY <2>1, <2>2
<1>4. /\ DOMAIN md' = DOMAIN md /\ md'.links = md.links
      /\ md'.inside_html_block = md.inside_html_block /\ last \notin {"HtmlBlock", "Heading"}
      /\ md'.html_block_buffer = md.html_block_buffer
      /\ md'.html_block_start_offset = md.html_block_start_offset
      /\ md'.inside_code_block = (md.inside_code_block /\ last # "CodeBlock")
      /\ md'.inside_link_label = (md.inside_link_label /\ last \notin LinkKinds)
      /\ md'.inside_extracted_link = (md.inside_extracted_link /\ last \notin LinkKinds)
  <2>1. CASE EndLink
    BY <1>2, <2>1 DEF EndLink, Leave, MarkdownTypeOK, MdFlags
  <2>2. CASE EndImage
    BY <1>2, <2>2 DEF EndImage, Leave, MarkdownTypeOK, MdFlags
  <2>3. CASE EndCodeBlock
    BY <1>2, <2>3 DEF EndCodeBlock, Leave, MarkdownTypeOK, MdFlags
  <2>4. QED
    BY <2>1, <2>2, <2>3
<1>5. SameHeadings
  BY <1>1, <1>3, <1>4 DEF SameHeadings, MarkdownTypeOK
<1>6. Closes
  BY <1>1, <1>3, <1>4 DEF Closes, MdFlags
<1>7. Gathered(text', md', frags')
  BY <1>1, <1>3, <1>4 DEF Gathered
<1>8. QED
  BY <1>1, <1>5, <1>6, <1>7, CloseStep

\* An image or a code block begins.
LEMMA StartsStep ==
  ASSUME MarkdownInv, (\E dest_url \in Targets : StartImage(dest_url)) \/ StartCodeBlock
  PROVE  MarkdownInv'
<1> USE MarkdownKnows
<1>1. ASSUME NEW kind \in {"Image", "CodeBlock"}, NEW found,
             frags' = frags, counter' = counter,
             text' = [text EXCEPT !.n = @ + 1, !.within = Append(text.within, kind),
                                  !.wanted = @ \cup found],
             \/ kind = "Image" /\ Running /\ md' = [md EXCEPT !.links = @ \cup found]
             \/ /\ kind = "CodeBlock" /\ found = {} /\ text.within = <<>>
                /\ md' = [md EXCEPT !.inside_code_block = TRUE]
      PROVE  MarkdownInv'
  <2>1. kind \in Containers /\ kind \notin LinkKinds /\ kind \notin {"HtmlBlock", "Heading"}
    BY <1>1 DEF Containers, LinkKinds, LinkTypes
  <2>2. /\ DOMAIN text' = DOMAIN text /\ text'.n = text.n + 1
        /\ text'.within = Append(text.within, kind) /\ text'.wanted = text.wanted \cup found
        /\ text'.block = text.block /\ text'.start = text.start /\ text'.heading = text.heading
        /\ text'.id = text.id /\ text'.headings = text.headings
        /\ text'.cut = text.cut /\ text'.odd = text.odd
    BY <1>1 DEF MarkdownTypeOK
  <2>3. /\ DOMAIN md' = DOMAIN md /\ md'.links = md.links \cup found
        /\ md'.inside_code_block = (md.inside_code_block \/ kind = "CodeBlock")
        /\ md'.inside_html_block = md.inside_html_block
        /\ md'.html_block_buffer = md.html_block_buffer
        /\ md'.html_block_start_offset = md.html_block_start_offset
        /\ md'.inside_link_label = md.inside_link_label
        /\ md'.inside_extracted_link = md.inside_extracted_link
    BY <1>1 DEF MarkdownTypeOK, MdFlags
  <2>4. SameHeadings
    BY <1>1, <2>2, <2>3 DEF SameHeadings, MarkdownTypeOK
  <2>5. kind \notin {"Inline", "Reference", "WikiLink"} /\ kind \notin Autolinks
    BY <1>1 DEF Autolinks
  <2>6. Opens(kind)
    BY <1>1, <2>1, <2>2, <2>3, <2>5 DEF Opens, MdFlags
  <2>7. Gathered(text', md', frags')
    BY <1>1, <2>2, <2>3 DEF Gathered
  <2>8. ~Within({"CodeBlock", "HtmlBlock"}) /\ (kind = "CodeBlock" => text.within = <<>>)
    <3>1. ~Inside(<<>>, {"CodeBlock", "HtmlBlock"})
      BY DEF Inside
    <3>2. QED
      BY <1>1, <3>1 DEF Running, Within
  <2>9. QED
    BY <2>1, <2>4, <2>6, <2>7, <2>8, OpenStep
<1>2. CASE StartCodeBlock
  BY <1>1, <1>2 DEF StartCodeBlock, Write, Enter
<1>3. CASE \E dest_url \in Targets : StartImage(dest_url)
  <2>1. PICK dest_url \in Targets : StartImage(dest_url)
    BY <1>3
  <2>2. QED
    BY <1>1, <2>1 DEF StartImage, Write, Enter
<1>4. QED
  BY <1>2, <1>3

\* Text, in the current heading or elsewhere.
LEMMA TextStays ==
  ASSUME MarkdownInv, NEW t \in Texts, NEW found, NEW wanted, NEW odd, heading_push(t),
         WriteRun(t, wanted, odd), wanted \subseteq found, found \subseteq wanted \cup odd,
         md' = [md EXCEPT !.links = @ \cup found] \/ (md' = md /\ found = {})
  PROVE  MarkdownInv'
<1> USE MarkdownKnows
<1>1. /\ DOMAIN text' = DOMAIN text /\ text'.n = text.n + 1
      /\ text'.within = text.within /\ text'.wanted = text.wanted \cup wanted
      /\ text'.block = text.block /\ text'.start = text.start
      /\ text'.heading = IF Within({"Heading"}) THEN Pushed(text.heading, t) ELSE text.heading
      /\ text'.id = text.id /\ text'.headings = text.headings
      /\ text'.cut = text.cut /\ text'.odd = text.odd \cup odd
  BY DEF WriteRun, MarkdownTypeOK
<1>2. /\ DOMAIN md' = DOMAIN md /\ md'.links = md.links \cup found
      /\ md'.inside_code_block = md.inside_code_block
      /\ md'.inside_html_block = md.inside_html_block
      /\ md'.html_block_buffer = md.html_block_buffer
      /\ md'.html_block_start_offset = md.html_block_start_offset
      /\ md'.inside_link_label = md.inside_link_label
      /\ md'.inside_extracted_link = md.inside_extracted_link
  BY DEF MarkdownTypeOK
<1>3. /\ DOMAIN frags' = DOMAIN frags /\ frags'.in_heading = frags.in_heading
      /\ frags'.heading_id = frags.heading_id /\ frags'.out = frags.out
      /\ frags'.heading_text = IF frags.in_heading THEN Pushed(frags.heading_text, t)
                               ELSE frags.heading_text
      /\ counter' = counter
  BY DEF heading_push, MarkdownTypeOK
<1>4. text'.heading \in Headline
  <2>1. text.heading.slug \in Seq(Nat) /\ t.slug \in Seq(Nat)
    BY MarkdownAssumption DEF MarkdownTypeOK, Headline, Slugs
  <2>2. Pushed(text.heading, t) \in Headline
    BY <2>1 DEF Pushed, Headline, Slugs
  <2>3. QED
    BY <1>1, <2>2 DEF MarkdownTypeOK
<1>5. SameHeadings
  BY <1>1, <1>2, <1>3, <1>4 DEF SameHeadings, MarkdownTypeOK
<1>6. Stays
  BY <1>1, <1>2, <1>3 DEF Stays
<1>7. Gathered(text', md', frags')
  <2>1. frags.in_heading <=> Within({"Heading"})
    BY DEF MdFlags, Within
  <2>2. ~Pushed(text.heading, t).empty
    BY DEF Pushed
  <2>3. CASE frags.in_heading
    BY <1>1, <1>2, <1>3, <2>1, <2>2, <2>3 DEF Gathered
  <2>4. CASE ~frags.in_heading
    BY <1>1, <1>2, <1>3, <2>1, <2>4 DEF Gathered
  <2>5. QED
    BY <2>3, <2>4
<1>8. QED
  BY <1>5, <1>6, <1>7, StayStep

LEMMA TextEventStep ==
  ASSUME MarkdownInv, NEW t \in Texts, Text(t) \/ Code(t)
  PROVE  MarkdownInv'
<1> USE MarkdownKnows
<1> DEFINE all == extract_raw_uri_from_plaintext(t.urls, text.n)
<1>1. CASE Text(t)
  <2> DEFINE passed == \/ md.inside_extracted_link
                       \/ md.inside_link_label /\ ~md.include_verbatim
                       \/ md.inside_code_block /\ ~md.include_verbatim
             found == IF passed THEN {} ELSE all
             odd == {l \in all : text.cut}
  <2>1. /\ Within({"Autolink", "Email", "WikiLink"}) <=> (Within(Autolinks) \/ Within({"WikiLink"}))
        /\ Within({"Inline", "Reference", "CodeBlock"}) <=>
             (Within({"Inline", "Reference"}) \/ Within({"CodeBlock"}))
    BY InsideEither DEF Within
  <2>2. /\ md.inside_extracted_link <=>
             (Within(Autolinks) \/ (Within({"WikiLink"}) /\ ~text.cut))
        /\ md.inside_link_label <=> (Within({"Inline", "Reference"}) /\ ~text.cut)
        /\ md.inside_code_block <=> Within({"CodeBlock"})
    BY DEF MdFlags, Within
  <2>3. WantedText(t) = {} \/ (WantedText(t) = all /\ ~passed)
    BY <2>1, <2>2 DEF WantedText
  <2>4. text.cut \/ passed \/ WantedText(t) = all
    BY <2>1, <2>2 DEF WantedText
  <2>5. md' = [md EXCEPT !.links = @ \cup found] \/ (md' = md /\ found = {})
    BY <1>1 DEF Text
  <2>6. WriteRun(t, WantedText(t), odd) /\ heading_push(t)
    BY <1>1 DEF Text
  <2> HIDE DEF all, passed
  <2>7. WantedText(t) \subseteq found /\ found \subseteq WantedText(t) \cup odd
    BY <2>3, <2>4
  <2> HIDE DEF found, odd
  <2>8. QED
    BY <2>5, <2>6, <2>7, TextStays
<1>2. CASE Code(t)
  <2> DEFINE found == {l \in all : md.include_verbatim}
  <2>1. found = IF md.include_verbatim THEN all ELSE {}
    OBVIOUS
  <2>2. md' = [md EXCEPT !.links = @ \cup found] \/ (md' = md /\ found = {})
    BY <1>2, <2>1 DEF Code
  <2>3. WriteRun(t, found, {}) /\ heading_push(t)
    BY <1>2 DEF Code
  <2> HIDE DEF found
  <2>4. QED
    BY <2>2, <2>3, TextStays
<1>3. QED
  BY <1>1, <1>2

\* An HTML block begins.
LEMMA StartHtmlBlockStep ==
  ASSUME MarkdownInv, StartHtmlBlock
  PROVE  MarkdownInv'
<1> USE MarkdownKnows
<1>1. /\ DOMAIN text' = DOMAIN text /\ text'.n = text.n + 1
      /\ text'.within = Append(text.within, "HtmlBlock") /\ text'.wanted = text.wanted
      /\ text'.block = <<>> /\ text'.start = text.n /\ text'.heading = text.heading
      /\ text'.id = text.id /\ text'.headings = text.headings
      /\ text'.cut = text.cut /\ text'.odd = text.odd
      /\ text.within = <<>> /\ frags' = frags /\ counter' = counter
  BY DEF StartHtmlBlock, Enter, MarkdownTypeOK
<1>2. /\ DOMAIN md' = DOMAIN md /\ md'.links = md.links
      /\ md'.inside_code_block = md.inside_code_block
      /\ md'.inside_html_block = TRUE
      /\ md'.html_block_buffer = <<>>
      /\ md'.html_block_start_offset = text.n
      /\ md'.inside_link_label = md.inside_link_label
      /\ md'.inside_extracted_link = md.inside_extracted_link
  BY DEF StartHtmlBlock, MarkdownTypeOK
<1>3. "HtmlBlock" \in Containers /\ "HtmlBlock" \notin LinkKinds \cup Autolinks
  BY DEF Containers, LinkKinds, LinkTypes, Autolinks
<1>4. SameHeadings
  BY <1>1, <1>2 DEF SameHeadings, MarkdownTypeOK
<1>5. Opens("HtmlBlock")
  BY <1>1, <1>2, <1>3 DEF Opens, MdFlags
<1>6. Gathered(text', md', frags')
  BY <1>1, <1>2 DEF Gathered
<1>7. ~Within({"CodeBlock", "HtmlBlock"})
  BY <1>1 DEF Within, Inside
<1>8. QED
  BY <1>1, <1>3, <1>4, <1>5, <1>6, <1>7, OpenStep

\* A piece of HTML, in a block or alone.
LEMMA HtmlPieceStep ==
  ASSUME MarkdownInv, NEW piece, Html(piece) \/ InlineHtml(piece)
  PROVE  MarkdownInv'
<1> USE MarkdownKnows
<1> DEFINE found == extract_html_with_span(piece, md.include_verbatim, text.n)
<1>1. /\ DOMAIN text' = DOMAIN text /\ text'.n = text.n + 1 /\ text'.within = text.within
      /\ text'.start = text.start /\ text'.heading = text.heading
      /\ text'.id = text.id /\ text'.headings = text.headings /\ counter' = counter
      /\ text'.cut = text.cut /\ text'.odd = text.odd
  BY DEF Html, InlineHtml, MarkdownTypeOK
<1>2. /\ DOMAIN md' = DOMAIN md
      /\ md'.inside_code_block = md.inside_code_block
      /\ md'.inside_html_block = md.inside_html_block
      /\ md'.html_block_start_offset = md.html_block_start_offset
      /\ md'.inside_link_label = md.inside_link_label
      /\ md'.inside_extracted_link = md.inside_extracted_link
  BY DEF Html, InlineHtml, MarkdownTypeOK
<1>3. /\ DOMAIN frags' = DOMAIN frags /\ frags'.in_heading = frags.in_heading
      /\ frags'.heading_text = frags.heading_text /\ frags'.heading_id = frags.heading_id
      /\ frags.out \subseteq frags'.out
  BY DEF Html, InlineHtml, MarkdownTypeOK
<1>4. /\ text'.wanted \subseteq md'.links /\ md'.links \subseteq text'.wanted \cup text.odd
      /\ md.inside_html_block /\ md.html_block_buffer = text.block =>
           md'.html_block_buffer = text'.block
  <2>1. CASE Html(piece)
    <3>1. md.inside_html_block <=> Within({"HtmlBlock"})
      BY DEF MdFlags, Within
    <3> HIDE DEF found
    <3>2. /\ md'.links = IF md.inside_html_block THEN md.links ELSE md.links \cup found
          /\ md'.html_block_buffer =
               IF md.inside_html_block THEN md.html_block_buffer \o piece ELSE md.html_block_buffer
      BY <2>1 DEF Html, MarkdownTypeOK, found
    <3>3. /\ text'.wanted = IF Within({"HtmlBlock"}) THEN text.wanted ELSE text.wanted \cup found
          /\ text'.block = IF Within({"HtmlBlock"}) THEN text.block \o piece ELSE text.block
      BY <2>1 DEF Html, MarkdownTypeOK, found
    <3>4. QED
      BY <3>1, <3>2, <3>3
  <2>2. CASE InlineHtml(piece)
    <3>1. ~md.inside_html_block
      BY <2>2 DEF InlineHtml, Running, Within, MdFlags, Inside
    <3> HIDE DEF found
    <3>2. md'.links = md.links \cup found /\ text'.wanted = text.wanted \cup found
      BY <2>2 DEF InlineHtml, MarkdownTypeOK, found
    <3>3. QED
      BY <3>1, <3>2
  <2>3. QED
    BY <2>1, <2>2
<1>5. SameHeadings
  BY <1>1, <1>2, <1>3, <1>4 DEF SameHeadings, MarkdownTypeOK
<1>6. Stays
  BY <1>1, <1>2, <1>3 DEF Stays
<1>7. Gathered(text', md', frags')
  BY <1>1, <1>2, <1>3, <1>4 DEF Gathered
<1>8. QED
  BY <1>5, <1>6, <1>7, StayStep

\* The block ends, and what was gathered of it is read.
LEMMA EndHtmlBlockStep ==
  ASSUME MarkdownInv, EndHtmlBlock
  PROVE  MarkdownInv'
<1> USE MarkdownKnows
<1>1. /\ text.within # <<>> /\ Last(text.within) = "HtmlBlock"
      /\ frags' = frags /\ counter' = counter
  BY DEF EndHtmlBlock, Leave
<1>2. md.inside_html_block
  <2>1. text.within \in Seq(Containers) /\ Nested(text.within)
    BY DEF MarkdownInv, MarkdownTypeOK
  <2>2. Inside(text.within, {"HtmlBlock"})
    BY <1>1, <2>1, Left
  <2>3. QED
    BY <2>2 DEF MdFlags
<1>3. /\ DOMAIN text' = DOMAIN text /\ text'.n = text.n + 1
      /\ text'.within = Front(text.within)
      /\ text'.start = text.start /\ text'.heading = text.heading
      /\ text'.id = text.id /\ text'.headings = text.headings
      /\ text'.cut = text.cut /\ text'.odd = text.odd
      /\ text'.wanted = IF text.block = <<>> THEN text.wanted
                        ELSE text.wanted \cup
                               extract_html_with_span(text.block, md.include_verbatim, text.start)
  BY DEF EndHtmlBlock, MarkdownTypeOK
<1>4. /\ DOMAIN md' = DOMAIN md
      /\ md'.inside_code_block = md.inside_code_block
      /\ md'.inside_html_block = FALSE
      /\ md'.inside_link_label = md.inside_link_label
      /\ md'.inside_extracted_link = md.inside_extracted_link
      /\ md'.links = IF md.html_block_buffer = <<>> THEN md.links
                     ELSE md.links \cup
                            extract_html_with_span(md.html_block_buffer, md.include_verbatim,
                                                   md.html_block_start_offset)
  BY DEF EndHtmlBlock, MarkdownTypeOK
<1>5. md.html_block_buffer = text.block /\ md.html_block_start_offset = text.start
  BY <1>2 DEF Gathered
<1>6. text'.wanted \subseteq md'.links /\ md'.links \subseteq text'.wanted \cup text'.odd
  BY <1>3, <1>4, <1>5
<1>7. SameHeadings
  BY <1>1, <1>3, <1>4, <1>6 DEF SameHeadings, MarkdownTypeOK
<1>8. "HtmlBlock" \notin LinkKinds
  BY DEF LinkKinds, LinkTypes
<1>9. Closes
  BY <1>1, <1>3, <1>4, <1>8 DEF Closes, MdFlags
<1>10. Gathered(text', md', frags')
  BY <1>1, <1>3, <1>4 DEF Gathered
<1>11. QED
  BY <1>1, <1>7, <1>9, <1>10, CloseStep

\* A heading begins.
LEMMA StartHeadingStep ==
  ASSUME MarkdownInv, NEW id \in HeadingIds, StartHeading(id)
  PROVE  MarkdownInv'
<1> USE MarkdownKnows
<1>1. /\ DOMAIN text' = DOMAIN text /\ text'.n = text.n + 1
      /\ text'.within = Append(text.within, "Heading") /\ text'.wanted = text.wanted
      /\ text'.block = text.block /\ text'.start = text.start
      /\ text'.heading = NoText /\ text'.id = id
      /\ text'.headings = text.headings
      /\ text'.cut = text.cut /\ text'.odd = text.odd
      /\ text.within = <<>> /\ md' = md /\ counter' = counter
  BY DEF StartHeading, Enter, MarkdownTypeOK
<1>2. /\ DOMAIN frags' = DOMAIN frags /\ frags'.in_heading = TRUE /\ frags'.heading_id = id
      /\ frags'.heading_text = frags.heading_text /\ frags'.out = frags.out
  BY DEF StartHeading, MarkdownTypeOK
<1>3. "Heading" \in Containers /\ "Heading" \notin LinkKinds \cup Autolinks
  BY DEF Containers, LinkKinds, LinkTypes, Autolinks
<1>4. ~Within({"CodeBlock", "HtmlBlock"}) /\ ~Inside(text.within, {"Heading"})
  BY <1>1 DEF Within, Inside
<1>5. NoText \in Headline /\ id \in Slugs
  BY MarkdownAssumption DEF NoText, Headline, Slugs
<1>6. SameHeadings
  BY <1>1, <1>2, <1>5 DEF SameHeadings, MarkdownTypeOK
<1>7. Opens("Heading")
  BY <1>1, <1>2, <1>3 DEF Opens, MdFlags
<1>8. frags.heading_text = NoText
  BY <1>4 DEF Gathered, MdFlags
<1>9. Gathered(text', md', frags')
  BY <1>1, <1>2, <1>8 DEF Gathered
<1>10. QED
  BY <1>1, <1>3, <1>4, <1>6, <1>7, <1>9, OpenStep

\* A slug with a number is a slug, another one for each number.
LEMMA NumberedSlug ==
  ASSUME NEW s \in Seq(Nat), NEW c \in Nat
  PROVE  /\ Append(s, c) \in Seq(Nat) /\ Append(s, c) # s
         /\ \A k \in Nat : Append(s, k) = Append(s, c) => k = c
<1>1. Append(s, c) \in Seq(Nat) /\ Len(Append(s, c)) = Len(s) + 1 /\ Len(s) \in Nat
  OBVIOUS
<1>2. \A k \in Nat : Append(s, k)[Len(s) + 1] = k
  OBVIOUS
<1>3. QED
  BY <1>1, <1>2

\* The counter has passed the number it gives.
LEMMA CountedPasses ==
  ASSUME MarkdownTypeOK, NEW slug \in Slugs
  PROVE  /\ Count(slug) \in Nat
         /\ DOMAIN Counted(slug) = DOMAIN counter \cup {slug}
         /\ Counted(slug)[slug] = Count(slug) + 1
         /\ \A s \in DOMAIN Counted(slug) : Counted(slug)[s] \in Nat \ {0}
         /\ \A s \in DOMAIN counter : Counted(slug)[s] >= counter[s]
         /\ generate(slug) \in Slugs
<1>1. \A s \in DOMAIN counter : counter[s] \in Nat \ {0}
  BY DEF MarkdownTypeOK
<1>2. Count(slug) \in Nat
  BY <1>1 DEF Count
<1>3. /\ DOMAIN Counted(slug) = DOMAIN counter \cup {slug}
      /\ \A s \in DOMAIN counter \cup {slug} :
           Counted(slug)[s] = IF s = slug THEN Count(slug) + 1 ELSE counter[s]
  BY DEF Counted
<1>4. slug \in DOMAIN counter => Count(slug) = counter[slug]
  BY DEF Count
<1>5. /\ \A n \in Nat : n + 1 \in Nat \ {0} /\ n + 1 >= n
      /\ \A n \in Nat \ {0} : n \in Nat /\ n >= n
  OBVIOUS
<1>6. \A s \in DOMAIN counter \cup {slug} : Counted(slug)[s] \in Nat \ {0}
  BY <1>1, <1>2, <1>3, <1>5
<1>7. \A s \in DOMAIN counter : Counted(slug)[s] >= counter[s]
  BY <1>1, <1>2, <1>3, <1>4, <1>5
<1>8. generate(slug) \in Slugs
  BY <1>2, NumberedSlug DEF generate, Slugs
<1>9. QED
  BY <1>2, <1>3, <1>6, <1>7, <1>8

\* A heading ends: its id is one no heading of the same text has.
LEMMA EndHeadingStep ==
  ASSUME MarkdownInv, EndHeading
  PROVE  MarkdownInv'
<1> USE MarkdownKnows
<1> DEFINE slug == text.heading.slug
           named == {i \in {frags.heading_id} : i # NoId}
           new == [at |-> text.n, slug |-> slug, id |-> generate(slug)]
<1>1. /\ text.within # <<>> /\ Last(text.within) = "Heading" /\ md' = md
  BY DEF EndHeading, Leave
<1>2. frags.in_heading
  <2>1. text.within \in Seq(Containers) /\ Nested(text.within)
    BY DEF MarkdownInv, MarkdownTypeOK
  <2>2. Inside(text.within, {"Heading"})
    BY <1>1, <2>1, Left
  <2>3. QED
    BY <2>2 DEF MdFlags
<1>3. frags.heading_text = text.heading /\ frags.heading_id = text.id
  BY <1>2 DEF Gathered
<1>4. /\ text.heading \in Headline /\ slug \in Slugs /\ text.n \in Nat /\ text.id \in Slugs
  BY DEF MarkdownTypeOK, Headline
<1>5. /\ DOMAIN text' = DOMAIN text /\ text'.n = text.n + 1
      /\ text'.within = Front(text.within) /\ text'.wanted = text.wanted
      /\ text'.block = text.block /\ text'.start = text.start
      /\ text'.heading = text.heading /\ text'.id = text.id
      /\ text'.cut = text.cut /\ text'.odd = text.odd
      /\ text'.headings = IF text.heading.empty THEN text.headings ELSE text.headings \cup {new}
  BY <1>3 DEF EndHeading, MarkdownTypeOK
<1>6. /\ DOMAIN frags' = DOMAIN frags /\ frags'.in_heading = FALSE /\ frags'.heading_id = NoId
      /\ frags'.heading_text = NoText
      /\ frags'.out = IF text.heading.empty THEN frags.out \cup named
                      ELSE frags.out \cup named \cup {generate(slug)}
  <2>1. text.heading.empty => text.heading = NoText
    BY DEF Gathered
  <2>2. CASE text.heading.empty
    BY <1>3, <2>1, <2>2 DEF EndHeading, MarkdownTypeOK
  <2>3. CASE ~text.heading.empty
    BY <1>3, <2>3 DEF EndHeading, MarkdownTypeOK
  <2>4. QED
    BY <2>2, <2>3
<1>7. counter' = IF text.heading.empty THEN counter ELSE Counted(slug)
  BY <1>3 DEF EndHeading
<1>8. "Heading" \notin LinkKinds
  BY DEF LinkKinds, LinkTypes
<1>9. Closes
  BY <1>1, <1>5, <1>6, <1>8 DEF Closes, MdFlags
<1>10. Gathered(text', md', frags')
  BY <1>1, <1>5, <1>6 DEF Gathered
<1> HIDE DEF slug, named, new
<1>11. CASE text.heading.empty
  <2>1. SameHeadings
    BY <1>1, <1>4, <1>5, <1>6, <1>7, <1>11 DEF SameHeadings, MarkdownTypeOK
  <2>2. QED
    BY <1>1, <1>9, <1>10, <2>1, CloseStep
<1>12. CASE ~text.heading.empty
  <2>1. /\ text'.within \in Seq(Containers) /\ Nested(text'.within) /\ FlagsRight'
    BY <1>1, <1>9, <1>10, CloseFlags, FlagsAfter
  <2>2. /\ Count(slug) \in Nat /\ generate(slug) \in Slugs
        /\ DOMAIN counter' = DOMAIN counter \cup {slug} /\ counter'[slug] = Count(slug) + 1
        /\ \A s \in DOMAIN counter' : counter'[s] \in Nat \ {0}
        /\ \A s \in DOMAIN counter : counter'[s] >= counter[s]
    BY <1>4, <1>7, <1>12, CountedPasses
  <2>3. /\ \A h \in text'.headings : h \in text.headings \/ h = new
        /\ new.at = text.n /\ new.slug = slug /\ new.id = generate(slug)
        /\ new \in [at : Nat, slug : Slugs, id : Slugs]
    BY <1>4, <1>5, <2>2 DEF new
  <2>4. /\ \A h \in text.headings : h \in [at : Nat, slug : Slugs, id : Slugs]
        /\ DOMAIN counter \subseteq Slugs /\ \A s \in DOMAIN counter : counter[s] \in Nat \ {0}
    BY DEF MarkdownTypeOK
  <2>5. \A h \in text.headings :
          /\ h.at \in Nat /\ h.at < text.n /\ h.slug \in DOMAIN counter
          /\ \/ h.id = h.slug
             \/ \E k \in 1 .. counter[h.slug] - 1 : h.id = Append(h.slug, k)
    BY <2>4 DEF MarkdownInv, IdsCounted
  <2>6. MarkdownTypeOK'
    <3>1. DOMAIN counter' \subseteq Slugs
      BY <1>4, <2>2, <2>4
    <3>2. \A h \in text'.headings : h \in [at : Nat, slug : Slugs, id : Slugs]
      BY <2>3, <2>4
    <3>3. text'.n \in Nat
      BY <1>4, <1>5
    <3>4. QED
      BY <1>1, <1>4, <1>5, <1>6, <2>1, <2>2, <3>1, <3>2, <3>3 DEF MarkdownTypeOK
  <2>7. IdsCounted'
    <3>1. ASSUME NEW h \in text.headings
          PROVE  /\ h.at < text'.n /\ h.slug \in DOMAIN counter'
                 /\ \/ h.id = h.slug
                    \/ \E k \in 1 .. counter'[h.slug] - 1 : h.id = Append(h.slug, k)
      <4>1. \A x, y \in Nat : x < y => x < y + 1
        OBVIOUS
      <4>2. h.at < text'.n /\ h.slug \in DOMAIN counter'
        BY <1>4, <1>5, <2>2, <2>5, <4>1
      <4>3. 1 .. counter[h.slug] - 1 \subseteq 1 .. counter'[h.slug] - 1
        <5>1. \A x, y \in Nat \ {0} : y >= x => 1 .. x - 1 \subseteq 1 .. y - 1
          OBVIOUS
        <5>2. QED
          BY <2>2, <2>4, <2>5, <5>1
      <4>4. QED
        BY <2>5, <4>2, <4>3
    <3>2. /\ new.at < text'.n /\ new.slug \in DOMAIN counter'
          /\ \/ new.id = new.slug
             \/ \E k \in 1 .. counter'[new.slug] - 1 : new.id = Append(new.slug, k)
      <4>1. \A n \in Nat : n < n + 1 /\ (n # 0 => n \in 1 .. (n + 1) - 1)
        OBVIOUS
      <4>2. generate(slug) = IF Count(slug) = 0 THEN slug ELSE Append(slug, Count(slug))
        BY DEF generate
      <4>3. QED
        BY <1>4, <1>5, <2>2, <2>3, <4>1, <4>2
    <3>3. QED
      BY <2>3, <3>1, <3>2 DEF IdsCounted
  <2>8. HeadingsTellApart'
    <3>1. ASSUME NEW g \in text.headings, g.slug = slug
          PROVE  g.id # generate(slug)
      <4>1. slug \in DOMAIN counter /\ counter[slug] \in Nat \ {0}
        BY <2>4, <2>5, <3>1
      <4>2. generate(slug) = Append(slug, counter[slug])
        BY <4>1 DEF generate, Count
      <4>3. slug \in Seq(Nat)
        BY <1>4 DEF Slugs
      <4>4. \A c \in Nat \ {0} : \A k \in 1 .. c - 1 : k \in Nat /\ k # c
        OBVIOUS
      <4>5. /\ Append(slug, counter[slug]) # slug
            /\ \A k \in Nat : Append(slug, k) = Append(slug, counter[slug]) => k = counter[slug]
        BY <4>1, <4>3, NumberedSlug
      <4>6. g.id = slug \/ \E k \in 1 .. counter[slug] - 1 : g.id = Append(slug, k)
        BY <2>5, <3>1
      <4>7. QED
        BY <4>1, <4>2, <4>4, <4>5, <4>6
    <3>2. \A g, h \in text.headings :
            /\ g.id \in frags'.out
            /\ g.at # h.at /\ g.slug = h.slug => g.id # h.id
      BY <1>6, <1>12 DEF MarkdownInv, HeadingsTellApart
    <3>3. new.id \in frags'.out
      BY <1>6, <1>12, <2>3
    <3>4. QED
      BY <2>3, <3>1, <3>2, <3>3 DEF HeadingsTellApart
  <2>9. MarkdownLinks'
    BY <1>1, <1>5 DEF MarkdownLinks
  <2>10. Nested(text'.within) = Nested(text.within)'
    BY DEF Nested
  <2>11. QED
    BY <2>1, <2>6, <2>7, <2>8, <2>9, <2>10 DEF MarkdownInv
<1>13. QED
  BY <1>11, <1>12

\* The document begins.
LEMMA MarkdownInitially == MarkdownInit => MarkdownInv
<1> SUFFICES ASSUME MarkdownInit PROVE MarkdownInv
  OBVIOUS
<1>1. PICK iv \in BOOLEAN, iw \in BOOLEAN :
        /\ text = [n |-> 0, within |-> <<>>, block |-> <<>>, start |-> 0, heading |-> NoText,
                   id |-> NoId, wanted |-> {}, anchors |-> {}, headings |-> {}, cut |-> FALSE,
                   odd |-> {}, passed |-> {}]
        /\ md = [include_verbatim |-> iv, include_wikilinks |-> iw,
                 inside_code_block |-> FALSE, inside_link_label |-> FALSE,
                 inside_extracted_link |-> FALSE, inside_html_block |-> FALSE,
                 html_block_buffer |-> <<>>, html_block_start_offset |-> 0, links |-> {}]
        /\ frags = [in_heading |-> FALSE, heading_text |-> NoText,
                    heading_id |-> NoId, out |-> {}]
        /\ counter = [s \in {} |-> 0]
  BY DEF MarkdownInit
<1>2. MarkdownTypeOK
  <2>1. NoText \in Headline /\ NoId \in Slugs
    BY DEF NoText, NoId, Headline, Slugs
  <2>2. text.within \in Seq(Containers)
    BY <1>1
  <2>3. QED
    BY <1>1, <2>1, <2>2 DEF MarkdownTypeOK
<1>3. \A kinds : Inside(text.within, kinds) = FALSE
  BY <1>1 DEF Inside
<1>4. FlagsRight
  BY <1>1, <1>3 DEF FlagsRight, Within
<1>5. Nested(text.within)
  BY <1>1 DEF Nested
<1>6. IdsCounted /\ MarkdownLinks /\ HeadingsTellApart
  BY <1>1 DEF IdsCounted, MarkdownLinks, HeadingsTellApart
<1>7. QED
  BY <1>2, <1>4, <1>5, <1>6 DEF MarkdownInv

\* Each event keeps the invariant of the document.
LEMMA MarkdownSteps == MarkdownInv /\ MarkdownNext => MarkdownInv'
<1> SUFFICES ASSUME MarkdownInv, MarkdownNext PROVE MarkdownInv'
  OBVIOUS
<1>1. CASE \E link_type \in LinkTypes, dest_url \in Targets \cup Pages :
             StartLink(link_type, dest_url)
  BY <1>1, StartLinkStep
<1>2. CASE EndLink \/ EndImage \/ EndCodeBlock
  BY <1>2, EndsStep
<1>3. CASE (\E dest_url \in Targets : StartImage(dest_url)) \/ StartCodeBlock
  BY <1>3, StartsStep
<1>4. CASE \E t \in Texts : Text(t) \/ Code(t)
  BY <1>4, TextEventStep
<1>5. CASE StartHtmlBlock \/ EndHtmlBlock
  BY <1>5, StartHtmlBlockStep, EndHtmlBlockStep
<1>6. CASE \E piece \in Pieces : Html(piece) \/ InlineHtml(piece)
  BY <1>6, HtmlPieceStep
<1>7. CASE \E id \in HeadingIds : StartHeading(id)
  BY <1>7, StartHeadingStep
<1>8. CASE EndHeading
  BY <1>8, EndHeadingStep
<1>9. QED
  BY <1>1, <1>2, <1>3, <1>4, <1>5, <1>6, <1>7, <1>8 DEF MarkdownNext

-----------------------------------------------------------------------------
\* The extraction of a page or of a document.
LEMMA HtmlSame == HtmlInv /\ UNCHANGED htmlVars => HtmlInv'
<1> SUFFICES ASSUME HtmlInv, page' = page, gum' = gum, ever' = ever PROVE HtmlInv'
  BY DEF htmlVars
<1>1. HtmlTypeOK'
  BY DEF HtmlInv, HtmlTypeOK
<1>2. TagOpen'
  BY DEF HtmlInv, TagOpen
<1>3. AttributesOfTheTag'
  BY DEF HtmlInv, AttributesOfTheTag, Has, Untold
<1>4. StackHoldsOpen' /\ OutermostKnown' /\ StyleRead'
  BY DEF HtmlInv, StackHoldsOpen, OutermostKnown, SeenOpen, StyleRead, InVerbatim, include_verbatim
<1>5. HtmlLinks' /\ EnginesAgree' /\ AnchorsFound'
  BY DEF HtmlInv, HtmlLinks, EnginesAgree, AnchorsFound, include_verbatim
<1>6. QED
  BY <1>1, <1>2, <1>3, <1>4, <1>5 DEF HtmlInv

LEMMA MarkdownSame == MarkdownInv /\ UNCHANGED markdownVars => MarkdownInv'
<1> SUFFICES ASSUME MarkdownInv, text' = text, md' = md, frags' = frags, counter' = counter
             PROVE  MarkdownInv'
  BY DEF markdownVars
<1>1. MarkdownTypeOK' /\ Nested(text.within)' /\ IdsCounted'
  BY DEF MarkdownInv, MarkdownTypeOK, Nested, IdsCounted
<1>2. FlagsRight' /\ MarkdownLinks' /\ HeadingsTellApart'
  BY DEF MarkdownInv, FlagsRight, Within, MarkdownLinks, HeadingsTellApart
<1>3. QED
  BY <1>1, <1>2 DEF MarkdownInv

LEMMA ExtractInitially == ExtractInit => ExtractInv
BY HtmlInitially, MarkdownInitially DEF ExtractInit, ExtractInv

LEMMA ExtractSteps == ExtractInv /\ [ExtractNext]_extractVars => ExtractInv'
<1> SUFFICES ASSUME HtmlInv, MarkdownInv, [ExtractNext]_extractVars PROVE HtmlInv' /\ MarkdownInv'
  BY DEF ExtractInv
<1>1. CASE HtmlNext /\ UNCHANGED markdownVars
  BY <1>1, HtmlSteps, MarkdownSame
<1>2. CASE MarkdownNext /\ UNCHANGED htmlVars
  BY <1>2, MarkdownSteps, HtmlSame
<1>3. CASE UNCHANGED extractVars
  <2>1. UNCHANGED htmlVars /\ UNCHANGED markdownVars
    BY <1>3 DEF extractVars, htmlVars, markdownVars
  <2>2. QED
    BY <2>1, HtmlSame, MarkdownSame
<1>4. QED
  BY <1>1, <1>2, <1>3 DEF ExtractNext

\* The invariant: html5gum's stack and attributes say what the tag being read
\* stands in and has, the flags of extract_markdown what the event stands in.
THEOREM Invariance == ExtractSpec => []ExtractInv
<1>1. ExtractInit => ExtractInv
  BY ExtractInitially
<1>2. ExtractInv /\ [ExtractNext]_extractVars => ExtractInv'
  BY ExtractSteps
<1>3. QED
  BY <1>1, <1>2, PTL DEF ExtractSpec

\* For all elements, attributes and texts: html5gum returns no link of a tag a
\* reader would not follow or of a verbatim element, however badly the elements
\* are nested, and every link the reader wants if no end tag ends more than its
\* own element.  Except, as HtmlLinks says: a rel of several words, a
\* disabled or prefix without a value, and a style sheet in a verbatim element.
THEOREM HtmlLinksAlways == ExtractSpec => []HtmlLinks
<1>1. ExtractInv => HtmlLinks
  BY DEF ExtractInv, HtmlInv
<1>2. QED
  BY <1>1, Invariance, PTL

\* The two HTML engines return the same links of any page without oddities.
THEOREM EnginesAgreeAlways == ExtractSpec => []EnginesAgree
<1>1. ExtractInv => EnginesAgree
  BY DEF ExtractInv, HtmlInv
<1>2. QED
  BY <1>1, Invariance, PTL

\* Every anchor of a tag to be followed is among the fragments.
THEOREM AnchorsFoundAlways == ExtractSpec => []AnchorsFound
<1>1. ExtractInv => AnchorsFound
  BY DEF ExtractInv, HtmlInv
<1>2. QED
  BY <1>1, Invariance, PTL

\* The links of any Markdown document are all returned, whatever the HTML in it
\* holds, and nothing else is but what follows an autolink in a link's label.
THEOREM MarkdownLinksAlways == ExtractSpec => []MarkdownLinks
<1>1. ExtractInv => MarkdownLinks
  BY DEF ExtractInv, MarkdownInv
<1>2. QED
  BY <1>1, Invariance, PTL

\* Headings of one text get different ids, in documents of any length.
THEOREM HeadingsTellApartAlways == ExtractSpec => []HeadingsTellApart
<1>1. ExtractInv => HeadingsTellApart
  BY DEF ExtractInv, MarkdownInv
<1>2. QED
  BY <1>1, Invariance, PTL
-----------------------------------------------------------------------------
(* Induction over a piece of HTML *)

\* Induction over the natural numbers, for sets.
LEMMA NatInd ==
    ASSUME NEW S \in SUBSET Nat, 0 \in S, \A n \in S : n + 1 \in S
    PROVE  S = Nat
<1> DEFINE Less == {p \in Nat \X Nat : p[1] < p[2]}
           T == Nat \ S
<1>1. IsWellFoundedOn(Less, Nat)
  <2>1. Less = OpToRel(<, Nat)
    BY DEF OpToRel
  <2>2. QED
    BY <2>1, NatLessThanWellFounded
<1>2. SUFFICES ASSUME T # {} PROVE FALSE
  OBVIOUS
<1>3. PICK x \in T : \A y \in T : ~ (<<y, x>> \in Less)
  <2>1. T \subseteq Nat
    OBVIOUS
  <2> HIDE DEF T, Less
  <2>2. QED
    BY <1>1, <1>2, <2>1, WFMin
<1>4. x # 0 /\ x - 1 \in Nat /\ x - 1 < x
  OBVIOUS
<1>5. <<x - 1, x>> \in Less /\ x - 1 \notin T
  BY <1>3, <1>4
<1>6. QED
  BY <1>4, <1>5

\* The greatest of some of the first n numbers is what Max makes of them.
LEMMA MaxExists ==
  ASSUME NEW n \in Nat
  PROVE  \A s \in SUBSET (1 .. n) : s # {} => Max(s) \in s /\ \A y \in s : y <= Max(s)
<1> DEFINE Has_max(s) == \E x \in s : \A y \in s : x >= y
           N == {m \in Nat : \A s \in SUBSET (1 .. m) : s # {} => Has_max(s)}
<1>1. 0 \in N
  <2>1. \A s \in SUBSET (1 .. 0) : s = {}
    OBVIOUS
  <2>2. QED
    BY <2>1
<1>2. ASSUME NEW m \in N PROVE m + 1 \in N
  <2>1. m \in Nat /\ \A s \in SUBSET (1 .. m) : s # {} => Has_max(s)
    BY <1>2
  <2>2. ASSUME NEW s \in SUBSET (1 .. m + 1), s # {} PROVE Has_max(s)
    <3>1. CASE m + 1 \in s
      BY <2>1, <3>1
    <3>2. CASE m + 1 \notin s
      <4>1. s \in SUBSET (1 .. m)
        BY <2>1, <3>2
      <4>2. QED
        BY <2>1, <2>2, <4>1
    <3>3. QED
      BY <3>1, <3>2
  <2>3. QED
    BY <2>1, <2>2
<1>3. N \in SUBSET Nat
  OBVIOUS
<1>4. N = Nat
  <2> HIDE DEF N
  <2>1. QED
    BY <1>1, <1>2, <1>3, NatInd
<1>5. ASSUME NEW s \in SUBSET (1 .. n), s # {}
      PROVE  Max(s) \in s /\ \A y \in s : y <= Max(s)
  <2>1. Has_max(s)
    BY <1>4, <1>5
  <2>2. Max(s) \in s /\ \A y \in s : Max(s) >= y
    BY <2>1, Zenon DEF Max
  <2>3. QED
    BY <2>2
<1>6. QED
  BY <1>5

\* The function that FoldLeft is defined with.
IsFold(g, base, events, span, n) ==
  g = [s \in SUBSET (1 .. n) |->
         IF s = {} THEN base ELSE handle_event(g[s \ {Max(s)}], events[Max(s)], span)]

LEMMA FoldExists ==
  ASSUME NEW base, NEW events, NEW span, NEW n \in Nat
  PROVE  \E g : IsFold(g, base, events, span, n)
<1> DEFINE F(g, s) == IF s = {} THEN base
                      ELSE handle_event(g[s \ {Max(s)}], events[Max(s)], span)
           P(m) == \E g : g = [s \in SUBSET (1 .. m) |-> F(g, s)]
           N == {m \in Nat : P(m)}
<1>1. 0 \in N
  <2> DEFINE e == [s \in SUBSET (1 .. 0) |-> base]
  <2>1. \A s \in SUBSET (1 .. 0) : F(e, s) = base
    <3>1. \A s \in SUBSET (1 .. 0) : s = {}
      OBVIOUS
    <3>2. QED
      BY <3>1
  <2>2. e = [s \in SUBSET (1 .. 0) |-> F(e, s)]
    <3> HIDE DEF F
    <3>1. QED
      BY <2>1, Zenon
  <2>3. P(0)
    BY <2>2, Zenon
  <2> HIDE DEF P
  <2>4. QED
    BY <2>3
<1>2. ASSUME NEW m \in N PROVE m + 1 \in N
  <2>1. m \in Nat /\ P(m)
    BY <1>2, Zenon
  <2>2. PICK g : g = [s \in SUBSET (1 .. m) |-> F(g, s)]
    BY <2>1, Zenon
  <2> DEFINE h == [s \in SUBSET (1 .. m + 1) |-> F(g, s)]
  <2>3. ASSUME NEW s \in SUBSET (1 .. m) PROVE h[s] = g[s]
    <3>1. s \in SUBSET (1 .. m + 1)
      <4> HIDE DEF P, F
      <4>1. QED
        BY <2>1
    <3>2. g[s] = F(g, s)
      BY <2>2, Zenon
    <3>3. h[s] = F(g, s)
      BY <3>1, Zenon
    <3>4. QED
      BY <3>2, <3>3, Zenon
  <2>4. ASSUME NEW s \in SUBSET (1 .. m + 1), s # {}
        PROVE  s \ {Max(s)} \in SUBSET (1 .. m)
    <3> HIDE DEF P, F
    <3>1. m + 1 \in Nat /\ m \in Nat
      BY <2>1
    <3>2. Max(s) \in s /\ \A y \in s : y <= Max(s)
      BY <2>4, <3>1, MaxExists
    <3> HIDE DEF Max
    <3>3. ASSUME NEW y \in s \ {Max(s)} PROVE y \in 1 .. m
      <4>1. y \in 1 .. m + 1 /\ Max(s) \in 1 .. m + 1 /\ y <= Max(s) /\ y # Max(s)
        BY <3>2
      <4>2. QED
        BY <3>1, <4>1
    <3>4. QED
      BY <3>3
  <2>5. ASSUME NEW s \in SUBSET (1 .. m + 1) PROVE F(g, s) = F(h, s)
    <3>1. CASE s = {}
      BY <3>1, Zenon
    <3>2. CASE s # {}
      <4>1. h[s \ {Max(s)}] = g[s \ {Max(s)}]
        <5>1. s \ {Max(s)} \in SUBSET (1 .. m)
          BY <2>4, <3>2
        <5> HIDE DEF h
        <5>2. QED
          BY <2>3, <5>1, Zenon
      <4> HIDE DEF h
      <4>2. QED
        BY <3>2, <4>1, Zenon
    <3>3. QED
      BY <3>1, <3>2, Zenon
  <2>6. h = [s \in SUBSET (1 .. m + 1) |-> F(h, s)]
    <3> HIDE DEF F
    <3>1. QED
      BY <2>5, Zenon
  <2>7. P(m + 1)
    <3> HIDE DEF h
    <3>1. QED
      BY <2>6, Zenon
  <2> HIDE DEF P
  <2>8. m + 1 \in Nat
    BY <2>1
  <2>9. QED
    BY <2>7, <2>8
<1>3. N \in SUBSET Nat
  BY Zenon
<1>4. N = Nat
  <2> HIDE DEF N
  <2>1. QED
    BY <1>1, <1>2, <1>3, NatInd
<1>5. P(n)
  BY <1>4, Zenon
<1>6. QED
  BY <1>5, Zenon DEF IsFold

\* What the extractor is after each event of a piece.
Steps(st, html, v, span) ==
  /\ st[0] = LinkExtractor(v)
  /\ \A k \in 1 .. Len(html) : st[k] = handle_event(st[k - 1], Tokenizer(html)[k], span)
  /\ Tokenized(html, v, span) = st[Len(html)]

LEMMA TokenizedSteps ==
  ASSUME NEW html, NEW v, NEW span, Len(html) \in Nat, DOMAIN html = 1 .. Len(html)
  PROVE  \E st : Steps(st, html, v, span)
<1> DEFINE n == Len(html)
           events == Tokenizer(html)
           base == LinkExtractor(v)
           F(g, s) == IF s = {} THEN base
                      ELSE handle_event(g[s \ {Max(s)}], events[Max(s)], span)
           iter == CHOOSE g : g = [s \in SUBSET (1 .. n) |-> F(g, s)]
           st == [k \in 0 .. n |-> iter[1 .. k]]
<1>1. DOMAIN events = 1 .. n
  BY Zenon DEF Tokenizer
<1>2. Tokenized(html, v, span) = iter[1 .. n]
  <2>1. Tokenized(html, v, span) =
          (CHOOSE g : g = [s \in SUBSET (DOMAIN events) |-> F(g, s)])[DOMAIN events]
    BY Zenon DEF Tokenized, FoldLeft, MapThenFoldSet
  <2>2. QED
    BY <1>1, <2>1, Zenon
<1>3. iter = [s \in SUBSET (1 .. n) |-> F(iter, s)]
  <2>1. \E g : g = [s \in SUBSET (1 .. n) |-> F(g, s)]
    <3>1. n \in Nat
      OBVIOUS
    <3> HIDE DEF n, events, base
    <3>2. \E g : IsFold(g, base, events, span, n)
      BY <3>1, FoldExists
    <3>3. QED
      BY <3>2, Zenon DEF IsFold
  <2> HIDE DEF F
  <2>2. QED
    BY <2>1, Zenon
<1> HIDE DEF iter
<1>4. \A s \in SUBSET (1 .. n) : iter[s] = F(iter, s)
  <2> HIDE DEF F
  <2>1. QED
    BY <1>3, Zenon
<1>5. ASSUME NEW k \in 1 .. n PROVE st[k] = handle_event(st[k - 1], events[k], span)
  <2>1. k \in 0 .. n /\ k - 1 \in 0 .. n /\ 1 .. k \in SUBSET (1 .. n) /\ 1 .. k # {}
    <3>1. n \in Nat /\ k \in 1 .. n
      BY <1>5
    <3> HIDE DEF n
    <3>2. k \in 0 .. n /\ k - 1 \in 0 .. n /\ 1 \in 1 .. k
      BY <3>1
    <3>3. \A i \in 1 .. k : i \in 1 .. n
      BY <3>1
    <3>4. QED
      BY <3>2, <3>3
  <2>2. Max(1 .. k) = k
    <3>1. k \in Nat /\ 1 .. k \in SUBSET (1 .. k)
      OBVIOUS
    <3>2. Max(1 .. k) \in 1 .. k /\ \A y \in 1 .. k : y <= Max(1 .. k)
      BY <2>1, <3>1, MaxExists
    <3> HIDE DEF Max
    <3>3. QED
      BY <3>1, <3>2
  <2>3. (1 .. k) \ {k} = 1 .. k - 1
    OBVIOUS
  <2>4. iter[1 .. k] = handle_event(iter[(1 .. k) \ {Max(1 .. k)}], events[Max(1 .. k)], span)
    BY <1>4, <2>1, Zenon
  <2>5. iter[1 .. k] = handle_event(iter[1 .. k - 1], events[k], span)
    BY <2>2, <2>3, <2>4, Zenon
  <2>6. st[k] = iter[1 .. k] /\ st[k - 1] = iter[1 .. k - 1]
    BY <2>1, Zenon
  <2>7. QED
    BY <2>5, <2>6, Zenon
<1>6. st[0] = base
  <2>1. 0 \in 0 .. n /\ 1 .. 0 = {} /\ {} \in SUBSET (1 .. n)
    OBVIOUS
  <2>2. iter[{}] = base
    BY <1>4, <2>1, Zenon
  <2>3. QED
    BY <2>1, <2>2, Zenon
<1>7. st[n] = iter[1 .. n]
  <2>1. n \in 0 .. n
    OBVIOUS
  <2>2. QED
    BY <2>1, Zenon
<1> HIDE DEF st
<1>8. QED
  BY <1>2, <1>5, <1>6, <1>7, Zenon DEF Steps

\* An extractor that reads verbatim elements too, as the fragments are read.
Reads(g) ==
  /\ DOMAIN g = {"include_verbatim", "links", "fragments", "current_element",
                 "current_attributes", "current_attribute_name", "verbatim_stack",
                 "in_style_tag", "style_content"}
  /\ g.include_verbatim = TRUE

\* An event that is neither an attribute nor the end of a start tag.
SameAttributes(h, g) ==
  /\ Reads(h) /\ h.fragments = g.fragments /\ h.current_attributes = g.current_attributes
  /\ h.current_attribute_name = g.current_attribute_name

LEMMA OtherEvents ==
  ASSUME NEW g, Reads(g), NEW name, NEW urls, NEW span
  PROVE  /\ SameAttributes(OpenStartTag(g, name), g) /\ SameAttributes(EndTag(g, name), g)
         /\ SameAttributes(String(g, urls, span), g)
<1>1. SameAttributes(OpenStartTag(g, name), g)
  <2> DEFINE h == [g EXCEPT !.current_element = name,
                            !.in_style_tag = @ \/ name = "style",
                            !.style_content = IF name = "style" THEN {} ELSE @]
  <2>1. SameAttributes(h, g)
    BY DEF Reads, SameAttributes
  <2>2. OpenStartTag(g, name) = h
    <3>1. h.include_verbatim = TRUE
      BY <2>1 DEF SameAttributes, Reads
    <3>2. ~filter_verbatim_here(h)
      BY <3>1 DEF filter_verbatim_here
    <3>3. QED
      BY <3>2, Zenon DEF OpenStartTag
  <2>3. QED
    BY <2>1, <2>2
<1>2. SameAttributes(EndTag(g, name), g)
  <2> DEFINE f == [g EXCEPT !.in_style_tag = FALSE, !.links = @ \cup g.style_content,
                            !.style_content = {}]
             h == IF name = "style" /\ g.in_style_tag THEN f ELSE g
  <2>1. SameAttributes(f, g) /\ SameAttributes(g, g)
    BY DEF Reads, SameAttributes
  <2>2. SameAttributes(h, g)
    <3> HIDE DEF f
    <3>1. QED
      BY <2>1
  <2>3. EndTag(g, name) = h
    <3>1. h.include_verbatim
      BY <2>2 DEF SameAttributes, Reads
    <3>2. QED
      BY <3>1, Zenon DEF EndTag
  <2>4. QED
    BY <2>2, <2>3
<1>3. SameAttributes(String(g, urls, span), g)
  <2>1. SameAttributes([g EXCEPT !.style_content = @ \cup extract_css(urls, span)], g)
    BY DEF Reads, SameAttributes
  <2>2. SameAttributes([g EXCEPT !.links = @ \cup extract_raw_uri_from_plaintext(urls, span)], g)
    BY DEF Reads, SameAttributes
  <2>3. SameAttributes(g, g)
    BY DEF SameAttributes
  <2>4. QED
    BY <2>1, <2>2, <2>3 DEF String
<1>4. QED
  BY <1>1, <1>2, <1>3

LEMMA AttributeEvent ==
  ASSUME NEW g, Reads(g), NEW a
  PROVE  /\ Reads(Attribute(g, a, TRUE)) /\ Attribute(g, a, TRUE).fragments = g.fragments
         /\ Attribute(g, a, TRUE).current_attributes = g.current_attributes \cup {a}
         /\ Attribute(g, a, TRUE).current_attribute_name = a.name
<1>1. Attribute(g, a, TRUE) = [g EXCEPT !.current_attribute_name = a.name,
                                        !.current_attributes = @ \cup {a}]
  BY DEF Attribute
<1>2. QED
  BY <1>1 DEF Reads

LEMMA CloseEvent ==
  ASSUME NEW g, Reads(g), NEW span
  PROVE  /\ Reads(CloseStartTag(g, FALSE, span))
         /\ CloseStartTag(g, FALSE, span).current_attributes = {}
         /\ CloseStartTag(g, FALSE, span).fragments =
              IF PassedOver(g) THEN g.fragments ELSE g.fragments \cup AnchorNames(g)
<1>1. CloseStartTag(g, FALSE, span) = flush_links(g, span)
  BY DEF CloseStartTag
<1>2. CASE PassedOver(g)
  BY <1>1, <1>2 DEF flush_links, Reads
<1>3. CASE ~PassedOver(g)
  <2>1. flush_links(g, span) = [g EXCEPT !.links = @ \cup AcceptedLinks(g, span),
                                         !.fragments = @ \cup AnchorNames(g),
                                         !.current_attributes = {}]
    BY <1>3 DEF flush_links
  <2>2. QED
    BY <1>1, <1>3, <2>1 DEF Reads
<1>4. QED
  BY <1>2, <1>3

\* A tag to be followed is not passed over.
LEMMA PieceTagTaken ==
  ASSUME NEW g, Reads(g), Followed(g.current_attributes),
         g.current_attributes # {} => Has(g.current_attributes, g.current_attribute_name)
  PROVE  ~PassedOver(g)
<1> DEFINE A == g.current_attributes
<1>1. ~filter_verbatim_here(g)
  BY DEF Reads, filter_verbatim_here
<1>2. ~UnfollowedRel(A)
  <2>1. \A w : w \in {w}
    OBVIOUS
  <2>2. \A w \in {"nofollow", "preconnect", "dns-prefetch"} : ~RelContains(A, w)
    BY DEF Followed
  <2> HIDE DEF A
  <2>3. QED
    BY <2>1, <2>2 DEF UnfollowedRel, RelContains
<1>3. ~Has(A, "prefix")
  BY DEF Followed
<1>4. ~UnusedStylesheet(g)
  <2>1. SUFFICES ASSUME IsStylesheet(A) PROVE ~UnusedStylesheet(g)
    BY DEF UnusedStylesheet
  <2>2. RelContains(A, "stylesheet")
    BY <2>1 DEF IsStylesheet, RelContains
  <2>3. ~Has(A, "disabled") /\ \A a \in AttributesNamed(A, "href") : "virtual" \notin a.urls
    BY <2>2 DEF Followed
  <2>4. A # {}
    BY <2>2 DEF RelContains, AttributesNamed
  <2>5. QED
    BY <2>3, <2>4 DEF UnusedStylesheet
<1>5. QED
  BY <1>1, <1>2, <1>3, <1>4 DEF PassedOver

\* Event j of a piece opens a tag, and all that follow up to k are its attributes.
Opened(html, j, k) ==
  /\ j \in 1 .. k /\ html[j].event = "OpenStartTag"
  /\ \A i \in j + 1 .. k : html[i].event = "Attribute"
Attrs(html, j, k) == {html[i].attr : i \in j + 1 .. k}

\* After k events the extractor has the attributes of the tag it is in, and the anchors of
\* all tags before it that are to be followed.
Closed(html, p, q) == html[q].event = "CloseStartTag" /\ Opened(html, p, q - 1)
HasTag(g, html, k) ==
  /\ \A j : Opened(html, j, k) =>
       /\ g.current_attributes = Attrs(html, j, k)
       /\ k > j => g.current_attribute_name = html[k].attr.name
  /\ (\A j : ~Opened(html, j, k)) => g.current_attributes = {}
HasAnchors(g, html, k) ==
  \A p, q \in 1 .. k :
    Closed(html, p, q) /\ Followed(Attrs(html, p, q - 1)) =>
      AnchorsOf(Attrs(html, p, q - 1)) \subseteq g.fragments
PieceRead(g, html, k) == Reads(g) /\ HasTag(g, html, k) /\ HasAnchors(g, html, k)

\* What the tokenizer makes of an event, in a tag and outside.
LEMMA PieceEvent ==
  ASSUME NEW html, IsPiece(html), NEW k \in DOMAIN html
  PROVE  /\ Len(html) \in Nat /\ DOMAIN html = 1 .. Len(html)
         /\ InTag(html, k) <=> \E j : Opened(html, j, k - 1)
         /\ Tokenizer(html)[k].event =
              IF html[k].event \in {"Attribute", "CloseStartTag"} /\ ~InTag(html, k)
              THEN "String" ELSE html[k].event
         /\ InTag(html, k) => Tokenizer(html)[k] = html[k]
         /\ html[k].event \in {"OpenStartTag", "Attribute", "CloseStartTag", "EndTag", "String"}
         /\ InTag(html, k) => html[k].event \in {"Attribute", "CloseStartTag"}
<1>1. /\ html \in Seq({html[i] : i \in DOMAIN html})
      /\ "event" \in DOMAIN html[k]
      /\ html[k].event \in {"OpenStartTag", "Attribute", "CloseStartTag", "EndTag", "String"}
      /\ InTag(html, k) => html[k].event \in {"Attribute", "CloseStartTag"}
  BY DEF IsPiece
<1>2. Len(html) \in Nat /\ DOMAIN html = 1 .. Len(html)
  <2> DEFINE S == {html[i] : i \in DOMAIN html}
  <2>1. html \in Seq(S)
    BY <1>1
  <2> HIDE DEF S
  <2>2. QED
    BY <2>1, LenProperties
<1>3. InTag(html, k) <=> \E j : Opened(html, j, k - 1)
  BY DEF InTag, Opened
<1>4. Tokenizer(html)[k] =
        IF html[k].event \in {"Attribute", "CloseStartTag"} /\ ~InTag(html, k)
        THEN [html[k] EXCEPT !.event = "String"] ELSE html[k]
  BY Zenon DEF Tokenizer
<1>5. [html[k] EXCEPT !.event = "String"].event = "String"
  BY <1>1
<1>6. QED
  BY <1>1, <1>2, <1>3, <1>4, <1>5

\* A step that is no part of a tag.
LEMMA OutsideTag ==
  ASSUME NEW html, NEW k \in Nat \ {0}, NEW g, NEW h, PieceRead(g, html, k - 1),
         SameAttributes(h, g), \A j : ~Opened(html, j, k - 1)
  PROVE  PieceRead(h, html, k)
<1>1. Reads(h) /\ h.fragments = g.fragments /\ h.current_attributes = {}
  BY DEF SameAttributes, PieceRead, HasTag
<1>2. ASSUME NEW j, Opened(html, j, k) PROVE j = k
  <2>1. CASE j # k
    <3>1. Opened(html, j, k - 1)
      BY <1>2, <2>1 DEF Opened
    <3>2. QED
      BY <3>1
  <2>2. QED
    BY <2>1
<1>3. Attrs(html, k, k) = {}
  BY DEF Attrs
<1>4. HasTag(h, html, k)
  BY <1>1, <1>2, <1>3 DEF HasTag
<1>5. ASSUME NEW p \in 1 .. k, NEW q \in 1 .. k, Closed(html, p, q)
      PROVE  p \in 1 .. k - 1 /\ q \in 1 .. k - 1
  <2>0. Opened(html, p, q - 1) /\ html[q].event = "CloseStartTag"
    BY <1>5 DEF Closed
  <2>1. q # k
    BY <2>0
  <2>2. p \in 1 .. q - 1
    BY <2>0 DEF Opened
  <2>3. QED
    BY <2>1, <2>2
<1>6. HasAnchors(h, html, k)
  <2>1. HasAnchors(g, html, k - 1)
    BY DEF PieceRead
  <2>2. ASSUME NEW p \in 1 .. k, NEW q \in 1 .. k, Closed(html, p, q),
               Followed(Attrs(html, p, q - 1))
        PROVE  AnchorsOf(Attrs(html, p, q - 1)) \subseteq h.fragments
    <3>1. p \in 1 .. k - 1 /\ q \in 1 .. k - 1
      BY <1>5, <2>2
    <3>2. AnchorsOf(Attrs(html, p, q - 1)) \subseteq g.fragments
      BY <2>1, <2>2, <3>1 DEF HasAnchors
    <3>3. QED
      BY <1>1, <3>2
  <2>3. QED
    BY <2>2 DEF HasAnchors
<1>7. QED
  BY <1>1, <1>4, <1>6 DEF PieceRead

\* An attribute of the tag.
LEMMA AttributeOfTag ==
  ASSUME NEW html, NEW k \in Nat \ {0}, NEW g, PieceRead(g, html, k - 1),
         html[k].event = "Attribute", NEW o, Opened(html, o, k - 1)
  PROVE  PieceRead(Attribute(g, html[k].attr, TRUE), html, k)
<1> DEFINE h == Attribute(g, html[k].attr, TRUE)
<1>1. /\ Reads(h) /\ h.fragments = g.fragments
      /\ h.current_attributes = g.current_attributes \cup {html[k].attr}
      /\ h.current_attribute_name = html[k].attr.name
  <2>1. Reads(g)
    BY DEF PieceRead
  <2>2. QED
    BY <2>1, AttributeEvent, Zenon
<1> HIDE DEF h
<1>2. ASSUME NEW j, Opened(html, j, k)
      PROVE  h.current_attributes = Attrs(html, j, k)
  <2>1. j \in 1 .. k - 1 /\ Opened(html, j, k - 1)
    BY <1>2 DEF Opened
  <2>2. g.current_attributes = Attrs(html, j, k - 1)
    BY <2>1 DEF PieceRead, HasTag
  <2>3. \A i : i \in j + 1 .. k <=> i \in j + 1 .. k - 1 \/ i = k
    BY <2>1
  <2>4. QED
    BY <1>1, <2>2, <2>3 DEF Attrs
<1>3. Opened(html, o, k)
  BY DEF Opened
<1>4. HasTag(h, html, k)
  BY <1>1, <1>2, <1>3 DEF HasTag
<1>5. ASSUME NEW p \in 1 .. k, NEW q \in 1 .. k, Closed(html, p, q)
      PROVE  p \in 1 .. k - 1 /\ q \in 1 .. k - 1
  <2>0. Opened(html, p, q - 1) /\ html[q].event = "CloseStartTag"
    BY <1>5 DEF Closed
  <2>1. q # k
    BY <2>0
  <2>2. p \in 1 .. q - 1
    BY <2>0 DEF Opened
  <2>3. QED
    BY <2>1, <2>2
<1>6. HasAnchors(h, html, k)
  <2>1. HasAnchors(g, html, k - 1)
    BY DEF PieceRead
  <2>2. ASSUME NEW p \in 1 .. k, NEW q \in 1 .. k, Closed(html, p, q),
               Followed(Attrs(html, p, q - 1))
        PROVE  AnchorsOf(Attrs(html, p, q - 1)) \subseteq h.fragments
    <3>1. p \in 1 .. k - 1 /\ q \in 1 .. k - 1
      BY <1>5, <2>2
    <3>2. AnchorsOf(Attrs(html, p, q - 1)) \subseteq g.fragments
      BY <2>1, <2>2, <3>1 DEF HasAnchors
    <3>3. QED
      BY <1>1, <3>2
  <2>3. QED
    BY <2>2 DEF HasAnchors
<1>7. QED
  BY <1>1, <1>4, <1>6 DEF PieceRead, h

\* The end of the tag.
LEMMA EndOfTag ==
  ASSUME NEW html, NEW k \in Nat \ {0}, NEW g, NEW span, PieceRead(g, html, k - 1),
         html[k].event = "CloseStartTag"
  PROVE  PieceRead(CloseStartTag(g, FALSE, span), html, k)
<1> DEFINE h == CloseStartTag(g, FALSE, span)
<1>1. /\ Reads(h) /\ h.current_attributes = {} /\ g.fragments \subseteq h.fragments
      /\ ~PassedOver(g) => AnchorNames(g) \subseteq h.fragments
  <2>1. Reads(g)
    BY DEF PieceRead
  <2>2. /\ Reads(h) /\ h.current_attributes = {}
        /\ h.fragments = IF PassedOver(g) THEN g.fragments ELSE g.fragments \cup AnchorNames(g)
    BY <2>1, CloseEvent, Zenon
  <2> HIDE DEF h
  <2>3. QED
    BY <2>2
<1> HIDE DEF h
<1>2. \A j : ~Opened(html, j, k)
  BY DEF Opened
<1>3. HasTag(h, html, k)
  BY <1>1, <1>2 DEF HasTag
<1>4. ASSUME NEW p \in 1 .. k, NEW q \in 1 .. k, Closed(html, p, q),
             Followed(Attrs(html, p, q - 1))
      PROVE  AnchorsOf(Attrs(html, p, q - 1)) \subseteq h.fragments
  <2>0. p \in 1 .. q - 1 /\ Opened(html, p, q - 1)
    BY <1>4 DEF Closed, Opened
  <2>1. CASE q # k
    <3>1. p \in 1 .. k - 1 /\ q \in 1 .. k - 1
      BY <2>0, <2>1
    <3>2. AnchorsOf(Attrs(html, p, q - 1)) \subseteq g.fragments
      BY <1>4, <3>1 DEF PieceRead, HasAnchors
    <3>3. QED
      BY <1>1, <3>2
  <2>2. CASE q = k
    <3> DEFINE A == Attrs(html, p, k - 1)
    <3>1. /\ g.current_attributes = A
          /\ k - 1 > p => g.current_attribute_name = html[k - 1].attr.name
      BY <2>0, <2>2 DEF PieceRead, HasTag
    <3>2. A # {} => Has(A, g.current_attribute_name)
      <4>1. SUFFICES ASSUME A # {} PROVE Has(A, g.current_attribute_name)
        OBVIOUS
      <4>2. k - 1 > p /\ k - 1 \in p + 1 .. k - 1
        BY <2>0, <2>2, <4>1 DEF Attrs
      <4>3. html[k - 1].attr \in A
        BY <4>2 DEF Attrs
      <4>4. QED
        BY <3>1, <4>2, <4>3 DEF Has
    <3>3. Followed(A)
      BY <1>4, <2>2
    <3> HIDE DEF A
    <3>4. ~PassedOver(g)
      BY <3>1, <3>2, <3>3, PieceTagTaken DEF PieceRead
    <3>5. AnchorsOf(A) \subseteq AnchorNames(g)
      BY <3>1 DEF AnchorsOf, AnchorNames, AttributesNamed
    <3>6. AnchorsOf(A) \subseteq h.fragments
      BY <1>1, <3>4, <3>5
    <3>7. QED
      BY <2>2, <3>6 DEF A
  <2>3. QED
    BY <2>1, <2>2
<1>5. QED
  BY <1>1, <1>3, <1>4 DEF PieceRead, HasAnchors, h

\* What the extractor makes of event k of a piece.
LEMMA PieceStep ==
  ASSUME NEW html, IsPiece(html), NEW k \in DOMAIN html, NEW span, NEW g,
         PieceRead(g, html, k - 1)
  PROVE  PieceRead(handle_event(g, Tokenizer(html)[k], span), html, k)
<1> DEFINE e == Tokenizer(html)[k]
           h == handle_event(g, e, span)
<1>1. /\ k \in Nat \ {0}
      /\ InTag(html, k) <=> \E j : Opened(html, j, k - 1)
      /\ e.event = IF html[k].event \in {"Attribute", "CloseStartTag"} /\ ~InTag(html, k)
                   THEN "String" ELSE html[k].event
      /\ InTag(html, k) => e = html[k]
      /\ html[k].event \in {"OpenStartTag", "Attribute", "CloseStartTag", "EndTag", "String"}
      /\ InTag(html, k) => html[k].event \in {"Attribute", "CloseStartTag"}
  <2>1. k \in 1 .. Len(html) /\ Len(html) \in Nat
    BY PieceEvent
  <2>2. k \in Nat \ {0}
    BY <2>1
  <2>3. QED
    BY <2>2, PieceEvent, Zenon
<1> HIDE DEF e
<1>2. CASE InTag(html, k) /\ html[k].event = "Attribute"
  <2>1. PICK o : Opened(html, o, k - 1)
    BY <1>1, <1>2
  <2>2. h = Attribute(g, html[k].attr, TRUE)
    <3>1. e = html[k] /\ e.event = "Attribute"
      BY <1>1, <1>2
    <3>2. h = Attribute(g, e.attr, TRUE)
      BY <3>1 DEF handle_event
    <3>3. QED
      BY <3>1, <3>2, Zenon
  <2>3. PieceRead(Attribute(g, html[k].attr, TRUE), html, k)
    BY <1>1, <1>2, <2>1, AttributeOfTag
  <2>4. QED
    BY <2>2, <2>3, Zenon DEF e
<1>3. CASE InTag(html, k) /\ html[k].event = "CloseStartTag"
  <2>1. h = CloseStartTag(g, FALSE, span)
    <3>1. e.event = "CloseStartTag"
      BY <1>1, <1>3
    <3>2. QED
      BY <3>1 DEF handle_event
  <2>2. PieceRead(CloseStartTag(g, FALSE, span), html, k)
    BY <1>1, <1>3, EndOfTag
  <2>3. QED
    BY <2>1, <2>2, Zenon DEF e
<1>4. CASE ~InTag(html, k)
  <2>1. e.event \in {"OpenStartTag", "EndTag", "String"} /\ \A j : ~Opened(html, j, k - 1)
    BY <1>1, <1>4
  <2>2. \/ h = OpenStartTag(g, e.name) \/ h = EndTag(g, e.name)
        \/ h = String(g, e.attr.urls, span)
    BY <2>1 DEF handle_event
  <2>3. SameAttributes(h, g)
    <3>1. Reads(g)
      BY DEF PieceRead
    <3>2. /\ SameAttributes(OpenStartTag(g, e.name), g) /\ SameAttributes(EndTag(g, e.name), g)
          /\ SameAttributes(String(g, e.attr.urls, span), g)
      BY <3>1, OtherEvents, Zenon
    <3>3. QED
      BY <2>2, <3>2, Zenon
  <2> HIDE DEF h
  <2>4. PieceRead(h, html, k)
    BY <1>1, <2>1, <2>3, OutsideTag
  <2>5. QED
    BY <2>4, Zenon DEF h, e
<1>5. QED
  BY <1>1, <1>2, <1>3, <1>4

\* At the end of a piece the anchors of all its tags are known, but those of tags
\* passed over.
LEMMA PieceAnchors ==
  ASSUME NEW html, IsPiece(html)
  PROVE  HtmlAnchors(html) \subseteq extract_html_fragments(html) \cup LostAnchors(html)
<1> DEFINE n == Len(html)
<1>1. n \in Nat /\ DOMAIN html = 1 .. n
  <2> DEFINE S == {html[i] : i \in DOMAIN html}
  <2>1. html \in Seq(S)
    BY DEF IsPiece
  <2> HIDE DEF S
  <2>2. QED
    BY <2>1, LenProperties
<1>2. PICK st : Steps(st, html, TRUE, 0)
  BY <1>1, TokenizedSteps
<1> HIDE DEF n
<1>3. /\ st[0] = LinkExtractor(TRUE)
      /\ \A k \in 1 .. n : st[k] = handle_event(st[k - 1], Tokenizer(html)[k], 0)
      /\ extract_html_fragments(html) = st[n].fragments
  BY <1>2, Zenon DEF Steps, extract_html_fragments, n
<1> DEFINE N == {k \in Nat : k <= n => PieceRead(st[k], html, k)}
<1>4. 0 \in N
  <2>1. Reads(LinkExtractor(TRUE)) /\ LinkExtractor(TRUE).current_attributes = {}
    BY DEF LinkExtractor, Reads
  <2>2. (\A j : ~Opened(html, j, 0)) /\ 1 .. 0 = {}
    BY DEF Opened
  <2> HIDE DEF LinkExtractor
  <2>3. PieceRead(LinkExtractor(TRUE), html, 0)
    BY <2>1, <2>2 DEF PieceRead, HasTag, HasAnchors
  <2>4. QED
    BY <1>3, <2>3
<1>5. ASSUME NEW k \in N PROVE k + 1 \in N
  <2>1. SUFFICES ASSUME k + 1 <= n PROVE PieceRead(st[k + 1], html, k + 1)
    OBVIOUS
  <2> DEFINE m == k + 1
  <2>2. k \in Nat /\ m \in 1 .. n /\ m \in DOMAIN html /\ m - 1 = k
    BY <1>1, <2>1
  <2>3. PieceRead(st[k], html, k)
    BY <1>1, <2>1, <2>2
  <2> HIDE DEF m, N
  <2>4. PieceRead(st[m - 1], html, m - 1)
    BY <2>2, <2>3
  <2>5. PieceRead(handle_event(st[m - 1], Tokenizer(html)[m], 0), html, m)
    BY <2>2, <2>4, PieceStep
  <2>6. PieceRead(st[m], html, m)
    BY <1>3, <2>2, <2>5, Zenon
  <2>7. QED
    BY <2>6 DEF m
<1>6. N = Nat
  <2>1. N \in SUBSET Nat
    OBVIOUS
  <2> HIDE DEF N
  <2>2. QED
    BY <1>4, <1>5, <2>1, NatInd
<1>7. HasAnchors(st[n], html, n)
  <2>1. PieceRead(st[n], html, n)
    BY <1>1, <1>6
  <2>2. QED
    BY <2>1 DEF PieceRead
<1>8. ASSUME NEW t \in TagsOf(html), Followed(t) PROVE AnchorsOf(t) \subseteq st[n].fragments
  <2>1. PICK p \in 1 .. n, q \in 1 .. n :
          /\ html[p].event = "OpenStartTag" /\ html[q].event = "CloseStartTag"
          /\ \A k \in p + 1 .. q - 1 : html[k].event = "Attribute"
          /\ t = Attrs(html, p, q - 1)
    BY <1>1, <1>8 DEF TagsOf, Attrs
  <2>2. CASE p < q
    <3>1. Closed(html, p, q)
      BY <1>1, <2>1, <2>2 DEF Closed, Opened
    <3>2. QED
      BY <1>7, <1>8, <2>1, <3>1 DEF HasAnchors
  <2>3. CASE ~(p < q)
    <3>1. p + 1 .. q - 1 = {}
      BY <1>1, <2>3
    <3>2. t = {}
      BY <2>1, <3>1 DEF Attrs
    <3>3. QED
      BY <3>2 DEF AnchorsOf
  <2>4. QED
    BY <2>2, <2>3
<1>9. QED
  BY <1>3, <1>8 DEF HtmlAnchors, LostAnchors

\* All anchors wanted are known, and so is every text the generator has counted.
AnchorsKnown == MarkdownAnchors /\ DOMAIN counter \subseteq frags.out

\* An event without anchors.
LEMMA NoAnchors ==
  ASSUME MarkdownInv, AnchorsKnown,
         \/ \E link_type, dest_url : StartLink(link_type, dest_url)
         \/ EndLink \/ EndImage \/ EndCodeBlock
         \/ \E dest_url : StartImage(dest_url)
         \/ StartCodeBlock
         \/ \E t : Text(t) \/ Code(t)
         \/ StartHtmlBlock \/ EndHtmlBlock
         \/ \E id : StartHeading(id)
  PROVE  AnchorsKnown'
<1>1. MarkdownTypeOK
  BY DEF MarkdownInv
<1>2. ASSUME NEW within, NEW wanted, Write(within, wanted)
      PROVE  text'.anchors = text.anchors /\ text'.passed = text.passed
  BY <1>1, <1>2 DEF MarkdownTypeOK, Write
<1>3. ASSUME NEW t, NEW wanted, NEW odd, WriteRun(t, wanted, odd)
      PROVE  text'.anchors = text.anchors /\ text'.passed = text.passed
  BY <1>1, <1>3 DEF MarkdownTypeOK, WriteRun
<1>4. ASSUME NEW t, heading_push(t) PROVE frags'.out = frags.out /\ counter' = counter
  BY <1>1, <1>4 DEF MarkdownTypeOK, heading_push
<1>5. /\ text'.anchors = text.anchors /\ text'.passed = text.passed
      /\ frags'.out = frags.out /\ counter' = counter
  <2>1. CASE \E link_type, dest_url : StartLink(link_type, dest_url)
    BY <1>2, <2>1 DEF StartLink
  <2>2. CASE EndLink \/ EndImage \/ EndCodeBlock
    BY <1>1, <1>2, <2>2 DEF EndLink, WriteEndLink, EndImage, EndCodeBlock, MarkdownTypeOK
  <2>3. CASE (\E dest_url : StartImage(dest_url)) \/ StartCodeBlock
    BY <1>2, <2>3 DEF StartImage, StartCodeBlock
  <2>4. CASE \E t : Text(t) \/ Code(t)
    BY <1>3, <1>4, <2>4 DEF Text, Code
  <2>5. CASE StartHtmlBlock \/ EndHtmlBlock
    BY <1>1, <2>5 DEF StartHtmlBlock, EndHtmlBlock, MarkdownTypeOK
  <2>6. CASE \E id : StartHeading(id)
    BY <1>1, <2>6 DEF StartHeading, MarkdownTypeOK
  <2>7. QED
    BY <2>1, <2>2, <2>3, <2>4, <2>5, <2>6
<1>6. QED
  BY <1>5 DEF AnchorsKnown, MarkdownAnchors

\* A piece of HTML: the anchors of its tags.
LEMMA PieceOfAnchors ==
  ASSUME MarkdownInv, AnchorsKnown, NEW piece \in Pieces, Html(piece) \/ InlineHtml(piece)
  PROVE  AnchorsKnown'
<1>1. MarkdownTypeOK
  BY DEF MarkdownInv
<1>2. /\ text'.anchors = text.anchors \cup HtmlAnchors(piece)
      /\ text'.passed = text.passed \cup LostAnchors(piece)
      /\ frags'.out = frags.out \cup extract_html_fragments(piece)
      /\ counter' = counter
  BY <1>1 DEF Html, InlineHtml, MarkdownTypeOK
<1>3. HtmlAnchors(piece) \subseteq extract_html_fragments(piece) \cup LostAnchors(piece)
  BY MarkdownAssumption, PieceAnchors
<1>4. QED
  BY <1>2, <1>3 DEF AnchorsKnown, MarkdownAnchors

\* The end of a heading: its attribute, and its text if it is the first of that text.
LEMMA HeadingAnchors ==
  ASSUME MarkdownInv, AnchorsKnown, EndHeading
  PROVE  AnchorsKnown'
<1> DEFINE slug == text.heading.slug
           named == {i \in {text.id} : i # NoId}
<1>1. MarkdownTypeOK /\ FlagsRight
  BY DEF MarkdownInv
<1>2. frags.heading_text = text.heading /\ frags.heading_id = text.id
  <2>1. text.within \in Seq(Containers) /\ Nested(text.within)
    BY DEF MarkdownInv, MarkdownTypeOK
  <2>2. text.within # <<>> /\ Last(text.within) = "Heading"
    BY DEF EndHeading, Leave
  <2>3. Inside(text.within, {"Heading"})
    BY <2>1, <2>2, Left
  <2>4. QED
    BY <1>1, <2>3 DEF FlagsRight, Within
<1>3. /\ text'.anchors = text.anchors \cup named \cup {s \in {slug} : ~text.heading.empty}
      /\ text'.passed = text.passed
  BY <1>1 DEF EndHeading, MarkdownTypeOK
<1>4. CASE text.heading.empty
  <2>1. frags'.out = frags.out \cup named /\ counter' = counter
    BY <1>1, <1>2, <1>4 DEF EndHeading, MarkdownTypeOK
  <2>2. QED
    BY <1>3, <1>4, <2>1 DEF AnchorsKnown, MarkdownAnchors
<1>5. CASE ~text.heading.empty
  <2>1. /\ frags'.out = frags.out \cup named \cup {generate(slug)}
        /\ counter' = Counted(slug)
    BY <1>1, <1>2, <1>5 DEF EndHeading, MarkdownTypeOK
  <2>2. DOMAIN counter' = DOMAIN counter \cup {slug}
    BY <2>1 DEF Counted
  <2>3. slug \in frags'.out
    <3>1. CASE slug \in DOMAIN counter
      BY <2>1, <3>1 DEF AnchorsKnown
    <3>2. CASE slug \notin DOMAIN counter
      <4>1. generate(slug) = slug
        BY <3>2 DEF generate, Count
      <4>2. QED
        BY <2>1, <4>1
    <3>3. QED
      BY <3>1, <3>2
  <2>4. named \subseteq frags'.out /\ frags.out \subseteq frags'.out
    BY <2>1
  <2> HIDE DEF slug, named
  <2>5. QED
    BY <1>3, <2>2, <2>3, <2>4 DEF AnchorsKnown, MarkdownAnchors
<1>6. QED
  BY <1>4, <1>5

LEMMA AnchorsSteps == ExtractInv /\ AnchorsKnown /\ [ExtractNext]_extractVars => AnchorsKnown'
<1> SUFFICES ASSUME MarkdownInv, AnchorsKnown, [ExtractNext]_extractVars PROVE AnchorsKnown'
  BY DEF ExtractInv
<1>1. CASE UNCHANGED markdownVars
  BY <1>1 DEF markdownVars, AnchorsKnown, MarkdownAnchors
<1>2. CASE MarkdownNext
  <2>1. CASE \E piece \in Pieces : Html(piece) \/ InlineHtml(piece)
    BY <2>1, PieceOfAnchors
  <2>2. CASE EndHeading
    BY <2>2, HeadingAnchors
  <2>3. QED
    BY <1>2, <2>1, <2>2, NoAnchors, Zenon DEF MarkdownNext
<1>3. QED
  BY <1>1, <1>2 DEF ExtractNext, extractVars, markdownVars

\* Every heading of any document can be linked to by its text and by its attribute, and
\* so can every tag that begins and ends in one piece of HTML, unless it is a tag whose
\* links are passed over (rel="nofollow", a prefix, a disabled style sheet).
THEOREM MarkdownAnchorsAlways == ExtractSpec => []MarkdownAnchors
<1>1. ExtractInit => AnchorsKnown
  BY DEF ExtractInit, MarkdownInit, AnchorsKnown, MarkdownAnchors
<1>2. ExtractInv /\ AnchorsKnown /\ [ExtractNext]_extractVars => AnchorsKnown'
  BY AnchorsSteps
<1>3. AnchorsKnown => MarkdownAnchors
  BY DEF AnchorsKnown
<1>4. QED
  BY <1>1, <1>2, <1>3, Invariance, PTL DEF ExtractSpec
=============================================================================
