------------------------------ MODULE HtmlExtract ----------------------------
\* The two HTML link extractors, html5gum (the default) and html5ever, reading
\* the same page.  A page is written tag by tag and attribute by attribute, by
\* an author who may leave elements open, end them in the wrong order, or end
\* what was never open; html5gum sees every event at once, html5ever whole tags.
EXTENDS Html5gum, Html5ever

CONSTANTS
  Elements,      \* the names of the page's elements
  AttributesOf,  \* AttributesOf[e]: the attributes a tag of element e may have
  Contents,      \* the sets of URLs a run of text may hold
  MaxTokens,     \* the page ends after so many tags and runs of text
  MaxAttributes  \* and has so many attributes

AttributeNames == UNION { {a.name : a \in AttributesOf[e]} : e \in Elements }

HtmlAttribute ==
  [name : AttributeNames, urls : SUBSET UrlClasses, rel : SUBSET SUBSET STRING, id : Seq(Nat)]

ASSUME HtmlAssumption ==
  /\ None \notin Elements
  /\ \A e \in Elements : \A a \in AttributesOf[e] :
       /\ a \in HtmlAttribute /\ a.name # None
       /\ HoldsLink(e, a.name) => \A u, v \in a.urls : u = v
  /\ \A urls \in Contents : urls \subseteq UrlClasses

VARIABLES
  page,   \* what has been written, and what a reader would want extracted
  gum,    \* html5gum's LinkExtractor
  ever    \* html5ever's LinkExtractor

htmlVars == <<page, gum, ever>>

NoTag == [element |-> None, attrs |-> {}]

\* page.told     does the tokenizer tell of attributes without a value?
\* page.n        tags and runs of text so far; page.attributes: attributes so far
\* page.tag      the start tag being written
\* page.open     the verbatim elements that are open, outermost first
\* page.styling  is a style sheet being written?  page.style: its URLs
\* page.wanted   the links outside verbatim elements, of tags to be followed
\* page.anchors  the anchors of such tags, within verbatim elements or not
\* page.oddities what the page has that an extractor reads in its own way
HtmlInit ==
  \E iv, told \in BOOLEAN :
    /\ page = [told |-> told, n |-> 0, attributes |-> 0, tag |-> NoTag, open |-> <<>>,
               styling |-> FALSE, style |-> {}, wanted |-> {}, anchors |-> {},
               oddities |-> {}]
    /\ gum = LinkExtractor(iv)
    /\ ever = Html5everExtractor(iv)

include_verbatim == gum.include_verbatim

InVerbatim == ~include_verbatim /\ page.open # <<>>

\* The oddity o, when it is one.
When(o, odd) == {x \in {o} : odd}

Valued(a) == a.urls # {} \/ a.rel # {} \/ a.id # <<>>

Untold(a) == ~Valued(a) /\ ~page.told

IsLinkAttribute(name, a) == a.name = "srcset" \/ HoldsLink(name, a.name)

WantedOf(name, attrs, span) ==
  UNION { {RawUri(u, name, a.name, span) : u \in {v \in a.urls : AcceptedUrl(a.name, v)}} :
          a \in {b \in attrs : /\ IsLinkAttribute(name, b)
                               /\ b.name = "srcset" => "malformed" \notin b.urls} }

WriteOpenTag(name) ==
  /\ page.tag = NoTag /\ ~page.styling /\ page.n < MaxTokens
  /\ page' = [page EXCEPT
       !.n = @ + 1,
       !.tag.element = name,
       !.open = IF is_verbatim_elem(name) THEN Append(@, name) ELSE @,
       !.styling = name = "style",
       !.style = {},
       !.oddities = @ \cup When("nested", name \in ToSet(page.open))
                      \cup When("style", name = "style" /\ InVerbatim)]
  /\ gum' = OpenStartTag(gum, name)
  /\ UNCHANGED ever

\* No two attributes of a tag have the same name.
WriteAttribute(a) ==
  /\ page.tag # NoTag /\ a \in AttributesOf[page.tag.element]
  /\ ~Has(page.tag.attrs, a.name) /\ page.attributes < MaxAttributes
  /\ page' = [page EXCEPT
       !.attributes = @ + 1,
       !.tag.attrs = @ \cup {a},
       !.oddities = @ \cup When("bare", a.name = "prefix" /\ Untold(a))
                      \cup When("bare", \E d \in AttributesNamed(page.tag.attrs, "disabled") : Untold(d))]
  /\ gum' = Attribute(gum, a, ~Untold(a))
  /\ UNCHANGED ever

\* A rel of several words between two commas.
Spaced(attrs) ==
  \E a \in AttributesNamed(attrs, "rel") : \E part \in a.rel :
    \E w \in {"nofollow", "preconnect", "dns-prefetch"} : w \in part /\ part # {w}

\* A URL in an attribute that holds none, and a style sheet's link that is no href.
TextLink(name, attrs) ==
  \E a \in attrs : ~IsLinkAttribute(name, a) /\ find_links(a.urls) # {}

SheetLink(name, attrs) ==
  /\ RelContains(attrs, "stylesheet")
  /\ \E a \in attrs : a.name # "href" /\ IsLinkAttribute(name, a)

\* A self-closing tag ends its element, as in XHTML and JSX.
WriteCloseTag(self_closing) ==
  LET name == page.tag.element
      attrs == page.tag.attrs
      ends == self_closing /\ is_verbatim_elem(name)
  IN /\ page.tag # NoTag
     /\ page' = [page EXCEPT
          !.tag = NoTag,
          !.open = IF ends THEN Front(@) ELSE @,
          !.wanted = IF Followed(attrs) /\ ~InVerbatim
                     THEN @ \cup WantedOf(name, attrs, page.n) ELSE @,
          !.anchors = IF Followed(attrs) THEN @ \cup AnchorsOf(attrs) ELSE @,
          !.oddities = @
            \cup When("self_closing", ends)
            \cup When("spaced", Spaced(attrs))
            \cup When("text", TextLink(name, attrs))
            \cup When("sheet", SheetLink(name, attrs))]
     /\ gum' = CloseStartTag(gum, self_closing, page.n)
     /\ ever' = process_tag(ever, "StartTag", name, attrs, page.n)

\* An end tag ends the innermost element of its name, the k-th of those open,
\* and all within it; if there is none (k = 0), it ends nothing.
WriteEndTag(name) ==
  /\ page.tag = NoTag /\ page.n < MaxTokens
  /\ page.styling => name = "style"
  /\ \E k \in 0 .. Len(page.open) :
       /\ k # 0 => page.open[k] = name
       /\ \A j \in k + 1 .. Len(page.open) : page.open[j] # name
       /\ page' = [page EXCEPT
            !.n = @ + 1,
            !.open = IF k = 0 THEN @ ELSE SubSeq(@, 1, k - 1),
            !.styling = FALSE,
            !.wanted = @ \cup page.style,
            !.style = {},
            !.oddities = @ \cup When("unbalanced", k \notin {0, Len(page.open)})]
  /\ gum' = EndTag(gum, name)
  /\ ever' = process_tag(ever, "EndTag", name, {}, page.n)

WriteText(urls) ==
  /\ page.tag = NoTag /\ page.n < MaxTokens
  /\ page' = [page EXCEPT
       !.n = @ + 1,
       !.style = IF page.styling /\ ~InVerbatim THEN @ \cup extract_css(urls, page.n) ELSE @,
       !.wanted = IF include_verbatim /\ ~page.styling
                  THEN @ \cup extract_raw_uri_from_plaintext(urls, page.n) ELSE @]
  /\ gum' = String(gum, urls, page.n)
  /\ ever' = CharacterTokens(ever, urls, page.n)

HtmlNext ==
  \/ \E e \in Elements : WriteOpenTag(e) \/ WriteEndTag(e)
  \/ page.tag # NoTag /\ \E a \in AttributesOf[page.tag.element] : WriteAttribute(a)
  \/ \E self_closing \in BOOLEAN : WriteCloseTag(self_closing)
  \/ \E urls \in Contents : WriteText(urls)

-----------------------------------------------------------------------------
RawUriSet ==
  [text : UrlClasses, element : Elements \cup {None, "", "style"},
   attribute : AttributeNames \cup {None, "url"}, span : Nat]

Oddities == {"nested", "unbalanced", "self_closing", "style", "bare", "spaced", "text", "sheet"}

PageState ==
  [told : BOOLEAN, n : Nat, attributes : Nat,
   tag : [element : Elements \cup {None}, attrs : SUBSET HtmlAttribute],
   open : Seq(Elements), styling : BOOLEAN, style : SUBSET RawUriSet,
   wanted : SUBSET RawUriSet, anchors : SUBSET Seq(Nat), oddities : SUBSET Oddities]

GumState ==
  [include_verbatim : BOOLEAN, links : SUBSET RawUriSet, fragments : SUBSET Seq(Nat),
   current_element : Elements \cup {""}, current_attributes : SUBSET HtmlAttribute,
   current_attribute_name : AttributeNames \cup {""}, verbatim_stack : Seq(Elements), in_style_tag : BOOLEAN,
   style_content : SUBSET RawUriSet]

EverState ==
  [include_verbatim : BOOLEAN, links : SUBSET RawUriSet,
   current_verbatim_element_name : Elements \cup {None}, in_style_tag : BOOLEAN,
   style_content : SUBSET RawUriSet]

HtmlTypeOK == page \in PageState /\ gum \in GumState /\ ever \in EverState

\* The element of the tag being written is the innermost of those open.
TagOpen ==
  /\ page.tag # NoTag =>
       /\ page.tag.element \in Elements /\ gum.current_element = page.tag.element
       /\ page.styling = (page.tag.element = "style")
       /\ is_verbatim_elem(page.tag.element) =>
            page.open # <<>> /\ Last(page.open) = page.tag.element
  /\ page.tag.element = None => page.tag = NoTag
  /\ \A i \in DOMAIN page.open : is_verbatim_elem(page.open[i])
  /\ "nested" \notin page.oddities =>
       \A i, j \in DOMAIN page.open : page.open[i] = page.open[j] => i = j

\* html5gum holds the attributes of this tag and of no other; that a tag is
\* disabled it may know from the name alone.
AttributesOfTheTag ==
  /\ page.tag # NoTag => page.tag.attrs \subseteq AttributesOf[page.tag.element]
  /\ \A a, b \in page.tag.attrs : a.name = b.name => a = b
  /\ gum.current_attributes \subseteq page.tag.attrs
  /\ \A a \in page.tag.attrs : a \in gum.current_attributes \/ Untold(a)
  /\ page.tag.attrs # {} => Has(page.tag.attrs, gum.current_attribute_name)
  /\ "bare" \notin page.oddities =>
       \A a \in page.tag.attrs : Untold(a) =>
         /\ a.name # "prefix"
         /\ a.name = "disabled" => gum.current_attribute_name = "disabled"

\* The elements of s are found in t, in their order.
Embedded(s, t) ==
  \E f \in [DOMAIN s -> DOMAIN t] :
    /\ \A i, j \in DOMAIN s : i < j => f[i] < f[j]
    /\ \A i \in DOMAIN s : t[f[i]] = s[i]

\* The elements open are on html5gum's stack, in their order; if they are ended
\* in order, nothing else is.
StackHoldsOpen ==
  /\ include_verbatim => gum.verbatim_stack = <<>>
  /\ \A i \in DOMAIN gum.verbatim_stack : is_verbatim_elem(gum.verbatim_stack[i])
  /\ ~include_verbatim =>
       /\ Embedded(page.open, gum.verbatim_stack)
       /\ "unbalanced" \notin page.oddities => gum.verbatim_stack = page.open

\* html5ever, which has not seen the tag being written, remembers the outermost
\* element, if no element is opened within itself.
SeenOpen ==
  IF page.tag # NoTag /\ is_verbatim_elem(page.tag.element) THEN Front(page.open) ELSE page.open

OutermostKnown ==
  /\ ever.include_verbatim = include_verbatim
  /\ page.oddities \cap {"nested", "self_closing", "unbalanced"} = {} =>
       ever.current_verbatim_element_name =
         IF ~include_verbatim /\ SeenOpen # <<>> THEN Head(SeenOpen) ELSE None

\* Both have read the same style sheet.
StyleRead ==
  /\ gum.in_style_tag = page.styling
  /\ ever.in_style_tag = (page.styling /\ page.tag = NoTag)
  /\ ever.style_content = gum.style_content /\ page.style \subseteq gum.style_content
  /\ "style" \notin page.oddities => page.style = gum.style_content
  /\ page.styling /\ InVerbatim => "style" \in page.oddities
  /\ gum.style_content # {} => page.styling /\ page.tag = NoTag
  /\ \A l \in gum.style_content : l.attribute # None

\* The links html5gum returns are those a reader would want: none of a tag that
\* is not to be followed or stands in a verbatim element, however badly the
\* elements are nested, and, on a page whose verbatim elements end in order,
\* every other one.  (A rel of several words, a disabled= or prefix= without
\* value, and a style sheet in a verbatim element are read otherwise.)
HtmlLinks ==
  /\ page.oddities \cap {"spaced", "bare", "style"} = {} => extracted(gum) \subseteq page.wanted
  /\ "unbalanced" \notin page.oddities => page.wanted \subseteq extracted(gum)

\* On a page without oddities the two extractors return the same links.
EnginesAgree == page.oddities = {} => extracted(gum) = ever.links

\* Every anchor of a tag to be followed can be linked to, verbatim or not
\* (fragments are always looked for with verbatim elements included).
AnchorsFound == include_verbatim => page.anchors \subseteq gum.fragments

HtmlInv ==
  /\ HtmlTypeOK /\ TagOpen /\ AttributesOfTheTag /\ StackHoldsOpen
  /\ OutermostKnown /\ StyleRead
  /\ HtmlLinks /\ EnginesAgree /\ AnchorsFound

=============================================================================
