--------------------------- MODULE CollectorProofs ---------------------------
(***************************************************************************)
(* Proofs about the collector: its inductive invariant, that no document   *)
(* is skipped silently, that an error ends its input, and where links      *)
(* lead.                                                                   *)
(***************************************************************************)
EXTENDS Collector, TLAPS

\* What the constants are.
LEMMA Constants ==
    /\ \A d \in Docs : Doc[d].of \in Inputs
    /\ \A i \in Inputs, d \in Docs : d \in DocsOf(i) <=> Doc[d].of = i
BY CollectorAssumption DEF CollectorAssumption, Document, DocsOf

\* An error names its input.
LEMMA ErrorOf ==
    \A i : UserInputContent(i).input = i /\ GetInputContent(i).input = i
BY DEF UserInputContent, GetInputContent

\* What is read without resolution is one document.
LEMMA OneDocument ==
    ASSUME NEW i \in Inputs, Kind[i] \in {"url", "stdin", "string"}
    PROVE  /\ \A c, d \in DocsOf(i) : c = d
           /\ \A d \in DocsOf(i) : Doc[d].what # "broken"
BY CollectorAssumption DEF CollectorAssumption, DocsOf

\* The resolver yields documents of the input it was asked for, and among them
\* every one that is wanted.
LEMMA Resolver ==
    ASSUME NEW i \in Inputs
    PROVE  /\ resolve_input(i) \subseteq DocsOf(i)
           /\ Kind[i] \in {"file", "dir", "glob"} =>
                  \A d \in DocsOf(i) : Wanted(d) => d \in resolve_input(i)
BY DEF resolve_input, Wanted, DocsOf

\* All links of a document come out with it.
LEMMA Created ==
    ASSUME NEW options, NEW d \in Docs
    PROVE  /\ \A x \in create(options, d) : x.doc = d
           /\ \A l \in Doc[d].links :
                  \E x \in create(options, d) : x.doc = d /\ x.link = l
<1> DEFINE b == or_fallback(to_base_info(d), use_fs_root_as_origin(base_url(options)))
           item(l) == [doc |-> d, link |-> l,
                       at |-> parse_url_text_with_root_dir(options, b, l)]
<1>1. create(options, d) = {item(l) : l \in Doc[d].links}
  BY DEF create
<1>2. \A l : item(l).doc = d /\ item(l).link = l
  OBVIOUS
<1> HIDE DEF item
<1> QED BY <1>1, <1>2

\* The error of a whole document is about that document.
LEMMA SourceError ==
    \A d : /\ InputSourceError(d).doc = d /\ InputSourceError(d).link = "source"
          /\ InputSourceError(d).at = "error"
BY DEF InputSourceError
-----------------------------------------------------------------------------
\* The invariant holds of the initial states: nothing has been read.
LEMMA InitInv == CollectorInit => CollectorInv
BY Constants DEF CollectorInit, CollectorInv, CollectorTypes, Sequential, UserErrorAlone,
                 Progress, Failed

\* The parts of the invariant about one step, for the steps below.
Halted == \A d \in contents' \ contents : ~Failed(Doc[d].of)

\* Every step of the collector keeps the invariant, and reads nothing of an
\* input that has failed.
LEMMA StepInv ==
    ASSUME CollectorInv, [CollectorNext]_collectorVars
    PROVE  CollectorInv' /\ Halted
<1> USE DEF CollectorInv
<1> SUFFICES ASSUME chosen' = chosen PROVE CollectorInv' /\ Halted
  BY DEF CollectorNext, InputNext, DocNext, ReadDirect, ReadDirectFails, OpenFails, OpenInput,
         TurnTo, ReadDocument, Skip, ReadFails, WalkFails, PrintFailure, Fail, Extract,
         ExtractFails, PassError, Close, Exhausted, collectorVars
<1>1. ASSUME NEW i \in Inputs, ReadDirect(i) PROVE CollectorInv' /\ Halted
  <2> USE <1>1 DEF ReadDirect, TurnTo, outVars
  <2>1. CollectorTypes'
    BY DEF CollectorTypes, DocsOf
  <2>2. Sequential'
    BY Constants, OneDocument DEF Sequential, Failed, CollectorTypes, DocsOf
  <2>3. UserErrorAlone'
    BY Constants DEF UserErrorAlone, Sequential, Failed, CollectorTypes, DocsOf
  <2>4. Progress'
    BY Constants DEF Progress, Collected, Failed, Passable, CollectorTypes, DocsOf
  <2>5. Halted
    BY Constants DEF Halted, Sequential, CollectorTypes, DocsOf
  <2> QED BY <2>1, <2>2, <2>3, <2>4, <2>5
<1>2. ASSUME NEW i \in Inputs, ReadDirectFails(i) PROVE CollectorInv' /\ Halted
  <2> USE <1>2 DEF ReadDirectFails, TurnTo, UserInputContent, outVars
  <2>1. CollectorTypes'
    BY DEF CollectorTypes, InputError
  <2>2. Sequential'
    BY Constants DEF Sequential, Failed, CollectorTypes, DocsOf
  <2>3. UserErrorAlone'
    BY Constants DEF UserErrorAlone, Sequential, Failed, CollectorTypes, DocsOf
  <2>4. Progress'
    <3> HIDE DEF UserInputContent
    <3>1. \/ Failed(i)'
          \/ \A c \in DocsOf(i) : Passable(c)'
      <4>1. CASE UserInputContent(i) \in errors'
        BY <4>1, ErrorOf DEF Failed
      <4>2. CASE Kind[i] = "url" /\ chosen.skipMissing
        BY <4>2, OneDocument DEF Passable
      <4> QED BY <4>1, <4>2
    <3>2. \A j : Failed(j) => Failed(j)'
      BY DEF Failed
    <3>3. \A c \in Docs : Collected(c) => Collected(c)'
      BY DEF Collected
    <3> QED BY Constants, <3>1, <3>2, <3>3 DEF Progress, Passable
  <2>5. Halted
    BY Constants DEF Halted, Sequential, CollectorTypes, DocsOf
  <2> QED BY <2>1, <2>2, <2>3, <2>4, <2>5
<1>3. ASSUME NEW i \in Inputs, OpenFails(i) PROVE CollectorInv' /\ Halted
  <2> USE <1>3 DEF OpenFails, TurnTo, UserInputContent, outVars
  <2>1. CollectorTypes'
    BY DEF CollectorTypes, InputError
  <2>2. Sequential'
    BY Constants DEF Sequential, Failed, CollectorTypes, DocsOf
  <2>3. UserErrorAlone'
    BY Constants DEF UserErrorAlone, Sequential, Failed, CollectorTypes, DocsOf
  <2>4. Progress'
    <3> HIDE DEF UserInputContent
    <3>1. Failed(i)'
      BY ErrorOf DEF Failed
    <3>2. \A j : Failed(j) => Failed(j)'
      BY DEF Failed
    <3>3. \A c \in Docs : Collected(c) => Collected(c)'
      BY DEF Collected
    <3> QED BY Constants, <3>1, <3>2, <3>3 DEF Progress, Passable
  <2>5. Halted
    BY Constants DEF Halted, Sequential, CollectorTypes, DocsOf
  <2> QED BY <2>1, <2>2, <2>3, <2>4, <2>5
<1>4. ASSUME NEW i \in Inputs, OpenInput(i) PROVE CollectorInv' /\ Halted
  <2> USE <1>4 DEF OpenInput, TurnTo, outVars
  <2>1. CollectorTypes'
    BY Resolver DEF CollectorTypes, DocsOf
  <2>2. Sequential'
    BY Constants, Resolver DEF Sequential, Failed, CollectorTypes, DocsOf
  <2>3. UserErrorAlone'
    BY Constants, Resolver DEF UserErrorAlone, Sequential, Failed, CollectorTypes, DocsOf
  <2>4. Progress'
    <3>1. Kind[i] \in {"file", "dir", "glob"}
      OBVIOUS
    <3>2. \A j : Failed(j) => Failed(j)'
      BY DEF Failed
    <3>3. \A c \in Docs : Collected(c) => Collected(c)'
      BY DEF Collected
    <3>4. \A c \in Docs : Doc[c].of = i /\ Wanted(c) => c \in left'
      BY <3>1, Constants, Resolver
    <3>5. left = {}
      BY DEF Sequential
    <3> QED BY Constants, <3>2, <3>3, <3>4, <3>5 DEF Progress, Passable, CollectorTypes
  <2>5. Halted
    BY Constants DEF Halted, Sequential, CollectorTypes, DocsOf
  <2> QED BY <2>1, <2>2, <2>3, <2>4, <2>5
<1>5. ASSUME NEW d \in Docs, ReadDocument(d) PROVE CollectorInv' /\ Halted
  <2> USE <1>5 DEF ReadDocument, outVars
  <2>1. CollectorTypes'
    BY DEF CollectorTypes, DocsOf
  <2>2. Sequential'
    BY Constants DEF Sequential, Failed, CollectorTypes, DocsOf
  <2>3. UserErrorAlone'
    BY Constants DEF UserErrorAlone, Sequential, Failed, CollectorTypes, DocsOf
  <2>4. Progress'
    BY Constants DEF Progress, Collected, Failed, Passable, CollectorTypes, DocsOf
  <2>5. Halted
    BY Constants DEF Halted, Sequential, CollectorTypes, DocsOf
  <2> QED BY <2>1, <2>2, <2>3, <2>4, <2>5
<1>6. ASSUME NEW d \in Docs, Skip(d) PROVE CollectorInv' /\ Halted
  <2> USE <1>6 DEF Skip, outVars
  <2>1. CollectorTypes'
    BY DEF CollectorTypes, DocsOf
  <2>2. Sequential'
    BY Constants DEF Sequential, Failed, CollectorTypes, DocsOf
  <2>3. UserErrorAlone'
    BY Constants DEF UserErrorAlone, Sequential, Failed, CollectorTypes, DocsOf
  <2>4. Progress'
    BY Constants DEF Progress, Collected, Failed, Passable, CollectorTypes, DocsOf, Wanted
  <2>5. Halted
    BY Constants DEF Halted, Sequential, CollectorTypes, DocsOf
  <2> QED BY <2>1, <2>2, <2>3, <2>4, <2>5
<1>7. ASSUME NEW d \in Docs, ReadFails(d) PROVE CollectorInv' /\ Halted
  <2> USE <1>7 DEF ReadFails, Fail, GetInputContent, outVars
  <2>1. CollectorTypes'
    BY Constants DEF CollectorTypes, InputError
  <2>2. Sequential'
    BY Constants DEF Sequential, Failed, CollectorTypes, DocsOf
  <2>3. UserErrorAlone'
    BY Constants DEF UserErrorAlone, Sequential, Failed, CollectorTypes, DocsOf
  <2>4. Progress'
    <3> HIDE DEF GetInputContent
    <3>1. \A c \in left : Failed(Doc[c].of)'
      <4>1. \A c \in left : Doc[c].of = Doc[d].of
        BY DEF Sequential
      <4>2. Failed(Doc[d].of)'
        BY ErrorOf DEF Failed
      <4> QED BY <4>1, <4>2
    <3>2. \A j : Failed(j) => Failed(j)'
      BY DEF Failed
    <3>3. \A c \in Docs : Collected(c) => Collected(c)'
      BY DEF Collected
    <3> QED BY Constants, <3>1, <3>2, <3>3 DEF Progress, Passable, CollectorTypes
  <2>5. Halted
    BY Constants DEF Halted, Sequential, CollectorTypes, DocsOf
  <2> QED BY <2>1, <2>2, <2>3, <2>4, <2>5
<1>8. ASSUME NEW d \in Docs, WalkFails(d) PROVE CollectorInv' /\ Halted
  <2> USE <1>8 DEF WalkFails, Fail, GetInputContent, outVars
  <2>1. CollectorTypes'
    BY Constants DEF CollectorTypes, InputError
  <2>2. Sequential'
    BY Constants DEF Sequential, Failed, CollectorTypes, DocsOf
  <2>3. UserErrorAlone'
    BY Constants DEF UserErrorAlone, Sequential, Failed, CollectorTypes, DocsOf
  <2>4. Progress'
    <3> HIDE DEF GetInputContent
    <3>1. \A c \in left : Failed(Doc[c].of)'
      <4>1. \A c \in left : Doc[c].of = Doc[d].of
        BY DEF Sequential
      <4>2. Failed(Doc[d].of)'
        BY ErrorOf DEF Failed
      <4> QED BY <4>1, <4>2
    <3>2. \A j : Failed(j) => Failed(j)'
      BY DEF Failed
    <3>3. \A c \in Docs : Collected(c) => Collected(c)'
      BY DEF Collected
    <3> QED BY Constants, <3>1, <3>2, <3>3 DEF Progress, Passable, CollectorTypes
  <2>5. Halted
    BY Constants DEF Halted, Sequential, CollectorTypes, DocsOf
  <2> QED BY <2>1, <2>2, <2>3, <2>4, <2>5
<1>9. ASSUME NEW d \in Docs, Extract(d) PROVE CollectorInv' /\ Halted
  <2> USE <1>9 DEF Extract, outVars
  <2>1. CollectorTypes'
    BY Created DEF CollectorTypes
  <2>2. Sequential'
    BY Constants, Created DEF Sequential, Failed, CollectorTypes, DocsOf
  <2>3. UserErrorAlone'
    BY Constants, Created DEF UserErrorAlone, Sequential, Failed, CollectorTypes, DocsOf
  <2>4. Progress'
    <3>1. Collected(d)'
      BY Created DEF Collected, Sequential
    <3>2. \A j : Failed(j) => Failed(j)'
      BY DEF Failed
    <3>3. \A c \in Docs : Collected(c) => Collected(c)'
      BY DEF Collected
    <3> QED BY <3>1, <3>2, <3>3 DEF Progress, Passable
  <2>5. Halted
    BY Constants DEF Halted, Sequential, CollectorTypes, DocsOf
  <2> QED BY <2>1, <2>2, <2>3, <2>4, <2>5
<1>10. ASSUME NEW e \in errors, PassError(e) PROVE CollectorInv' /\ Halted
  <2> USE <1>10 DEF PassError, outVars
  <2>1. CollectorTypes'
    BY DEF CollectorTypes, DocsOf
  <2>2. Sequential'
    BY Constants DEF Sequential, Failed, CollectorTypes, DocsOf
  <2>3. UserErrorAlone'
    BY Constants DEF UserErrorAlone, Sequential, Failed, CollectorTypes, DocsOf
  <2>4. Progress'
    BY Constants DEF Progress, Collected, Failed, Passable, CollectorTypes, DocsOf
  <2>5. Halted
    BY Constants DEF Halted, Sequential, CollectorTypes, DocsOf
  <2> QED BY <2>1, <2>2, <2>3, <2>4, <2>5
<1>11. ASSUME Close PROVE CollectorInv' /\ Halted
  <2> USE <1>11 DEF Close, outVars
  <2>1. CollectorTypes'
    BY DEF CollectorTypes, DocsOf
  <2>2. Sequential'
    BY Constants DEF Sequential, Failed, CollectorTypes, DocsOf
  <2>3. UserErrorAlone'
    BY Constants DEF UserErrorAlone, Sequential, Failed, CollectorTypes, DocsOf
  <2>4. Progress'
    BY Constants DEF Progress, Collected, Failed, Passable, CollectorTypes, DocsOf
  <2>5. Halted
    BY Constants DEF Halted, Sequential, CollectorTypes, DocsOf
  <2> QED BY <2>1, <2>2, <2>3, <2>4, <2>5
<1>12. ASSUME UNCHANGED collectorVars PROVE CollectorInv' /\ Halted
  <2> USE <1>12 DEF collectorVars, outVars
  <2>1. CollectorTypes'
    BY DEF CollectorTypes, DocsOf
  <2>2. Sequential'
    BY Constants DEF Sequential, Failed, CollectorTypes, DocsOf
  <2>3. UserErrorAlone'
    BY Constants DEF UserErrorAlone, Sequential, Failed, CollectorTypes, DocsOf
  <2>4. Progress'
    BY Constants DEF Progress, Collected, Failed, Passable, CollectorTypes, DocsOf
  <2>5. Halted
    BY Constants DEF Halted, Sequential, CollectorTypes, DocsOf
  <2> QED BY <2>1, <2>2, <2>3, <2>4, <2>5
<1>13. ASSUME NEW d \in Docs, PrintFailure(d) PROVE CollectorInv' /\ Halted
  <2> USE <1>13 DEF PrintFailure, outVars
  <2>1. CollectorTypes'
    BY DEF CollectorTypes, DocsOf
  <2>2. Sequential'
    BY Constants DEF Sequential, Failed, CollectorTypes, DocsOf
  <2>3. UserErrorAlone'
    BY Constants DEF UserErrorAlone, Sequential, Failed, CollectorTypes, DocsOf
  <2>4. Progress'
    BY Constants DEF Progress, Collected, Failed, Passable, CollectorTypes, DocsOf
  <2>5. Halted
    BY Constants DEF Halted, Sequential, CollectorTypes, DocsOf
  <2> QED BY <2>1, <2>2, <2>3, <2>4, <2>5
<1>14. ASSUME NEW d \in Docs, ExtractFails(d) PROVE CollectorInv' /\ Halted
  <2> USE <1>14, SourceError DEF ExtractFails, outVars
  <2>1. CollectorTypes'
    BY DEF CollectorTypes
  <2>2. Sequential'
    BY Constants DEF Sequential, Failed, CollectorTypes, DocsOf
  <2>3. UserErrorAlone'
    BY Constants DEF UserErrorAlone, Sequential, Failed, CollectorTypes, DocsOf
  <2>4. Progress'
    BY Constants DEF Progress, Collected, Failed, Passable, CollectorTypes, DocsOf
  <2>5. Halted
    BY Constants DEF Halted, Sequential, CollectorTypes, DocsOf
  <2> QED BY <2>1, <2>2, <2>3, <2>4, <2>5
<1> QED
  BY <1>1, <1>2, <1>3, <1>4, <1>5, <1>6, <1>7, <1>8, <1>9, <1>10, <1>11, <1>12, <1>13, <1>14
     DEF CollectorNext, InputNext, DocNext, Exhausted

\* CollectorInv holds of every reachable state: between the inputs that wait and the
\* items that were yielded, no wanted document gets lost.
THEOREM Invariant == CollectorSpec => []CollectorInv
<1>1. CollectorInv /\ [CollectorNext]_collectorVars => CollectorInv'
  BY StepInv
<1> QED BY InitInv, <1>1, PTL DEF CollectorSpec

\* A document the stream has not accounted for is one --skip-missing passed over.
THEOREM NothingSkipped == CollectorSpec => []NothingSkippedSilently
<1>1. CollectorInv => NothingSkippedSilently
  BY DEF CollectorInv, Progress, Sequential, NothingSkippedSilently, Ended
<1> QED BY Invariant, <1>1, PTL

\* A fatal error comes without any content of its input.
THEOREM FatalAlone == CollectorSpec => []UserErrorAlone
<1>1. CollectorInv => UserErrorAlone
  BY DEF CollectorInv
<1> QED BY Invariant, <1>1, PTL

\* Nothing is read of an input after its error.
THEOREM ErrorEnds == CollectorSpec => ErrorHaltsInput
<1>1. CollectorInv /\ [CollectorNext]_collectorVars => [Halted]_collectorVars
  BY StepInv
<1> QED BY Invariant, <1>1, PTL DEF CollectorSpec, ErrorHaltsInput, Halted
-----------------------------------------------------------------------------
\* The base of a document's links.
BaseOf(options, d) ==
    or_fallback(to_base_info(d), use_fs_root_as_origin(base_url(options)))

\* A page of a server is its own base.
LEMMA RemoteBase ==
    ASSUME NEW options, NEW d \in Docs, IsRemote(d)
    PROVE  BaseOf(options, d) = Full("http", "doc host", "doc directory")
<1>1. to_base_info(d) = Full("http", "doc host", "doc directory")
  BY DEF to_base_info, IsRemote
<1>2. Full("http", "doc host", "doc directory").form = "full"
  BY DEF Full
<1> QED BY <1>1, <1>2 DEF BaseOf, or_fallback

\* What a link of a document resolves to.
LEMMA PlaceOf ==
    ASSUME CollectorTypes, NEW x \in yielded, x # InputSourceError(x.doc)
    PROVE  /\ x.doc \in Docs /\ x.link \in LinkKinds
           /\ x.at = parse_url_text_with_root_dir(chosen, BaseOf(chosen, x.doc), x.link)
<1> DEFINE place(d, l) == parse_url_text_with_root_dir(chosen, BaseOf(chosen, d), l)
           item(d, l) == [doc |-> d, link |-> l, at |-> place(d, l)]
<1>1. x.doc \in Docs /\ x \in create(chosen, x.doc)
  BY DEF CollectorTypes
<1>2. create(chosen, x.doc) = {item(x.doc, l) : l \in Doc[x.doc].links}
  BY DEF create, BaseOf
<1> HIDE DEF place
<1>3. PICK l \in Doc[x.doc].links : x = item(x.doc, l)
  BY <1>1, <1>2
<1>4. x.link = l /\ x.at = place(x.doc, l)
  BY <1>3
<1>5. Doc[x.doc].links \subseteq LinkKinds
  BY <1>1, CollectorAssumption DEF CollectorAssumption, Document
<1> QED BY <1>1, <1>3, <1>4, <1>5 DEF place

\* Neither --base-url nor --root-dir diverts the links of a page from its server.
THEOREM RemoteLinks == CollectorSpec => []RemoteLinksStay
<1>1. CollectorInv => RemoteLinksStay
  <2> SUFFICES ASSUME CollectorInv, NEW x \in yielded, IsRemote(x.doc)
               PROVE  /\ x.link = "root" => x.at = "doc host"
                      /\ x.link = "local" => x.at = "doc directory"
    BY DEF RemoteLinksStay
  <2>0. CASE x = InputSourceError(x.doc)
    BY <2>0, SourceError
  <2>10. SUFFICES ASSUME x # InputSourceError(x.doc)
                  PROVE  /\ x.link = "root" => x.at = "doc host"
                         /\ x.link = "local" => x.at = "doc directory"
    BY <2>0
  <2>1. x.doc \in Docs
        /\ x.at = parse_url_text_with_root_dir(chosen, BaseOf(chosen, x.doc), x.link)
    BY <2>10, PlaceOf DEF CollectorInv
  <2>2. BaseOf(chosen, x.doc) = Full("http", "doc host", "doc directory")
    BY <2>1, RemoteBase
  <2> DEFINE b == Full("http", "doc host", "doc directory")
  <2>3. /\ b.form = "full" /\ b.scheme = "http"
        /\ b.origin = "doc host" /\ b.dir = "doc directory"
    BY DEF Full
  <2> HIDE DEF b
  <2>4. ASSUME x.link \in {"root", "local"}
        PROVE  x.at = resolve_relative_link(b, x.link)
    BY <2>1, <2>2, <2>3, <2>4 DEF parse_url_text_with_root_dir, b
  <2>5. /\ resolve_relative_link(b, "root") = "doc host"
        /\ resolve_relative_link(b, "local") = "doc directory"
    BY <2>3 DEF resolve_relative_link
  <2> QED BY <2>4, <2>5
<1> QED BY Invariant, <1>1, PTL

\* What kinds of bases there are; no place is called "error".
LEMMA BaseForms ==
    ASSUME NEW options \in Selection, NEW d \in Docs
    PROVE  LET b == BaseOf(options, d)
               named == Kind[Doc[d].of] \in {"file", "dir", "glob"}
           IN  /\ b.origin # "error" /\ b.dir # "error" /\ b.scheme # "error"
               /\ options.base # "none" \/ IsRemote(d) => b.form = "full"
               /\ options.base = "none" /\ named =>
                      b.form = "noRoot" /\ b.scheme = "file"
               /\ options.base = "none" /\ ~IsRemote(d) /\ ~named =>
                      b.form = "none" /\ b.scheme = "none"
<1> DEFINE doc == Full("http", "doc host", "doc directory")
           file == NoRoot("doc directory")
           given == use_fs_root_as_origin(base_url(options))
<1>1. /\ doc.form = "full" /\ doc.scheme = "http"
      /\ doc.origin = "doc host" /\ doc.dir = "doc directory"
  BY DEF Full
<1>2. /\ file.form = "noRoot" /\ file.scheme = "file"
      /\ file.origin = "nowhere" /\ file.dir = "doc directory"
  BY DEF NoRoot
<1>3. /\ NoBase.form = "none" /\ NoBase.scheme = "none"
      /\ NoBase.origin = "nowhere" /\ NoBase.dir = "nowhere"
  BY DEF NoBase
<1>4. /\ given.origin # "error" /\ given.dir # "error" /\ given.scheme # "error"
      /\ options.base = "none" => given = NoBase
      /\ options.base # "none" => given.form = "full"
  <2>1. options.base \in {"none", "remote", "path", "fileUrl"}
    BY DEF Selection
  <2>2. CASE options.base = "none"
    <3>1. base_url(options) = NoBase
      BY <2>2 DEF base_url
    <3> QED BY <3>1, <1>3, <2>2 DEF use_fs_root_as_origin
  <2>3. CASE options.base \in {"remote", "path"}
    <3> DEFINE f == base_url(options)
    <3>1. f = Full("http", "base host", "base directory")
          \/ f = Full("file", "base directory", "base directory")
      BY <2>3 DEF base_url
    <3> DEFINE r == Full("http", "base host", "base directory")
               p == Full("file", "base directory", "base directory")
    <3>2. f.form = "full" /\ f.origin # "error" /\ f.dir # "error" /\ f.scheme # "error"
      <4>1. r.form = "full" /\ r.origin # "error" /\ r.dir # "error" /\ r.scheme # "error"
        BY DEF Full
      <4>2. p.form = "full" /\ p.origin # "error" /\ p.dir # "error" /\ p.scheme # "error"
        BY DEF Full
      <4>3. f = r \/ f = p
        BY <3>1
      <4> HIDE DEF f, r, p
      <4> QED BY <4>1, <4>2, <4>3
    <3>3. given = IF f.form = "noRoot"
                  THEN Full(f.scheme, "file system root", f.dir) ELSE f
      BY DEF use_fs_root_as_origin
    <3> HIDE DEF f, given
    <3> QED BY <3>2, <3>3, <2>3
  <2>4. CASE options.base = "fileUrl"
    <3> DEFINE g == base_url(options)
               f == Full(g.scheme, "file system root", g.dir)
    <3>1. g = NoRoot("base directory")
      BY <2>4 DEF base_url
    <3>2. g.form = "noRoot" /\ g.scheme = "file" /\ g.dir = "base directory"
      <4> DEFINE n == NoRoot("base directory")
      <4>1. n.form = "noRoot" /\ n.scheme = "file" /\ n.dir = "base directory"
        BY DEF NoRoot
      <4>2. g = n
        BY <3>1
      <4> HIDE DEF g, n
      <4> QED BY <4>1, <4>2
    <3>3. given = IF g.form = "noRoot" THEN f ELSE g
      BY DEF use_fs_root_as_origin
    <3> HIDE DEF g, given
    <3>4. f.form = "full" /\ f.origin # "error" /\ f.dir # "error" /\ f.scheme # "error"
      BY <3>2 DEF Full
    <3> HIDE DEF f
    <3> QED BY <3>2, <3>3, <3>4, <2>4
  <2> QED BY <2>1, <2>2, <2>3, <2>4
<1>5. to_base_info(d) = IF IsRemote(d) THEN doc
                        ELSE IF Kind[Doc[d].of] \in {"file", "dir", "glob"}
                             THEN file ELSE NoBase
  BY DEF to_base_info, IsRemote
<1> HIDE DEF doc, file, given
<1>6. BaseOf(options, d) = or_fallback(to_base_info(d), given)
  BY DEF BaseOf, given
<1>7. ~(IsRemote(d) /\ Kind[Doc[d].of] \in {"file", "dir", "glob"})
  BY DEF IsRemote
<1> QED BY <1>1, <1>2, <1>3, <1>4, <1>5, <1>6, <1>7 DEF or_fallback

\* A valid link is flagged for want of a base exactly when nothing gives one.
THEOREM LinkErrors == CollectorSpec => []LinkErrorsJustified
<1>1. CollectorInv => LinkErrorsJustified
  <2> SUFFICES ASSUME CollectorInv, NEW x \in yielded
               PROVE  x.at = "error" <=>
                        \/ x.link \in {"invalid", "source"}
                        \/ /\ chosen.base = "none"
                           /\ ~IsRemote(x.doc)
                           /\ \/ x.link = "root" /\ ~chosen.rootDir
                              \/ /\ x.link \in {"local", "scheme"}
                                 /\ Kind[Doc[x.doc].of] \in {"stdin", "string"}
    BY DEF LinkErrorsJustified
  <2>0. CASE x = InputSourceError(x.doc)
    BY <2>0, SourceError
  <2>10. SUFFICES ASSUME x # InputSourceError(x.doc)
                  PROVE  x.at = "error" <=>
                           \/ x.link \in {"invalid", "source"}
                           \/ /\ chosen.base = "none"
                              /\ ~IsRemote(x.doc)
                              /\ \/ x.link = "root" /\ ~chosen.rootDir
                                 \/ /\ x.link \in {"local", "scheme"}
                                    /\ Kind[Doc[x.doc].of] \in {"stdin", "string"}
    BY <2>0
  <2> DEFINE d == x.doc
             b == BaseOf(chosen, d)
             named == Kind[Doc[d].of] \in {"file", "dir", "glob"}
  <2>1. chosen \in Selection /\ chosen.rootDir \in BOOLEAN
    BY CollectorAssumption DEF CollectorAssumption, CollectorInv, CollectorTypes, Selection
  <2>2. /\ d \in Docs /\ x.link \in LinkKinds
        /\ x.at = parse_url_text_with_root_dir(chosen, b, x.link)
    BY <2>10, PlaceOf DEF CollectorInv
  <2>3. /\ b.origin # "error" /\ b.dir # "error" /\ b.scheme # "error"
        /\ chosen.base # "none" \/ IsRemote(d) => b.form = "full"
        /\ chosen.base = "none" /\ named => b.form = "noRoot" /\ b.scheme = "file"
        /\ chosen.base = "none" /\ ~IsRemote(d) /\ ~named =>
               b.form = "none" /\ b.scheme = "none"
    BY <2>1, <2>2, BaseForms
  <2>4. Kind[Doc[d].of] \in {"url", "stdin", "string", "file", "dir", "glob"}
    BY <2>2, Constants, CollectorAssumption DEF CollectorAssumption
  <2>5. IsRemote(d) <=> Kind[Doc[d].of] = "url"
    BY DEF IsRemote
  <2>6. RootDir(chosen) # "error"
    BY DEF RootDir
  <2> HIDE DEF b, d
  <2>7. CASE x.link \in {"absolute", "invalid"}
    BY <2>2, <2>7 DEF parse_url_text_with_root_dir
  <2>8. CASE x.link = "root"
    <3>1. CASE chosen.rootDir /\ b.scheme \in {"none", "file"}
      <4>1. x.at = RootDir(chosen)
        BY <2>2, <2>8, <3>1 DEF parse_url_text_with_root_dir
      <4> QED BY <4>1, <2>6, <2>8, <3>1 DEF d
    <3>2. CASE ~(chosen.rootDir /\ b.scheme \in {"none", "file"})
      <4>1. x.at = resolve_relative_link(b, "root")
        BY <2>2, <2>8, <3>2 DEF parse_url_text_with_root_dir
      <4>2. x.at = "error" <=> b.form # "full"
        BY <4>1, <2>3, <2>4, <2>5 DEF resolve_relative_link
      <4> QED BY <4>2, <2>3, <2>4, <2>5, <2>8, <3>2, <2>1 DEF d
    <3> QED BY <3>1, <3>2
  <2>9. CASE x.link \in {"local", "scheme"}
    <3>1. x.at = resolve_relative_link(b, x.link)
      BY <2>2, <2>9 DEF parse_url_text_with_root_dir
    <3>2. x.at = "error" <=> b.form = "none"
      BY <3>1, <2>3, <2>9 DEF resolve_relative_link
    <3> QED BY <3>2, <2>3, <2>4, <2>5, <2>9 DEF d
  <2> QED BY <2>2, <2>7, <2>8, <2>9 DEF LinkKinds
<1> QED BY Invariant, <1>1, PTL
==============================================================================
