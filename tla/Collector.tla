------------------------------ MODULE Collector ------------------------------
(***************************************************************************)
(* The collector of lychee-lib: the stream of requests, and of errors,     *)
(* that the inputs of a run turn into.                                     *)
(*                                                                         *)
(*   inputs --get_contents--> contents --extract, create--> items          *)
(*                                                                         *)
(* The inputs are read one after the other, in the order of a hash set; a  *)
(* directory or a glob yields documents until its first error.  Documents  *)
(* are extracted in parallel, and each one's links come out together.      *)
(* Links are resolved against the document, --base-url and --root-dir.     *)
(***************************************************************************)
EXTENDS FiniteSets

CONSTANTS Inputs,       \* the inputs of the run
          Kind,         \* of each: "url", "stdin", "string", "file", "dir", "glob"
          Docs,         \* what reading them may come upon, once per input
          Doc,          \* of each, a record of Document
          Unopenable,   \* inputs that may fail the check made before reading
          Unreliable,   \* documents that may fail to be read
          Unlocatable,  \* those with a path that may turn out to make no URL
          Selections    \* the option values a run may have

LinkKinds == {"absolute", "invalid", "root", "local", "scheme"}

\* A document, a symbolic link, a directory, or a place below which the walk
\* or the expansion of the glob fails.  "listed" has a checked extension and is
\* in no ignore file.
Document ==
    [of : Inputs, what : {"file", "symlink", "dir", "broken"}, listed : BOOLEAN,
     hidden : BOOLEAN, excluded : BOOLEAN, binary : BOOLEAN,
     links : SUBSET LinkKinds]

\* "path" and "fileUrl" are a base directory given as a path or as file:///..
Selection ==
    [skipMissing : BOOLEAN, base : {"none", "remote", "path", "fileUrl"},
     rootDir : BOOLEAN]

\* Input::new has found every file and directory (its InvalidInput ends the
\* program before there is a collector), so "file" has one document.
ASSUME CollectorAssumption ==
    /\ Kind \in [Inputs -> {"url", "stdin", "string", "file", "dir", "glob"}]
    /\ Doc \in [Docs -> Document]
    /\ Unopenable \subseteq {i \in Inputs : Kind[i] \in {"file", "dir"}}
    /\ Unreliable \subseteq {d \in Docs : Kind[Doc[d].of] # "string"}
    /\ Unlocatable \subseteq {d \in Docs : Kind[Doc[d].of] \in {"file", "dir", "glob"}}
    /\ Selections \subseteq Selection
    /\ \A d \in Docs :
           Doc[d].binary => Kind[Doc[d].of] \in {"file", "dir", "glob"}
    /\ \A d \in Docs :
           Kind[Doc[d].of] \notin {"dir", "glob"} =>
               /\ Doc[d].what = "file"
               /\ \A e \in Docs : Doc[e].of = Doc[d].of => e = d

VARIABLES
    chosen,     \* the options of this run
    waiting,    \* inputs not read yet
    open,       \* the file, directory or glob being read, if any
    left,       \* what its resolver has not yielded yet
    contents,   \* documents read, waiting for or under extraction
    errors,     \* errors of inputs on their way through the same stage
    yielded,    \* the requests, and failed links, the collector has yielded
    reported,   \* the errors of inputs it has yielded
    printed     \* the places whose failure is a line on stderr

outVars == <<yielded, reported, printed>>
collectorVars == <<chosen, waiting, open, left, contents, errors, outVars>>

DocsOf(i) == {d \in Docs : Doc[d].of = i}

CollectorInit ==
    /\ chosen \in Selections
    /\ waiting = Inputs
    /\ open = {}
    /\ left = {}
    /\ contents = {}
    /\ errors = {}
    /\ yielded = {}
    /\ reported = {}
    /\ printed = {}
-----------------------------------------------------------------------------
(* Resolving links: BaseInfo *)

\* None, NoRoot(url) and Full{origin, path}: where root-relative and where
\* local links lead, places named for whose they are.
NoBase ==
    [form |-> "none", scheme |-> "none", origin |-> "nowhere", dir |-> "nowhere"]
NoRoot(url) ==
    [form |-> "noRoot", scheme |-> "file", origin |-> "nowhere", dir |-> url]
Full(scheme, origin, dir) ==
    [form |-> "full", scheme |-> scheme, origin |-> origin, dir |-> dir]

\* ResolvedInputSource::to_base_info
to_base_info(d) ==
    CASE Kind[Doc[d].of] = "url" -> Full("http", "doc host", "doc directory")
      [] Kind[Doc[d].of] \in {"file", "dir", "glob"} -> NoRoot("doc directory")
      [] OTHER -> NoBase

\* --base-url: a path becomes Full, a file URL NoRoot.
base_url(options) ==
    CASE options.base = "remote" -> Full("http", "base host", "base directory")
      [] options.base = "path" -> Full("file", "base directory", "base directory")
      [] options.base = "fileUrl" -> NoRoot("base directory")
      [] OTHER -> NoBase

use_fs_root_as_origin(b) ==
    IF b.form = "noRoot" THEN Full(b.scheme, "file system root", b.dir) ELSE b

\* The one with more information; the document's own of two alike.
or_fallback(b, fallback) ==
    IF \/ b.form = "full"
       \/ fallback.form = "none"
       \/ b.form = "noRoot" /\ fallback.form = "noRoot"
    THEN b ELSE fallback

\* A scheme-relative link takes no more than the scheme of its base.
resolve_relative_link(b, link) ==
    CASE b.form = "none" \/ (b.form = "noRoot" /\ link = "root") -> "error"
      [] b.form = "full" /\ link = "root" -> b.origin
      [] b.form # "none" /\ link = "local" -> b.dir
      [] OTHER -> b.scheme

\* Collector::new joins --root-dir to a base that is a path.
RootDir(options) ==
    IF options.base = "path" THEN "root dir in base" ELSE "root dir"

parse_url_text_with_root_dir(options, b, link) ==
    CASE link = "absolute" -> "itself"
      [] link = "invalid" -> "error"
      [] link = "root" /\ options.rootDir /\ b.scheme \in {"none", "file"} ->
             RootDir(options)
      [] OTHER -> resolve_relative_link(b, link)

\* request::create: a request, or a CreateRequestItem error, for each link; or one error
\* for the whole document, whose path is relative to a directory that is gone.
create(options, d) ==
    LET b == or_fallback(to_base_info(d), use_fs_root_as_origin(base_url(options)))
    IN  {[doc |-> d, link |-> l,
          at |-> parse_url_text_with_root_dir(options, b, l)] :
            l \in Doc[d].links}
InputSourceError(d) == [doc |-> d, link |-> "source", at |-> "error"]
-----------------------------------------------------------------------------
(* Reading inputs: get_contents and resolve_input *)

UserInputContent(i) == [input |-> i, error |-> "UserInputContent"]
GetInputContent(i) == [input |-> i, error |-> "GetInputContent"]

\* What the resolver comes upon in an input.  Only a directory is walked with the
\* filters on extensions and ignore files and without following links.
resolve_by_extension(i) ==      \* mutant: globs are filtered by extension too
    {d \in DocsOf(i) :
        \/ Doc[d].what = "broken"
        \/ /\ ~Doc[d].excluded
           /\ CASE Kind[i] = "dir" ->
                       Doc[d].what = "file" /\ Doc[d].listed /\ ~Doc[d].hidden
                [] Kind[i] = "glob" ->
                       /\ Doc[d].what \in {"file", "symlink"}
                       /\ Doc[d].listed
                       /\ ~Doc[d].hidden
                [] OTHER -> TRUE}

resolve_input(i) ==
    {d \in DocsOf(i) :
        \/ Doc[d].what = "broken"
        \/ /\ ~Doc[d].excluded
           /\ CASE Kind[i] = "dir" ->
                       Doc[d].what = "file" /\ Doc[d].listed /\ ~Doc[d].hidden
                [] Kind[i] = "glob" ->
                       Doc[d].what \in {"file", "symlink"} /\ ~Doc[d].hidden
                [] OTHER -> TRUE}

\* flatten turns to an input when it is done with the one before.
TurnTo(i) ==
    /\ open = {}
    /\ i \in waiting
    /\ waiting' = waiting \ {i}

\* A URL, standard input or a string is read without resolution.
ReadDirect(i) ==
    /\ TurnTo(i)
    /\ Kind[i] \in {"url", "stdin", "string"}
    /\ contents' = contents \cup DocsOf(i)
    /\ UNCHANGED <<chosen, open, left, errors, outVars>>

\* --skip-missing covers URLs, not standard input.
ReadDirectFails(i) ==
    /\ TurnTo(i)
    /\ Kind[i] \in {"url", "stdin"}
    /\ DocsOf(i) \cap Unreliable # {}
    /\ errors' = IF Kind[i] = "url" /\ chosen.skipMissing
                 THEN errors ELSE errors \cup {UserInputContent(i)}
    /\ UNCHANGED <<chosen, open, left, contents, outVars>>

\* mutant: the failed check is reported, and the input read all the same
OpenFailsGoesOn(i) ==
    /\ TurnTo(i)
    /\ i \in Unopenable
    /\ errors' = errors \cup {UserInputContent(i)}
    /\ open' = {i}
    /\ left' = resolve_input(i)
    /\ UNCHANGED <<chosen, contents, outVars>>

\* A file or directory is checked before it is read, --skip-missing or not.
OpenFails(i) ==
    /\ TurnTo(i)
    /\ i \in Unopenable
    /\ errors' = errors \cup {UserInputContent(i)}
    /\ UNCHANGED <<chosen, open, left, contents, outVars>>

OpenInput(i) ==
    /\ TurnTo(i)
    /\ Kind[i] \in {"file", "dir", "glob"}
    /\ open' = {i}
    /\ left' = resolve_input(i)
    /\ UNCHANGED <<chosen, contents, errors, outVars>>

ReadDocument(d) ==
    /\ d \in left
    /\ Doc[d].what # "broken"
    /\ ~Doc[d].binary
    /\ left' = left \ {d}
    /\ contents' = contents \cup {d}
    /\ UNCHANGED <<chosen, waiting, open, errors, outVars>>

\* Content that is not UTF-8 is skipped with a warning; so is what cannot be
\* read, under --skip-missing.
Skip(d) ==
    /\ d \in left
    /\ Doc[d].what # "broken"
    /\ Doc[d].binary \/ (d \in Unreliable /\ chosen.skipMissing)
    /\ left' = left \ {d}
    /\ UNCHANGED <<chosen, waiting, open, contents, errors, outVars>>

\* `Err(discovered_input_error(e))?` ends the input and drops its resolver.
FailQuietly(i) ==       \* mutant: the input ends without an error
    /\ open' = {}
    /\ left' = {}
    /\ UNCHANGED <<chosen, waiting, contents, errors, outVars>>

Fail(i) ==
    /\ open' = {}
    /\ left' = {}
    /\ errors' = errors \cup {GetInputContent(i)}
    /\ UNCHANGED <<chosen, waiting, contents, outVars>>

ReadFails(d) ==
    /\ d \in left
    /\ Doc[d].what # "broken"
    /\ d \in Unreliable /\ ~chosen.skipMissing
    /\ Fail(Doc[d].of)

WalkFails(d) ==
    /\ d \in left
    /\ Doc[d].what = "broken" /\ Kind[Doc[d].of] = "dir"
    /\ Fail(Doc[d].of)

\* A glob goes on.
PrintFailure(d) ==
    /\ d \in left
    /\ Doc[d].what = "broken" /\ Kind[Doc[d].of] = "glob"
    /\ left' = left \ {d}
    /\ printed' = printed \cup {d}
    /\ UNCHANGED <<chosen, waiting, open, contents, errors, yielded, reported>>

Close ==
    /\ open # {}
    /\ left = {}
    /\ open' = {}
    /\ UNCHANGED <<chosen, waiting, left, contents, errors, outVars>>
-----------------------------------------------------------------------------
(* Extraction, in parallel and in any order *)

Extract(d) ==
    /\ d \in contents
    /\ contents' = contents \ {d}
    /\ yielded' = yielded \cup create(chosen, d)
    /\ UNCHANGED <<chosen, waiting, open, left, errors, reported, printed>>

ExtractFails(d) ==
    /\ d \in contents \cap Unlocatable
    /\ contents' = contents \ {d}
    /\ yielded' = yielded \cup {InputSourceError(d)}
    /\ UNCHANGED <<chosen, waiting, open, left, errors, reported, printed>>

\* `content?` lets an error through, in its turn.
PassError(e) ==
    /\ e \in errors
    /\ errors' = errors \ {e}
    /\ reported' = reported \cup {e}
    /\ UNCHANGED <<chosen, waiting, open, left, contents, yielded, printed>>

Ended == waiting = {} /\ open = {} /\ contents = {} /\ errors = {}
Exhausted == Ended /\ UNCHANGED collectorVars

InputNext(i) ==
    ReadDirect(i) \/ ReadDirectFails(i) \/ OpenFails(i) \/ OpenInput(i)
DocNext(d) ==
    \/ ReadDocument(d) \/ Skip(d) \/ ReadFails(d) \/ WalkFails(d) \/ PrintFailure(d)
    \/ Extract(d) \/ ExtractFails(d)

CollectorNext ==
    \/ \E i \in Inputs : InputNext(i)
    \/ \E d \in Docs : DocNext(d)
    \/ \E e \in errors : PassError(e)
    \/ Close
    \/ Exhausted

CollectorSpec == CollectorInit /\ [][CollectorNext]_collectorVars
-----------------------------------------------------------------------------
InputError == [input : Inputs, error : {"UserInputContent", "GetInputContent"}]

CollectorTypes ==
    /\ chosen \in Selections
    /\ waiting \subseteq Inputs
    /\ open \subseteq Inputs
    /\ left \subseteq Docs
    /\ contents \subseteq Docs
    /\ errors \subseteq InputError
    /\ \A x \in yielded :
           x.doc \in Docs /\ x \in create(chosen, x.doc) \cup {InputSourceError(x.doc)}
    /\ reported \subseteq InputError
    /\ printed \subseteq Docs

Collected(d) ==
    \/ /\ Doc[d].what # "broken"
       /\ \A l \in Doc[d].links : \E x \in yielded : x.doc = d /\ x.link = l
    \/ InputSourceError(d) \in yielded
Failed(i) == \E e \in errors \cup reported : e.input = i

\* What README.md and the comments of resolve_input say is checked: a document
\* named explicitly or by a glob whatever its extension, and in a directory the
\* listed ones; nothing hidden (unless named), excluded or binary.  A place that
\* cannot be looked into may have such documents.
Wanted(d) ==
    \/ Doc[d].what = "broken"
    \/ /\ ~Doc[d].excluded /\ ~Doc[d].binary
       /\ CASE Kind[Doc[d].of] = "dir" ->
                   Doc[d].what = "file" /\ Doc[d].listed /\ ~Doc[d].hidden
            [] Kind[Doc[d].of] = "glob" ->
                   Doc[d].what \in {"file", "symlink"} /\ ~Doc[d].hidden
            [] OTHER -> TRUE

Passable(d) == chosen.skipMissing /\ d \in Unreliable /\ Doc[d].what # "broken"

\* When the stream ends, every link of every wanted document has come out of
\* it, or an error of the document or of its input has (so that the run cannot
\* succeed); only --skip-missing may pass over a document, and only over one that
\* cannot be read.  A place below a glob that cannot be looked into is at least
\* named on stderr; that its error is in the stream too is GlobErrorsInStream.
NothingSkippedSilently ==
    Ended => \A d \in Docs :
        Wanted(d) => \/ Collected(d) \/ Failed(Doc[d].of) \/ Passable(d)
                     \/ Kind[Doc[d].of] = "glob" /\ d \in printed

\* "Returns an error (within the stream) if: - The glob pattern is invalid or
\* expansion encounters I/O errors" (types/input/resolver.rs:41-42).  The loop of
\* resolve_input prints the error and goes on.
GlobErrorsInStream ==
    Ended => \A d \in Docs :
        Doc[d].what = "broken" /\ Kind[Doc[d].of] = "glob" => Failed(Doc[d].of)

\* An error that aborts the run is never about an input with readable content.
UserErrorAlone ==
    \A e \in errors \cup reported :
        e.error = "UserInputContent" =>
            /\ e.input \notin waiting \cup open
            /\ DocsOf(e.input) \cap (left \cup contents) = {}
            /\ \A x \in yielded : Doc[x.doc].of # e.input

\* resolver.rs:51-52: once an error is returned, the input yields no document.
ErrorHaltsInput ==
    [][\A d \in contents' \ contents : ~Failed(Doc[d].of)]_collectorVars

IsRemote(d) == Kind[Doc[d].of] = "url"

\* A link of a page fetched from a server leads to that server, whatever
\* --base-url and --root-dir say: both are for sources without an own root.
RemoteLinksStay ==
    \A x \in yielded :
        /\ IsRemote(x.doc) /\ x.link = "root" => x.at = "doc host"
        /\ IsRemote(x.doc) /\ x.link = "local" => x.at = "doc directory"

\* config/mod.rs:581-583 and base_info.rs: a valid link is flagged for want of a
\* base only where no option and no source gives one.
LinkErrorsJustified ==
    \A x \in yielded :
        x.at = "error" <=>
            \/ x.link \in {"invalid", "source"}
            \/ /\ chosen.base = "none"
               /\ ~IsRemote(x.doc)
               /\ \/ x.link = "root" /\ ~chosen.rootDir
                  \/ /\ x.link \in {"local", "scheme"}
                     /\ Kind[Doc[x.doc].of] \in {"stdin", "string"}

-----------------------------------------------------------------------------
(* The inductive invariant *)

\* An input that waits has left no trace, and one that is open has not failed.
Sequential ==
    /\ \A i \in open : i \notin waiting /\ ~Failed(i) /\ open = {i}
    /\ \A i \in waiting :
           /\ ~Failed(i)
           /\ DocsOf(i) \cap (left \cup contents) = {}
           /\ \A x \in yielded : Doc[x.doc].of # i
    /\ \A d \in left : Doc[d].of \in open
    /\ \A d \in contents : Doc[d].what # "broken"

\* Where a wanted document is.
Progress ==
    \A d \in Docs :
        Wanted(d) =>
            \/ Doc[d].of \in waiting
            \/ d \in left \cup contents
            \/ Collected(d)
            \/ Failed(Doc[d].of)
            \/ Passable(d)
            \/ Kind[Doc[d].of] = "glob" /\ d \in printed

CollectorInv == CollectorTypes /\ Sequential /\ UserErrorAlone /\ Progress
=============================================================================
