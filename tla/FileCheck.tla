------------------------------ MODULE FileCheck ------------------------------
(***************************************************************************)
(* FileChecker of lychee-lib: checks of file:// links.                     *)
(*                                                                         *)
(*   start --> missing --> wiki --> resolved --> itself --> open --> ...   *)
(*        \--> index ------------/          \------------/                 *)
(*                                                                         *)
(* A check makes one system call after another, while other programs may   *)
(* edit the files; a step here is one of these calls.  Checks run in       *)
(* parallel and share the fragments found so far.                          *)
(*                                                                         *)
(* A name is the sequence of its parts between dots, a path the sequence   *)
(* of its names; the name without parts stands for a trailing slash.       *)
(***************************************************************************)
EXTENDS Naturals, SequencesExt

CONSTANTS
    Calls,         \* the checks
    Links,         \* what they may check, records of Link
    Paths,         \* paths that may exist
    FileSystems,   \* what there may be at them
    Configs,       \* the option values a run may have
    Ids,           \* anchors as written, "top" and "" included
    Decoded,       \* percent-decoding, to "error" when that is no UTF-8
    Lower,         \* lower case
    Phrases,       \* phrases
    WikiBase,      \* the directory --base-url names
    MaxEdits       \* bound on the edits during a run

Link == [mapped : BOOLEAN, path : Seq(Seq(STRING)), id : Ids, texts : SUBSET Phrases]

\* A symbolic link that leads nowhere is dangling.
Entry ==
    [kind : {"file", "dir", "dangling"}, ids : SUBSET Ids, texts : SUBSET Phrases,
     utf8 : BOOLEAN]

\* The index file "." is the path <<>>, and no --index-files the list <<<<>>>>.
Config ==
    [fallback_extensions : Seq(Seq(STRING)), index_files : Seq(Seq(Seq(STRING))),
     wikilinks : BOOLEAN, check_anchor_fragments : BOOLEAN,
     check_text_fragments : BOOLEAN]

\* Without a trailing slash.
Plain(p) == IF p # <<>> /\ Last(p) = <<>> THEN Front(p) ELSE p

\* A path with a name, and that with a part.
Named(p) == Plain(p) # <<>> /\ Last(Plain(p)) # <<>>

ASSUME FileCheckAssumption ==
    /\ Paths \subseteq Seq(Seq(STRING))
    /\ \A p \in Paths : p # <<>> /\ Last(p) # <<>>
    /\ \A v \in FileSystems : DOMAIN v \subseteq Paths /\ v \in [DOMAIN v -> Entry]
    /\ \A l \in Links : /\ l \in Link
                        /\ Named(l.path)
    /\ Configs \subseteq Config
    /\ "" \in Ids
    /\ Decoded \in [Ids -> Ids \cup {"error"}] /\ Lower \in [Ids -> Ids]
    /\ MaxEdits \in Nat

VARIABLES
    config,    \* the options of this run
    fs,        \* the files, external
    edits,     \* how often other programs have changed them
    past,      \* every state the files have been in
    index,     \* WikilinkIndex::filenames
    cache,     \* FragmentChecker::cache
    link,      \* the link of each call
    pc,        \* where each call is
    path,      \* what it has resolved the link to so far
    buf,       \* path_buf, the path with the extension last tried
    next,      \* the position in the list of extensions or index files
    input,     \* the content it has read
    result     \* the status it has returned

vars == <<config, fs, edits, past, index, cache, link, pc, path, buf, next, input,
          result>>
-----------------------------------------------------------------------------
(* Paths *)

\* PathBuf::set_extension replaces the last extension, or adds one.
set_extension(p, ext) ==
    LET q == Plain(p)
        name == Last(q)
    IN  IF q = <<>> THEN p
        ELSE Front(q) \o <<(IF Len(name) > 1 THEN Front(name) ELSE name) \o ext>>

join(p, rel) == Plain(p) \o rel

\* Path::metadata, which follows symbolic links.
Metadata(v, p) ==
    LET q == Plain(p)
        Is(r, kind) == r \in DOMAIN v /\ v[r].kind = kind
    IN  IF q = <<>> \/ Is(q, "dir") THEN "dir"
        ELSE IF p = q /\ Is(q, "file") THEN "file"
        ELSE IF \E n \in 1 .. Len(p) - 1 : Is(SubSeq(p, 1, n), "file") THEN "NotADirectory"
        ELSE "NotFound"

is_file(v, p) == Metadata(v, p) = "file"
is_dir(v, p) == Metadata(v, p) = "dir"

\* FileType::from
FileType(p) ==
    CASE Last(p) # <<>> /\ Len(Last(p)) > 1 /\ Last(Last(p)) \in {"html", "htm"} -> "Html"
      [] Last(p) # <<>> /\ Len(Last(p)) > 1 /\ Last(Last(p)) = "md" -> "Markdown"
      [] OTHER -> "Plaintext"

\* start_indexing: WalkDir lists directories and symbolic links too, and of two
\* entries of one name the later stays, in whatever order it lists them.
Walked(v) == {p \in DOMAIN v : IsPrefix(WikiBase, p)}
Indexes(v) ==
    {f \in [{Last(p) : p \in Walked(v)} -> Walked(v)] : \A n \in DOMAIN f : Last(f[n]) = n}

NoInput == [ids |-> {}, texts |-> {}]

Init ==
    /\ config \in Configs
    /\ fs \in FileSystems
    /\ edits = 0
    /\ past = {fs}
    /\ index \in IF config.wikilinks THEN Indexes(fs) ELSE {<<>>}
    /\ cache = <<>>
    /\ link \in [Calls -> Links]
    /\ pc = [t \in Calls |-> "start"]
    /\ path = [t \in Calls |-> link[t].path]
    /\ buf = [t \in Calls |-> link[t].path]
    /\ next = [t \in Calls |-> 0]
    /\ input = [t \in Calls |-> NoInput]
    /\ result = [t \in Calls |-> "none"]
-----------------------------------------------------------------------------
(* Moving a call on, and ending it *)

GoTo(t, where) == pc' = [pc EXCEPT ![t] = where] /\ UNCHANGED result

Return(t, status) ==
    /\ pc' = [pc EXCEPT ![t] = "done"]
    /\ result' = [result EXCEPT ![t] = status]

\* A path found, and the list to try with it.
Take(t, p, first) ==
    /\ path' = [path EXCEPT ![t] = p]
    /\ buf' = [buf EXCEPT ![t] = p]
    /\ next' = [next EXCEPT ![t] = first]

Kept == UNCHANGED <<config, fs, edits, past, index, link>>
-----------------------------------------------------------------------------
(* resolve_local_path *)

\* A file URL with a host has no path; otherwise its metadata decides.
Start(t) ==
    /\ pc[t] = "start"
    /\ LET found == Metadata(fs, path[t]) IN
        \/ ~link[t].mapped /\ Return(t, "InvalidFilePath") /\ UNCHANGED next
        \/ /\ link[t].mapped
           /\ \/ found = "NotFound" /\ GoTo(t, "missing") /\ UNCHANGED next
              \/ found = "NotADirectory" /\ Return(t, "ReadFileInput") /\ UNCHANGED next
              \/ found = "dir" /\ GoTo(t, "index") /\ next' = [next EXCEPT ![t] = 1]
              \/ found = "file" /\ GoTo(t, "resolved") /\ UNCHANGED next
    /\ Kept /\ UNCHANGED <<cache, path, buf, input>>

\* One turn of the loop of apply_fallback_extensions, the path itself first.
Candidate(t) ==
    IF next[t] = 0 THEN path[t]
    ELSE set_extension(buf[t], config.fallback_extensions[next[t]])

Fallback(t) ==
    /\ pc[t] \in {"missing", "itself"}
    /\ next[t] <= Len(config.fallback_extensions)
    /\ IF is_file(fs, Candidate(t))
         THEN /\ Take(t, Candidate(t), 0)
              /\ GoTo(t, IF pc[t] = "missing" THEN "resolved" ELSE "open")
         ELSE /\ buf' = [buf EXCEPT ![t] = Candidate(t)]
              /\ next' = [next EXCEPT ![t] = next[t] + 1]
              /\ UNCHANGED <<path, pc, result>>
    /\ Kept /\ UNCHANGED <<cache, input>>

\* mutant: the path is passed on although no extension helps.
NoFallbackAnyway(t) ==
    /\ pc[t] \in {"missing", "itself"}
    /\ next[t] > Len(config.fallback_extensions)
    /\ GoTo(t, IF pc[t] = "missing" THEN "resolved" ELSE "open")
    /\ Kept /\ UNCHANGED <<cache, path, buf, next, input>>

\* No extension helps.
NoFallback(t) ==
    /\ pc[t] \in {"missing", "itself"}
    /\ next[t] > Len(config.fallback_extensions)
    /\ GoTo(t, IF pc[t] = "missing" THEN "wiki" ELSE "open")
    /\ Kept /\ UNCHANGED <<cache, path, buf, next, input>>

accept_files(v, rel, p) == is_file(v, p)   \* mutant: "." is not special
accept_index(v, rel, p) == is_file(v, p) \/ (rel = <<>> /\ is_dir(v, p))

\* One turn of the search in apply_index_files.
Index(t) ==
    /\ pc[t] = "index"
    /\ next[t] <= Len(config.index_files)
    /\ LET rel == config.index_files[next[t]]
           p == join(path[t], rel)
       IN  IF accept_index(fs, rel, p)
             THEN Take(t, p, 0) /\ GoTo(t, "resolved")
             ELSE next' = [next EXCEPT ![t] = next[t] + 1]
                  /\ UNCHANGED <<path, buf, pc, result>>
    /\ Kept /\ UNCHANGED <<cache, input>>

NoIndex(t) ==
    /\ pc[t] = "index"
    /\ next[t] > Len(config.index_files)
    /\ Return(t, "InvalidIndexFile")
    /\ Kept /\ UNCHANGED <<cache, path, buf, next, input>>

\* WikilinkResolver::resolve: in every place with a fresh copy of the path.
WikiNames(t) ==
    LET exts == config.fallback_extensions
    IN  [n \in 1 .. Len(exts) |-> Last(set_extension(path[t], exts[n]))]

Wiki(t) ==
    /\ pc[t] = "wiki"
    /\ \/ /\ ~config.wikilinks
          /\ Return(t, "InvalidFilePath") /\ UNCHANGED <<path, buf, next>>
       \/ /\ config.wikilinks
          /\ \A n \in DOMAIN WikiNames(t) : WikiNames(t)[n] \notin DOMAIN index
          /\ Return(t, "WikilinkNotFound") /\ UNCHANGED <<path, buf, next>>
       \/ /\ config.wikilinks
          /\ \E n \in DOMAIN WikiNames(t) :
                /\ WikiNames(t)[n] \in DOMAIN index
                /\ \A m \in 1 .. n - 1 : WikiNames(t)[m] \notin DOMAIN index
                /\ Take(t, index[WikiNames(t)[n]], 0)
          /\ GoTo(t, "resolved")
    /\ Kept /\ UNCHANGED <<cache, input>>

\* A directory resolved to itself gets the extensions after all.
Resolved(t) ==
    /\ pc[t] = "resolved"
    /\ IF is_dir(fs, path[t])
         THEN GoTo(t, "itself") /\ Take(t, path[t], 0)
         ELSE GoTo(t, "open") /\ UNCHANGED <<path, buf, next>>
    /\ Kept /\ UNCHANGED <<cache, input>>
-----------------------------------------------------------------------------
(* check_file, check_fragment *)

Open(t) ==
    /\ pc[t] = "open"
    /\ \/ /\ \/ ~config.check_anchor_fragments
             \/ link[t].id = "" /\ link[t].texts = {}
          /\ Return(t, "Ok")
       \/ /\ config.check_anchor_fragments
          /\ link[t].id # "" \/ link[t].texts # {}
          /\ IF is_dir(fs, path[t]) THEN Return(t, "InvalidFragment") ELSE GoTo(t, "read")
    /\ Kept /\ UNCHANGED <<cache, path, buf, next, input>>

\* FragmentInput::from_path; what cannot be read is not checked.
Read(t) ==
    /\ pc[t] = "read"
    /\ IF is_file(fs, path[t]) /\ fs[path[t]].utf8
         THEN /\ input' = [input EXCEPT ![t] = [ids |-> fs[path[t]].ids,
                                                texts |-> fs[path[t]].texts]]
              /\ GoTo(t, "verify")
         ELSE Return(t, "Ok") /\ UNCHANGED input
    /\ Kept /\ UNCHANGED <<cache, path, buf, next>>

\* FragmentBuilder: the anchor as written and decoded, in Markdown lowered too.
Variants(id, type) ==
    {id, IF type = "Markdown" THEN Lower[Decoded[id]] ELSE Decoded[id]}

\* Whether check_anchor_fragment gets to look the anchor up.
AnchorAsked(t) ==
    /\ link[t].id # "" /\ Lower[link[t].id] # "top"
    /\ FileType(path[t]) \in {"Html", "Markdown"}
Undecodable(t) == AnchorAsked(t) /\ Decoded[link[t].id] = "error"

key_by_name(t) == <<Last(link[t].path)>>   \* mutant: links of one name share fragments
key(t) == link[t].path

\* The fragments of the link's file, from the cache if they are there.
Fragments(t) == IF key(t) \in DOMAIN cache THEN cache[key(t)] ELSE input[t].ids

AnchorFound(t) ==
    Variants(link[t].id, FileType(path[t])) \cap Fragments(t) # {}

TextsFound(t) ==
    \/ ~config.check_text_fragments \/ FileType(path[t]) # "Html"
    \/ link[t].texts \subseteq input[t].texts

\* FragmentChecker::check, with the cache locked.
Verify(t) ==
    /\ pc[t] = "verify"
    /\ IF AnchorAsked(t) /\ ~Undecodable(t)
         THEN cache' = [k \in DOMAIN cache \cup {key(t)} |->
                           IF k = key(t) THEN Fragments(t) ELSE cache[k]]
         ELSE UNCHANGED cache
    /\ Return(t, IF \/ Undecodable(t)
                    \/ (AnchorAsked(t) => AnchorFound(t)) /\ TextsFound(t)
                 THEN "Ok" ELSE "InvalidFragment")
    /\ Kept /\ UNCHANGED <<path, buf, next, input>>
-----------------------------------------------------------------------------
\* Another program changes the files.
Edit ==
    /\ edits < MaxEdits
    /\ edits' = edits + 1
    /\ fs' \in FileSystems
    /\ past' = past \cup {fs'}
    /\ UNCHANGED <<config, index, cache, link, pc, path, buf, next, input, result>>

Step(t) ==
    \/ Start(t) \/ Fallback(t) \/ NoFallback(t) \/ Index(t) \/ NoIndex(t) \/ Wiki(t)
    \/ Resolved(t) \/ Open(t) \/ Read(t) \/ Verify(t)

AllDone == (\A t \in Calls : pc[t] = "done") /\ UNCHANGED vars

Next == (\E t \in Calls : Step(t)) \/ Edit \/ AllDone

Spec == Init /\ [][Next]_vars
-----------------------------------------------------------------------------
(* What a file check promises *)

Places == {"start", "missing", "index", "wiki", "resolved", "itself", "open", "read",
           "verify", "done"}
Statuses == {"Ok", "InvalidFilePath", "ReadFileInput", "InvalidIndexFile",
             "WikilinkNotFound", "InvalidFragment"}

TypeOK ==
    /\ config \in Configs /\ fs \in past /\ past \subseteq FileSystems
    /\ \A n \in DOMAIN index : /\ index[n] \in Paths /\ Last(index[n]) = n
                              /\ \E v \in past : index[n] \in DOMAIN v
    /\ \A k \in DOMAIN cache : cache[k] \subseteq Ids
    /\ link \in [Calls -> Links]
    /\ pc \in [Calls -> Places]
    /\ path \in [Calls -> Seq(Seq(STRING))] /\ buf \in [Calls -> Seq(Seq(STRING))]
    /\ next \in [Calls -> Nat]
    /\ input \in [Calls -> [ids : SUBSET Ids, texts : SUBSET Phrases]]
    /\ result \in [Calls -> Statuses \cup {"none"}]

\* The path p, or one in its directory whose name has the same first part: what
\* adding, replacing and taking away extensions leads to.
Beside(p, q) ==
    \/ q = p
    \/ /\ q # <<>> /\ Last(q) # <<>>
       /\ Front(q) = Front(Plain(p)) /\ Last(q)[1] = Last(Plain(p))[1]

\* Where a link to p may lead.
Leads(p, q) ==
    \/ Beside(p, q)
    \/ \E n \in DOMAIN config.index_files : Beside(join(p, config.index_files[n]), q)
    \/ \E n \in DOMAIN index : n[1] = Last(Plain(p))[1] /\ Beside(index[n], q)

Exists(v, p) == is_file(v, p) \/ is_dir(v, p)

\* What a call has resolved its link to was there at some time of the run.  With
\* wikilinks it may have been a symbolic link that led nowhere (ResolvedExists).
Found(t) ==
    \E v \in past :
        \/ Exists(v, path[t])
        \/ config.wikilinks /\ path[t] \in DOMAIN v /\ v[path[t]].kind = "dangling"

\* An accepted link leads to something that was there and has to do with it.
AcceptedHasTarget ==
    \A t \in Calls : result[t] = "Ok" => Leads(link[t].path, path[t]) /\ Found(t)

\* "The returned path, if any, is guaranteed to exist and may be a file or a
\* directory" (file.rs:111-112).  The wikilink index lists symbolic links too, which
\* its comment says are ignored (wikilink/index.rs:13).
ResolvedExists ==
    \A t \in Calls : result[t] = "Ok" => \E v \in past : Exists(v, path[t])

\* The link is to a directory, all the time, and demands an index file.
DemandsIndex(t) ==
    /\ \A n \in DOMAIN config.index_files : config.index_files[n] # <<>>
    /\ \A v \in past : is_dir(v, link[t].path)

HadIndex(t) ==
    \E v \in past, n \in DOMAIN config.index_files :
        is_file(v, join(link[t].path, config.index_files[n]))

\* Such a link is accepted only if there was an index file: neither extensions
\* nor wikilinks stand in for it.
DirectoryNeedsIndex ==
    \A t \in Calls : result[t] = "Ok" /\ DemandsIndex(t) => HadIndex(t)

\* The link is to a file all the time, or to a directory with the n-th index file.
LastingFile(t) == link[t].mapped /\ \A v \in past : is_file(v, link[t].path)
LastingIndex(t, n) ==
    /\ link[t].mapped
    /\ \A v \in past :
           /\ is_dir(v, link[t].path)
           /\ \/ config.index_files[n] = <<>>
              \/ is_file(v, join(link[t].path, config.index_files[n]))

\* Such a link is broken in its fragment at most.
ExistingAccepted ==
    \A t \in Calls :
        LastingFile(t) \/ (\E n \in DOMAIN config.index_files : LastingIndex(t, n))
            => result[t] \in {"none", "Ok", "InvalidFragment"}

\* A readable state of a file that a link to p may lead to.
Shows(p, v, q) == Leads(p, q) /\ is_file(v, q) /\ v[q].utf8

Lacks(t, v, q) == Variants(link[t].id, FileType(path[t])) \cap v[q].ids = {}

\* Whatever the cache holds and other checks do meanwhile, an anchor is reported
\* missing, or found, only if a file the link leads to lacked it, or had it.
AnchorVerdicts ==
    \A t \in Calls :
        AnchorAsked(t) /\ ~Undecodable(t) /\ config.check_anchor_fragments =>
            /\ /\ result[t] = "InvalidFragment" /\ link[t].texts = {}
               => \/ \E v \in past : is_dir(v, path[t])
                  \/ \E v \in past : \E q \in DOMAIN v : Shows(link[t].path, v, q) /\ Lacks(t, v, q)
            /\ /\ result[t] = "Ok"
               /\ \A v \in past : is_file(v, path[t]) /\ v[path[t]].utf8
               => \E v \in past : \E q \in DOMAIN v : Shows(link[t].path, v, q) /\ ~Lacks(t, v, q)

(* The invariant that the properties above rest on *)

Settled == {"resolved", "itself", "open", "read", "verify"}

PlacedAt(t) ==
    /\ Named(path[t]) /\ Named(buf[t])
    /\ pc[t] = "start" => buf[t] = path[t]
    /\ pc[t] \in {"start", "missing", "index", "wiki"} => path[t] = link[t].path
    /\ pc[t] = "index" => next[t] >= 1
    /\ pc[t] \in {"missing", "itself"} => Beside(path[t], buf[t])
    /\ pc[t] \in Settled => Leads(link[t].path, path[t]) /\ Found(t)
    /\ pc[t] = "done" <=> result[t] # "none"

Placed == \A t \in Calls : PlacedAt(t)

ByIndexFile ==
    \A t \in Calls : DemandsIndex(t) =>
        /\ pc[t] \notin {"missing", "wiki"}
        /\ pc[t] \in Settled => HadIndex(t)

Straight ==
    \A t \in Calls :
        /\ LastingFile(t) => /\ pc[t] \notin {"missing", "index", "wiki", "itself"}
                             /\ path[t] = link[t].path
        /\ \A n \in DOMAIN config.index_files : LastingIndex(t, n) =>
               /\ pc[t] \notin {"missing", "wiki"}
               /\ pc[t] = "index" => next[t] <= n

\* What has been read, and what is cached for a link, are those of some file.
InputSound ==
    \A t \in Calls : pc[t] = "verify" =>
        \E v \in past : /\ is_file(v, path[t]) /\ v[path[t]].utf8
                        /\ input[t].ids = v[path[t]].ids
CacheSound ==
    \A k \in DOMAIN cache :
        \E v \in past : \E q \in DOMAIN v : Shows(k, v, q) /\ cache[k] = v[q].ids

IInv == /\ TypeOK /\ Placed /\ AcceptedHasTarget
        /\ ByIndexFile /\ DirectoryNeedsIndex /\ Straight /\ ExistingAccepted
        /\ InputSound /\ CacheSound /\ AnchorVerdicts
=============================================================================
