--------------------------- MODULE FileCheckProofs ---------------------------
(***************************************************************************)
(* Proofs about file checks, for every set of calls, links and file        *)
(* systems, every list of extensions and index files, and any number of    *)
(* edits while the checks run.                                             *)
(***************************************************************************)
EXTENDS FileCheck, SequenceTheorems, TLAPS

(* What taking the last element off a sequence leaves *)

\* Front and Last of a sequence of any elements.
LEMMA FrontLast ==
    ASSUME NEW S, NEW s \in Seq(S), s # <<>>
    PROVE  /\ Front(s) \in Seq(S) /\ Last(s) \in S
           /\ Len(Front(s)) = Len(s) - 1
           /\ \A i \in 1 .. Len(s) - 1 : Front(s)[i] = s[i]
<1>1. Len(s) \in Nat \ {0}
  BY EmptySeq
<1>2. \A i \in 1 .. Len(s) : s[i] \in S
  BY ElementOfSeq
<1>3. \A i \in 1 .. Len(s) - 1 : s[i] \in S
  BY <1>1, <1>2
<1> DEFINE n == Len(s) - 1
           f == SubSeq(s, 1, n)
<1>4. /\ f \in Seq(S) /\ Len(f) = IF 1 <= n THEN n - 1 + 1 ELSE 0
      /\ \A i \in 1 .. n - 1 + 1 : f[i] = s[1 + i - 1]
  BY <1>1, <1>3, SubSeqProperties
<1> HIDE DEF f
<1>5. /\ f \in Seq(S) /\ Len(f) = Len(s) - 1
      /\ \A i \in 1 .. Len(s) - 1 : f[i] = s[i]
  <2>1. n - 1 + 1 = n /\ n \in Nat /\ \A i \in 1 .. n : 1 + i - 1 = i
    BY <1>1
  <2> HIDE DEF n
  <2>2. f \in Seq(S) /\ Len(f) = n
    BY <1>4, <2>1
  <2>3. ASSUME NEW i \in 1 .. n PROVE f[i] = s[i]
    <3>1. f[i] = s[1 + i - 1] /\ 1 + i - 1 = i
      BY <1>4, <2>1
    <3>2. QED
      BY <3>1
  <2>4. QED
    BY <2>2, <2>3 DEF n
<1>6. Last(s) \in S
  BY <1>1, <1>2 DEF Last
<1>7. QED
  BY <1>5, <1>6 DEF Front, f

\* Taking a name off and putting one on.
LEMMA FrontAppend ==
    ASSUME NEW S, NEW s \in Seq(S), NEW e \in S
    PROVE  /\ s \o <<e>> \in Seq(S) /\ s \o <<e>> # <<>>
           /\ Last(s \o <<e>>) = e /\ Front(s \o <<e>>) = s
<1> DEFINE r == s \o <<e>>
<1>1. <<e>> \in Seq(S) /\ Len(<<e>>) = 1 /\ <<e>>[1] = e /\ Len(s) \in Nat
  BY LenProperties
<1>2. /\ r \in Seq(S) /\ Len(r) = Len(s) + 1
      /\ \A i \in 1 .. Len(s) + 1 : r[i] = IF i <= Len(s) THEN s[i] ELSE <<e>>[i - Len(s)]
  BY <1>1, ConcatProperties
<1>3. r # <<>>
  BY <1>1, <1>2, EmptySeq
<1> HIDE DEF r
<1>4. /\ Front(r) \in Seq(S) /\ Len(Front(r)) = Len(r) - 1
      /\ \A i \in 1 .. Len(r) - 1 : Front(r)[i] = r[i]
  BY <1>2, <1>3, FrontLast
<1>5. Len(Front(r)) = Len(s) /\ \A i \in 1 .. Len(s) : Front(r)[i] = s[i]
  BY <1>1, <1>2, <1>4
<1>6. Front(r) = s
  BY <1>4, <1>5, SeqEqual
<1>7. Last(r) = e
  BY <1>1, <1>2 DEF Last
<1>8. QED
  BY <1>2, <1>3, <1>6, <1>7 DEF r
-----------------------------------------------------------------------------

SomePath == Seq(Seq(STRING))

LEMMA PlainPath ==
    ASSUME NEW p \in SomePath
    PROVE  /\ Plain(p) \in SomePath
           /\ Named(p) => /\ Plain(Plain(p)) = Plain(p) /\ Named(Plain(p))
                          /\ Last(Plain(p)) \in Seq(STRING)
           /\ p # <<>> /\ Last(p) # <<>> => Plain(p) = p /\ Named(p)
<1>1. Plain(p) \in SomePath
  BY FrontLast DEF Plain, SomePath
<1>2. Named(p) => Plain(Plain(p)) = Plain(p) /\ Named(Plain(p))
  BY DEF Named, Plain
<1>3. Named(p) => Last(Plain(p)) \in Seq(STRING)
  BY <1>1, FrontLast DEF Named, SomePath
<1>4. QED
  BY <1>1, <1>2, <1>3 DEF Plain, Named

\* set_extension stays in the directory and keeps the first part of the name.
LEMMA SetExtension ==
    ASSUME NEW p \in SomePath, Named(p), NEW ext \in Seq(STRING)
    PROVE  LET q == set_extension(p, ext) IN
               /\ q \in SomePath /\ q # <<>> /\ Last(q) # <<>>
               /\ Front(q) = Front(Plain(p))
               /\ Last(q)[1] = Last(Plain(p))[1]
<1> DEFINE name == Last(Plain(p))
           stem == IF Len(name) > 1 THEN Front(name) ELSE name
<1>1. /\ Plain(p) \in SomePath /\ Plain(p) # <<>>
      /\ name \in Seq(STRING) /\ name # <<>>
  BY PlainPath DEF Named
<1>2. Front(Plain(p)) \in SomePath
  BY <1>1, FrontLast DEF SomePath
<1>3. stem \in Seq(STRING) /\ Len(stem) >= 1 /\ stem[1] = name[1]
  <2>1. CASE Len(name) > 1
    <3>1. Front(name) \in Seq(STRING) /\ Len(Front(name)) = Len(name) - 1
      BY <1>1, FrontLast
    <3>2. Front(name)[1] = name[1]
      BY <1>1, <2>1, FrontLast
    <3>3. QED
      BY <1>1, <2>1, <3>1, <3>2
  <2>2. CASE ~(Len(name) > 1)
    BY <1>1, <2>2
  <2>3. QED
    BY <2>1, <2>2
<1> HIDE DEF name
<1>4. /\ stem \o ext \in Seq(STRING) /\ stem \o ext # <<>>
      /\ (stem \o ext)[1] = name[1]
  <2> HIDE DEF stem
  <2>1. QED
    BY <1>3
<1>5. set_extension(p, ext) = Front(Plain(p)) \o <<stem \o ext>>
  BY <1>1 DEF set_extension, name
<1> HIDE DEF stem
<1> DEFINE q == set_extension(p, ext)
           last == stem \o ext
           dir == Front(Plain(p))
<1>6. last \in Seq(STRING) /\ dir \in Seq(Seq(STRING)) /\ q = dir \o <<last>>
  BY <1>2, <1>4, <1>5 DEF SomePath
<1> HIDE DEF last, dir, q
<1>7. q \in Seq(Seq(STRING)) /\ q # <<>> /\ Last(q) = last /\ Front(q) = dir
  BY <1>6, FrontAppend
<1>8. /\ q \in Seq(Seq(STRING)) /\ q # <<>>
      /\ Last(q) = stem \o ext /\ Front(q) = Front(Plain(p))
  BY <1>7 DEF last, dir
<1>9. /\ q \in SomePath /\ q # <<>> /\ Last(q) # <<>>
      /\ Front(q) = Front(Plain(p)) /\ Last(q)[1] = Last(Plain(p))[1]
  BY <1>4, <1>8 DEF SomePath, name
<1>10. QED
  BY <1>9 DEF q

\* A file is where it says it is, without a trailing slash.
LEMMA FileNamed ==
    ASSUME NEW v \in FileSystems, NEW p \in SomePath, is_file(v, p)
    PROVE  p \in DOMAIN v /\ p \in Paths /\ Plain(p) = p /\ Named(p)
<1>1. p = Plain(p) /\ p \in DOMAIN v
  BY DEF is_file, Metadata
<1>2. p \in Paths /\ p # <<>> /\ Last(p) # <<>>
  BY <1>1, FileCheckAssumption
<1>3. QED
  BY <1>1, <1>2 DEF Named

\* A directory is its own "." entry, with a trailing slash or without.
LEMMA DirItself ==
    ASSUME NEW v \in FileSystems, NEW p \in SomePath, Named(p)
    PROVE  /\ join(p, <<>>) = Plain(p)
           /\ is_dir(v, p) => is_dir(v, Plain(p))
<1>1. join(p, <<>>) = Plain(p)
  BY PlainPath, ConcatEmptySeq DEF join, SomePath
<1>2. Plain(Plain(p)) = Plain(p)
  BY PlainPath
<1> DEFINE IsDir(q) == q = <<>> \/ (q \in DOMAIN v /\ v[q].kind = "dir")
<1>3. \A q : Metadata(v, q) = "dir" <=> IsDir(Plain(q))
  BY DEF Metadata
<1>4. QED
  BY <1>1, <1>2, <1>3 DEF is_dir

\* Extensions lead from beside a path to beside it.
LEMMA BesideExtension ==
    ASSUME NEW p \in SomePath, NEW q \in SomePath, Named(q), Beside(p, q),
           NEW ext \in Seq(STRING)
    PROVE  /\ Beside(p, set_extension(q, ext))
           /\ set_extension(q, ext) \in SomePath /\ Named(set_extension(q, ext))
<1> DEFINE r == set_extension(q, ext)
<1>1. /\ r \in SomePath /\ r # <<>> /\ Last(r) # <<>>
      /\ Front(r) = Front(Plain(q)) /\ Last(r)[1] = Last(Plain(q))[1]
  BY SetExtension
<1> HIDE DEF r
<1>2. Named(r)
  BY <1>1, PlainPath
<1>3. Beside(p, r)
  BY <1>1 DEF Beside, Plain
<1>4. QED
  BY <1>1, <1>2, <1>3 DEF r

LEMMA BesideTransitive ==
    ASSUME NEW p, NEW q, NEW r, Beside(p, q), Beside(q, r)
    PROVE  Beside(p, r)
BY DEF Beside, Plain

LEMMA LeadsBeside ==
    ASSUME NEW p, NEW q, NEW r, Leads(p, q), Beside(q, r)
    PROVE  Leads(p, r)
<1>1. Beside(p, q) => Beside(p, r)
  BY BesideTransitive
<1>2. \A n \in DOMAIN config.index_files :
          Beside(join(p, config.index_files[n]), q) => Beside(join(p, config.index_files[n]), r)
  BY BesideTransitive
<1>3. \A n \in DOMAIN index : Beside(index[n], q) => Beside(index[n], r)
  BY BesideTransitive
<1>4. QED
  BY <1>1, <1>2, <1>3 DEF Leads
-----------------------------------------------------------------------------
LEMMA ConfigTypes ==
    ASSUME NEW c \in Configs
    PROVE  /\ c.fallback_extensions \in Seq(Seq(STRING))
           /\ c.index_files \in Seq(SomePath)
           /\ \A n \in 1 .. Len(c.fallback_extensions) :
                  c.fallback_extensions[n] \in Seq(STRING)
           /\ \A n \in 1 .. Len(c.index_files) :
                  c.index_files[n] \in SomePath /\ n \in DOMAIN c.index_files
<1>1. /\ c.fallback_extensions \in Seq(Seq(STRING))
      /\ c.index_files \in Seq(SomePath)
  BY FileCheckAssumption DEF Config, SomePath
<1>2. \A n \in 1 .. Len(c.fallback_extensions) : c.fallback_extensions[n] \in Seq(STRING)
  BY <1>1, ElementOfSeq
<1>3. DOMAIN c.index_files = 1 .. Len(c.index_files)
  BY <1>1, LenProperties
<1>4. \A n \in 1 .. Len(c.index_files) : c.index_files[n] \in SomePath
  BY <1>1, ElementOfSeq
<1>5. QED
  BY <1>1, <1>2, <1>3, <1>4

LEMMA LinkTypes ==
    ASSUME NEW l \in Links
    PROVE  l.path \in SomePath /\ Named(l.path) /\ l.id \in Ids /\ l.mapped \in BOOLEAN
BY FileCheckAssumption DEF Link, SomePath

\* The path that a turn of the extension loop tries.
LEMMA CandidateTypes ==
    ASSUME TypeOK, Placed, NEW t \in Calls, pc[t] \in {"missing", "itself"},
           next[t] <= Len(config.fallback_extensions)
    PROVE  /\ Candidate(t) \in SomePath /\ Named(Candidate(t))
           /\ Beside(path[t], Candidate(t))
<1>1. /\ path[t] \in SomePath /\ Named(path[t]) /\ buf[t] \in SomePath /\ Named(buf[t])
      /\ Beside(path[t], buf[t]) /\ next[t] \in Nat /\ config \in Configs
  BY DEF TypeOK, Placed, PlacedAt, SomePath
<1>2. CASE next[t] = 0
  BY <1>1, <1>2 DEF Candidate, Beside
<1>3. CASE next[t] # 0
  <2>1. Len(config.fallback_extensions) \in Nat
    BY <1>1, ConfigTypes, LenProperties
  <2>2. config.fallback_extensions[next[t]] \in Seq(STRING)
    BY <1>1, <1>3, <2>1, ConfigTypes
  <2>3. QED
    BY <1>1, <1>3, <2>2, BesideExtension DEF Candidate
<1>4. QED
  BY <1>2, <1>3

\* What an accepted index file is: a file, or the directory itself.
LEMMA IndexTypes ==
    ASSUME TypeOK, Placed, NEW t \in Calls, pc[t] = "index", next[t] >= 1,
           next[t] <= Len(config.index_files),
           NEW p, p = join(path[t], config.index_files[next[t]]),
           accept_index(fs, config.index_files[next[t]], p)
    PROVE  /\ p \in SomePath /\ Named(p) /\ Leads(link[t].path, p)
           /\ is_file(fs, p) \/ is_dir(fs, p)
           /\ next[t] \in DOMAIN config.index_files
<1> DEFINE rel == config.index_files[next[t]]
<1>1. /\ path[t] \in SomePath /\ Named(path[t]) /\ path[t] = link[t].path
      /\ next[t] \in Nat /\ config \in Configs /\ fs \in FileSystems
  BY DEF TypeOK, Placed, PlacedAt, SomePath
<1>2. Len(config.index_files) \in Nat
  BY <1>1, ConfigTypes, LenProperties
<1>3. rel \in SomePath /\ next[t] \in DOMAIN config.index_files
  BY <1>1, <1>2, ConfigTypes
<1>4. p \in SomePath
  BY <1>1, <1>3, PlainPath, ConcatProperties DEF join, SomePath
<1>5. Beside(p, p)
  BY DEF Beside
<1>6. Leads(link[t].path, p)
  BY <1>1, <1>3, <1>5 DEF Leads
<1>7. is_file(fs, p) => Named(p)
  BY <1>1, <1>4, FileNamed
<1>8. rel = <<>> => Named(p)
  BY <1>1, DirItself, PlainPath
<1>9. QED
  BY <1>3, <1>4, <1>6, <1>7, <1>8 DEF accept_index

\* What the wikilink index answers with.
LEMMA WikiTypes ==
    ASSUME TypeOK, Placed, NEW t \in Calls, pc[t] = "wiki",
           NEW n \in DOMAIN WikiNames(t), WikiNames(t)[n] \in DOMAIN index,
           NEW p, p = index[WikiNames(t)[n]]
    PROVE  /\ p \in SomePath /\ Named(p) /\ Leads(link[t].path, p)
           /\ \E m \in DOMAIN index : p = index[m]
<1> DEFINE name == WikiNames(t)[n]
<1>1. /\ path[t] \in SomePath /\ Named(path[t]) /\ path[t] = link[t].path
      /\ config \in Configs
  BY DEF TypeOK, Placed, PlacedAt, SomePath
<1>2. n \in 1 .. Len(config.fallback_extensions)
      /\ name = Last(set_extension(path[t], config.fallback_extensions[n]))
  BY DEF WikiNames
<1>3. config.fallback_extensions[n] \in Seq(STRING)
  BY <1>1, <1>2, ConfigTypes
<1>4. name[1] = Last(Plain(path[t]))[1]
  BY <1>1, <1>2, <1>3, SetExtension
<1>5. p \in Paths
  BY DEF TypeOK
<1>6. p \in SomePath /\ Named(p)
  BY <1>5, FileCheckAssumption, PlainPath DEF SomePath
<1>7. Beside(p, p)
  BY DEF Beside
<1>8. Leads(link[t].path, p)
  BY <1>1, <1>4, <1>7 DEF Leads
<1>9. QED
  BY <1>6, <1>8

\* What the index lists was there when it was made.
LEMMA Listed ==
    ASSUME TypeOK, config.wikilinks, NEW m \in DOMAIN index
    PROVE  \E v \in past :
               \/ Exists(v, index[m])
               \/ config.wikilinks /\ index[m] \in DOMAIN v /\ v[index[m]].kind = "dangling"
<1> DEFINE p == index[m]
<1>1. PICK v \in past : p \in DOMAIN v
  BY DEF TypeOK
<1>2. v \in FileSystems /\ p \in SomePath /\ p # <<>> /\ Last(p) # <<>>
  BY <1>1, FileCheckAssumption DEF TypeOK, SomePath
<1>3. v[p].kind \in {"file", "dir", "dangling"}
  BY <1>1, <1>2, FileCheckAssumption DEF Entry
<1>4. Plain(p) = p
  BY <1>2, PlainPath
<1> HIDE DEF p
<1>5. v[p].kind = "file" => Metadata(v, p) = "file"
  BY <1>1, <1>2, <1>4 DEF Metadata
<1>6. v[p].kind = "dir" => Metadata(v, p) = "dir"
  BY <1>1, <1>4 DEF Metadata
<1>7. Exists(v, p) \/ (p \in DOMAIN v /\ v[p].kind = "dangling")
  BY <1>1, <1>3, <1>5, <1>6 DEF Exists, is_file, is_dir
<1>8. QED
  BY <1>7 DEF p
-----------------------------------------------------------------------------
(* What a step leaves alone *)

\* Nothing happens to call u.
Same(u) ==
    /\ pc'[u] = pc[u] /\ path'[u] = path[u] /\ buf'[u] = buf[u]
    /\ next'[u] = next[u] /\ input'[u] = input[u] /\ result'[u] = result[u]

\* The options, the index and the links stay, and nothing is forgotten.
Frame == UNCHANGED <<config, index, link>> /\ past \subseteq past'

LEMMA StepFrame ==
    ASSUME TypeOK, NEW t \in Calls, Step(t)
    PROVE  /\ Frame /\ UNCHANGED <<fs, past>>
           /\ \A u \in Calls \ {t} : Same(u)
<1> USE DEF TypeOK, Frame, Kept, Same, GoTo, Return, Take
<1>1. CASE Start(t)
  BY <1>1 DEF Start
<1>2. CASE Fallback(t)
  BY <1>2 DEF Fallback
<1>3. CASE NoFallback(t)
  BY <1>3 DEF NoFallback
<1>4. CASE Index(t)
  BY <1>4 DEF Index
<1>5. CASE NoIndex(t)
  BY <1>5 DEF NoIndex
<1>6. CASE Wiki(t)
  BY <1>6 DEF Wiki
<1>7. CASE Resolved(t)
  BY <1>7 DEF Resolved
<1>8. CASE Open(t)
  BY <1>8 DEF Open
<1>9. CASE Read(t)
  BY <1>9 DEF Read
<1>10. CASE Verify(t)
  BY <1>10 DEF Verify
<1>11. QED
  BY <1>1, <1>2, <1>3, <1>4, <1>5, <1>6, <1>7, <1>8, <1>9, <1>10 DEF Step

-----------------------------------------------------------------------------
(* Types *)

LEMMA FileTypes ==
    ASSUME NEW v \in FileSystems, NEW p \in DOMAIN v
    PROVE  v[p].ids \subseteq Ids /\ v[p].texts \subseteq Phrases
BY FileCheckAssumption DEF Entry

\* A step of a call moves it on, ends it, or takes another turn of a loop.
LEMMA StepPlaces ==
    ASSUME NEW t \in Calls, Step(t)
    PROVE  \/ \E w \in Places : GoTo(t, w)
           \/ \E s \in Statuses : Return(t, s)
           \/ UNCHANGED <<pc, result>>
<1> USE DEF Places, Statuses
<1>1. CASE Start(t)
  BY <1>1 DEF Start
<1>2. CASE Fallback(t) \/ NoFallback(t)
  BY <1>2, Zenon DEF Fallback, NoFallback
<1>3. CASE Index(t) \/ NoIndex(t)
  BY <1>3 DEF Index, NoIndex
<1>4. CASE Wiki(t) \/ Resolved(t)
  BY <1>4 DEF Wiki, Resolved
<1>5. CASE Open(t) \/ Read(t)
  BY <1>5 DEF Open, Read
<1>6. CASE Verify(t)
  <2>1. PICK s \in {"Ok", "InvalidFragment"} : Return(t, s)
    BY <1>6 DEF Verify
  <2>2. QED
    BY <2>1
<1>7. QED
  BY <1>1, <1>2, <1>3, <1>4, <1>5, <1>6 DEF Step

\* What it takes a path from, if it does.
LEMMA StepPaths ==
    ASSUME TypeOK, Placed, NEW t \in Calls, Step(t)
    PROVE  \/ UNCHANGED <<path, buf>> /\ next' \in [Calls -> Nat]
           \/ /\ buf' = [buf EXCEPT ![t] = Candidate(t)]
              /\ next' = [next EXCEPT ![t] = next[t] + 1]
              /\ Candidate(t) \in SomePath /\ UNCHANGED path
           \/ \E p \in SomePath : Take(t, p, 0)
<1>1. next \in [Calls -> Nat] /\ path[t] \in SomePath
  BY DEF TypeOK, SomePath
<1>2. CASE Start(t)
  <2>1. UNCHANGED next \/ next' = [next EXCEPT ![t] = 1]
    BY <1>2 DEF Start
  <2>2. QED
    BY <1>1, <1>2, <2>1 DEF Start
<1>3. CASE Fallback(t)
  <2>1. Candidate(t) \in SomePath
    BY <1>3, CandidateTypes DEF Fallback
  <2>2. QED
    BY <1>3, <2>1 DEF Fallback
<1>4. CASE Index(t)
  <2> DEFINE p == join(path[t], config.index_files[next[t]])
  <2>1. next[t] >= 1
    BY <1>4 DEF Index, Placed, PlacedAt
  <2>2. CASE accept_index(fs, config.index_files[next[t]], p)
    <3>1. p \in SomePath /\ Take(t, p, 0)
      BY <1>4, <2>1, <2>2, IndexTypes DEF Index
    <3>2. QED
      BY <3>1
  <2>3. CASE ~accept_index(fs, config.index_files[next[t]], p)
    <3>1. next' = [next EXCEPT ![t] = next[t] + 1] /\ UNCHANGED <<path, buf>>
      BY <1>4, <2>3 DEF Index
    <3>2. QED
      BY <1>1, <3>1
  <2>4. QED
    BY <2>2, <2>3
<1>5. CASE Wiki(t)
  <2>1. \/ UNCHANGED <<path, buf, next>>
        \/ \E n \in DOMAIN WikiNames(t) :
              WikiNames(t)[n] \in DOMAIN index /\ Take(t, index[WikiNames(t)[n]], 0)
    BY <1>5 DEF Wiki
  <2>2. \A n \in DOMAIN WikiNames(t) :
            WikiNames(t)[n] \in DOMAIN index => index[WikiNames(t)[n]] \in SomePath
    BY <1>5, WikiTypes DEF Wiki
  <2>3. QED
    BY <1>1, <2>1, <2>2
<1>6. CASE Resolved(t)
  BY <1>1, <1>6 DEF Resolved
<1>7. CASE NoFallback(t) \/ NoIndex(t) \/ Open(t) \/ Read(t) \/ Verify(t)
  BY <1>1, <1>7 DEF NoFallback, NoIndex, Open, Read, Verify
<1>8. QED
  BY <1>2, <1>3, <1>4, <1>5, <1>6, <1>7 DEF Step

\* What it reads and caches.
LEMMA StepContent ==
    ASSUME TypeOK, NEW t \in Calls, Step(t)
    PROVE  /\ \A k \in DOMAIN cache' : cache'[k] \subseteq Ids
           /\ input' \in [Calls -> [ids : SUBSET Ids, texts : SUBSET Phrases]]
<1>1. /\ path[t] \in SomePath /\ fs \in FileSystems /\ input[t].ids \subseteq Ids
      /\ input \in [Calls -> [ids : SUBSET Ids, texts : SUBSET Phrases]]
      /\ \A k \in DOMAIN cache : cache[k] \subseteq Ids
  BY DEF TypeOK, SomePath
<1>2. CASE Read(t)
  <2>1. CASE is_file(fs, path[t]) /\ fs[path[t]].utf8
    <3>1. path[t] \in DOMAIN fs
      BY <1>1, <2>1, FileNamed
    <3>2. [ids |-> fs[path[t]].ids, texts |-> fs[path[t]].texts]
              \in [ids : SUBSET Ids, texts : SUBSET Phrases]
      BY <1>1, <3>1, FileTypes
    <3>3. QED
      BY <1>1, <1>2, <2>1, <3>2 DEF Read
  <2>2. CASE ~(is_file(fs, path[t]) /\ fs[path[t]].utf8)
    BY <1>1, <1>2, <2>2 DEF Read
  <2>3. QED
    BY <2>1, <2>2
<1>3. CASE Verify(t)
  <2>1. Fragments(t) \subseteq Ids
    BY <1>1 DEF Fragments
  <2>2. QED
    BY <1>1, <1>3, <2>1 DEF Verify
<1>4. CASE ~Read(t) /\ ~Verify(t)
  <2>1. UNCHANGED <<cache, input>>
    BY <1>4 DEF Step, Start, Fallback, NoFallback, Index, NoIndex, Wiki, Resolved, Open
  <2>2. QED
    BY <1>1, <2>1
<1>5. QED
  BY <1>2, <1>3, <1>4

LEMMA TypeStep ==
    ASSUME TypeOK, Placed, NEW t \in Calls, Step(t)
    PROVE  TypeOK'
<1>1. /\ config' \in Configs /\ fs' \in past' /\ past' \subseteq FileSystems
      /\ \A n \in DOMAIN index' : /\ index'[n] \in Paths /\ Last(index'[n]) = n
                                 /\ \E v \in past' : index'[n] \in DOMAIN v
      /\ link' \in [Calls -> Links]
  BY StepFrame DEF TypeOK, Frame
<1>2. /\ pc \in [Calls -> Places] /\ result \in [Calls -> Statuses \cup {"none"}]
      /\ path \in [Calls -> SomePath] /\ buf \in [Calls -> SomePath]
      /\ next \in [Calls -> Nat]
  BY DEF TypeOK, SomePath
<1>3. pc' \in [Calls -> Places] /\ result' \in [Calls -> Statuses \cup {"none"}]
  <2>1. ASSUME NEW w \in Places, GoTo(t, w)
        PROVE  pc' \in [Calls -> Places] /\ result' = result
    BY <1>2, <2>1 DEF GoTo
  <2>2. "done" \in Places
    BY DEF Places
  <2>3. ASSUME NEW s \in Statuses, Return(t, s)
        PROVE  pc' \in [Calls -> Places] /\ result' \in [Calls -> Statuses \cup {"none"}]
    BY <1>2, <2>2, <2>3 DEF Return
  <2>4. QED
    BY <1>2, <2>1, <2>3, StepPlaces
<1>4. /\ path' \in [Calls -> SomePath] /\ buf' \in [Calls -> SomePath]
      /\ next' \in [Calls -> Nat]
  BY <1>2, StepPaths DEF Take
<1>5. QED
  BY <1>1, <1>3, <1>4, StepContent DEF TypeOK, SomePath

-----------------------------------------------------------------------------
(* Where calls are *)

LEMMA FrameLeads ==
    ASSUME Frame
    PROVE  \A p, q : Leads(p, q)' <=> Leads(p, q)
BY DEF Frame, Leads

\* What moving a call on, ending it, and taking a path come to.
LEMMA Moved ==
    ASSUME TypeOK, NEW t \in Calls
    PROVE  /\ \A w : GoTo(t, w) => pc'[t] = w /\ result'[t] = result[t]
           /\ \A s : Return(t, s) => pc'[t] = "done" /\ result'[t] = s
           /\ \A p, n : Take(t, p, n) => path'[t] = p /\ buf'[t] = p /\ next'[t] = n
BY DEF TypeOK, GoTo, Return, Take

LEMMA SamePlace ==
    ASSUME Frame, NEW t \in Calls, Same(t), PlacedAt(t),
           result[t] = "Ok" => Leads(link[t].path, path[t]) /\ Found(t)
    PROVE  /\ PlacedAt(t)'
           /\ result'[t] = "Ok" => Leads(link[t].path, path[t])' /\ Found(t)'
<1>1. Found(t) => Found(t)'
  BY DEF Found, Frame, Same
<1>2. Leads(link[t].path, path[t]) => Leads(link[t].path, path[t])'
  <2>1. link' = link /\ path'[t] = path[t]
    BY DEF Frame, Same
  <2>2. QED
    BY <2>1 DEF Frame, Leads
<1>3. link' = link
  BY DEF Frame
<1>4. QED
  BY <1>1, <1>2, <1>3 DEF PlacedAt, Same

LEMMA PlaceStep ==
    ASSUME TypeOK, Placed, AcceptedHasTarget, NEW t \in Calls, Step(t)
    PROVE  /\ PlacedAt(t)'
           /\ result'[t] = "Ok" => Leads(link[t].path, path[t])' /\ Found(t)'
<1>1. /\ path[t] \in SomePath /\ buf[t] \in SomePath /\ fs \in past /\ PlacedAt(t)
      /\ fs \in FileSystems /\ next[t] \in Nat
  BY DEF TypeOK, SomePath, Placed
<1>2. /\ link' = link /\ past' = past /\ index' = index /\ config' = config
      /\ Leads(link[t].path, path[t])' <=> Leads(link[t].path, path'[t])
  BY StepFrame, FrameLeads DEF Frame, Leads
<1>3. is_file(fs, path'[t]) \/ is_dir(fs, path'[t]) => Found(t)'
  BY <1>1, <1>2 DEF Found, Exists
<1>4. config.wikilinks /\ (\E n \in DOMAIN index : path'[t] = index[n]) => Found(t)'
  BY <1>2, Listed DEF Found
<1>5. path'[t] = path[t] /\ Found(t) => Found(t)'
  BY <1>2 DEF Found
<1>6. pc[t] # "done" => result[t] = "none"
  BY <1>1 DEF PlacedAt
<1>7. CASE Start(t)
  <2>1. Beside(path[t], path[t])
    BY DEF Beside
  <2>2. Leads(path[t], path[t])
    BY <2>1 DEF Leads
  <2>3. /\ path[t] = link[t].path /\ buf[t] = path[t] /\ Named(path[t])
        /\ path'[t] = path[t] /\ buf'[t] = buf[t] /\ result[t] = "none"
    BY <1>1, <1>6, <1>7 DEF Start, PlacedAt
  <2>4. \/ pc'[t] = "done" /\ result'[t] \in {"InvalidFilePath", "ReadFileInput"}
        \/ pc'[t] = "missing" /\ result'[t] = "none"
        \/ pc'[t] = "index" /\ result'[t] = "none" /\ next'[t] = 1
        \/ pc'[t] = "resolved" /\ result'[t] = "none" /\ is_file(fs, path[t])
    <3>1. next \in [Calls -> Nat]
      BY DEF TypeOK
    <3>2. QED
      BY <1>7, <2>3, <3>1, Moved DEF Start, is_file
  <2>5. QED
    BY <1>2, <1>3, <2>1, <2>2, <2>3, <2>4 DEF PlacedAt, Settled
<1>8. CASE Fallback(t)
  <2>1. /\ Candidate(t) \in SomePath /\ Named(Candidate(t))
        /\ Beside(path[t], Candidate(t)) /\ result[t] = "none"
    BY <1>6, <1>8, CandidateTypes DEF Fallback
  <2>2. CASE is_file(fs, Candidate(t))
    <3>1. /\ path'[t] = Candidate(t) /\ buf'[t] = Candidate(t) /\ result'[t] = "none"
          /\ pc'[t] \in {"resolved", "open"}
      BY <1>8, <2>1, <2>2, Moved DEF Fallback
    <3>2. Leads(link[t].path, path'[t])
      <4>1. CASE pc[t] = "missing"
        BY <1>1, <2>1, <3>1, <4>1 DEF PlacedAt, Leads
      <4>2. CASE pc[t] = "itself"
        <5>1. Leads(link[t].path, path[t])
          BY <1>1, <4>2 DEF PlacedAt, Settled
        <5>2. QED
          BY <2>1, <3>1, <5>1, LeadsBeside
      <4>3. QED
        BY <1>8, <4>1, <4>2 DEF Fallback
    <3>3. Found(t)'
      BY <1>3, <2>2, <3>1
    <3>4. QED
      BY <1>2, <2>1, <3>1, <3>2, <3>3 DEF PlacedAt, Settled
  <2>3. CASE ~is_file(fs, Candidate(t))
    <3>1. buf \in [Calls -> Seq(Seq(STRING))]
      BY DEF TypeOK
    <3>2. /\ path'[t] = path[t] /\ buf'[t] = Candidate(t) /\ result'[t] = "none"
          /\ pc'[t] = pc[t] /\ pc[t] \in {"missing", "itself"}
      BY <1>8, <2>1, <2>3, <3>1 DEF Fallback
    <3>3. QED
      BY <1>1, <1>2, <1>5, <2>1, <3>2 DEF PlacedAt, Settled
  <2>4. QED
    BY <2>2, <2>3
<1>9. CASE NoFallback(t)
  <2>1. /\ path'[t] = path[t] /\ buf'[t] = buf[t] /\ result'[t] = "none"
        /\ \/ pc[t] = "missing" /\ pc'[t] = "wiki"
           \/ pc[t] = "itself" /\ pc'[t] = "open"
    BY <1>6, <1>9, Moved DEF NoFallback
  <2>2. QED
    BY <1>1, <1>2, <1>5, <2>1 DEF PlacedAt, Settled
<1>10. CASE Index(t)
  <2> DEFINE rel == config.index_files[next[t]]
             p == join(path[t], rel)
  <2>1. next[t] >= 1 /\ result[t] = "none" /\ pc[t] = "index"
    BY <1>1, <1>6, <1>10 DEF Index, PlacedAt
  <2>2. CASE accept_index(fs, rel, p)
    <3>1. /\ Named(p) /\ Leads(link[t].path, p)
          /\ is_file(fs, p) \/ is_dir(fs, p)
      BY <1>10, <2>1, <2>2, IndexTypes DEF Index
    <3>2. /\ path'[t] = p /\ buf'[t] = p /\ result'[t] = "none"
          /\ pc'[t] = "resolved"
      BY <1>10, <2>1, <2>2, Moved DEF Index
    <3> HIDE DEF p
    <3>3. QED
      BY <1>2, <1>3, <3>1, <3>2 DEF PlacedAt, Settled
  <2>3. CASE ~accept_index(fs, rel, p)
    <3>1. next' = [next EXCEPT ![t] = next[t] + 1] /\ UNCHANGED <<path, buf, pc, result>>
      BY <1>10, <2>3 DEF Index
    <3>2. next'[t] = next[t] + 1
      BY <3>1 DEF TypeOK
    <3>3. next'[t] >= 1
      BY <1>1, <2>1, <3>2
    <3>4. QED
      BY <1>1, <1>2, <2>1, <3>1, <3>3 DEF PlacedAt, Settled
  <2>4. QED
    BY <2>2, <2>3
<1>11. CASE Wiki(t)
  <2>1. result[t] = "none" /\ pc[t] = "wiki"
    BY <1>6, <1>11 DEF Wiki
  <2>2. \/ /\ UNCHANGED <<path, buf>>
           /\ Return(t, "InvalidFilePath") \/ Return(t, "WikilinkNotFound")
        \/ /\ GoTo(t, "resolved") /\ config.wikilinks
           /\ \E n \in DOMAIN WikiNames(t) :
                /\ WikiNames(t)[n] \in DOMAIN index
                /\ Take(t, index[WikiNames(t)[n]], 0)
    BY <1>11 DEF Wiki
  <2>3. ASSUME UNCHANGED <<path, buf>>,
               Return(t, "InvalidFilePath") \/ Return(t, "WikilinkNotFound")
        PROVE  /\ PlacedAt(t)'
               /\ result'[t] = "Ok" => Leads(link[t].path, path[t])' /\ Found(t)'
    <3>1. pc'[t] = "done" /\ result'[t] # "none" /\ result'[t] # "Ok"
      BY <2>3, Moved
    <3>2. QED
      BY <1>1, <1>2, <2>3, <3>1 DEF PlacedAt, Settled
  <2>4. ASSUME GoTo(t, "resolved"), config.wikilinks,
               NEW n \in DOMAIN WikiNames(t), WikiNames(t)[n] \in DOMAIN index,
               Take(t, index[WikiNames(t)[n]], 0)
        PROVE  /\ PlacedAt(t)'
               /\ result'[t] = "Ok" => Leads(link[t].path, path[t])' /\ Found(t)'
    <3> DEFINE p == index[WikiNames(t)[n]]
    <3>1. /\ Named(p) /\ Leads(link[t].path, p)
          /\ \E m \in DOMAIN index : p = index[m]
      BY <2>1, <2>4, WikiTypes
    <3>2. /\ path'[t] = p /\ buf'[t] = p /\ result'[t] = "none"
          /\ pc'[t] = "resolved"
      BY <2>1, <2>4, Moved
    <3> HIDE DEF p
    <3>3. QED
      BY <1>2, <1>4, <2>4, <3>1, <3>2 DEF PlacedAt, Settled
  <2>5. QED
    BY <2>2, <2>3, <2>4
<1>12. CASE Resolved(t)
  <2>1. /\ path'[t] = path[t] /\ buf'[t] \in {path[t], buf[t]} /\ result'[t] = "none"
        /\ \/ pc'[t] = "open"
           \/ pc'[t] = "itself" /\ buf'[t] = path[t]
    BY <1>6, <1>12, Moved DEF Resolved
  <2>2. Beside(path[t], path[t])
    BY DEF Beside
  <2>3. pc[t] = "resolved"
    BY <1>12 DEF Resolved
  <2>4. QED
    BY <1>1, <1>2, <1>5, <2>1, <2>2, <2>3 DEF PlacedAt, Settled
<1>13. CASE NoIndex(t) \/ Open(t) \/ Read(t) \/ Verify(t)
  <2>1. /\ path'[t] = path[t] /\ buf'[t] = buf[t]
        /\ \/ pc'[t] = "done" /\ result'[t] = "InvalidIndexFile"
           \/ /\ pc[t] \in {"open", "read", "verify"}
              /\ \/ pc'[t] = "done" /\ result'[t] \in {"Ok", "InvalidFragment"}
                 \/ pc'[t] \in {"read", "verify"} /\ result'[t] = "none"
    BY <1>6, <1>13, Moved DEF NoIndex, Open, Read, Verify
  <2>2. QED
    BY <1>1, <1>2, <1>5, <2>1 DEF PlacedAt, Settled
<1>14. QED
  BY <1>7, <1>8, <1>9, <1>10, <1>11, <1>12, <1>13 DEF Step

-----------------------------------------------------------------------------
(* Directories that demand an index file *)

IndexedAt(t) ==
    DemandsIndex(t) => /\ pc[t] \notin {"missing", "wiki"}
                       /\ pc[t] \in Settled => HadIndex(t)
                       /\ result[t] = "Ok" => HadIndex(t)

LEMMA FrameIndex ==
    ASSUME Frame, NEW t \in Calls
    PROVE  /\ DemandsIndex(t)' => DemandsIndex(t)
           /\ HadIndex(t) => HadIndex(t)'
<1>1. DemandsIndex(t)' => DemandsIndex(t)
  BY DEF DemandsIndex, Frame
<1>2. HadIndex(t) => HadIndex(t)'
  BY DEF HadIndex, Frame
<1>3. QED
  BY <1>1, <1>2

LEMMA SameIndexed ==
    ASSUME Frame, NEW t \in Calls, Same(t), IndexedAt(t)
    PROVE  IndexedAt(t)'
BY FrameIndex DEF IndexedAt, Same

LEMMA IndexedStep ==
    ASSUME TypeOK, Placed, NEW t \in Calls, IndexedAt(t), Step(t)
    PROVE  IndexedAt(t)'
<1>1. /\ fs \in past /\ PlacedAt(t) /\ Frame
  BY StepFrame DEF TypeOK, Placed
<1> SUFFICES ASSUME DemandsIndex(t)
             PROVE  /\ pc'[t] \notin {"missing", "wiki"}
                    /\ pc'[t] \in Settled => HadIndex(t)
                    /\ result'[t] = "Ok" => HadIndex(t)
  BY <1>1, FrameIndex DEF IndexedAt
<1>2. /\ is_dir(fs, link[t].path)
      /\ \A n \in DOMAIN config.index_files : config.index_files[n] # <<>>
      /\ pc[t] \notin {"missing", "wiki"}
      /\ pc[t] \in Settled => HadIndex(t)
      /\ pc[t] # "done" => result[t] = "none"
  BY <1>1 DEF DemandsIndex, IndexedAt, PlacedAt
<1>3. CASE Start(t)
  <2>1. Metadata(fs, path[t]) = "dir" /\ result[t] = "none"
    BY <1>1, <1>2, <1>3 DEF Start, PlacedAt, is_dir
  <2>2. \/ pc'[t] = "done" /\ result'[t] = "InvalidFilePath"
        \/ pc'[t] = "index" /\ result'[t] = "none"
    BY <1>3, <2>1, Moved DEF Start
  <2>3. QED
    BY <2>2 DEF Settled
<1>4. CASE Index(t)
  <2> DEFINE rel == config.index_files[next[t]]
             p == join(path[t], rel)
  <2>1. next[t] >= 1 /\ result[t] = "none" /\ pc[t] = "index" /\ path[t] = link[t].path
    BY <1>1, <1>2, <1>4 DEF Index, PlacedAt
  <2>2. CASE accept_index(fs, rel, p)
    <3>1. next[t] \in DOMAIN config.index_files
      BY <1>4, <2>1, <2>2, IndexTypes DEF Index
    <3>2. is_file(fs, join(link[t].path, rel))
      BY <1>2, <2>1, <2>2, <3>1 DEF accept_index
    <3>3. HadIndex(t)
      BY <1>1, <3>1, <3>2 DEF HadIndex
    <3>4. pc'[t] = "resolved" /\ result'[t] = "none"
      BY <1>4, <2>1, <2>2, Moved DEF Index
    <3>5. QED
      BY <3>3, <3>4
  <2>3. CASE ~accept_index(fs, rel, p)
    <3>1. pc'[t] = "index" /\ result'[t] = "none"
      BY <1>4, <2>1, <2>3 DEF Index
    <3>2. QED
      BY <3>1 DEF Settled
  <2>4. QED
    BY <2>2, <2>3
<1>5. CASE NoIndex(t)
  <2>1. pc'[t] = "done" /\ result'[t] = "InvalidIndexFile"
    BY <1>5, Moved DEF NoIndex
  <2>2. QED
    BY <2>1 DEF Settled
<1>6. CASE pc[t] \in Settled
  <2>1. \A w \in {"resolved", "itself", "open", "read", "verify"} : w # "missing" /\ w # "wiki"
    OBVIOUS
  <2>2. pc'[t] \notin {"missing", "wiki"}
    <3>1. \/ \E w \in {"open", "itself", "read", "verify"} : GoTo(t, w)
          \/ \E s : Return(t, s)
          \/ pc' = pc
      BY <1>2, <1>6 DEF Step, Start, Fallback, NoFallback, Index, NoIndex, Wiki,
                        Resolved, Open, Read, Verify, Settled
    <3>2. QED
      BY <1>6, <3>1, Moved DEF Settled
  <2>3. QED
    BY <1>2, <1>6, <2>2
<1>7. CASE pc[t] \notin Settled /\ ~Start(t) /\ ~Index(t) /\ ~NoIndex(t)
  BY <1>2, <1>7 DEF Step, Fallback, NoFallback, Wiki, Resolved, Open, Read, Verify, Settled
<1>8. QED
  BY <1>3, <1>4, <1>5, <1>6, <1>7
-----------------------------------------------------------------------------
(* Links to what exists all the time *)

Lasting(t) == LastingFile(t) \/ \E n \in DOMAIN config.index_files : LastingIndex(t, n)

StraightAt(t) ==
    /\ LastingFile(t) => /\ pc[t] \notin {"missing", "index", "wiki", "itself"}
                         /\ path[t] = link[t].path
    /\ \A n \in DOMAIN config.index_files : LastingIndex(t, n) =>
           /\ pc[t] \notin {"missing", "wiki"}
           /\ pc[t] = "index" => next[t] <= n
    /\ Lasting(t) => result[t] \in {"none", "Ok", "InvalidFragment"}

LEMMA FrameLasting ==
    ASSUME Frame, NEW t \in Calls
    PROVE  /\ LastingFile(t)' => LastingFile(t)
           /\ \A n : LastingIndex(t, n)' => LastingIndex(t, n)
           /\ Lasting(t)' => Lasting(t)
<1>1. LastingFile(t)' => LastingFile(t)
  BY DEF LastingFile, Frame
<1>2. ASSUME NEW n, LastingIndex(t, n)' PROVE LastingIndex(t, n)
  BY <1>2 DEF LastingIndex, Frame
<1>3. config' = config
  BY DEF Frame
<1>4. QED
  BY <1>1, <1>2, <1>3 DEF Lasting

LEMMA SameStraight ==
    ASSUME Frame, NEW t \in Calls, Same(t), StraightAt(t)
    PROVE  StraightAt(t)'
BY FrameLasting DEF StraightAt, Same, Frame

LEMMA FileStraight ==
    ASSUME TypeOK, Placed, NEW t \in Calls, StraightAt(t), Step(t), LastingFile(t)
    PROVE  /\ pc'[t] \notin {"missing", "index", "wiki", "itself"}
           /\ path'[t] = link[t].path
           /\ result'[t] \in {"none", "Ok", "InvalidFragment"}
<1>1. /\ fs \in past /\ PlacedAt(t) /\ link[t].mapped /\ is_file(fs, link[t].path)
      /\ pc[t] \notin {"missing", "index", "wiki", "itself"} /\ path[t] = link[t].path
      /\ pc[t] # "done" => result[t] = "none"
  BY DEF TypeOK, Placed, PlacedAt, LastingFile, StraightAt
<1>2. Metadata(fs, path[t]) = "file"
  BY <1>1 DEF is_file
<1>3. CASE Start(t)
  <2>1. GoTo(t, "resolved") /\ path' = path /\ result[t] = "none"
    BY <1>1, <1>2, <1>3 DEF Start
  <2>2. QED
    BY <1>1, <2>1, Moved
<1>4. CASE Resolved(t)
  <2>1. GoTo(t, "open") /\ path' = path /\ result[t] = "none"
    BY <1>1, <1>2, <1>4 DEF Resolved, is_dir
  <2>2. QED
    BY <1>1, <2>1, Moved
<1>5. CASE Open(t) \/ Read(t) \/ Verify(t)
  <2>1. /\ path' = path
        /\ \/ pc'[t] = "done" /\ result'[t] \in {"Ok", "InvalidFragment"}
           \/ pc'[t] \in {"read", "verify"} /\ result'[t] = "none"
    BY <1>1, <1>5, Moved DEF Open, Read, Verify
  <2>2. QED
    BY <1>1, <2>1
<1>6. CASE Fallback(t) \/ NoFallback(t) \/ Index(t) \/ NoIndex(t) \/ Wiki(t)
  BY <1>1, <1>6 DEF Fallback, NoFallback, Index, NoIndex, Wiki
<1>7. QED
  BY <1>3, <1>4, <1>5, <1>6 DEF Step

LEMMA IndexStraight ==
    ASSUME TypeOK, Placed, NEW t \in Calls, StraightAt(t), Step(t),
           NEW n \in DOMAIN config.index_files, LastingIndex(t, n)
    PROVE  /\ pc'[t] \notin {"missing", "wiki"}
           /\ pc'[t] = "index" => next'[t] <= n
           /\ result'[t] \in {"none", "Ok", "InvalidFragment"}
<1>1. /\ fs \in past /\ PlacedAt(t) /\ link[t].mapped /\ is_dir(fs, link[t].path)
      /\ pc[t] \notin {"missing", "wiki"}
      /\ pc[t] = "index" => next[t] <= n
      /\ pc[t] # "done" => result[t] = "none"
      /\ next \in [Calls -> Nat] /\ config \in Configs
  BY DEF TypeOK, Placed, PlacedAt, LastingIndex, StraightAt
<1>2. /\ Len(config.index_files) \in Nat
      /\ n \in Nat /\ 1 <= n /\ n <= Len(config.index_files)
  <2>1. config.index_files \in Seq(SomePath)
    BY <1>1, ConfigTypes
  <2>2. QED
    BY <2>1, LenProperties
<1>3. CASE Start(t)
  <2>1. path[t] = link[t].path /\ result[t] = "none"
    BY <1>1, <1>3 DEF Start, PlacedAt
  <2>2. GoTo(t, "index") /\ next' = [next EXCEPT ![t] = 1]
    BY <1>1, <1>3, <2>1 DEF Start, is_dir
  <2>3. QED
    BY <1>1, <1>2, <2>1, <2>2, Moved
<1>4. CASE Index(t)
  <2> DEFINE rel == config.index_files[next[t]]
             p == join(path[t], rel)
  <2>1. result[t] = "none" /\ pc[t] = "index" /\ path[t] = link[t].path /\ next[t] <= n
    BY <1>1, <1>4 DEF Index, PlacedAt
  <2>2. CASE accept_index(fs, rel, p)
    <3>1. pc'[t] = "resolved" /\ result'[t] = "none"
      BY <1>4, <2>1, <2>2, Moved DEF Index
    <3>2. QED
      BY <3>1
  <2>3. CASE ~accept_index(fs, rel, p)
    <3>1. next' = [next EXCEPT ![t] = next[t] + 1] /\ UNCHANGED <<pc, result>>
      BY <1>4, <2>3 DEF Index
    <3>2. next[t] # n
      <4>1. SUFFICES ASSUME next[t] = n PROVE FALSE
        OBVIOUS
      <4>2. rel = <<>> => is_dir(fs, p)
        <5>1. link[t].path \in SomePath /\ Named(link[t].path) /\ fs \in FileSystems
          BY LinkTypes DEF TypeOK
        <5>2. QED
          BY <1>1, <2>1, <5>1, DirItself
      <4>3. rel # <<>> => is_file(fs, p)
        BY <1>1, <2>1, <4>1 DEF LastingIndex
      <4>4. QED
        BY <2>3, <4>2, <4>3 DEF accept_index
    <3>3. next'[t] = next[t] + 1 /\ next[t] \in Nat
      BY <1>1, <3>1
    <3>4. next'[t] <= n
      BY <1>2, <2>1, <3>2, <3>3
    <3>5. QED
      BY <2>1, <3>1, <3>4
  <2>4. QED
    BY <2>2, <2>3
<1>5. CASE NoIndex(t)
  <2>1. next[t] <= n /\ next[t] > Len(config.index_files) /\ next[t] \in Nat
    BY <1>1, <1>5 DEF NoIndex
  <2>2. QED
    BY <1>2, <2>1
<1>6. CASE Fallback(t) \/ NoFallback(t)
  <2>1. result[t] = "none" /\ pc[t] = "itself"
    BY <1>1, <1>6 DEF Fallback, NoFallback
  <2>2. \/ GoTo(t, "open")
        \/ UNCHANGED <<pc, result>>
    BY <1>6, <2>1, Zenon DEF Fallback, NoFallback
  <2>3. QED
    BY <2>1, <2>2, Moved
<1>7. CASE Resolved(t)
  <2>1. result[t] = "none" /\ \E w \in {"itself", "open"} : GoTo(t, w)
    BY <1>1, <1>7 DEF Resolved
  <2>2. QED
    BY <2>1, Moved
<1>8. CASE Open(t) \/ Read(t) \/ Verify(t)
  <2>1. \/ pc'[t] = "done" /\ result'[t] \in {"Ok", "InvalidFragment"}
        \/ pc'[t] \in {"read", "verify"} /\ result'[t] = "none"
    BY <1>1, <1>8, Moved DEF Open, Read, Verify
  <2>2. QED
    BY <2>1
<1>9. CASE Wiki(t)
  BY <1>1, <1>9 DEF Wiki
<1>10. QED
  BY <1>3, <1>4, <1>5, <1>6, <1>7, <1>8, <1>9 DEF Step

LEMMA StraightStep ==
    ASSUME TypeOK, Placed, NEW t \in Calls, StraightAt(t), Step(t)
    PROVE  StraightAt(t)'
<1>1. Frame /\ link' = link /\ config' = config
  BY StepFrame DEF Frame
<1>2. LastingFile(t)' => /\ pc'[t] \notin {"missing", "index", "wiki", "itself"}
                         /\ path'[t] = link[t].path
                         /\ result'[t] \in {"none", "Ok", "InvalidFragment"}
  BY <1>1, FrameLasting, FileStraight
<1>3. \A n \in DOMAIN config.index_files : LastingIndex(t, n)' =>
           /\ pc'[t] \notin {"missing", "wiki"}
           /\ pc'[t] = "index" => next'[t] <= n
           /\ result'[t] \in {"none", "Ok", "InvalidFragment"}
  BY <1>1, FrameLasting, IndexStraight
<1>4. Lasting(t)' => result'[t] \in {"none", "Ok", "InvalidFragment"}
  BY <1>1, <1>2, <1>3 DEF Lasting
<1>5. QED
  BY <1>1, <1>2, <1>3, <1>4 DEF StraightAt

-----------------------------------------------------------------------------
(* Anchors *)

\* What was read, and what it says of the anchor, from one state of a file.
ReadAt(t) ==
    pc[t] = "verify" =>
        \E v \in past : /\ is_file(v, path[t]) /\ v[path[t]].utf8
                        /\ input[t].ids = v[path[t]].ids

VerdictAt(t) ==
    AnchorAsked(t) /\ ~Undecodable(t) /\ config.check_anchor_fragments =>
        /\ /\ result[t] = "InvalidFragment" /\ link[t].texts = {}
           => \/ \E v \in past : is_dir(v, path[t])
              \/ \E v \in past : \E q \in DOMAIN v : Shows(link[t].path, v, q) /\ Lacks(t, v, q)
        /\ /\ result[t] = "Ok"
           /\ \A v \in past : is_file(v, path[t]) /\ v[path[t]].utf8
           => \E v \in past : \E q \in DOMAIN v : Shows(link[t].path, v, q) /\ ~Lacks(t, v, q)

LEMMA FrameShows ==
    ASSUME Frame
    PROVE  \A p, v, q : Shows(p, v, q)' <=> Shows(p, v, q)
BY FrameLeads DEF Shows

LEMMA SameRead ==
    ASSUME Frame, NEW t \in Calls, Same(t), ReadAt(t)
    PROVE  ReadAt(t)'
BY DEF Frame, Same, ReadAt

LEMMA SameVerdict ==
    ASSUME Frame, NEW t \in Calls, Same(t), VerdictAt(t)
    PROVE  VerdictAt(t)'
<1>1. /\ link' = link /\ config' = config /\ past \subseteq past'
      /\ path'[t] = path[t] /\ result'[t] = result[t]
  BY DEF Frame, Same
<1>2. AnchorAsked(t)' <=> AnchorAsked(t)
  BY <1>1 DEF AnchorAsked
<1>3. Undecodable(t)' <=> Undecodable(t)
  BY <1>1, <1>2 DEF Undecodable
<1>4. \A v, q : Lacks(t, v, q)' <=> Lacks(t, v, q)
  BY <1>1 DEF Lacks
<1>5. \A v, q : Shows(link[t].path, v, q)' <=> Shows(link[t].path, v, q)
  BY <1>1, FrameShows DEF Shows, Frame, Leads
<1>6. QED
  BY <1>1, <1>2, <1>3, <1>4, <1>5 DEF VerdictAt

LEMMA SameCache ==
    ASSUME Frame, cache' = cache, CacheSound
    PROVE  CacheSound'
BY FrameShows DEF CacheSound, Frame

LEMMA ReadStep ==
    ASSUME TypeOK, NEW t \in Calls, Step(t)
    PROVE  ReadAt(t)'
<1>1. /\ fs \in past /\ past' = past
      /\ input \in [Calls -> [ids : SUBSET Ids, texts : SUBSET Phrases]]
  BY StepFrame DEF TypeOK
<1>2. CASE Read(t)
  <2>1. path' = path
    BY <1>2 DEF Read
  <2>2. CASE is_file(fs, path[t]) /\ fs[path[t]].utf8
    <3>1. input'[t].ids = fs[path[t]].ids
      BY <1>1, <1>2, <2>2 DEF Read
    <3>2. QED
      BY <1>1, <2>1, <2>2, <3>1 DEF ReadAt
  <2>3. CASE ~(is_file(fs, path[t]) /\ fs[path[t]].utf8)
    <3>1. pc'[t] = "done"
      BY <1>2, <2>3, Moved DEF Read
    <3>2. QED
      BY <3>1 DEF ReadAt
  <2>4. QED
    BY <2>2, <2>3
<1>3. CASE ~Read(t)
  <2>1. \/ \E w \in Places \ {"verify"} : GoTo(t, w)
        \/ \E s : Return(t, s)
        \/ pc' = pc /\ pc[t] # "verify"
    <3>1. CASE Fallback(t) \/ NoFallback(t) \/ Index(t) \/ NoIndex(t)
      BY <3>1 DEF Fallback, NoFallback, Index, NoIndex, Places
    <3>2. CASE Start(t) \/ Wiki(t) \/ Resolved(t) \/ Open(t) \/ Verify(t)
      BY <3>2 DEF Start, Wiki, Resolved, Open, Verify, Places
    <3>3. QED
      BY <1>3, <3>1, <3>2 DEF Step
  <2>2. pc'[t] # "verify"
    BY <2>1, Moved
  <2>3. QED
    BY <2>2 DEF ReadAt
<1>4. QED
  BY <1>2, <1>3

\* Whichever file's fragments a call goes by, the link leads to it.
LEMMA FragmentsShown ==
    ASSUME TypeOK, Placed, CacheSound, NEW t \in Calls, ReadAt(t), pc[t] = "verify"
    PROVE  \E v \in past : \E q \in DOMAIN v :
               Shows(link[t].path, v, q) /\ Fragments(t) = v[q].ids
<1>1. CASE key(t) \in DOMAIN cache
  BY <1>1 DEF CacheSound, Fragments, key
<1>2. CASE key(t) \notin DOMAIN cache
  <2>1. PICK v \in past : /\ is_file(v, path[t]) /\ v[path[t]].utf8
                          /\ input[t].ids = v[path[t]].ids
    BY DEF ReadAt
  <2>2. path[t] \in SomePath /\ v \in FileSystems
    BY DEF TypeOK, SomePath
  <2>3. path[t] \in DOMAIN v
    BY <2>1, <2>2, FileNamed
  <2>4. Leads(link[t].path, path[t])
    BY DEF Placed, PlacedAt, Settled
  <2>5. QED
    BY <1>2, <2>1, <2>3, <2>4 DEF Shows, Fragments
<1>3. QED
  BY <1>1, <1>2

LEMMA CacheStep ==
    ASSUME TypeOK, Placed, CacheSound, NEW t \in Calls, ReadAt(t), Step(t)
    PROVE  CacheSound'
<1>1. Frame
  BY StepFrame
<1>2. CASE UNCHANGED cache
  BY <1>1, <1>2, SameCache
<1>3. CASE ~UNCHANGED cache
  <2>1. Verify(t)
    BY <1>3 DEF Step, Start, Fallback, NoFallback, Index, NoIndex, Wiki, Resolved,
                Open, Read
  <2>2. /\ cache' = [k \in DOMAIN cache \cup {key(t)} |->
                        IF k = key(t) THEN Fragments(t) ELSE cache[k]]
        /\ pc[t] = "verify"
    BY <1>3, <2>1 DEF Verify
  <2>3. \A k \in DOMAIN cache' :
            \E v \in past : \E q \in DOMAIN v : Shows(k, v, q) /\ cache'[k] = v[q].ids
    <3>1. \E v \in past : \E q \in DOMAIN v :
              Shows(key(t), v, q) /\ Fragments(t) = v[q].ids
      BY <2>2, FragmentsShown DEF key
    <3>2. QED
      BY <2>2, <3>1 DEF CacheSound
  <2>4. QED
    BY <1>1, <2>3, FrameShows DEF CacheSound, Frame
<1>4. QED
  BY <1>2, <1>3

LEMMA VerdictStep ==
    ASSUME TypeOK, Placed, CacheSound, NEW t \in Calls, ReadAt(t), VerdictAt(t), Step(t)
    PROVE  VerdictAt(t)'
<1>1. /\ fs \in past /\ past' = past /\ link' = link /\ config' = config
      /\ pc[t] # "done" => result[t] = "none"
  BY StepFrame DEF TypeOK, Frame, Placed, PlacedAt
<1>2. CASE Verify(t)
  <2>1. path' = path /\ pc[t] = "verify"
    BY <1>2 DEF Verify
  <2>2. result'[t] = IF \/ Undecodable(t)
                        \/ (AnchorAsked(t) => AnchorFound(t)) /\ TextsFound(t)
                     THEN "Ok" ELSE "InvalidFragment"
    BY <1>2, Moved DEF Verify
  <2> PICK v \in past :
          \E q \in DOMAIN v : Shows(link[t].path, v, q) /\ Fragments(t) = v[q].ids
    BY <2>1, FragmentsShown
  <2>3. PICK q \in DOMAIN v : Shows(link[t].path, v, q) /\ Fragments(t) = v[q].ids
    OBVIOUS
  <2>4. AnchorFound(t) <=> ~Lacks(t, v, q)
    BY <2>3 DEF AnchorFound, Lacks
  <2>5. ASSUME AnchorAsked(t), ~Undecodable(t), result'[t] = "InvalidFragment",
               link[t].texts = {}
        PROVE  Lacks(t, v, q)
    <3>1. TextsFound(t)
      BY <2>5 DEF TextsFound
    <3>2. QED
      BY <2>2, <2>4, <2>5, <3>1
  <2>6. ASSUME AnchorAsked(t), ~Undecodable(t), result'[t] = "Ok"
        PROVE  ~Lacks(t, v, q)
    BY <2>2, <2>4, <2>6
  <2>7. AnchorAsked(t)' <=> AnchorAsked(t)
    BY <1>1, <2>1 DEF AnchorAsked
  <2>8. Undecodable(t)' <=> Undecodable(t)
    BY <1>1, <2>7 DEF Undecodable
  <2>9. Lacks(t, v, q)' <=> Lacks(t, v, q)
    BY <1>1, <2>1 DEF Lacks
  <2>10. Shows(link[t].path, v, q)'
    BY <1>1, <2>3, StepFrame, FrameShows DEF Shows, Frame, Leads
  <2>11. QED
    BY <1>1, <2>5, <2>6, <2>7, <2>8, <2>9, <2>10 DEF VerdictAt
<1>3. CASE Open(t)
  <2>1. /\ path' = path /\ result[t] = "none"
        /\ \/ result'[t] = "Ok" /\ (~config.check_anchor_fragments \/ link[t].id = "")
           \/ result'[t] = "InvalidFragment" /\ is_dir(fs, path[t])
           \/ result'[t] = "none"
    BY <1>1, <1>3, Moved DEF Open
  <2>2. QED
    BY <1>1, <2>1 DEF VerdictAt, AnchorAsked
<1>4. CASE Read(t)
  <2>1. /\ path' = path
        /\ \/ result'[t] = "Ok" /\ ~(is_file(fs, path[t]) /\ fs[path[t]].utf8)
           \/ result'[t] = "none"
    BY <1>1, <1>4, Moved DEF Read
  <2>2. QED
    BY <1>1, <2>1 DEF VerdictAt
<1>5. CASE ~Verify(t) /\ ~Open(t) /\ ~Read(t)
  <2>1. \/ \E w : GoTo(t, w)
        \/ \E s \in Statuses \ {"Ok", "InvalidFragment"} : Return(t, s)
        \/ UNCHANGED result
    <3>1. CASE Fallback(t) \/ NoFallback(t) \/ Index(t) \/ NoIndex(t)
      BY <3>1 DEF Fallback, NoFallback, Index, NoIndex, Statuses
    <3>2. CASE Start(t) \/ Wiki(t) \/ Resolved(t)
      BY <3>2 DEF Start, Wiki, Resolved, Statuses
    <3>3. QED
      BY <1>5, <3>1, <3>2 DEF Step
  <2>2. pc[t] # "done"
    BY <1>5 DEF Step, Start, Fallback, NoFallback, Index, NoIndex, Wiki, Resolved
  <2>3. result'[t] \notin {"Ok", "InvalidFragment"}
    BY <1>1, <2>1, <2>2, Moved
  <2>4. QED
    BY <2>3 DEF VerdictAt
<1>6. QED
  BY <1>2, <1>3, <1>4, <1>5
-----------------------------------------------------------------------------
(* The invariant *)

\* It is one invariant per call, and one of the cache.
CallOK(t) ==
    /\ PlacedAt(t)
    /\ result[t] = "Ok" => Leads(link[t].path, path[t]) /\ Found(t)
    /\ IndexedAt(t) /\ StraightAt(t) /\ ReadAt(t) /\ VerdictAt(t)

LEMMA PerCall == IInv <=> TypeOK /\ CacheSound /\ \A t \in Calls : CallOK(t)
<1>1. ByIndexFile /\ DirectoryNeedsIndex <=> \A t \in Calls : IndexedAt(t)
  BY DEF ByIndexFile, DirectoryNeedsIndex, IndexedAt
<1>2. Straight /\ ExistingAccepted <=> \A t \in Calls : StraightAt(t)
  BY Zenon DEF Straight, ExistingAccepted, StraightAt, Lasting
<1>3. InputSound <=> \A t \in Calls : ReadAt(t)
  BY DEF InputSound, ReadAt
<1>4. AnchorVerdicts <=> \A t \in Calls : VerdictAt(t)
  BY Zenon DEF AnchorVerdicts, VerdictAt
<1>5. AcceptedHasTarget <=>
          \A t \in Calls : result[t] = "Ok" => Leads(link[t].path, path[t]) /\ Found(t)
  BY DEF AcceptedHasTarget
<1>6. QED
  BY <1>1, <1>2, <1>3, <1>4, <1>5, Zenon DEF IInv, Placed, CallOK

LEMMA PerCallNext == IInv' <=> TypeOK' /\ CacheSound' /\ \A t \in Calls : CallOK(t)'
<1>1. IInv <=> TypeOK /\ CacheSound /\ \A t \in Calls : CallOK(t)
  BY PerCall
<1>2. (IInv <=> TypeOK /\ CacheSound /\ \A t \in Calls : CallOK(t))'
  BY <1>1, PTL
<1>3. QED
  BY <1>2

LEMMA SameCall ==
    ASSUME Frame, NEW t \in Calls, Same(t), CallOK(t)
    PROVE  CallOK(t)'
<1>1. /\ PlacedAt(t)
      /\ result[t] = "Ok" => Leads(link[t].path, path[t]) /\ Found(t)
      /\ IndexedAt(t) /\ StraightAt(t) /\ ReadAt(t) /\ VerdictAt(t)
  BY DEF CallOK
<1>2. /\ PlacedAt(t)'
      /\ result'[t] = "Ok" => Leads(link[t].path, path[t])' /\ Found(t)'
      /\ IndexedAt(t)' /\ StraightAt(t)' /\ ReadAt(t)' /\ VerdictAt(t)'
  BY <1>1, SamePlace, SameIndexed, SameStraight, SameRead, SameVerdict
<1>3. QED
  BY <1>2 DEF CallOK

LEMMA InitIInv == Init => IInv
<1> SUFFICES ASSUME Init PROVE IInv
  OBVIOUS
<1>1. TypeOK
  <2>1. \A n \in DOMAIN index : /\ index[n] \in Paths /\ Last(index[n]) = n
                              /\ \E v \in past : index[n] \in DOMAIN v
    <3>1. CASE config.wikilinks
      <4>1. index \in Indexes(fs)
        BY <3>1 DEF Init
      <4>2. Walked(fs) \subseteq Paths /\ Walked(fs) \subseteq DOMAIN fs /\ fs \in past
        BY FileCheckAssumption DEF Init, Walked
      <4>3. QED
        BY <4>1, <4>2 DEF Indexes
    <3>2. CASE ~config.wikilinks
      BY <3>2 DEF Init
    <3>3. QED
      BY <3>1, <3>2
  <2>2. \A t \in Calls : link[t].path \in SomePath
    BY LinkTypes DEF Init
  <2>3. NoInput \in [ids : SUBSET Ids, texts : SUBSET Phrases]
    BY DEF NoInput
  <2>4. QED
    BY <2>1, <2>2, <2>3 DEF Init, TypeOK, SomePath, Places
<1>2. CacheSound
  BY DEF Init, CacheSound
<1>3. ASSUME NEW t \in Calls PROVE CallOK(t)
  <2>1. /\ pc[t] = "start" /\ result[t] = "none" /\ path[t] = link[t].path
        /\ buf[t] = path[t] /\ link[t] \in Links
    BY DEF Init
  <2>2. Named(link[t].path)
    BY <2>1, LinkTypes
  <2>3. PlacedAt(t)
    BY <2>1, <2>2 DEF PlacedAt, Settled
  <2>4. IndexedAt(t) /\ StraightAt(t) /\ ReadAt(t) /\ VerdictAt(t)
    BY <2>1 DEF IndexedAt, StraightAt, ReadAt, VerdictAt, Settled
  <2>5. QED
    BY <2>1, <2>3, <2>4 DEF CallOK
<1>4. QED
  BY <1>1, <1>2, <1>3, PerCall

LEMMA CallStep == ASSUME IInv, NEW t \in Calls, Step(t) PROVE IInv'
<1>1. /\ TypeOK /\ Placed /\ AcceptedHasTarget /\ CacheSound
  BY DEF IInv
<1>2. \A u \in Calls : CallOK(u)
  BY PerCall
<1>3. PlacedAt(t) /\ IndexedAt(t) /\ StraightAt(t) /\ ReadAt(t) /\ VerdictAt(t)
  BY <1>2 DEF CallOK
<1>4. TypeOK' /\ CacheSound'
  BY <1>1, <1>3, TypeStep, CacheStep
<1>5. CallOK(t)'
  <2>1. /\ PlacedAt(t)'
        /\ result'[t] = "Ok" => Leads(link[t].path, path[t])' /\ Found(t)'
    BY <1>1, PlaceStep
  <2>2. IndexedAt(t)' /\ StraightAt(t)' /\ ReadAt(t)' /\ VerdictAt(t)'
    BY <1>1, <1>3, IndexedStep, StraightStep, ReadStep, VerdictStep
  <2>3. QED
    BY <2>1, <2>2 DEF CallOK
<1>6. ASSUME NEW u \in Calls, u # t PROVE CallOK(u)'
  BY <1>1, <1>2, <1>6, StepFrame, SameCall
<1>7. QED
  BY <1>4, <1>5, <1>6, PerCallNext

\* Edits, and stuttering, are steps in which nothing happens to any call.
LEMMA QuietStep ==
    ASSUME IInv, Frame, cache' = cache, \A u \in Calls : Same(u), TypeOK'
    PROVE  IInv'
<1>1. CacheSound /\ \A u \in Calls : CallOK(u)
  BY PerCall
<1>2. CacheSound' /\ \A u \in Calls : CallOK(u)'
  BY <1>1, SameCache, SameCall
<1>3. QED
  BY <1>2, PerCallNext

LEMMA EditStep == ASSUME IInv, Edit PROVE IInv'
<1>1. Frame /\ cache' = cache /\ \A u \in Calls : Same(u)
  BY DEF Edit, Frame, Same
<1>2. TypeOK'
  BY DEF IInv, Edit, TypeOK
<1>3. QED
  BY <1>1, <1>2, QuietStep

LEMMA StutterStep == ASSUME IInv, UNCHANGED vars PROVE IInv'
<1>1. Frame /\ cache' = cache /\ \A u \in Calls : Same(u)
  BY DEF vars, Frame, Same
<1>2. TypeOK'
  BY DEF IInv, TypeOK, vars
<1>3. QED
  BY <1>1, <1>2, QuietStep

\* The strengthened invariant of FileChecker::check holds in every run, whatever
\* is edited while the calls make their system calls.
THEOREM Invariant == Spec => []IInv
<1>1. Init => IInv
  BY InitIInv
<1>2. IInv /\ [Next]_vars => IInv'
  <2> SUFFICES ASSUME IInv, [Next]_vars PROVE IInv'
    OBVIOUS
  <2>1. ASSUME NEW t \in Calls, Step(t) PROVE IInv'
    BY <2>1, CallStep
  <2>2. CASE Edit
    BY <2>2, EditStep
  <2>3. CASE AllDone \/ UNCHANGED vars
    <3>1. UNCHANGED vars
      BY <2>3 DEF AllDone
    <3>2. QED
      BY <3>1, StutterStep
  <2>4. QED
    BY <2>1, <2>2, <2>3 DEF Next
<1>3. QED
  BY <1>1, <1>2, PTL DEF Spec

\* resolve_local_path returns only what was there, and what the link leads to.
THEOREM TargetTheorem == Spec => []AcceptedHasTarget
<1>1. IInv => AcceptedHasTarget
  BY DEF IInv
<1>2. QED
  BY <1>1, Invariant, PTL

\* apply_index_files is not bypassed by extensions or wikilinks.
THEOREM DirectoryTheorem == Spec => []DirectoryNeedsIndex
<1>1. IInv => DirectoryNeedsIndex
  BY DEF IInv
<1>2. QED
  BY <1>1, Invariant, PTL

\* A link to what exists all the time is never reported as a missing file.
THEOREM ExistingTheorem == Spec => []ExistingAccepted
<1>1. IInv => ExistingAccepted
  BY DEF IInv
<1>2. QED
  BY <1>1, Invariant, PTL

\* The verdict of FragmentChecker::check is that of a file the link leads to,
\* whichever call filled the cache.
THEOREM AnchorTheorem == Spec => []AnchorVerdicts
<1>1. IInv => AnchorVerdicts
  BY DEF IInv
<1>2. QED
  BY <1>1, Invariant, PTL
=============================================================================
