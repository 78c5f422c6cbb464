--------------------------- MODULE StartupProofs ---------------------------
(***************************************************************************)
(* Proofs about the start of lychee, for whatever it is started with: the  *)
(* selector of status codes; the options, from the command line through    *)
(* any number of configuration files and lists of patterns, with the exit  *)
(* codes of the faulty ones; the client that is made of them; and the pool *)
(* of hosts, with the headers that requests go out with.                   *)
(***************************************************************************)
EXTENDS HostPool, SequenceTheorems, WellFoundedInduction, TLAPS

(* The selector of status codes *)

\* Ranges are valid, every one begins with one that was asked for and holds only codes
\* that were, and it holds all of them unless one engulfs another.
FirstAsked(r) == \E s \in asked : s.start = r.start /\ s.end <= r.end
NoneEngulfed == \A r, s \in asked : ~Engulfs(r, s)
CodesInv ==
    /\ ranges \in Seq(StatusRange) /\ asked \subseteq StatusRange
    /\ \A i \in DOMAIN ranges : FirstAsked(ranges[i])
    /\ \A i \in DOMAIN ranges, code \in MIN .. MAX : contains(ranges[i], code) => Asked(code)
    /\ NoneEngulfed => \A r \in asked, code \in MIN .. MAX : contains(r, code) => Selected(code)

\* What merging makes of two ranges.
LEMMA MergeRange ==
    ASSUME NEW L \in StatusRange, NEW r \in StatusRange, Merges(L, r)
    PROVE  LET m == merge_range(L, r) IN
           /\ m \in StatusRange
           /\ \A code \in MIN .. MAX : contains(m, code) => contains(L, code) \/ contains(r, code)
           /\ (m.start = L.start /\ L.end <= m.end) \/ (m.start = r.start /\ r.end <= m.end)
           /\ ~(r.start < L.start /\ L.end <= r.end) =>
                  \A code \in MIN .. MAX : contains(L, code) \/ contains(r, code) => contains(m, code)
<1>1. /\ L.start \in Nat /\ L.end \in Nat /\ r.start \in Nat /\ r.end \in Nat
      /\ MIN <= L.start /\ L.start <= L.end /\ L.end <= MAX
      /\ MIN <= r.start /\ r.start <= r.end /\ r.end <= MAX
      /\ MIN \in Nat /\ MAX \in Nat
      /\ L = [start |-> L.start, end |-> L.end]
  BY CodesAssumption DEF StatusRange
<1>2. CASE EndOverlaps(L, r)
  <2>1. merge_range(L, r) = [start |-> L.start, end |-> r.end]
    BY <1>1, <1>2 DEF merge_range
  <2>2. L.end >= r.start /\ r.end >= L.end
    BY <1>2 DEF EndOverlaps
  <2>3. [start |-> L.start, end |-> r.end] \in StatusRange
    BY <1>1, <2>2 DEF StatusRange
  <2>4. QED
    BY <1>1, <2>1, <2>2, <2>3 DEF contains
<1>3. CASE ~EndOverlaps(L, r)
  <2>1. merge_range(L, r) = [start |-> r.start, end |-> L.end]
    BY <1>1, <1>3 DEF merge_range
  <2>2. L.start <= r.end /\ r.start <= L.start
    BY <1>3 DEF Merges, StartOverlaps
  <2>3. ~(L.end >= r.start /\ r.end >= L.end)
    BY <1>3 DEF EndOverlaps
  <2>4. r.end < L.end
    BY <1>1, <2>2, <2>3
  <2>5. [start |-> r.start, end |-> L.end] \in StatusRange
    BY <1>1, <2>2 DEF StatusRange
  <2>6. QED
    BY <1>1, <2>1, <2>2, <2>4, <2>5 DEF contains
<1>4. QED
  BY <1>2, <1>3

Adds(r) == ranges' = add_range(ranges, r)

\* A range is added, be it merged with the last one or not.
LEMMA AddRange ==
    ASSUME CodesInv, NEW r \in StatusRange, Adds(r), asked' = asked \cup {r}
    PROVE  CodesInv'
<1> DEFINE n == Len(ranges)
           L == ranges[n]
<1>1. /\ ranges \in Seq(StatusRange) /\ n \in Nat /\ DOMAIN ranges = 1 .. n
      /\ \A i \in 1 .. n : ranges[i] \in StatusRange
      /\ asked \subseteq StatusRange /\ asked' \subseteq StatusRange
  BY LenProperties, ElementOfSeq DEF CodesInv
<1>2. \A s \in asked : s \in asked'
  OBVIOUS
<1>3. r \in asked'
  OBVIOUS
<1>4. NoneEngulfed' => NoneEngulfed
  BY <1>2 DEF NoneEngulfed
<1>5. ASSUME NEW code, Asked(code) PROVE Asked(code)'
  BY <1>2, <1>5 DEF Asked
<1>6. ASSUME NEW code, contains(r, code) PROVE Asked(code)'
  BY <1>3, <1>6, SMTT(30) DEF Asked
<1>7. CASE ranges # <<>> /\ Merges(L, r)
  <2> DEFINE m == merge_range(L, r)
  <2>1. ranges' = [ranges EXCEPT ![n] = m]
    BY <1>7 DEF Adds, add_range
  <2>2. n \in 1 .. n /\ L \in StatusRange
    BY <1>1, <1>7, EmptySeq
  <2>3. /\ m \in StatusRange
        /\ \A code \in MIN .. MAX : contains(m, code) => contains(L, code) \/ contains(r, code)
        /\ (m.start = L.start /\ L.end <= m.end) \/ (m.start = r.start /\ r.end <= m.end)
        /\ ~(r.start < L.start /\ L.end <= r.end) =>
              \A code \in MIN .. MAX : contains(L, code) \/ contains(r, code) => contains(m, code)
    BY <1>7, <2>2, MergeRange, SMTT(30)
  <2> HIDE DEF L, m
  <2>4. /\ ranges' \in Seq(StatusRange) /\ DOMAIN ranges' = 1 .. n
        /\ ranges'[n] = m /\ \A i \in 1 .. n : i # n => ranges'[i] = ranges[i]
    BY <1>1, <2>1, <2>2, <2>3, ExceptSeq
  <2>5. ASSUME NEW i \in 1 .. n PROVE FirstAsked(ranges[i])
    BY <1>1, <2>5 DEF CodesInv
  <2>6. ASSUME NEW i \in 1 .. n PROVE FirstAsked(ranges[i])'
    <3>1. CASE i # n
      BY <1>2, <2>4, <2>5, <3>1 DEF FirstAsked
    <3>2. CASE i = n
      <4>1. PICK s \in asked : s.start = L.start /\ s.end <= L.end
        BY <2>2, <2>5 DEF FirstAsked, L
      <4>2. s \in StatusRange /\ s.end \in Nat /\ L.end \in Nat /\ m.end \in Nat
        BY <1>1, <2>2, <2>3, <4>1 DEF StatusRange
      <4>3. CASE m.start = L.start /\ L.end <= m.end
        BY <1>2, <2>4, <3>2, <4>1, <4>2, <4>3 DEF FirstAsked
      <4>4. CASE m.start = r.start /\ r.end <= m.end
        BY <1>3, <2>4, <3>2, <4>4 DEF FirstAsked
      <4>5. QED
        BY <2>3, <4>3, <4>4
    <3>3. QED
      BY <3>1, <3>2
  <2>7. ASSUME NEW i \in 1 .. n, NEW code \in MIN .. MAX, contains(ranges'[i], code)
        PROVE  Asked(code)'
    <3>1. \A j \in 1 .. n : contains(ranges[j], code) => Asked(code)
      BY <1>1 DEF CodesInv
    <3>2. CASE i # n
      BY <1>5, <2>4, <2>7, <3>1, <3>2
    <3>3. CASE i = n
      BY <1>5, <1>6, <2>2, <2>3, <2>4, <2>7, <3>1, <3>3 DEF L
    <3>4. QED
      BY <3>2, <3>3
  <2>8. ASSUME NoneEngulfed', NEW s \in asked', NEW code \in MIN .. MAX, contains(s, code)
        PROVE  Selected(code)'
    <3>1. PICK t \in asked : t.start = L.start /\ t.end <= L.end
      BY <2>2, <2>5 DEF FirstAsked, L
    <3>2. ~(r.start < L.start /\ L.end <= r.end)
      <4>1. ~(r.start < t.start /\ t.end <= r.end)
        BY <1>2, <1>3, <2>8, <3>1 DEF NoneEngulfed, Engulfs
      <4>2. t.end \in Nat /\ L.end \in Nat /\ r.end \in Nat
        BY <1>1, <2>2, <3>1 DEF StatusRange
      <4>3. QED
        BY <3>1, <4>1, <4>2
    <3>3. contains(L, code) \/ contains(r, code) => contains(ranges'[n], code)
      BY <2>3, <2>4, <3>2
    <3>4. contains(ranges'[n], code) => Selected(code)'
      BY <2>2, <2>4 DEF Selected
    <3>5. CASE s = r
      BY <2>8, <3>3, <3>4, <3>5
    <3>6. CASE s \in asked
      <4>1. PICK i \in 1 .. n : contains(ranges[i], code)
        BY <1>1, <1>4, <2>8, <3>6 DEF CodesInv, Selected
      <4>2. CASE i = n
        BY <3>3, <3>4, <4>1, <4>2 DEF L
      <4>3. CASE i # n
        BY <2>4, <4>1, <4>3 DEF Selected
      <4>4. QED
        BY <4>2, <4>3
    <3>7. QED
      BY <3>5, <3>6
  <2>9. QED
    BY <1>1, <2>4, <2>6, <2>7, <2>8 DEF CodesInv
<1>8. CASE ~(ranges # <<>> /\ Merges(L, r))
  <2>1. ranges' = Append(ranges, r)
    BY <1>8 DEF Adds, add_range
  <2>2. /\ ranges' \in Seq(StatusRange) /\ DOMAIN ranges' = 1 .. n + 1
        /\ ranges'[n + 1] = r /\ \A i \in 1 .. n : ranges'[i] = ranges[i]
    BY <1>1, <2>1, AppendProperties, LenProperties
  <2>3. r.end <= r.end
    BY DEF StatusRange
  <2>4. ASSUME NEW i \in 1 .. n + 1 PROVE FirstAsked(ranges[i])'
    <3>1. CASE i = n + 1
      BY <1>3, <2>2, <2>3, <3>1 DEF FirstAsked
    <3>2. CASE i \in 1 .. n
      BY <1>1, <1>2, <2>2, <3>2 DEF FirstAsked, CodesInv
    <3>3. QED
      BY <1>1, <3>1, <3>2
  <2>5. ASSUME NEW i \in 1 .. n + 1, NEW code \in MIN .. MAX, contains(ranges'[i], code)
        PROVE  Asked(code)'
    <3>1. CASE i = n + 1
      BY <1>6, <2>2, <2>5, <3>1
    <3>2. CASE i \in 1 .. n
      BY <1>1, <1>5, <2>2, <2>5, <3>2 DEF CodesInv
    <3>3. QED
      BY <1>1, <3>1, <3>2
  <2>6. ASSUME NoneEngulfed', NEW s \in asked', NEW code \in MIN .. MAX, contains(s, code)
        PROVE  Selected(code)'
    <3>1. CASE s = r
      <4>1. n + 1 \in DOMAIN ranges'
        BY <1>1, <2>2
      <4>2. QED
        BY <2>2, <2>6, <3>1, <4>1 DEF Selected
    <3>2. CASE s \in asked
      <4>1. PICK i \in 1 .. n : contains(ranges[i], code)
        BY <1>1, <1>4, <2>6, <3>2 DEF CodesInv, Selected
      <4>2. i \in DOMAIN ranges'
        BY <1>1, <2>2
      <4>3. QED
        BY <2>2, <4>1, <4>2 DEF Selected
    <3>3. QED
      BY <3>1, <3>2
  <2>7. QED
    BY <1>1, <2>2, <2>4, <2>5, <2>6 DEF CodesInv
<1>9. QED
  BY <1>7, <1>8

\* Nothing else touches the selector once the start has begun.
LEMMA OnlyReadPart ==
    ASSUME ProgramNext
    PROVE  ReadPart \/ UNCHANGED statusVars
<1>1. CASE StartNext
  <2>1. ParseAccept => ReadPart
    BY DEF ParseAccept
  <2>2. RejectArguments \/ RejectFile \/ RejectList \/ ExitEarly \/ ReadInputs \/ RejectClient
          => UNCHANGED statusVars
    <3>1. RejectArguments => UNCHANGED statusVars
      BY Zenon DEF RejectArguments
    <3>2. RejectFile \/ RejectList => UNCHANGED statusVars
      BY Zenon DEF RejectFile, RejectList
    <3>3. ExitEarly \/ RejectClient => UNCHANGED statusVars
      BY Zenon DEF ExitEarly, RejectClient
    <3>4. ReadInputs => UNCHANGED statusVars
      BY Zenon DEF ReadInputs
    <3>5. QED
      BY <3>1, <3>2, <3>3, <3>4
  <2>3. Parse => UNCHANGED statusVars
    BY DEF Parse, statusVars
  <2>4. TryDefault \/ NoDefault \/ LoadNamed \/ ReadLycheeignore \/ ReadExcludeFile
          \/ LimitConcurrency \/ CreateClient => UNCHANGED unread
    BY DEF TryDefault, NoDefault, LoadNamed, ReadLycheeignore, ReadExcludeFile,
           LimitConcurrency, CreateClient
  <2>5. UNCHANGED unread => UNCHANGED statusVars
    BY DEF unread, statusVars
  <2>6. QED
    BY <1>1, <2>1, <2>2, <2>3, <2>4, <2>5 DEF StartNext
<1>2. UNCHANGED startVars => UNCHANGED statusVars
  BY DEF startVars, statusVars
<1>3. QED
  BY <1>1, <1>2 DEF ProgramNext

\* However the ranges of --accept are ordered and merged, a code is selected only if one
\* of them has it, and each such code is, unless one range engulfs another
\* (status_code_selector.rs, add_range).
THEOREM CodesTheorem == ProgramSpec => []CodesAsAsked
<1>1. ProgramInit => CodesInv
  BY DEF ProgramInit, StartInit, CodesInv
<1>2. CodesInv /\ UNCHANGED statusVars => CodesInv'
  BY DEF CodesInv, statusVars, FirstAsked, NoneEngulfed, Selected, Asked
<1>3. CodesInv /\ ReadPart => CodesInv'
  BY AddRange DEF ReadPart, Valid, Adds
<1>4. CodesInv /\ [ProgramNext]_programVars => CodesInv'
  <2>1. UNCHANGED programVars => UNCHANGED statusVars
    BY DEF programVars, startVars, statusVars
  <2>2. QED
    BY <1>2, <1>3, <2>1, OnlyReadPart
<1>5. CodesInv => CodesAsAsked
  <2> SUFFICES ASSUME CodesInv, NEW code \in MIN .. MAX
               PROVE  /\ Selected(code) => Asked(code)
                      /\ Asked(code) /\ NoneEngulfed => Selected(code)
    BY DEF CodesAsAsked, NoneEngulfed
  <2>1. Selected(code) => Asked(code)
    BY DEF Selected, CodesInv
  <2>2. Asked(code) /\ NoneEngulfed => Selected(code)
    BY DEF Asked, CodesInv
  <2>3. QED
    BY <2>1, <2>2
<1>6. QED
  BY <1>1, <1>4, <1>5, PTL DEF ProgramSpec
-----------------------------------------------------------------------------
(* The pool of hosts *)

\* A call that runs was counted by the Host that its name stands for, which is the same
\* until a host is removed.
PoolInv ==
    /\ removals \in Nat
    /\ DOMAIN at = Calls /\ DOMAIN used = Calls /\ DOMAIN request = Calls
    /\ \A t \in Calls : at[t] = "running" /\ removals = 0 =>
           /\ HostKey(request[t].url) \in DOMAIN hosts
           /\ used[t] = hosts[HostKey(request[t].url)]

\* The start does not change what lychee is started with.
LEMMA SetupStays ==
    ASSUME StartNext
    PROVE  UNCHANGED setup
<1>1. ParseAccept \/ Parse => UNCHANGED setup
  BY DEF ParseAccept, Parse
<1>2. \A code : ExitWith(code) => UNCHANGED setup
  BY DEF ExitWith
<1>3. RejectArguments \/ RejectFile \/ RejectList => UNCHANGED setup
  BY <1>2, Zenon DEF RejectArguments, RejectFile, RejectList
<1>4. ExitEarly \/ RejectClient => UNCHANGED setup
  BY <1>2, Zenon DEF ExitEarly, RejectClient
<1>5. ReadInputs => UNCHANGED setup
  BY <1>2 DEF ReadInputs
<1>6. UNCHANGED unread => UNCHANGED setup
  BY DEF unread
<1>7. TryDefault \/ NoDefault \/ LoadNamed \/ ReadLycheeignore \/ ReadExcludeFile
        \/ LimitConcurrency \/ CreateClient => UNCHANGED setup
  BY <1>6 DEF TryDefault, NoDefault, LoadNamed, ReadLycheeignore, ReadExcludeFile,
              LimitConcurrency, CreateClient
<1>8. QED
  BY <1>1, <1>3, <1>4, <1>5, <1>7 DEF StartNext

\* Looking a host up never changes which Host another name stands for.
LEMMA GetOrCreate ==
    ASSUME NEW key, NEW counted, get_or_create_host(key, counted)
    PROVE  /\ key \in DOMAIN hosts'
           /\ \A k \in DOMAIN hosts : k \in DOMAIN hosts' /\ hosts'[k] = hosts[k]
<1>1. CASE key \in DOMAIN hosts
  BY <1>1 DEF get_or_create_host
<1>2. CASE key \notin DOMAIN hosts
  BY <1>2 DEF get_or_create_host, entered
<1>3. QED
  BY <1>1, <1>2

LEMMA PoolStep ==
    ASSUME PoolInv, PoolNext, UNCHANGED startVars
    PROVE  PoolInv'
<1>1. Calls' = Calls
  BY DEF startVars, Calls
<1> HIDE DEF Calls
<1>2. ASSUME NEW t \in Calls, record_persistent_cache_hit(t) \/ build_request(t)
      PROVE  PoolInv'
  <2>1. \A k \in DOMAIN hosts : k \in DOMAIN hosts' /\ hosts'[k] = hosts[k]
    BY <1>2, GetOrCreate DEF record_persistent_cache_hit, build_request
  <2>2. /\ UNCHANGED <<request, used, removals>>
        /\ at' = [at EXCEPT ![t] = "done"] \/ at' = [at EXCEPT ![t] = "built"]
    BY <1>2 DEF record_persistent_cache_hit, build_request
  <2>3. QED
    BY <1>1, <2>1, <2>2 DEF PoolInv, HostKey, lower
<1>3. ASSUME NEW t \in Calls, HandleChain(t)
      PROVE  PoolInv'
  <2>1. /\ UNCHANGED <<hosts, used, removals>>
        /\ at' = [at EXCEPT ![t] = "chained"]
        /\ DOMAIN request' = DOMAIN request
        /\ \A u \in DOMAIN request : u # t => request'[u] = request[u]
    BY <1>3 DEF HandleChain
  <2>2. QED
    BY <1>1, <2>1 DEF PoolInv, HostKey, lower
<1>4. ASSUME NEW t \in Calls, execute_request(t)
      PROVE  PoolInv'
  <2>1. /\ executing_key(t) \in DOMAIN hosts'
        /\ \A k \in DOMAIN hosts : k \in DOMAIN hosts' /\ hosts'[k] = hosts[k]
    BY <1>4, GetOrCreate DEF execute_request
  <2>2. /\ UNCHANGED <<request, removals>>
        /\ at' = [at EXCEPT ![t] = "running"]
        /\ used' = [used EXCEPT ![t] = hosts'[executing_key(t)]]
    BY <1>4 DEF execute_request
  <2>3. executing_key(t) = HostKey(request[t].url)
    BY DEF executing_key
  <2>4. \A u \in Calls : HostKey(request[u].url)' = HostKey(request[u].url)
    BY <2>2 DEF HostKey, lower
  <2>5. DOMAIN at' = Calls' /\ DOMAIN used' = Calls' /\ DOMAIN request' = Calls' /\ removals' \in Nat
    BY <1>1, <2>2 DEF PoolInv
  <2>6. ASSUME NEW u \in Calls, at'[u] = "running", removals' = 0
        PROVE  HostKey(request[u].url) \in DOMAIN hosts' /\ used'[u] = hosts'[HostKey(request[u].url)]
    <3>1. CASE u = t
      BY <2>1, <2>2, <2>3, <3>1 DEF PoolInv
    <3>2. CASE u # t
      BY <2>1, <2>2, <2>6, <3>2 DEF PoolInv
    <3>3. QED
      BY <3>1, <3>2
  <2>7. QED
    BY <1>1, <2>4, <2>5, <2>6 DEF PoolInv
<1>5. ASSUME NEW t \in Calls, Answer(t)
      PROVE  PoolInv'
  BY <1>1, <1>5 DEF Answer, PoolInv, HostKey, lower
<1>6. ASSUME NEW h \in DOMAIN hosts, remove_host(h)
      PROVE  PoolInv'
  <2>1. /\ UNCHANGED <<made, at, request, used>> /\ removals' = removals + 1
    BY <1>6 DEF remove_host
  <2>2. QED
    BY <1>1, <2>1 DEF PoolInv
<1>7. QED
  BY <1>2, <1>3, <1>4, <1>5, <1>6 DEF PoolNext

\* Two requests under way to one host are limited by one Host, whatever links, quirks and
\* spellings bring them there (pool.rs, get_or_create_host).
THEOREM SharedTheorem == ProgramSpec => []HostShared
<1>1. ProgramInit => PoolInv
  BY DEF ProgramInit, PoolInit, PoolInv
<1>2. PoolInv /\ UNCHANGED poolVars /\ UNCHANGED setup => PoolInv'
  BY DEF PoolInv, poolVars, Calls, HostKey, lower
<1>3. PoolInv /\ [ProgramNext]_programVars => PoolInv'
  <2>1. UNCHANGED programVars => UNCHANGED poolVars /\ UNCHANGED setup
    BY DEF programVars, startVars
  <2>2. QED
    BY <1>2, <2>1, SetupStays, PoolStep DEF ProgramNext
<1>4. PoolInv => HostShared
  BY DEF PoolInv, HostShared
<1>5. QED
  BY <1>1, <1>3, <1>4, PTL DEF ProgramSpec
-----------------------------------------------------------------------------
(* Lists *)

\* Induction over the natural numbers, for sets.
LEMMA NatInd ==
    ASSUME NEW S \in SUBSET Nat, 0 \in S, \A n \in S : n + 1 \in S
    PROVE  S = Nat
<1> DEFINE Less == {p \in Nat \X Nat : p[1] < p[2]}
           T == Nat \ S
<1>1. IsWellFoundedOn(Less, Nat)
  <2>1. Less = OpToRel(<, Nat)
    BY DEF OpToRel
  <2>2. QED
    BY <2>1, NatLessThanWellFounded
<1>2. SUFFICES ASSUME T # {} PROVE FALSE
  OBVIOUS
<1>3. PICK x \in T : \A y \in T : ~ (<<y, x>> \in Less)
  <2>1. T \subseteq Nat
    OBVIOUS
  <2> HIDE DEF T, Less
  <2>2. QED
    BY <1>1, <1>2, <2>1, WFMin
<1>4. x # 0 /\ x - 1 \in Nat /\ x - 1 < x
  OBVIOUS
<1>5. <<x - 1, x>> \in Less /\ x - 1 \notin T
  BY <1>3, <1>4
<1>6. QED
  BY <1>4, <1>5

\* The parts of FlattenSeq's result: what the first i lists are, one after the other.
flat(seqs) ==
    LET flatten[i \in 1 .. Len(seqs)] ==
            IF i = 1 THEN seqs[i] ELSE flatten[i - 1] \o seqs[i]
    IN flatten

LEMMA FlatExists ==
    ASSUME NEW seqs, NEW n \in Nat
    PROVE  \E g : g = [i \in 1 .. n |-> IF i = 1 THEN seqs[i] ELSE g[i - 1] \o seqs[i]]
<1> DEFINE P(m) == \E g : g = [i \in 1 .. m |-> IF i = 1 THEN seqs[i] ELSE g[i - 1] \o seqs[i]]
           S == {m \in Nat : P(m)}
<1>1. 0 \in S
  <2> DEFINE e == [i \in 1 .. 0 |-> seqs[i]]
  <2>1. e = [i \in 1 .. 0 |-> IF i = 1 THEN seqs[i] ELSE e[i - 1] \o seqs[i]]
    OBVIOUS
  <2>2. P(0)
    BY <2>1
  <2>3. QED
    BY <2>2
<1>2. ASSUME NEW m \in S PROVE m + 1 \in S
  <2>0. m \in Nat /\ P(m)
    BY <1>2, Zenon
  <2>1. PICK g : g = [i \in 1 .. m |-> IF i = 1 THEN seqs[i] ELSE g[i - 1] \o seqs[i]]
    BY <2>0
  <2> DEFINE h == [i \in 1 .. m + 1 |-> IF i = 1 THEN seqs[i] ELSE g[i - 1] \o seqs[i]]
  <2>2. ASSUME NEW i \in 1 .. m PROVE h[i] = g[i]
    <3>1. g[i] = IF i = 1 THEN seqs[i] ELSE g[i - 1] \o seqs[i]
      BY <2>1, Zenon
    <3>2. i \in 1 .. m + 1
      BY <2>0
    <3>3. h[i] = IF i = 1 THEN seqs[i] ELSE g[i - 1] \o seqs[i]
      BY <3>2, Zenon
    <3>4. QED
      BY <3>1, <3>3, Zenon
  <2>3. ASSUME NEW i \in 1 .. m + 1, i # 1 PROVE g[i - 1] = h[i - 1]
    <3>1. i - 1 \in 1 .. m
      BY <2>0, <2>3
    <3>2. QED
      BY <2>2, <3>1
  <2>4. h = [i \in 1 .. m + 1 |-> IF i = 1 THEN seqs[i] ELSE h[i - 1] \o seqs[i]]
    BY <2>3
  <2>5. P(m + 1)
    BY <2>4
  <2>6. m + 1 \in Nat
    <3> HIDE DEF P
    <3>1. QED
      BY <2>0
  <2>7. QED
    BY <2>5, <2>6
<1>3. S = Nat
  <2>1. S \subseteq Nat
    OBVIOUS
  <2> HIDE DEF S
  <2>2. QED
    BY <1>1, <1>2, <2>1, NatInd
<1>4. n \in S
  BY <1>3
<1>5. QED
  BY <1>4

LEMMA FlatSteps ==
    ASSUME NEW seqs, Len(seqs) \in Nat
    PROVE  /\ Len(seqs) # 0 => flat(seqs)[1] = seqs[1]
           /\ \A i \in 1 .. Len(seqs) : i # 1 => flat(seqs)[i] = flat(seqs)[i - 1] \o seqs[i]
<1>1. flat(seqs) = [i \in 1 .. Len(seqs) |->
                       IF i = 1 THEN seqs[i] ELSE flat(seqs)[i - 1] \o seqs[i]]
  BY FlatExists, Zenon DEF flat
<1> HIDE DEF flat
<1>2. ASSUME NEW i \in 1 .. Len(seqs)
      PROVE  flat(seqs)[i] = IF i = 1 THEN seqs[i] ELSE flat(seqs)[i - 1] \o seqs[i]
  BY <1>1, Zenon
<1>3. Len(seqs) # 0 => 1 \in 1 .. Len(seqs)
  OBVIOUS
<1>4. QED
  BY <1>2, <1>3

LEMMA FlattenIsFlat ==
    ASSUME NEW seqs, Len(seqs) # 0
    PROVE  FlattenSeq(seqs) = flat(seqs)[Len(seqs)]
BY Zenon DEF FlattenSeq, flat

LEMMA ListDomain ==
    ASSUME NEW a, IsList(a)
    PROVE  Len(a) \in Nat /\ DOMAIN a = 1 .. Len(a) /\ (a # <<>> => Len(a) # 0)
<1>1. a \in Seq(ToSet(a))
  BY DEF IsList
<1> HIDE DEF ToSet
<1>2. QED
  BY <1>1, LenProperties, EmptySeq

LEMMA ListOf ==
    ASSUME NEW S, NEW a \in Seq(S)
    PROVE  IsList(a)
<1>1. Len(a) \in Nat /\ a \in [1 .. Len(a) -> S] /\ DOMAIN a = 1 .. Len(a)
  BY LenProperties
<1>2. a \in [1 .. Len(a) -> ToSet(a)]
  BY <1>1 DEF ToSet
<1> HIDE DEF ToSet
<1>3. a \in Seq(ToSet(a))
  BY <1>1, <1>2
<1>4. QED
  BY <1>3 DEF IsList

LEMMA ListConcat ==
    ASSUME NEW a, NEW b, IsList(a), IsList(b)
    PROVE  /\ IsList(a \o b) /\ Len(a \o b) = Len(a) + Len(b)
           /\ \A i \in 1 .. Len(a) + Len(b) :
                  (a \o b)[i] = IF i <= Len(a) THEN a[i] ELSE b[i - Len(a)]
<1> DEFINE S == ToSet(a) \cup ToSet(b)
<1>1. a \in Seq(S) /\ b \in Seq(S)
  <2>1. a \in Seq(ToSet(a)) /\ b \in Seq(ToSet(b))
    BY DEF IsList
  <2>2. ToSet(a) \subseteq S /\ ToSet(b) \subseteq S
    OBVIOUS
  <2> HIDE DEF ToSet, S
  <2>3. QED
    BY <2>1, <2>2, SeqMonotonic
<1> HIDE DEF S
<1>2. QED
  BY <1>1, ConcatProperties, ListOf

LEMMA ListEmpty ==
    /\ IsList(<<>>) /\ Len(<<>>) = 0 /\ DOMAIN <<>> = {}
    /\ \A a : IsList(a) => a \o <<>> = a /\ <<>> \o a = a
<1>1. IsList(<<>>) /\ Len(<<>>) = 0 /\ DOMAIN <<>> = {}
  <2>1. <<>> \in Seq({})
    OBVIOUS
  <2>2. IsList(<<>>)
    BY <2>1, ListOf
  <2>3. QED
    BY <2>2
<1>2. ASSUME NEW a, IsList(a) PROVE a \o <<>> = a /\ <<>> \o a = a
  <2>1. a \in Seq(ToSet(a))
    BY <1>2 DEF IsList
  <2> HIDE DEF ToSet
  <2>2. QED
    BY <2>1, ConcatEmptySeq
<1>3. QED
  BY <1>1, <1>2
-----------------------------------------------------------------------------
(* Merging *)

\* The fields of which the first value counts.
Plain == Fields \ (Chained \cup {"accept", "hosts"})

\* What the configuration c has of the first k sources in S: of the lists all, in their
\* order, and of the other fields F what the first source with one says.
Lists(S, f) == [i \in DOMAIN S |-> items(S[i], f)]
ListsAs(S, c, k, F) == \A f \in F : items(c, f) = flat(Lists(S, f))[k]
SetBy(S, f, k) == \E i \in 1 .. k : f \in DOMAIN S[i]
FirstWith(S, f, i) == f \in DOMAIN S[i] /\ \A j \in 1 .. i - 1 : f \notin DOMAIN S[j]
ValuesAs(S, c, k, F) ==
    \A f \in F : /\ f \in DOMAIN c <=> SetBy(S, f, k)
                 /\ \A i \in 1 .. k : FirstWith(S, f, i) => c[f] = S[i][f]
AcceptAs(S, c, k, r) ==
    IF r # <<>> THEN "accept" \in DOMAIN c /\ c.accept = r
    ELSE /\ "accept" \in DOMAIN c <=> SetBy(S, "accept", k)
         /\ \A i \in 1 .. k : FirstWith(S, "accept", i) => c.accept = visit_seq(S[i].accept)
HostsTyped(c) == \A h \in DOMAIN items(c, "hosts") : IsHeaderMap(c.hosts[h])
ListsTyped(c, F) == \A f \in F : IsList(items(c, f))
NumberTyped(c) == value(c, "max_concurrency") \in Nat

MergedAs(S, c, k, r) ==
    /\ ListsAs(S, c, k, Chained) /\ ListsTyped(c, Chained) /\ ValuesAs(S, c, k, Plain)
    /\ AcceptAs(S, c, k, r) /\ HostsTyped(c) /\ NumberTyped(c)

\* A section is as its file has it, but for the codes in accept.
LEMMA SectionKeeps ==
    ASSUME NEW c
    PROVE  /\ DOMAIN Section(c) = DOMAIN c
           /\ \A f \in DOMAIN c : f # "accept" => Section(c)[f] = c[f]
           /\ "accept" \in DOMAIN c => Section(c).accept = visit_seq(c.accept)
           /\ \A f \in Chained \cup {"hosts"} : items(Section(c), f) = items(c, f)
<1>1. \A f \in Chained \cup {"hosts"} : f # "accept"
  BY DEF Chained
<1>2. CASE "accept" \in DOMAIN c
  <2>1. Section(c) = [c EXCEPT !.accept = visit_seq(c.accept)]
    BY <1>2 DEF Section
  <2>2. /\ DOMAIN Section(c) = DOMAIN c
        /\ \A f \in DOMAIN c : f # "accept" => Section(c)[f] = c[f]
        /\ Section(c).accept = visit_seq(c.accept)
    BY <1>2, <2>1
  <2>3. QED
    BY <1>1, <2>2 DEF items
<1>3. CASE "accept" \notin DOMAIN c
  BY <1>3 DEF Section
<1>4. QED
  BY <1>2, <1>3

LEMMA MergeFields ==
    ASSUME NEW c, NEW d
    PROVE  /\ DOMAIN merge(c, d) = DOMAIN c \cup DOMAIN d
           /\ \A f \in Chained : items(merge(c, d), f) =
                  IF f \in DOMAIN c \cup DOMAIN d THEN items(c, f) \o items(d, f) ELSE <<>>
           /\ \A f \in DOMAIN c \cup DOMAIN d : f \notin Chained \cup {"hosts"} =>
                  merge(c, d)[f] = IF f \in DOMAIN c THEN c[f] ELSE d[f]
           /\ items(merge(c, d), "hosts") =
                  IF "hosts" \in DOMAIN c \cup DOMAIN d
                  THEN merge_hosts(items(c, "hosts"), items(d, "hosts")) ELSE <<>>
<1>1. DOMAIN merge(c, d) = DOMAIN c \cup DOMAIN d
  BY DEF merge
<1>2. ASSUME NEW f \in DOMAIN c \cup DOMAIN d
      PROVE  merge(c, d)[f] =
                 IF f = "hosts" THEN merge_hosts(items(c, f), items(d, f))
                 ELSE IF f \in Chained THEN items(c, f) \o items(d, f)
                 ELSE or(c, d)[f]
  BY DEF merge
<1>3. ASSUME NEW f \in DOMAIN c \cup DOMAIN d
      PROVE  or(c, d)[f] = IF f \in DOMAIN c THEN c[f] ELSE d[f]
  BY DEF or
<1>4. "hosts" \notin Chained
  BY DEF Chained
<1> HIDE DEF merge, merge_hosts, or, Chained
<1>5. ASSUME NEW f \in Chained
      PROVE  items(merge(c, d), f) =
                 IF f \in DOMAIN c \cup DOMAIN d THEN items(c, f) \o items(d, f) ELSE <<>>
  <2>1. f # "hosts"
    BY <1>4
  <2>2. CASE f \in DOMAIN c \cup DOMAIN d
    <3>1. merge(c, d)[f] = items(c, f) \o items(d, f)
      BY <1>2, <2>1, <2>2, Zenon
    <3>2. items(merge(c, d), f) = merge(c, d)[f]
      BY <1>1, <2>2, Zenon DEF items
    <3>3. QED
      BY <2>2, <3>1, <3>2, Zenon
  <2>3. CASE f \notin DOMAIN c \cup DOMAIN d
    BY <1>1, <2>3, Zenon DEF items
  <2>4. QED
    BY <2>2, <2>3
<1>6. items(merge(c, d), "hosts") =
          IF "hosts" \in DOMAIN c \cup DOMAIN d
          THEN merge_hosts(items(c, "hosts"), items(d, "hosts")) ELSE <<>>
  <2>2. CASE "hosts" \in DOMAIN c \cup DOMAIN d
    <3>1. merge(c, d)["hosts"] = merge_hosts(items(c, "hosts"), items(d, "hosts"))
      BY <1>2, <2>2, Zenon
    <3>2. items(merge(c, d), "hosts") = merge(c, d)["hosts"]
      BY <1>1, <2>2, Zenon DEF items
    <3>3. QED
      BY <2>2, <3>1, <3>2, Zenon
  <2>3. CASE "hosts" \notin DOMAIN c \cup DOMAIN d
    BY <1>1, <2>3, Zenon DEF items
  <2>4. QED
    BY <2>2, <2>3
<1>7. QED
  BY <1>1, <1>2, <1>3, <1>5, <1>6

LEMMA ListsStep ==
    ASSUME NEW S, NEW f, NEW k \in Nat \ {0}, Len(S) \in Nat, DOMAIN S = 1 .. Len(S)
    PROVE  /\ Len(S) # 0 => flat(Lists(S, f))[1] = items(S[1], f)
           /\ k < Len(S) =>
                  flat(Lists(S, f))[k + 1] = flat(Lists(S, f))[k] \o items(S[k + 1], f)
           /\ Len(S) # 0 => FlattenSeq(Lists(S, f)) = flat(Lists(S, f))[Len(S)]
<1> DEFINE L == Lists(S, f)
<1>1. Len(L) = Len(S) /\ \A i \in 1 .. Len(S) : L[i] = items(S[i], f)
  BY DEF Lists
<1> HIDE DEF L, flat
<1>2. /\ Len(L) # 0 => flat(L)[1] = L[1]
      /\ \A i \in 1 .. Len(L) : i # 1 => flat(L)[i] = flat(L)[i - 1] \o L[i]
  BY <1>1, FlatSteps
<1>3. k < Len(S) => k + 1 \in 1 .. Len(L) /\ k + 1 # 1 /\ (k + 1) - 1 = k
  BY <1>1
<1>4. Len(S) # 0 => 1 \in 1 .. Len(S)
  OBVIOUS
<1>5. Len(L) # 0 => FlattenSeq(L) = flat(L)[Len(L)]
  BY FlattenIsFlat
<1>6. QED
  BY <1>1, <1>2, <1>3, <1>4, <1>5 DEF L

LEMMA MergeHostsTyped ==
    ASSUME NEW c, NEW d, HostsTyped(c), HostsTyped(d)
    PROVE  HostsTyped(merge(c, d))
<1> DEFINE t == merge_hosts(items(c, "hosts"), items(d, "hosts"))
<1>1. items(merge(c, d), "hosts") = IF "hosts" \in DOMAIN c \cup DOMAIN d THEN t ELSE <<>>
  BY MergeFields
<1>2. \A x : "hosts" \in DOMAIN x => items(x, "hosts") = x.hosts
  BY DEF items
<1>3. DOMAIN merge(c, d) = DOMAIN c \cup DOMAIN d
  BY MergeFields
<1>4. \A x : "hosts" \notin DOMAIN x => DOMAIN items(x, "hosts") = {}
  BY ListEmpty DEF items
<1>5. SUFFICES ASSUME "hosts" \in DOMAIN c \cup DOMAIN d, NEW h \in DOMAIN t
               PROVE  IsHeaderMap(t[h])
  BY <1>1, <1>2, <1>3, <1>4 DEF HostsTyped
<1>6. /\ t[h] = items(items(c, "hosts"), h) \o items(items(d, "hosts"), h)
      /\ h \in DOMAIN items(c, "hosts") \/ h \in DOMAIN items(d, "hosts")
  BY <1>5 DEF merge_hosts
<1>7. ASSUME NEW x, HostsTyped(x)
      PROVE  LET i == items(items(x, "hosts"), h) IN
             IsList(i) /\ \A j \in 1 .. Len(i) : lower(i[j][1]) = i[j][1]
  <2>1. CASE h \in DOMAIN items(x, "hosts")
    <3>1. "hosts" \in DOMAIN x /\ items(x, "hosts") = x.hosts
      BY <1>2, <1>4, <2>1
    <3>2. items(items(x, "hosts"), h) = x.hosts[h]
      BY <2>1, <3>1 DEF items
    <3>3. IsHeaderMap(x.hosts[h])
      BY <1>7, <2>1 DEF HostsTyped
    <3>4. QED
      BY <3>2, <3>3, ListDomain DEF IsHeaderMap
  <2>2. CASE h \notin DOMAIN items(x, "hosts")
    <3>1. items(items(x, "hosts"), h) = <<>>
      BY <2>2 DEF items
    <3>2. QED
      BY <3>1, ListEmpty
  <2>3. QED
    BY <2>1, <2>2
<1> DEFINE a == items(items(c, "hosts"), h)
           b == items(items(d, "hosts"), h)
<1>8. /\ IsList(a) /\ \A j \in 1 .. Len(a) : lower(a[j][1]) = a[j][1]
      /\ IsList(b) /\ \A j \in 1 .. Len(b) : lower(b[j][1]) = b[j][1]
  BY <1>7
<1>9. t[h] = a \o b
  BY <1>6
<1> HIDE DEF a, b, t
<1>10. /\ IsList(a \o b) /\ Len(a \o b) = Len(a) + Len(b)
       /\ \A i \in 1 .. Len(a) + Len(b) :
                  (a \o b)[i] = IF i <= Len(a) THEN a[i] ELSE b[i - Len(a)]
       /\ Len(a) \in Nat /\ Len(b) \in Nat
       /\ DOMAIN (a \o b) = 1 .. Len(a) + Len(b)
  BY <1>8, ListConcat, ListDomain
<1>11. ASSUME NEW i \in 1 .. Len(a) + Len(b)
       PROVE  lower((a \o b)[i][1]) = (a \o b)[i][1]
  <2>1. CASE i <= Len(a)
    BY <1>8, <1>10, <2>1
  <2>2. CASE ~(i <= Len(a))
    <3>1. i - Len(a) \in 1 .. Len(b)
      BY <1>10, <2>2
    <3>2. QED
      BY <1>8, <1>10, <2>2, <3>1
  <2>3. QED
    BY <2>1, <2>2
<1>12. QED
  BY <1>9, <1>10, <1>11 DEF IsHeaderMap

\* One more source is merged.
LEMMA MergeStep ==
    ASSUME NEW S, NEW c, NEW k \in Nat \ {0}, NEW r, Len(S) \in Nat, DOMAIN S = 1 .. Len(S),
           k < Len(S), IsConfig(S[k + 1]), MergedAs(S, c, k, r)
    PROVE  MergedAs(S, merge(c, Section(S[k + 1])), k + 1, r)
<1> DEFINE d == S[k + 1]
           e == Section(d)
           m == merge(c, e)
<1>1. /\ DOMAIN e = DOMAIN d
      /\ \A f \in DOMAIN d : f # "accept" => e[f] = d[f]
      /\ "accept" \in DOMAIN d => e.accept = visit_seq(d.accept)
      /\ \A f \in Chained \cup {"hosts"} : items(e, f) = items(d, f)
  BY SectionKeeps
<1>2. /\ DOMAIN m = DOMAIN c \cup DOMAIN e
      /\ \A f \in Chained : items(m, f) =
             IF f \in DOMAIN c \cup DOMAIN e THEN items(c, f) \o items(e, f) ELSE <<>>
      /\ \A f \in DOMAIN c \cup DOMAIN e : f \notin Chained \cup {"hosts"} =>
             m[f] = IF f \in DOMAIN c THEN c[f] ELSE e[f]
  BY MergeFields
<1>3. HostsTyped(m)
  <2>1. "hosts" \in DOMAIN d => d.hosts = e.hosts
    BY <1>1
  <2>2. "hosts" \notin DOMAIN d => DOMAIN items(d, "hosts") = {}
    BY ListEmpty DEF items
  <2>3. HostsTyped(d)
    BY DEF IsConfig, HostsTyped
  <2> HIDE DEF d, e
  <2>4. HostsTyped(e)
    <3>1. items(e, "hosts") = items(d, "hosts")
      BY <1>1
    <3>2. SUFFICES ASSUME NEW h \in DOMAIN items(d, "hosts") PROVE IsHeaderMap(e.hosts[h])
      BY <3>1 DEF HostsTyped
    <3>3. "hosts" \in DOMAIN d
      BY <2>2, <3>2
    <3>4. QED
      BY <2>1, <2>3, <3>2, <3>3 DEF HostsTyped
  <2>5. QED
    BY <2>4, MergeHostsTyped DEF MergedAs
<1>4. \A f \in Chained : IsList(items(d, f))
  BY DEF IsConfig
<1> HIDE DEF d, e, m
<1>5. ASSUME NEW f \in Chained
      PROVE  items(m, f) = items(c, f) \o items(d, f) /\ IsList(items(m, f))
  <2>1. IsList(items(c, f)) /\ IsList(items(d, f))
    BY <1>4 DEF MergedAs, ListsTyped
  <2>2. CASE f \in DOMAIN c \cup DOMAIN e
    <3>1. items(m, f) = items(c, f) \o items(e, f) /\ items(e, f) = items(d, f)
      BY <1>1, <1>2, <2>2, Zenon
    <3>2. QED
      BY <2>1, <3>1, ListConcat
  <2>3. CASE f \notin DOMAIN c \cup DOMAIN e
    <3>1. items(m, f) = <<>> /\ items(c, f) = <<>> /\ items(d, f) = <<>>
      BY <1>1, <1>2, <2>3, Zenon DEF items
    <3>2. QED
      BY <3>1, ListEmpty
  <2>4. QED
    BY <2>2, <2>3
<1>6. ListsAs(S, m, k + 1, Chained) /\ ListsTyped(m, Chained)
  <2>1. ASSUME NEW f \in Chained PROVE items(m, f) = flat(Lists(S, f))[k + 1]
    <3>1. items(c, f) = flat(Lists(S, f))[k]
      BY DEF MergedAs, ListsAs
    <3>2. flat(Lists(S, f))[k + 1] = flat(Lists(S, f))[k] \o items(d, f)
      BY ListsStep DEF d
    <3>3. QED
      BY <1>5, <3>1, <3>2
  <2>2. QED
    BY <1>5, <2>1 DEF ListsAs, ListsTyped
<1>7. ASSUME NEW f PROVE SetBy(S, f, k + 1) <=> SetBy(S, f, k) \/ f \in DOMAIN d
  <2>1. \A i : i \in 1 .. k + 1 <=> i \in 1 .. k \/ i = k + 1
    OBVIOUS
  <2>2. QED
    BY <2>1 DEF SetBy, d
<1>8. ASSUME NEW f, NEW i \in 1 .. k + 1, FirstWith(S, f, i)
      PROVE  \/ i \in 1 .. k /\ SetBy(S, f, k)
             \/ S[i] = d /\ ~SetBy(S, f, k) /\ f \in DOMAIN d
  <2>1. CASE i \in 1 .. k
    BY <1>8, <2>1 DEF FirstWith, SetBy
  <2>2. CASE i = k + 1
    BY <1>8, <2>2 DEF FirstWith, SetBy, d
  <2>3. QED
    BY <2>1, <2>2
<1>9. ValuesAs(S, m, k + 1, Plain)
  <2> SUFFICES ASSUME NEW f \in Plain
               PROVE  /\ f \in DOMAIN m <=> SetBy(S, f, k + 1)
                      /\ \A i \in 1 .. k + 1 : FirstWith(S, f, i) => m[f] = S[i][f]
    BY DEF ValuesAs
  <2>1. f \notin Chained \cup {"hosts"} /\ f # "accept"
    BY DEF Plain
  <2>2. /\ f \in DOMAIN c <=> SetBy(S, f, k)
        /\ \A i \in 1 .. k : FirstWith(S, f, i) => c[f] = S[i][f]
    BY DEF MergedAs, ValuesAs
  <2>3. f \in DOMAIN m <=> SetBy(S, f, k + 1)
    BY <1>1, <1>2, <1>7, <2>2
  <2>4. ASSUME NEW i \in 1 .. k + 1, FirstWith(S, f, i) PROVE m[f] = S[i][f]
    <3>1. CASE i \in 1 .. k /\ SetBy(S, f, k)
      <4>1. f \in DOMAIN c /\ c[f] = S[i][f]
        BY <2>2, <2>4, <3>1
      <4>2. QED
        BY <1>2, <2>1, <4>1
    <3>2. CASE S[i] = d /\ ~SetBy(S, f, k) /\ f \in DOMAIN d
      BY <1>1, <1>2, <2>1, <2>2, <3>2
    <3>3. QED
      BY <1>8, <2>4, <3>1, <3>2
  <2>5. QED
    BY <2>3, <2>4
<1>10. AcceptAs(S, m, k + 1, r)
  <2>0. "accept" \notin Chained \cup {"hosts"}
    BY DEF Chained
  <2>1. CASE r # <<>>
    <3>1. "accept" \in DOMAIN c /\ c["accept"] = r
      BY <2>1 DEF MergedAs, AcceptAs
    <3>2. "accept" \in DOMAIN m /\ m["accept"] = r
      BY <1>2, <2>0, <3>1
    <3>3. QED
      BY <2>1, <3>2 DEF AcceptAs
  <2>2. CASE r = <<>>
    <3>1. /\ "accept" \in DOMAIN c <=> SetBy(S, "accept", k)
          /\ \A i \in 1 .. k : FirstWith(S, "accept", i) => c["accept"] = visit_seq(S[i].accept)
      BY <2>2 DEF MergedAs, AcceptAs
    <3>2. "accept" \in DOMAIN m <=> SetBy(S, "accept", k + 1)
      BY <1>1, <1>2, <1>7, <3>1
    <3>3. ASSUME NEW i \in 1 .. k + 1, FirstWith(S, "accept", i)
          PROVE  m["accept"] = visit_seq(S[i].accept)
      <4>1. CASE i \in 1 .. k /\ SetBy(S, "accept", k)
        <5>1. "accept" \in DOMAIN c /\ c["accept"] = visit_seq(S[i].accept)
          BY <3>1, <3>3, <4>1
        <5>2. QED
          BY <1>2, <2>0, <5>1
      <4>2. CASE S[i] = d /\ ~SetBy(S, "accept", k) /\ "accept" \in DOMAIN d
        BY <1>1, <1>2, <2>0, <3>1, <4>2
      <4>3. QED
        BY <1>8, <3>3, <4>1, <4>2
    <3>4. QED
      BY <2>2, <3>2, <3>3 DEF AcceptAs
  <2>3. QED
    BY <2>1, <2>2
<1>11. NumberTyped(m)
  <2>1. "max_concurrency" \notin Chained \cup {"hosts"}
    BY DEF Chained
  <2>2. value(c, "max_concurrency") \in Nat /\ value(d, "max_concurrency") \in Nat
    BY DEF MergedAs, NumberTyped, IsConfig, d
  <2>3. "max_concurrency" \in DOMAIN d => e["max_concurrency"] = d["max_concurrency"]
    BY <1>1
  <2>4. CASE "max_concurrency" \in DOMAIN m
    BY <1>1, <1>2, <2>1, <2>2, <2>3, <2>4 DEF NumberTyped, value
  <2>5. CASE "max_concurrency" \notin DOMAIN m
    BY <1>2, <2>2, <2>5 DEF NumberTyped, value
  <2>6. QED
    BY <2>4, <2>5
<1>12. QED
  BY <1>3, <1>6, <1>9, <1>10, <1>11 DEF MergedAs, m, e, d

\* The command line is the first source.
LEMMA FirstMerged ==
    ASSUME NEW S, NEW c, NEW r, Len(S) \in Nat, Len(S) # 0, DOMAIN S = 1 .. Len(S), S[1] = c,
           IsConfig(c), "accept" \notin DOMAIN c
    PROVE  MergedAs(S, IF r = <<>> THEN c ELSE or([accept |-> r], c), 1, r)
<1> DEFINE m == IF r = <<>> THEN c ELSE or([accept |-> r], c)
<1>1. /\ \A f : f # "accept" => (f \in DOMAIN m <=> f \in DOMAIN c)
      /\ \A f \in DOMAIN c : f # "accept" => m[f] = c[f]
      /\ "accept" \in DOMAIN m <=> r # <<>>
      /\ r # <<>> => m["accept"] = r
  <2>1. CASE r = <<>>
    BY <2>1
  <2>2. CASE r # <<>>
    <3>1. m = or([accept |-> r], c)
      BY <2>2
    <3>2. DOMAIN [accept |-> r] = {"accept"}
      OBVIOUS
    <3>3. QED
      BY <2>2, <3>1, <3>2 DEF or
  <2>3. QED
    BY <2>1, <2>2
<1> HIDE DEF m
<1>2. \A f \in Chained \cup {"hosts"} : items(m, f) = items(c, f)
  <2>1. \A f \in Chained \cup {"hosts"} : f # "accept"
    BY DEF Chained
  <2>2. QED
    BY <1>1, <2>1 DEF items
<1>3. ListsAs(S, m, 1, Chained) /\ ListsTyped(m, Chained)
  <2>1. \A f \in Chained : flat(Lists(S, f))[1] = items(c, f)
    BY ListsStep
  <2>2. QED
    BY <1>2, <2>1 DEF ListsAs, ListsTyped, IsConfig
<1>4. ASSUME NEW f PROVE SetBy(S, f, 1) <=> f \in DOMAIN c
  BY DEF SetBy
<1>5. ValuesAs(S, m, 1, Plain)
  <2>1. \A f \in Plain : f # "accept"
    BY DEF Plain
  <2>2. \A i \in 1 .. 1 : i = 1
    OBVIOUS
  <2>3. QED
    BY <1>1, <1>4, <2>1, <2>2 DEF ValuesAs, FirstWith
<1>6. AcceptAs(S, m, 1, r)
  <2>1. \A i \in 1 .. 1 : ~FirstWith(S, "accept", i)
    BY DEF FirstWith
  <2>2. QED
    BY <1>1, <1>4, <2>1 DEF AcceptAs
<1>7. HostsTyped(m)
  <2>1. \A h \in DOMAIN items(c, "hosts") : "hosts" \in DOMAIN c
    BY ListEmpty DEF items
  <2>2. "hosts" \in DOMAIN c => m.hosts = c.hosts
    BY <1>1
  <2>3. QED
    BY <1>2, <2>1, <2>2 DEF HostsTyped, IsConfig
<1>8. NumberTyped(m)
  <2>1. value(m, "max_concurrency") = value(c, "max_concurrency")
    BY <1>1 DEF value
  <2>2. QED
    BY <2>1 DEF NumberTyped, IsConfig
<1>9. QED
  BY <1>3, <1>5, <1>6, <1>7, <1>8 DEF MergedAs, m
-----------------------------------------------------------------------------
(* Files *)

LEMMA EmptyConfig == IsConfig(<<>>)
<1>1. \A f : items(<<>>, f) = <<>>
  BY ListEmpty DEF items
<1>2. value(<<>>, "max_concurrency") = 128
  BY ListEmpty DEF value, Default
<1>3. QED
  BY <1>1, <1>2, ListEmpty DEF IsConfig

LEMMA FileOffers ==
    ASSUME NEW file, IsFile(file)
    PROVE  /\ Found(Deserialize(file)) <=> Offers(file) # <<>>
           /\ Offers(file) # <<>> =>
                  /\ Head(Deserialize(file).sections) = Section(file.sections[1])
                  /\ IsConfig(file.sections[1])
                  /\ Deserialize(file).state = "parsed"
           /\ Deserialize(file).state = "malformed" <=>
                  \/ file.state = "malformed"
                  \/ \E i \in DOMAIN file.sections : ~Readable(file.sections[i])
<1> DEFINE s == file.sections
<1>1. /\ Len(s) \in Nat /\ DOMAIN s = 1 .. Len(s) /\ (s # <<>> => Len(s) # 0)
      /\ DOMAIN file = {"state", "sections"}
      /\ file.state # "parsed" => s = <<>>
      /\ \A i \in DOMAIN s : IsConfig(s[i])
  BY ListDomain DEF IsFile
<1>2. CASE \A i \in DOMAIN s : Readable(s[i])
  <2> DEFINE d == [i \in DOMAIN s |-> Section(s[i])]
  <2>1. Deserialize(file) = [file EXCEPT !.sections = d]
    BY <1>2 DEF Deserialize
  <2>2. Deserialize(file).sections = d /\ Deserialize(file).state = file.state
    BY <1>1, <2>1
  <2>3. CASE s = <<>>
    <3>1. d = <<>>
      BY <2>3
    <3>2. Offers(file) = <<>>
      BY <2>3 DEF Offers
    <3>3. QED
      BY <1>2, <2>2, <3>1, <3>2 DEF Found
  <2>4. CASE s # <<>>
    <3>1. 1 \in DOMAIN s /\ Len(d) = Len(s) /\ d[1] = Section(s[1])
      BY <1>1, <2>4
    <3>2. d # <<>> /\ Head(d) = d[1]
      BY <1>1, <2>4, <3>1
    <3>3. file.state = "parsed" /\ Offers(file) = s
      BY <1>1, <1>2, <2>4 DEF Offers
    <3> HIDE DEF d
    <3>4. QED
      BY <1>1, <1>2, <2>2, <2>4, <3>1, <3>2, <3>3 DEF Found
  <2>5. QED
    BY <2>3, <2>4
<1>3. CASE \E i \in DOMAIN s : ~Readable(s[i])
  <2>1. Deserialize(file) = Malformed
    BY <1>3 DEF Deserialize
  <2>2. Offers(file) = <<>>
    BY <1>3 DEF Offers
  <2>3. QED
    BY <1>3, <2>1, <2>2 DEF Found, Malformed
<1>4. QED
  BY <1>2, <1>3

\* The files that end the start as they are read.
RejectedDefault(i) ==
    \/ DirFile(i).state = "malformed"
    \/ \E j \in DOMAIN DirFile(i).sections : ~Readable(DirFile(i).sections[j])
    \/ DirFile(i).state = "unreadable" /\ LOADERS[i] = "package.json"
RejectedFile ==
    IF setup.named # <<>> THEN \E i \in DOMAIN setup.named : Offers(setup.named[i]) = <<>>
    ELSE \E i \in DOMAIN LOADERS : RejectedDefault(i) /\ \A j \in Usable : i < j

\* What a default file offers and whether it is rejected.
LEMMA DefaultOffers ==
    ASSUME setup \in Setups, NEW i \in 1 .. 4
    PROVE  /\ Found(Default_file(i)) <=> i \in Usable
           /\ Default_file(i).state = "malformed" <=> RejectedDefault(i)
           /\ i \in Usable => /\ Head(Default_file(i).sections) = Section(DirFile(i).sections[1])
                              /\ IsConfig(DirFile(i).sections[1])
                              /\ ~RejectedDefault(i)
<1> DEFINE f == setup.dir[LOADERS[i]]
           g == contents_or_empty(LOADERS[i], f)
<1>1. DOMAIN LOADERS = 1 .. 4 /\ Len(LOADERS) = 4
  BY DEF LOADERS
<1>2. IsFile(f)
  BY <1>1, StartAssumption DEF IsSetup
<1>3. /\ Default_file(i) = Deserialize(g)
      /\ i \in Usable <=> Offers(DirFile(i)) # <<>>
  BY <1>1 DEF Default_file, Usable
<1>4. ASSUME NEW a, IsFile(a), g = a, DirFile(i) = a, ~(a.state = "unreadable")
      PROVE  /\ Found(Default_file(i)) <=> i \in Usable
             /\ Default_file(i).state = "malformed" <=> RejectedDefault(i)
             /\ i \in Usable => /\ Head(Default_file(i).sections) = Section(DirFile(i).sections[1])
                                /\ IsConfig(DirFile(i).sections[1])
                                /\ ~RejectedDefault(i)
  <2>1. RejectedDefault(i) <=> \/ a.state = "malformed"
                               \/ \E j \in DOMAIN a.sections : ~Readable(a.sections[j])
    BY <1>4 DEF RejectedDefault
  <2> HIDE DEF f, g
  <2>2. QED
    BY <1>3, <1>4, <2>1, FileOffers
<1>5. CASE f.state # "unreadable"
  <2>1. g = f
    BY <1>5 DEF contents_or_empty
  <2>2. DirFile(i) = f
    BY <1>5 DEF DirFile
  <2>3. QED
    BY <1>2, <1>4, <1>5, <2>1, <2>2
<1>6. CASE f.state = "unreadable" /\ LOADERS[i] = "lychee.toml"
  <2> DEFINE a == Parsed(<<<<>>>>)
  <2>1. g = a /\ DirFile(i) = a
    BY <1>6 DEF contents_or_empty, DirFile, lychee_toml
  <2>2. a.state = "parsed" /\ a.sections = <<<<>>>> /\ DOMAIN a = {"state", "sections"}
    BY DEF Parsed
  <2>3. IsFile(a)
    <3>1. <<<<>>>> \in Seq({<<>>}) /\ DOMAIN <<<<>>>> = {1} /\ <<<<>>>>[1] = <<>>
      OBVIOUS
    <3>2. QED
      BY <2>2, <3>1, EmptyConfig, ListOf DEF IsFile
  <2> HIDE DEF a
  <2>4. QED
    BY <1>4, <2>1, <2>2, <2>3
<1>7. CASE f.state = "unreadable" /\ LOADERS[i] # "lychee.toml"
  <2>1. DirFile(i) = f
    BY <1>7 DEF DirFile
  <2>2. f.sections = <<>>
    BY <1>2, <1>7 DEF IsFile
  <2>3. i \notin Usable
    BY <1>3, <1>7, <2>1 DEF Offers
  <2>4. RejectedDefault(i) <=> LOADERS[i] = "package.json"
    BY <1>7, <2>1, <2>2, ListEmpty DEF RejectedDefault
  <2>5. CASE LOADERS[i] = "package.json"
    <3>1. g = Malformed
      BY <1>7, <2>5 DEF contents_or_empty
    <3>2. Deserialize(g) = Malformed
      BY <3>1, ListEmpty DEF Deserialize, Malformed
    <3>3. QED
      BY <1>3, <2>3, <2>4, <2>5, <3>2 DEF Malformed, Found
  <2>6. CASE LOADERS[i] # "package.json"
    <3>0. LOADERS[i] \in {"Cargo.toml", "pyproject.toml"}
      BY <1>7, <2>6 DEF LOADERS
    <3>1. g = Parsed(<<>>)
      BY <1>7, <3>0, ListEmpty DEF contents_or_empty, cargo_toml, pyproject_toml
    <3>2. Deserialize(g).sections = <<>> /\ Deserialize(g).state = "parsed"
      BY <3>1, ListEmpty DEF Deserialize, Parsed
    <3>3. QED
      BY <1>3, <2>3, <2>4, <2>6, <3>2 DEF Found
  <2>7. QED
    BY <2>5, <2>6
<1>8. QED
  BY <1>5, <1>6, <1>7

LEMMA MinIs ==
    ASSUME NEW S \in SUBSET Int, NEW x \in S, \A y \in S : x <= y
    PROVE  Min(S) = x
<1>1. \A z \in S : (\A y \in S : z <= y) => z = x
  OBVIOUS
<1>2. QED
  BY <1>1 DEF Min

LEMMA MaxOfTwo ==
    ASSUME NEW a \in Int, NEW b \in Int
    PROVE  Max({a, b}) = IF a >= b THEN a ELSE b
<1> DEFINE m == IF a >= b THEN a ELSE b
<1>1. m \in {a, b} /\ \A y \in {a, b} : m >= y
  OBVIOUS
<1>2. \A z \in {a, b} : (\A y \in {a, b} : z >= y) => z = m
  OBVIOUS
<1>3. QED
  BY <1>1, <1>2 DEF Max

LEMMA LeastOf ==
    ASSUME NEW S \in SUBSET Nat, S # {}
    PROVE  \E x \in S : \A y \in S : x <= y
<1> DEFINE Less == {p \in Nat \X Nat : p[1] < p[2]}
<1>1. IsWellFoundedOn(Less, Nat)
  <2>1. Less = OpToRel(<, Nat)
    BY DEF OpToRel
  <2>2. QED
    BY <2>1, NatLessThanWellFounded
<1>2. PICK x \in S : \A y \in S : ~ (<<y, x>> \in Less)
  <2> HIDE DEF Less
  <2>1. QED
    BY <1>1, WFMin
<1>3. ASSUME NEW y \in S PROVE x <= y
  <2>1. x \in Nat /\ y \in Nat /\ ~ (<<y, x>> \in Less)
    BY <1>2
  <2>2. ~ (y < x)
    BY <2>1
  <2>3. QED
    BY <2>1, <2>2
<1>4. QED
  BY <1>3

\* The command line is well typed once the names of its headers are read.
LEMMA TypedConfig ==
    ASSUME setup \in Setups
    PROVE  IsConfig(Typed(setup.cli)) /\ "accept" \notin DOMAIN Typed(setup.cli)
<1> DEFINE c == setup.cli
           t == Typed(c)
<1>1. IsConfig(c) /\ "accept" \notin DOMAIN c
  BY StartAssumption DEF IsSetup
<1>2. CASE "header" \notin DOMAIN c
  BY <1>1, <1>2 DEF Typed
<1>3. CASE "header" \in DOMAIN c
  <2> DEFINE h == [i \in DOMAIN c.header |-> parse_single_header(c.header[i])]
  <2>1. t = [c EXCEPT !.header = h]
    BY <1>3 DEF Typed
  <2>2. /\ DOMAIN t = DOMAIN c /\ t.header = h
        /\ \A f \in DOMAIN c : f # "header" => t[f] = c[f]
    BY <1>3, <2>1
  <2>3. IsList(items(c, "header")) /\ items(c, "header") = c.header
    BY <1>1, <1>3 DEF IsConfig, Chained, items
  <2>4. Len(c.header) \in Nat /\ DOMAIN c.header = 1 .. Len(c.header)
    BY <2>3, ListDomain
  <2>5. IsList(h)
    <3> DEFINE R == {h[i] : i \in 1 .. Len(c.header)}
    <3>1. h \in [1 .. Len(c.header) -> R]
      BY <2>4
    <3> HIDE DEF h, R
    <3>2. h \in Seq(R)
      BY <2>4, <3>1
    <3>3. QED
      BY <3>2, ListOf
  <2> HIDE DEF h, t
  <2>6. ASSUME NEW f \in Chained PROVE IsList(items(t, f))
    <3>1. CASE f = "header"
      BY <1>3, <2>2, <2>5, <3>1 DEF items
    <3>2. CASE f # "header"
      <4>1. items(t, f) = items(c, f)
        BY <2>2, <3>2 DEF items
      <4>2. QED
        BY <1>1, <4>1 DEF IsConfig
    <3>3. QED
      BY <3>1, <3>2
  <2>7. \A h2 \in DOMAIN items(t, "hosts") : IsHeaderMap(t.hosts[h2])
    <3>1. items(t, "hosts") = items(c, "hosts")
      BY <2>2 DEF items
    <3>2. "hosts" \in DOMAIN c => t.hosts = c.hosts
      BY <2>2
    <3>3. "hosts" \notin DOMAIN c => DOMAIN items(c, "hosts") = {}
      BY ListEmpty DEF items
    <3>4. QED
      BY <1>1, <3>1, <3>2, <3>3 DEF IsConfig
  <2>8. value(t, "max_concurrency") = value(c, "max_concurrency")
    BY <2>2 DEF value
  <2>9. QED
    BY <1>1, <2>2, <2>6, <2>7, <2>8 DEF IsConfig, t
<1>4. QED
  BY <1>2, <1>3

LEMMA NamedSources ==
    ASSUME setup \in Setups, setup.named # <<>>
    PROVE  LET n == Len(setup.named) IN
           /\ n \in Nat \ {0} /\ DOMAIN setup.named = 1 .. n
           /\ \A i \in 1 .. n : IsFile(setup.named[i])
           /\ Len(Sources) = n + 1 /\ DOMAIN Sources = 1 .. n + 1
           /\ Sources[1] = Typed(setup.cli)
           /\ \A i \in 1 .. n : Sources[i + 1] = setup.named[n + 1 - i].sections[1]
<1> DEFINE n == Len(setup.named)
           a == <<Typed(setup.cli)>>
           b == [i \in DOMAIN setup.named |-> setup.named[n + 1 - i].sections[1]]
<1>1. IsList(setup.named) /\ \A i \in DOMAIN setup.named : IsFile(setup.named[i])
  BY StartAssumption DEF IsSetup
<1>2. n \in Nat \ {0} /\ DOMAIN setup.named = 1 .. n
  BY <1>1, ListDomain
<1>3. Sources = a \o b
  BY Zenon DEF Sources
<1>4. IsList(b) /\ Len(b) = n /\ \A i \in 1 .. n : b[i] = setup.named[n + 1 - i].sections[1]
  <2> DEFINE R == {b[i] : i \in 1 .. n}
  <2>1. b \in [1 .. n -> R] /\ \A i \in 1 .. n : b[i] = setup.named[n + 1 - i].sections[1]
    BY <1>2
  <2> HIDE DEF R, b, n
  <2>2. b \in Seq(R) /\ Len(b) = n
    BY <1>2, <2>1
  <2>3. QED
    BY <2>1, <2>2, ListOf
<1>5. IsList(a) /\ Len(a) = 1 /\ a[1] = Typed(setup.cli)
  <2>1. a \in Seq({Typed(setup.cli)}) /\ Len(a) = 1 /\ a[1] = Typed(setup.cli)
    OBVIOUS
  <2>2. QED
    BY <2>1, ListOf
<1> HIDE DEF a, b, n
<1>6. /\ IsList(a \o b) /\ Len(a \o b) = 1 + n
      /\ \A i \in 1 .. 1 + n : (a \o b)[i] = IF i <= 1 THEN a[i] ELSE b[i - 1]
  <2>1. /\ IsList(a \o b) /\ Len(a \o b) = Len(a) + Len(b)
        /\ \A i \in 1 .. Len(a) + Len(b) :
               (a \o b)[i] = IF i <= Len(a) THEN a[i] ELSE b[i - Len(a)]
    BY <1>4, <1>5, ListConcat, Zenon
  <2>2. Len(a) = 1 /\ Len(b) = n
    BY <1>4, <1>5
  <2>3. QED
    BY <2>1, <2>2
<1>7. DOMAIN (a \o b) = 1 .. n + 1 /\ Len(a \o b) = n + 1
  BY <1>2, <1>6, ListDomain
<1>8. (a \o b)[1] = a[1]
  <2>1. 1 \in 1 .. 1 + n /\ 1 <= 1
    BY <1>2
  <2>2. QED
    BY <1>6, <2>1
<1>9. ASSUME NEW i \in 1 .. n PROVE (a \o b)[i + 1] = b[i]
  <2>1. i + 1 \in 1 .. 1 + n /\ ~(i + 1 <= 1) /\ (i + 1) - 1 = i
    BY <1>2
  <2>2. QED
    BY <1>6, <2>1
<1>10. QED
  BY <1>1, <1>2, <1>3, <1>4, <1>5, <1>7, <1>8, <1>9 DEF n

LEMMA DefaultSources ==
    ASSUME setup \in Setups, setup.named = <<>>
    PROVE  /\ Usable = {} => Len(Sources) = 1
           /\ Usable # {} => /\ Len(Sources) = 2
                             /\ Sources[2] = DirFile(Min(Usable)).sections[1]
           /\ Len(Sources) \in Nat /\ DOMAIN Sources = 1 .. Len(Sources)
           /\ Sources[1] = Typed(setup.cli)
<1> DEFINE a == Typed(setup.cli)
           b == DirFile(Min(Usable)).sections[1]
<1>1. Sources = <<a>> \o IF Usable = {} THEN <<>> ELSE <<b>>
  BY DEF Sources
<1>2. CASE Usable = {}
  <2>1. Sources = <<a>> \o <<>>
    BY <1>1, <1>2
  <2> HIDE DEF a
  <2>2. Sources = <<a>>
    BY <2>1
  <2>3. QED
    BY <1>2, <2>2 DEF a
<1>3. CASE Usable # {}
  <2>1. Sources = <<a>> \o <<b>>
    BY <1>1, <1>3
  <2> HIDE DEF a, b
  <2>2. <<a>> \in Seq({a, b}) /\ <<b>> \in Seq({a, b}) /\ Len(<<a>>) = 1 /\ Len(<<b>>) = 1
    OBVIOUS
  <2>3. /\ <<a>> \o <<b>> \in Seq({a, b}) /\ Len(<<a>> \o <<b>>) = 1 + 1
        /\ \A i \in 1 .. 1 + 1 : (<<a>> \o <<b>>)[i] = IF i <= 1 THEN <<a>>[i] ELSE <<b>>[i - 1]
    BY <2>2, ConcatProperties
  <2>4. DOMAIN (<<a>> \o <<b>>) = 1 .. 2
    BY <2>3, LenProperties
  <2>5. (<<a>> \o <<b>>)[1] = a /\ (<<a>> \o <<b>>)[2] = b
    BY <2>3
  <2>6. QED
    BY <1>3, <2>1, <2>3, <2>4, <2>5 DEF a, b
<1>4. QED
  BY <1>2, <1>3
-----------------------------------------------------------------------------
(* The start, step by step *)

Ignored ==
    IF setup.lycheeignore.state = "absent" THEN <<>> ELSE read_lines(setup.lycheeignore)
ExcludeFiles == Promised("exclude_file")
Patterns ==
    <<Promised("exclude"), Ignored>>
    \o [i \in DOMAIN ExcludeFiles |-> read_lines(setup.lists[ExcludeFiles[i]])]

\* The configuration but for the lists outside Ls and the other fields outside Vs.
MostAs(Ls, Vs) ==
    /\ ListsAs(Sources, config, Len(Sources), Ls) /\ ListsTyped(config, Ls)
    /\ ValuesAs(Sources, config, Len(Sources), Vs)
    /\ AcceptAs(Sources, config, Len(Sources), ranges) /\ HostsTyped(config)

FilesRead ==
    IF setup.named # <<>>
    THEN /\ next_file \in 1 .. Len(setup.named)
         /\ \A i \in next_file + 1 .. Len(setup.named) : Offers(setup.named[i]) # <<>>
         /\ MergedAs(Sources, config, Len(setup.named) + 1 - next_file, ranges)
    ELSE /\ next_file \in 1 .. 5
         /\ \A i \in 1 .. next_file - 1 : i \notin Usable /\ ~RejectedDefault(i)
         /\ MergedAs(Sources, config, 1, ranges)
AllMerged == ~RejectedFile /\ MergedAs(Sources, config, Len(Sources), ranges)
ListsRead ==
    /\ next_file \in 1 .. Len(ExcludeFiles) + 1
    /\ ~RejectedFile /\ setup.lycheeignore.state # "unreadable"
    /\ \A i \in 1 .. next_file - 1 : setup.lists[ExcludeFiles[i]].state = "lines"
    /\ MostAs(Chained \ {"exclude"}, Plain) /\ NumberTyped(config)
    /\ items(config, "exclude") = flat(Patterns)[next_file + 1]
AllLoaded ==
    /\ ~RejectedFile /\ ~FaultyList
    /\ MostAs(Chained \ {"exclude"}, Plain \ {"max_concurrency"})
    /\ items(config, "exclude") = FlattenSeq(Patterns)
    /\ value(config, "max_concurrency") =
           Min({Promised("max_concurrency")}
               \cup {Max({1, n - BASELINE_OVERHEAD}) : n \in setup.soft_limit})
RightExit ==
    /\ exit_code = {ConfigFile} => RejectedFile \/ FaultyList
    /\ exit_code \in {{Success}, {UnexpectedFailure}} => ~RejectedFile /\ ~FaultyList
LoadInv ==
    /\ setup \in Setups
    /\ stage \in {"parse", "files", "ignore", "lists", "loaded", "dump_inputs", "inputs",
                  "ready", "exited"}
    /\ stage # "exited" => exit_code = {}
    /\ stage = "files" => FilesRead
    /\ stage = "ignore" => next_file = 1 /\ AllMerged
    /\ stage = "lists" => ListsRead
    /\ Loaded => AllLoaded
    /\ stage = "exited" => RightExit

\* What the sources say is a matter of the setup alone.
LEMMA SameSetup ==
    ASSUME setup' = setup
    PROVE  /\ Sources' = Sources /\ Usable' = Usable /\ RejectedFile' = RejectedFile
           /\ \A i : RejectedDefault(i)' = RejectedDefault(i)
           /\ Patterns' = Patterns /\ ExcludeFiles' = ExcludeFiles /\ FaultyList' = FaultyList
           /\ \A f : Promised(f)' = Promised(f)
<1>1. \A i : DirFile(i)' = DirFile(i)
  BY DEF DirFile
<1>2. Usable' = Usable
  BY <1>1 DEF Usable, Offers
<1>3. Sources' = Sources
  BY <1>1, <1>2 DEF Sources, Typed
<1>4. \A f : Promised(f)' = Promised(f)
  BY <1>3 DEF Promised, items
<1>5. \A i : RejectedDefault(i)' = RejectedDefault(i)
  BY <1>1 DEF RejectedDefault
<1>6. RejectedFile' = RejectedFile
  BY <1>2, <1>5 DEF RejectedFile, Offers
<1>7. ExcludeFiles' = ExcludeFiles
  BY <1>4 DEF ExcludeFiles
<1>8. FaultyList' = FaultyList
  BY <1>4 DEF FaultyList
<1>9. Patterns' = Patterns
  <2>1. Ignored' = Ignored
    BY DEF Ignored
  <2>2. QED
    BY <1>4, <1>7, <2>1 DEF Patterns
<1>10. QED
  BY <1>2, <1>3, <1>4, <1>5, <1>6, <1>7, <1>8, <1>9

LEMMA SourcesList ==
    ASSUME setup \in Setups
    PROVE  /\ Len(Sources) \in Nat \ {0} /\ DOMAIN Sources = 1 .. Len(Sources)
           /\ Sources[1] = Typed(setup.cli)
<1>1. CASE setup.named # <<>>
  BY <1>1, NamedSources
<1>2. CASE setup.named = <<>>
  BY <1>2, DefaultSources
<1>3. QED
  BY <1>1, <1>2

\* When all sources are merged, a list is what they promise.
LEMMA PromisedLists ==
    ASSUME setup \in Setups, NEW f \in Chained
    PROVE  Promised(f) = flat(Lists(Sources, f))[Len(Sources)]
<1>1. Promised(f) = FlattenSeq(Lists(Sources, f))
  BY Zenon DEF Promised, Lists
<1>2. QED
  BY <1>1, SourcesList, ListsStep

LEMMA ParseStep ==
    ASSUME LoadInv, Parse
    PROVE  LoadInv'
<1>1. /\ setup' = setup /\ ranges' = ranges /\ stage' = "files" /\ exit_code' = exit_code
      /\ config' = IF ranges = <<>> THEN Typed(setup.cli)
                   ELSE or([accept |-> ranges], Typed(setup.cli))
      /\ next_file' = IF setup.named = <<>> THEN 1 ELSE Len(setup.named)
      /\ stage = "parse" /\ setup \in Setups /\ exit_code = {}
  BY DEF Parse, statusVars, LoadInv
<1>2. MergedAs(Sources, config', 1, ranges)
  BY <1>1, SourcesList, TypedConfig, FirstMerged
<1>3. Sources' = Sources
  BY <1>1, SameSetup
<1>4. CASE setup.named # <<>>
  <2> DEFINE n == Len(setup.named)
  <2>1. n \in Nat \ {0}
    BY <1>1, <1>4, NamedSources
  <2>2. n \in 1 .. n /\ n + 1 - n = 1 /\ n + 1 .. n = {}
    BY <2>1
  <2>3. next_file' = n
    BY <1>1, <1>4
  <2>4. FilesRead'
    BY <1>1, <1>2, <1>3, <1>4, <2>2, <2>3 DEF FilesRead
  <2>5. QED
    BY <1>1, <2>4 DEF LoadInv, Loaded
<1>5. CASE setup.named = <<>>
  <2>1. next_file' = 1
    BY <1>1, <1>5
  <2>2. FilesRead'
    BY <1>1, <1>2, <1>3, <1>5, <2>1 DEF FilesRead
  <2>3. QED
    BY <1>1, <2>2 DEF LoadInv, Loaded
<1>6. QED
  BY <1>4, <1>5

LEMMA NamedStep ==
    ASSUME LoadInv, LoadNamed
    PROVE  LoadInv'
<1> DEFINE n == Len(setup.named)
           k == n + 1 - next_file
           file == setup.named[next_file]
<1>1. /\ setup' = setup /\ ranges' = ranges /\ exit_code' = exit_code
      /\ stage = "files" /\ setup.named # <<>> /\ setup \in Setups /\ exit_code = {}
      /\ Found(Deserialize(file))
      /\ config' = merge(config, Head(Deserialize(file).sections))
      /\ next_file = 1 => stage' = "ignore" /\ next_file' = next_file
      /\ next_file # 1 => stage' = stage /\ next_file' = next_file - 1
  BY DEF LoadNamed, unread, LoadInv, Named_file, merge_file
<1>2. /\ next_file \in 1 .. n
      /\ \A i \in next_file + 1 .. n : Offers(setup.named[i]) # <<>>
      /\ MergedAs(Sources, config, k, ranges)
  BY <1>1 DEF LoadInv, FilesRead
<1>3. /\ n \in Nat \ {0} /\ DOMAIN setup.named = 1 .. n
      /\ IsFile(file)
      /\ Len(Sources) = n + 1 /\ DOMAIN Sources = 1 .. n + 1
      /\ \A i \in 1 .. n : Sources[i + 1] = setup.named[n + 1 - i].sections[1]
  BY <1>1, <1>2, NamedSources
<1>4. Offers(file) # <<>> /\ IsConfig(file.sections[1])
      /\ Head(Deserialize(file).sections) = Section(file.sections[1])
  BY <1>1, <1>3, FileOffers
<1>5. k \in Nat \ {0} /\ k \in 1 .. n /\ k < Len(Sources) /\ n + 1 - k = next_file
  BY <1>2, <1>3
<1>6. Sources[k + 1] = file.sections[1]
  BY <1>3, <1>5
<1> HIDE DEF k, file, n
<1>7. MergedAs(Sources, config', k + 1, ranges)
  BY <1>1, <1>2, <1>3, <1>4, <1>5, <1>6, MergeStep
<1>8. \A i \in next_file .. n : Offers(setup.named[i]) # <<>>
  <2>1. \A i \in next_file .. n : i = next_file \/ i \in next_file + 1 .. n
    BY <1>2, <1>3
  <2>2. QED
    BY <1>2, <1>4, <2>1 DEF file
<1>9. Sources' = Sources /\ RejectedFile' = RejectedFile
  BY <1>1, SameSetup
<1>10. CASE next_file = 1
  <2>1. ~RejectedFile
    BY <1>1, <1>3, <1>8, <1>10 DEF RejectedFile
  <2>2. k + 1 = Len(Sources)
    BY <1>3, <1>10 DEF k
  <2>3. AllMerged'
    BY <1>1, <1>7, <1>9, <2>1, <2>2 DEF AllMerged
  <2>4. QED
    BY <1>1, <1>10, <2>3 DEF LoadInv, Loaded
<1>11. CASE next_file # 1
  <2>1. next_file' \in 1 .. n /\ next_file' + 1 = next_file /\ n + 1 - next_file' = k + 1
    BY <1>1, <1>2, <1>3, <1>11 DEF k
  <2>2. FilesRead'
    BY <1>1, <1>7, <1>8, <1>9, <2>1 DEF FilesRead, Offers, n
  <2>3. QED
    BY <1>1, <1>11, <2>2 DEF LoadInv, Loaded
<1>12. QED
  BY <1>10, <1>11

LEMMA DefaultStep ==
    ASSUME LoadInv, TryDefault \/ NoDefault
    PROVE  LoadInv'
<1>1. /\ setup' = setup /\ ranges' = ranges /\ exit_code' = exit_code
      /\ stage = "files" /\ setup.named = <<>> /\ setup \in Setups /\ exit_code = {}
  BY DEF TryDefault, NoDefault, unread, LoadInv
<1>2. /\ next_file \in 1 .. 5
      /\ \A i \in 1 .. next_file - 1 : i \notin Usable /\ ~RejectedDefault(i)
      /\ MergedAs(Sources, config, 1, ranges)
  BY <1>1 DEF LoadInv, FilesRead
<1>3. /\ Sources' = Sources /\ Usable' = Usable /\ RejectedFile' = RejectedFile
      /\ \A i : RejectedDefault(i)' = RejectedDefault(i)
  BY <1>1, SameSetup
<1>4. Len(LOADERS) = 4 /\ DOMAIN LOADERS = 1 .. 4
  BY DEF LOADERS
<1>5. Usable \subseteq 1 .. 4
  BY <1>4 DEF Usable
<1>6. /\ Usable = {} => Len(Sources) = 1
      /\ Usable # {} => Len(Sources) = 2 /\ Sources[2] = DirFile(Min(Usable)).sections[1]
      /\ Len(Sources) \in Nat /\ DOMAIN Sources = 1 .. Len(Sources)
  BY <1>1, DefaultSources
<1>7. CASE NoDefault
  <2>1. stage' = "ignore" /\ next_file' = 1 /\ config' = config /\ next_file > 4
    BY <1>4, <1>7 DEF NoDefault
  <2>2. next_file = 5 /\ next_file - 1 = 4
    BY <1>2, <2>1
  <2>3. Usable = {} /\ ~RejectedFile
    BY <1>1, <1>2, <1>4, <1>5, <2>2 DEF RejectedFile
  <2>4. AllMerged'
    BY <1>1, <1>2, <1>3, <1>6, <2>1, <2>3 DEF AllMerged
  <2>5. QED
    BY <1>1, <2>1, <2>4 DEF LoadInv, Loaded
<1>8. CASE TryDefault
  <2> DEFINE file == Default_file(next_file)
  <2>1. /\ next_file <= 4 /\ file.state # "malformed"
        /\ Found(file) => config' = merge(config, Head(file.sections)) /\ stage' = "ignore" /\ next_file' = 1
        /\ ~Found(file) => next_file' = next_file + 1 /\ config' = config /\ stage' = stage
    BY <1>4, <1>8 DEF TryDefault, merge_file
  <2>2. next_file \in 1 .. 4
    BY <1>2, <2>1
  <2>3. /\ Found(file) <=> next_file \in Usable
        /\ file.state = "malformed" <=> RejectedDefault(next_file)
        /\ next_file \in Usable => /\ Head(file.sections) = Section(DirFile(next_file).sections[1])
                              /\ IsConfig(DirFile(next_file).sections[1])
    BY <1>1, <2>2, DefaultOffers
  <2> HIDE DEF file
  <2>4. ~RejectedDefault(next_file)
    BY <2>1, <2>3
  <2>5. CASE next_file \in Usable
    <3>1. \A j \in Usable : next_file <= j
      BY <1>2, <1>5, <2>2
    <3>2. Min(Usable) = next_file
      <4>1. Usable \in SUBSET Int
        BY <1>5
      <4>2. QED
        BY <2>5, <3>1, <4>1, MinIs
    <3>3. Len(Sources) = 2 /\ Sources[1 + 1] = DirFile(next_file).sections[1]
      BY <1>6, <2>5, <3>2
    <3>4. MergedAs(Sources, merge(config, Section(Sources[1 + 1])), 1 + 1, ranges)
      <4>1. 1 \in Nat \ {0} /\ 1 < Len(Sources) /\ IsConfig(Sources[1 + 1])
        BY <2>3, <2>5, <3>3
      <4>2. QED
        BY <1>2, <1>6, <4>1, MergeStep
    <3>5. MergedAs(Sources, config', Len(Sources), ranges)
      BY <2>1, <2>3, <2>5, <3>3, <3>4
    <3>6. ~RejectedFile
      <4>1. \A i \in 1 .. 4 : (\A j \in Usable : i < j) => i \in 1 .. next_file - 1
        BY <2>2, <2>5
      <4>2. QED
        BY <1>1, <1>2, <1>4, <4>1 DEF RejectedFile
    <3>7. AllMerged'
      BY <1>1, <1>3, <3>5, <3>6 DEF AllMerged
    <3>8. QED
      BY <1>1, <2>1, <2>3, <2>5, <3>7 DEF LoadInv, Loaded
  <2>6. CASE next_file \notin Usable
    <3>1. next_file' = next_file + 1 /\ config' = config /\ stage' = stage
      BY <2>1, <2>3, <2>6
    <3>2. next_file' \in 1 .. 5 /\ \A i \in 1 .. next_file' - 1 : i = next_file \/ i \in 1 .. next_file - 1
      BY <2>2, <3>1
    <3>3. FilesRead'
      BY <1>1, <1>2, <1>3, <2>4, <2>6, <3>1, <3>2 DEF FilesRead
    <3>4. QED
      BY <1>1, <3>1, <3>3 DEF LoadInv, Loaded
  <2>7. QED
    BY <2>5, <2>6
<1>9. QED
  BY <1>7, <1>8

\* The lists of patterns, one after the other.
LEMMA PatternSteps ==
    ASSUME IsList(ExcludeFiles)
    PROVE  LET n == Len(ExcludeFiles) IN
           /\ n \in Nat /\ DOMAIN ExcludeFiles = 1 .. n
           /\ flat(Patterns)[2] = Promised("exclude") \o Ignored
           /\ \A i \in 1 .. n : flat(Patterns)[i + 2] =
                  flat(Patterns)[i + 1] \o read_lines(setup.lists[ExcludeFiles[i]])
           /\ FlattenSeq(Patterns) = flat(Patterns)[n + 2]
<1> DEFINE n == Len(ExcludeFiles)
           a == <<Promised("exclude"), Ignored>>
           b == [i \in DOMAIN ExcludeFiles |-> read_lines(setup.lists[ExcludeFiles[i]])]
<1>1. n \in Nat /\ DOMAIN ExcludeFiles = 1 .. n
  BY ListDomain
<1>2. Patterns = a \o b
  BY DEF Patterns
<1>3. IsList(b) /\ Len(b) = n /\ \A i \in 1 .. n : b[i] = read_lines(setup.lists[ExcludeFiles[i]])
  <2> DEFINE R == {b[i] : i \in 1 .. n}
  <2>1. b \in [1 .. n -> R] /\ \A i \in 1 .. n : b[i] = read_lines(setup.lists[ExcludeFiles[i]])
    BY <1>1
  <2> HIDE DEF R, b, n
  <2>2. b \in Seq(R) /\ Len(b) = n
    BY <1>1, <2>1
  <2>3. QED
    BY <2>1, <2>2, ListOf
<1>4. IsList(a) /\ Len(a) = 2 /\ a[1] = Promised("exclude") /\ a[2] = Ignored
  <2>1. a \in Seq({Promised("exclude"), Ignored}) /\ Len(a) = 2
        /\ a[1] = Promised("exclude") /\ a[2] = Ignored
    OBVIOUS
  <2>2. QED
    BY <2>1, ListOf
<1> HIDE DEF a, b, n
<1>5. /\ IsList(a \o b) /\ Len(a \o b) = 2 + n
      /\ \A i \in 1 .. 2 + n : (a \o b)[i] = IF i <= 2 THEN a[i] ELSE b[i - 2]
  <2>1. /\ IsList(a \o b) /\ Len(a \o b) = Len(a) + Len(b)
        /\ \A i \in 1 .. Len(a) + Len(b) :
               (a \o b)[i] = IF i <= Len(a) THEN a[i] ELSE b[i - Len(a)]
    BY <1>3, <1>4, ListConcat, Zenon
  <2>2. Len(a) = 2 /\ Len(b) = n
    BY <1>3, <1>4
  <2>3. QED
    BY <2>1, <2>2
<1>6. /\ Len(Patterns) = 2 + n /\ Patterns[1] = a[1] /\ Patterns[2] = a[2]
      /\ \A i \in 1 .. n : Patterns[i + 2] = b[i]
  <2>1. /\ 1 \in 1 .. 2 + n /\ 2 \in 1 .. 2 + n
        /\ \A i \in 1 .. n : i + 2 \in 1 .. 2 + n /\ ~(i + 2 <= 2) /\ (i + 2) - 2 = i
    BY <1>1
  <2>2. ASSUME NEW i \in 1 .. n PROVE (a \o b)[i + 2] = b[i]
    BY <1>5, <2>1
  <2>3. (a \o b)[1] = a[1] /\ (a \o b)[2] = a[2]
    BY <1>5, <2>1
  <2>4. QED
    BY <1>2, <1>5, <2>2, <2>3
<1> HIDE DEF Patterns, flat
<1>7. /\ flat(Patterns)[1] = Patterns[1]
      /\ \A i \in 1 .. Len(Patterns) :
             i # 1 => flat(Patterns)[i] = flat(Patterns)[i - 1] \o Patterns[i]
      /\ FlattenSeq(Patterns) = flat(Patterns)[Len(Patterns)]
  <2>1. Len(Patterns) \in Nat /\ Len(Patterns) # 0
    BY <1>1, <1>6
  <2>2. QED
    BY <2>1, FlatSteps, FlattenIsFlat
<1>8. flat(Patterns)[2] = Promised("exclude") \o Ignored
  <2>1. 2 \in 1 .. Len(Patterns) /\ 2 # 1 /\ 2 - 1 = 1
    BY <1>1, <1>6
  <2>2. QED
    BY <1>4, <1>6, <1>7, <2>1
<1>9. ASSUME NEW i \in 1 .. n
      PROVE  flat(Patterns)[i + 2] = flat(Patterns)[i + 1] \o read_lines(setup.lists[ExcludeFiles[i]])
  <2>1. i + 2 \in 1 .. Len(Patterns) /\ i + 2 # 1 /\ (i + 2) - 1 = i + 1
    BY <1>1, <1>6
  <2>2. QED
    BY <1>3, <1>6, <1>7, <2>1
<1>10. Len(Patterns) = n + 2
  BY <1>1, <1>6
<1>11. QED
  BY <1>1, <1>7, <1>8, <1>9, <1>10 DEF n

LEMMA OrKeeps ==
    ASSUME NEW c, NEW d, NEW name, DOMAIN d = {name}
    PROVE  /\ name \in DOMAIN or(d, c) /\ or(d, c)[name] = d[name]
           /\ \A f : f # name => (f \in DOMAIN or(d, c) <=> f \in DOMAIN c)
           /\ \A f \in DOMAIN c : f # name => or(d, c)[f] = c[f]
           /\ \A f : f # name => items(or(d, c), f) = items(c, f)
           /\ \A f : f # name => value(or(d, c), f) = value(c, f)
<1>1. /\ name \in DOMAIN or(d, c) /\ or(d, c)[name] = d[name]
      /\ \A f : f # name => (f \in DOMAIN or(d, c) <=> f \in DOMAIN c)
      /\ \A f \in DOMAIN c : f # name => or(d, c)[f] = c[f]
  BY DEF or
<1> HIDE DEF or
<1>2. QED
  BY <1>1 DEF items, value

\* Most of the configuration stays while one field of it is changed.
LEMMA MostKept ==
    ASSUME NEW Ls, NEW Vs, MostAs(Ls, Vs), setup' = setup, ranges' = ranges,
           NEW name \in {"exclude", "max_concurrency"}, name \notin Ls, name \notin Vs,
           \A f : f # name => (f \in DOMAIN config' <=> f \in DOMAIN config),
           \A f \in DOMAIN config : f # name => config'[f] = config[f]
    PROVE  MostAs(Ls, Vs)'
<1>1. Sources' = Sources
  BY SameSetup
<1>2. \A f : f # name => items(config', f) = items(config, f)
  BY DEF items
<1>3. "accept" # name /\ "hosts" # name
  OBVIOUS
<1>4. ListsAs(Sources, config', Len(Sources), Ls) /\ ListsTyped(config', Ls)
  BY <1>2 DEF MostAs, ListsAs, ListsTyped
<1>5. ValuesAs(Sources, config', Len(Sources), Vs)
  <2> SUFFICES ASSUME NEW f \in Vs
               PROVE  /\ f \in DOMAIN config' <=> SetBy(Sources, f, Len(Sources))
                      /\ \A i \in 1 .. Len(Sources) :
                             FirstWith(Sources, f, i) => config'[f] = Sources[i][f]
    BY DEF ValuesAs
  <2>1. /\ f \in DOMAIN config <=> SetBy(Sources, f, Len(Sources))
        /\ \A i \in 1 .. Len(Sources) : FirstWith(Sources, f, i) => config[f] = Sources[i][f]
    BY DEF MostAs, ValuesAs
  <2>2. \A i \in 1 .. Len(Sources) : FirstWith(Sources, f, i) => SetBy(Sources, f, Len(Sources))
    BY DEF FirstWith, SetBy
  <2>3. f # name
    OBVIOUS
  <2>4. QED
    BY <2>1, <2>2, <2>3
<1>6. AcceptAs(Sources, config', Len(Sources), ranges)
  <2>1. \A i \in 1 .. Len(Sources) :
            FirstWith(Sources, "accept", i) => SetBy(Sources, "accept", Len(Sources))
    BY DEF FirstWith, SetBy
  <2>2. "accept" \in DOMAIN config' <=> "accept" \in DOMAIN config
    BY <1>3
  <2>3. "accept" \in DOMAIN config => config'["accept"] = config["accept"]
    BY <1>3
  <2>4. AcceptAs(Sources, config, Len(Sources), ranges)
    BY DEF MostAs
  <2>5. QED
    BY <2>1, <2>2, <2>3, <2>4 DEF AcceptAs
<1>7. HostsTyped(config')
  <2>1. items(config', "hosts") = items(config, "hosts")
    BY <1>2, <1>3
  <2>2. "hosts" \in DOMAIN config => config'["hosts"] = config["hosts"]
    BY <1>3
  <2>3. \A h \in DOMAIN items(config, "hosts") : "hosts" \in DOMAIN config
    BY ListEmpty DEF items
  <2>4. QED
    BY <2>1, <2>2, <2>3 DEF HostsTyped, MostAs
<1>8. QED
  BY <1>1, <1>4, <1>5, <1>6, <1>7 DEF MostAs

\* The lists to read are the ones that the sources promise.
LEMMA ExcludeFilesAre ==
    ASSUME setup \in Setups, NEW Vs, MostAs(Chained \ {"exclude"}, Vs)
    PROVE  items(config, "exclude_file") = ExcludeFiles /\ IsList(ExcludeFiles)
<1>1. "exclude_file" \in Chained \ {"exclude"}
  BY DEF Chained
<1>2. items(config, "exclude_file") = flat(Lists(Sources, "exclude_file"))[Len(Sources)]
  BY <1>1 DEF MostAs, ListsAs
<1>3. ExcludeFiles = items(config, "exclude_file")
  BY <1>1, <1>2, PromisedLists DEF ExcludeFiles
<1>4. QED
  BY <1>1, <1>3 DEF MostAs, ListsTyped

LEMMA IgnoreStep ==
    ASSUME LoadInv, ReadLycheeignore
    PROVE  LoadInv'
<1>1. /\ setup' = setup /\ ranges' = ranges /\ exit_code' = exit_code /\ next_file' = 1 /\ stage' = "lists"
      /\ stage = "ignore" /\ setup \in Setups /\ exit_code = {} /\ AllMerged
      /\ setup.lycheeignore.state # "unreadable"
      /\ config' = IF setup.lycheeignore.state = "absent" THEN config
                   ELSE or([exclude |-> items(config, "exclude") \o read_lines(setup.lycheeignore)], config)
  BY DEF ReadLycheeignore, unread, LoadInv, ReadIgnore, Excluding
<1>2. /\ MostAs(Chained \ {"exclude"}, Plain) /\ NumberTyped(config)
      /\ items(config, "exclude") = Promised("exclude") /\ IsList(items(config, "exclude"))
  <2>1. "exclude" \in Chained
    BY DEF Chained
  <2>2. QED
    BY <1>1, <2>1, PromisedLists DEF AllMerged, MergedAs, MostAs, ListsAs, ListsTyped
<1>3. "exclude" \notin Plain /\ "exclude" \notin Chained \ {"exclude"}
  BY DEF Plain, Chained
<1>4. IsList(ExcludeFiles)
  BY <1>1, <1>2, ExcludeFilesAre
<1>5. /\ Len(ExcludeFiles) \in Nat
      /\ flat(Patterns)[2] = Promised("exclude") \o Ignored
  BY <1>4, PatternSteps
<1>6. /\ MostAs(Chained \ {"exclude"}, Plain)' /\ NumberTyped(config')
      /\ items(config', "exclude") = Promised("exclude") \o Ignored
  <2>1. CASE setup.lycheeignore.state = "absent"
    <3>1. config' = config
      BY <1>1, <2>1
    <3>2. Sources' = Sources
      BY <1>1, SameSetup
    <3>3. MostAs(Chained \ {"exclude"}, Plain)'
      BY <1>1, <1>2, <3>1, <3>2 DEF MostAs
    <3>4. Ignored = <<>>
      BY <2>1 DEF Ignored
    <3>5. QED
      BY <1>2, <3>1, <3>3, <3>4, ListEmpty DEF NumberTyped
  <2>2. CASE setup.lycheeignore.state # "absent"
    <3> DEFINE d == [exclude |-> items(config, "exclude") \o read_lines(setup.lycheeignore)]
    <3>1. config' = or(d, config) /\ DOMAIN d = {"exclude"}
      BY <1>1, <2>2
    <3>2. d["exclude"] = Promised("exclude") \o Ignored
      BY <1>2, <2>2 DEF Ignored
    <3> HIDE DEF d
    <3>3. /\ "exclude" \in DOMAIN config' /\ config'["exclude"] = d["exclude"]
          /\ \A f : f # "exclude" => (f \in DOMAIN config' <=> f \in DOMAIN config)
          /\ \A f \in DOMAIN config : f # "exclude" => config'[f] = config[f]
          /\ value(config', "max_concurrency") = value(config, "max_concurrency")
      BY <3>1, OrKeeps
    <3>4. MostAs(Chained \ {"exclude"}, Plain)'
      BY <1>1, <1>2, <1>3, <3>3, MostKept
    <3>5. QED
      BY <1>2, <3>2, <3>3, <3>4 DEF NumberTyped, items
  <2>3. QED
    BY <2>1, <2>2
<1>7. RejectedFile' = RejectedFile /\ Patterns' = Patterns /\ ExcludeFiles' = ExcludeFiles
  BY <1>1, SameSetup
<1>8. ListsRead'
  <2>1. next_file' \in 1 .. Len(ExcludeFiles) + 1 /\ 1 .. next_file' - 1 = {} /\ next_file' + 1 = 2
    BY <1>1, <1>5
  <2>2. QED
    BY <1>1, <1>5, <1>6, <1>7, <2>1 DEF ListsRead, AllMerged
<1>9. QED
  BY <1>1, <1>8 DEF LoadInv, Loaded

LEMMA ListStep ==
    ASSUME LoadInv, ReadExcludeFile
    PROVE  LoadInv'
<1> DEFINE n == Len(ExcludeFiles)
           lines == read_lines(setup.lists[ExcludeFiles[next_file]])
           d == [exclude |-> items(config, "exclude") \o lines]
<1>1. stage = "lists" /\ setup \in Setups /\ exit_code = {} /\ ListsRead
  BY DEF ReadExcludeFile, LoadInv
<1>2. items(config, "exclude_file") = ExcludeFiles /\ IsList(ExcludeFiles)
  BY <1>1, ExcludeFilesAre DEF ListsRead
<1>3. /\ n \in Nat /\ DOMAIN ExcludeFiles = 1 .. n
      /\ \A i \in 1 .. n : flat(Patterns)[i + 2] =
             flat(Patterns)[i + 1] \o read_lines(setup.lists[ExcludeFiles[i]])
  BY <1>2, PatternSteps
<1>4. next_file \in 1 .. n
  BY <1>1, <1>2, <1>3 DEF ReadExcludeFile, ListsRead
<1>5. config.exclude_file[next_file] = ExcludeFiles[next_file]
  <2>1. "exclude_file" \in DOMAIN config
    BY <1>2, <1>3, <1>4, ListEmpty DEF items
  <2>2. QED
    BY <1>2, <2>1 DEF items
<1>6. /\ setup' = setup /\ ranges' = ranges /\ exit_code' = exit_code /\ next_file' = next_file + 1 /\ stage' = "lists"
      /\ setup.lists[ExcludeFiles[next_file]].state = "lines"
      /\ config' = or(d, config)
  BY <1>1, <1>5 DEF ReadExcludeFile, unread, Excluding
<1>7. DOMAIN d = {"exclude"} /\ d["exclude"] = items(config, "exclude") \o lines
  OBVIOUS
<1> HIDE DEF d, n, lines
<1>8. /\ "exclude" \in DOMAIN config' /\ config'["exclude"] = d["exclude"]
      /\ \A f : f # "exclude" => (f \in DOMAIN config' <=> f \in DOMAIN config)
      /\ \A f \in DOMAIN config : f # "exclude" => config'[f] = config[f]
      /\ value(config', "max_concurrency") = value(config, "max_concurrency")
  <2>1. config' = or(d, config) /\ DOMAIN d = {"exclude"}
    BY <1>6, <1>7
  <2>2. QED
    BY <2>1, OrKeeps
<1>9. MostAs(Chained \ {"exclude"}, Plain)'
  <2>1. "exclude" \notin Plain /\ "exclude" \notin Chained \ {"exclude"}
    BY DEF Plain, Chained
  <2>2. QED
    BY <1>1, <1>6, <1>8, <2>1, MostKept DEF ListsRead
<1>10. items(config', "exclude") = flat(Patterns)[next_file + 2]
  <2>1. items(config', "exclude") = items(config, "exclude") \o lines
    BY <1>7, <1>8 DEF items
  <2>2. items(config, "exclude") = flat(Patterns)[next_file + 1]
    BY <1>1 DEF ListsRead
  <2>3. QED
    BY <1>3, <1>4, <2>1, <2>2 DEF lines
<1>11. RejectedFile' = RejectedFile /\ Patterns' = Patterns /\ ExcludeFiles' = ExcludeFiles
  BY <1>6, SameSetup
<1>12. /\ next_file' \in 1 .. n + 1 /\ next_file' + 1 = next_file + 2
       /\ \A i \in 1 .. next_file' - 1 : i = next_file \/ i \in 1 .. next_file - 1
  BY <1>3, <1>4, <1>6
<1>13. \A i \in 1 .. next_file' - 1 : setup.lists[ExcludeFiles[i]].state = "lines"
  BY <1>1, <1>6, <1>12 DEF ListsRead
<1>14. ListsRead'
  BY <1>1, <1>6, <1>8, <1>9, <1>10, <1>11, <1>12, <1>13 DEF ListsRead, NumberTyped, n
<1>15. QED
  BY <1>1, <1>6, <1>14 DEF LoadInv, Loaded

\* What the sources promise of a field with one value.
LEMMA PromisedValues ==
    ASSUME setup \in Setups, NEW f \in Plain, ValuesAs(Sources, config, Len(Sources), {f})
    PROVE  /\ value(config, f) = Promised(f)
           /\ f \in DOMAIN config <=> \E i \in DOMAIN Sources : f \in DOMAIN Sources[i]
<1> DEFINE set_in == {i \in DOMAIN Sources : f \in DOMAIN Sources[i]}
<1>1. Promised(f) = IF set_in = {} THEN Default[f] ELSE Sources[Min(set_in)][f]
  BY DEF Promised, Plain
<1>2. /\ Len(Sources) \in Nat /\ DOMAIN Sources = 1 .. Len(Sources)
      /\ f \in DOMAIN config <=> SetBy(Sources, f, Len(Sources))
      /\ \A i \in 1 .. Len(Sources) : FirstWith(Sources, f, i) => config[f] = Sources[i][f]
  BY SourcesList DEF ValuesAs
<1>3. f \in DOMAIN config <=> set_in # {}
  BY <1>2 DEF SetBy
<1>4. CASE set_in = {}
  BY <1>1, <1>3, <1>4 DEF value
<1>5. CASE set_in # {}
  <2>1. set_in \in SUBSET Nat /\ set_in \in SUBSET Int
    BY <1>2
  <2>2. PICK x \in set_in : \A y \in set_in : x <= y
    BY <1>5, <2>1, LeastOf
  <2>3. Min(set_in) = x
    BY <2>1, <2>2, MinIs
  <2>4. FirstWith(Sources, f, x)
    BY <1>2, <2>2 DEF FirstWith
  <2>5. config[f] = Sources[x][f]
    BY <1>2, <2>4
  <2>6. QED
    BY <1>1, <1>3, <1>5, <2>3, <2>5 DEF value
<1>6. QED
  BY <1>4, <1>5

LEMMA LimitStep ==
    ASSUME LoadInv, LimitConcurrency
    PROVE  LoadInv'
<1> DEFINE p == Promised("max_concurrency")
           L == {Max({1, n - BASELINE_OVERHEAD}) : n \in setup.soft_limit}
<1>1. /\ stage = "lists" /\ setup \in Setups /\ exit_code = {} /\ ListsRead
      /\ next_file > Len(items(config, "exclude_file"))
      /\ setup' = setup /\ ranges' = ranges /\ exit_code' = exit_code /\ stage' = "loaded"
      /\ config' = handle_fd_limits
  BY DEF LimitConcurrency, LoadInv, unread
<1>2. items(config, "exclude_file") = ExcludeFiles /\ IsList(ExcludeFiles)
  BY <1>1, ExcludeFilesAre DEF ListsRead
<1>3. /\ Len(ExcludeFiles) \in Nat /\ DOMAIN ExcludeFiles = 1 .. Len(ExcludeFiles)
      /\ FlattenSeq(Patterns) = flat(Patterns)[Len(ExcludeFiles) + 2]
  BY <1>2, PatternSteps
<1>4. next_file = Len(ExcludeFiles) + 1 /\ next_file + 1 = Len(ExcludeFiles) + 2
  BY <1>1, <1>2, <1>3 DEF ListsRead
<1>5. ~RejectedFile /\ ~FaultyList /\ items(config, "exclude") = FlattenSeq(Patterns)
  <2>1. \A i \in DOMAIN ExcludeFiles : setup.lists[ExcludeFiles[i]].state = "lines"
    BY <1>1, <1>3, <1>4 DEF ListsRead
  <2>2. QED
    BY <1>1, <1>3, <1>4, <2>1 DEF ListsRead, FaultyList, ExcludeFiles
<1>6. value(config, "max_concurrency") = p /\ p \in Nat
  <2>1. "max_concurrency" \in Plain
    BY DEF Plain, Fields, LimitFields, Chained
  <2>2. ValuesAs(Sources, config, Len(Sources), {"max_concurrency"})
    BY <1>1, <2>1 DEF ListsRead, MostAs, ValuesAs
  <2>3. QED
    BY <1>1, <2>1, <2>2, PromisedValues DEF ListsRead, NumberTyped
<1>7. setup.soft_limit \subseteq Nat /\ \A m, n \in setup.soft_limit : m = n
  BY <1>1, StartAssumption DEF IsSetup
<1>8. \A n \in setup.soft_limit :
          /\ Allowed(n) = Max({1, n - BASELINE_OVERHEAD}) /\ Allowed(n) \in Nat
  <2>1. ASSUME NEW n \in setup.soft_limit
        PROVE  Max({1, n - BASELINE_OVERHEAD}) = IF 1 >= n - BASELINE_OVERHEAD THEN 1 ELSE n - BASELINE_OVERHEAD
    <3>1. n - BASELINE_OVERHEAD \in Int
      BY <1>7, StartAssumption
    <3>2. QED
      BY <3>1, MaxOfTwo
  <2>2. QED
    BY <1>7, <2>1, StartAssumption DEF Allowed
<1>9. /\ value(config', "max_concurrency") = Min({p} \cup L)
      /\ \A f : f # "max_concurrency" => (f \in DOMAIN config' <=> f \in DOMAIN config)
      /\ \A f \in DOMAIN config : f # "max_concurrency" => config'[f] = config[f]
      /\ items(config', "exclude") = items(config, "exclude")
  <2>1. CASE \A n \in setup.soft_limit : p <= Allowed(n)
    <3>1. config' = config
      BY <1>1, <1>6, <2>1 DEF handle_fd_limits
    <3>0. \A y \in L : \E n \in setup.soft_limit : y = Allowed(n)
      BY <1>8
    <3> HIDE DEF L, p
    <3>2. {p} \cup L \in SUBSET Int /\ p \in {p} \cup L /\ \A y \in {p} \cup L : p <= y
      <4>1. ASSUME NEW y \in {p} \cup L PROVE y \in Int /\ p <= y
        BY <1>6, <1>8, <2>1, <3>0
      <4>2. QED
        BY <4>1
    <3>3. Min({p} \cup L) = p
      BY <3>2, MinIs
    <3>4. QED
      BY <1>6, <3>1, <3>3
  <2>2. CASE ~(\A n \in setup.soft_limit : p <= Allowed(n))
    <3>1. PICK m \in setup.soft_limit : ~(p <= Allowed(m))
      BY <2>2
    <3>2. setup.soft_limit = {m} /\ (CHOOSE n \in setup.soft_limit : TRUE) = m
      BY <1>7, <3>1
    <3> DEFINE d == [max_concurrency |-> Allowed(m)]
    <3>3. config' = or(d, config) /\ DOMAIN d = {"max_concurrency"} /\ d["max_concurrency"] = Allowed(m)
      BY <1>1, <1>6, <2>2, <3>2 DEF handle_fd_limits
    <3> HIDE DEF d
    <3>4. /\ "max_concurrency" \in DOMAIN config' /\ config'["max_concurrency"] = Allowed(m)
          /\ \A f : f # "max_concurrency" => (f \in DOMAIN config' <=> f \in DOMAIN config)
          /\ \A f \in DOMAIN config : f # "max_concurrency" => config'[f] = config[f]
          /\ items(config', "exclude") = items(config, "exclude")
      BY <3>3, OrKeeps
    <3>5. L = {Allowed(m)}
      BY <1>8, <3>2
    <3> HIDE DEF L, p
    <3>6. /\ {p} \cup L \in SUBSET Int /\ Allowed(m) \in {p} \cup L
          /\ \A y \in {p} \cup L : Allowed(m) <= y
      <4>1. Allowed(m) \in Nat /\ p \in Nat /\ ~(p <= Allowed(m))
        BY <1>6, <1>8, <3>1
      <4>2. {p} \cup L = {p, Allowed(m)}
        BY <3>5
      <4>3. QED
        BY <4>1, <4>2
    <3>7. Min({p} \cup L) = Allowed(m)
      BY <3>6, MinIs
    <3>8. QED
      BY <3>4, <3>7 DEF value
  <2>3. QED
    BY <2>1, <2>2
<1>10. MostAs(Chained \ {"exclude"}, Plain \ {"max_concurrency"})'
  <2>1. "max_concurrency" \notin Chained
    BY DEF Chained
  <2>2. MostAs(Chained \ {"exclude"}, Plain \ {"max_concurrency"})
    BY <1>1 DEF ListsRead, MostAs, ValuesAs
  <2>3. QED
    BY <1>1, <1>9, <2>1, <2>2, MostKept
<1>11. /\ RejectedFile' = RejectedFile /\ FaultyList' = FaultyList /\ Patterns' = Patterns
       /\ Promised("max_concurrency")' = Promised("max_concurrency")
  BY <1>1, SameSetup
<1>12. AllLoaded'
  BY <1>1, <1>5, <1>9, <1>10, <1>11 DEF AllLoaded
<1>13. QED
  BY <1>1, <1>12 DEF LoadInv, Loaded

\* Only options of lychee can be promised: every source that is merged is typed.
LEMMA PromisesAreFields ==
    ASSUME setup \in Setups, ~RejectedFile
    PROVE  Promises \subseteq Fields
<1>1. DOMAIN Default \subseteq Fields
  BY DEF Default, Fields, InputFields, CacheFields, LimitFields, RequestFields, BaseFields, OutputFields
<1>2. ASSUME NEW i \in DOMAIN Sources PROVE IsConfig(Sources[i])
  <2>1. CASE i = 1
    BY <2>1, SourcesList, TypedConfig
  <2>2. CASE i # 1 /\ setup.named # <<>>
    <3> DEFINE n == Len(setup.named)
    <3>1. /\ n \in Nat \ {0} /\ DOMAIN setup.named = 1 .. n
          /\ \A j \in 1 .. n : IsFile(setup.named[j])
          /\ DOMAIN Sources = 1 .. n + 1
          /\ \A j \in 1 .. n : Sources[j + 1] = setup.named[n + 1 - j].sections[1]
      BY <2>2, NamedSources
    <3> HIDE DEF n
    <3>2. i - 1 \in 1 .. n /\ n + 1 - (i - 1) \in 1 .. n /\ (i - 1) + 1 = i
      BY <1>2, <2>2, <3>1
    <3>3. Sources[i] = setup.named[n + 1 - (i - 1)].sections[1]
      BY <3>1, <3>2
    <3>4. Offers(setup.named[n + 1 - (i - 1)]) # <<>>
      BY <2>2, <3>1, <3>2 DEF RejectedFile
    <3>5. QED
      BY <3>1, <3>2, <3>3, <3>4, FileOffers
  <2>3. CASE i # 1 /\ setup.named = <<>>
    <3>1. Usable # {} /\ Sources[2] = DirFile(Min(Usable)).sections[1] /\ i = 2
      BY <1>2, <2>3, DefaultSources
    <3>2. Usable \subseteq 1 .. 4
      BY DEF Usable, LOADERS
    <3>3. Usable \in SUBSET Nat /\ Usable \in SUBSET Int
      BY <3>2
    <3>4. PICK x \in Usable : \A y \in Usable : x <= y
      BY <3>1, <3>3, LeastOf
    <3>5. Min(Usable) = x
      BY <3>3, <3>4, MinIs
    <3>6. IsConfig(DirFile(x).sections[1])
      BY <3>2, <3>4, DefaultOffers
    <3>7. QED
      BY <3>1, <3>5, <3>6
  <2>4. QED
    BY <2>1, <2>2, <2>3
<1>3. \A i \in DOMAIN Sources : DOMAIN Sources[i] \subseteq Fields
  BY <1>2 DEF IsConfig
<1>4. QED
  BY <1>1, <1>3 DEF Promises

LEMMA LoadKept ==
    ASSUME LoadInv, setup' = setup, config' = config, ranges' = ranges, next_file' = next_file,
           stage' = stage, exit_code' = exit_code
    PROVE  LoadInv'
<1>1. /\ Sources' = Sources /\ Usable' = Usable /\ RejectedFile' = RejectedFile
      /\ \A i : RejectedDefault(i)' = RejectedDefault(i)
      /\ Patterns' = Patterns /\ ExcludeFiles' = ExcludeFiles /\ FaultyList' = FaultyList
      /\ \A f : Promised(f)' = Promised(f)
  BY SameSetup
<1>2. \A Ls, Vs : MostAs(Ls, Vs)' = MostAs(Ls, Vs)
  BY <1>1 DEF MostAs
<1>3. FilesRead' = FilesRead
  BY <1>1 DEF FilesRead, Offers
<1>4. AllMerged' = AllMerged /\ ListsRead' = ListsRead
  BY <1>1, <1>2 DEF AllMerged, ListsRead
<1>5. AllLoaded' = AllLoaded /\ RightExit' = RightExit
  BY <1>1, <1>2 DEF AllLoaded, RightExit
<1>6. Loaded' = Loaded
  BY DEF Loaded
<1>7. QED
  BY <1>3, <1>4, <1>5, <1>6 DEF LoadInv

\* The codes and the selector are read before any source is.
LEMMA AcceptStep ==
    ASSUME LoadInv, ParseAccept
    PROVE  LoadInv'
<1>1. /\ setup' = setup /\ stage' = "parse" /\ stage = "parse" /\ exit_code' = exit_code /\ exit_code = {}
      /\ setup \in Setups
  BY DEF ParseAccept, LoadInv
<1>2. QED
  BY <1>1 DEF LoadInv, Loaded

LEMMA ExitStep ==
    ASSUME LoadInv, NEW code \in {0, 1, 2, 3}, ExitWith(code),
           code = 3 => RejectedFile \/ FaultyList,
           code \in {0, 1} => ~RejectedFile /\ ~FaultyList
    PROVE  LoadInv'
<1>1. setup' = setup /\ stage' = "exited" /\ exit_code' = {code} /\ setup \in Setups
  BY DEF ExitWith, LoadInv
<1>2. RejectedFile' = RejectedFile /\ FaultyList' = FaultyList
  BY <1>1, SameSetup
<1>3. /\ exit_code' = {3} => code = 3
      /\ exit_code' \in {{0}, {1}} => code \in {0, 1}
  BY <1>1
<1>4. RightExit'
  BY <1>2, <1>3 DEF RightExit, ConfigFile, Success, UnexpectedFailure
<1>5. QED
  BY <1>1, <1>4 DEF LoadInv, Loaded

LEMMA RejectStep ==
    ASSUME LoadInv, RejectArguments \/ RejectFile \/ RejectList
    PROVE  LoadInv'
<1>1. CASE RejectArguments
  <2>1. ExitWith(2)
    BY <1>1, Zenon DEF RejectArguments, UsageFailure
  <2>2. QED
    BY <2>1, ExitStep
<1>2. CASE RejectFile
  <2>1. ExitWith(3) /\ stage = "files"
    BY <1>2, Zenon DEF RejectFile, ConfigFile
  <2>2. setup \in Setups /\ FilesRead
    BY <2>1 DEF LoadInv
  <2>3. RejectedFile
    <3>1. CASE setup.named # <<>>
      <4>1. ~Found(Deserialize(setup.named[next_file])) /\ next_file \in 1 .. Len(setup.named)
        BY <1>2, <2>2, <3>1 DEF RejectFile, FilesRead, Named_file
      <4>2. next_file \in DOMAIN setup.named /\ IsFile(setup.named[next_file])
        BY <2>2, <3>1, <4>1, NamedSources
      <4>3. Offers(setup.named[next_file]) = <<>>
        BY <4>1, <4>2, FileOffers
      <4>4. QED
        BY <3>1, <4>2, <4>3 DEF RejectedFile
    <3>2. CASE setup.named = <<>>
      <4>0. Len(LOADERS) = 4 /\ DOMAIN LOADERS = 1 .. 4
        BY DEF LOADERS
      <4>1. /\ next_file \in 1 .. 4 /\ Default_file(next_file).state = "malformed"
            /\ \A i \in 1 .. next_file - 1 : i \notin Usable
        BY <1>2, <2>2, <3>2, <4>0 DEF RejectFile, FilesRead
      <4>2. RejectedDefault(next_file) /\ next_file \notin Usable
        BY <2>2, <4>1, DefaultOffers
      <4>3. Usable \subseteq 1 .. 4
        BY <4>0 DEF Usable
      <4>4. \A j \in Usable : next_file < j
        BY <4>1, <4>2, <4>3
      <4>5. QED
        BY <3>2, <4>0, <4>1, <4>2, <4>4 DEF RejectedFile
    <3>3. QED
      BY <3>1, <3>2
  <2>4. QED
    BY <2>1, <2>3, ExitStep
<1>3. CASE RejectList
  <2>1. ExitWith(3)
    BY <1>3, Zenon DEF RejectList, ConfigFile
  <2>2. CASE setup.lycheeignore.state = "unreadable"
    BY <2>1, <2>2, ExitStep DEF FaultyList
  <2>3. CASE stage = "lists" /\ next_file <= Len(items(config, "exclude_file"))
             /\ setup.lists[config.exclude_file[next_file]].state # "lines"
    <3>1. setup \in Setups /\ ListsRead
      BY <2>3 DEF LoadInv
    <3>2. items(config, "exclude_file") = ExcludeFiles /\ IsList(ExcludeFiles)
      BY <3>1, ExcludeFilesAre DEF ListsRead
    <3>3. Len(ExcludeFiles) \in Nat /\ DOMAIN ExcludeFiles = 1 .. Len(ExcludeFiles)
      BY <3>2, ListDomain
    <3>4. next_file \in DOMAIN ExcludeFiles
      BY <2>3, <3>1, <3>2, <3>3 DEF ListsRead
    <3>5. config.exclude_file[next_file] = ExcludeFiles[next_file]
      <4>1. "exclude_file" \in DOMAIN config
        BY <3>2, <3>4, ListEmpty DEF items
      <4>2. QED
        BY <3>2, <4>1 DEF items
    <3>6. FaultyList
      BY <2>3, <3>4, <3>5 DEF FaultyList, ExcludeFiles
    <3>7. QED
      BY <2>1, <3>6, ExitStep
  <2>4. QED
    BY <1>3, <2>2, <2>3 DEF RejectList
<1>4. QED
  BY <1>1, <1>2, <1>3

LEMMA LoadedStep ==
    ASSUME LoadInv, ExitEarly \/ ReadInputs \/ CreateClient \/ RejectClient
    PROVE  LoadInv'
<1>1. /\ stage \in {"loaded", "inputs"} /\ Loaded /\ AllLoaded /\ setup \in Setups /\ exit_code = {}
      /\ ~RejectedFile /\ ~FaultyList
  BY DEF LoadInv, ExitEarly, ReadInputs, CreateClient, RejectClient, Loaded, AllLoaded
<1>2. ASSUME NEW code \in {0, 1}, ExitWith(code) PROVE LoadInv'
  BY <1>1, <1>2, ExitStep
<1>3. ASSUME setup' = setup, config' = config, ranges' = ranges, exit_code' = exit_code,
             stage' \in {"dump_inputs", "inputs", "ready"}
      PROVE  LoadInv'
  <2>1. /\ Sources' = Sources /\ RejectedFile' = RejectedFile /\ FaultyList' = FaultyList
        /\ Patterns' = Patterns /\ \A f : Promised(f)' = Promised(f)
    BY <1>3, SameSetup
  <2>2. \A Ls, Vs : MostAs(Ls, Vs)' = MostAs(Ls, Vs)
    BY <1>3, <2>1 DEF MostAs
  <2>3. AllLoaded'
    BY <1>1, <1>3, <2>1, <2>2 DEF AllLoaded
  <2>4. QED
    BY <1>1, <1>3, <2>3 DEF LoadInv, Loaded
<1>4. CASE ExitEarly
  <2>1. ExitWith(0) \/ ExitWith(1)
    BY <1>4, Zenon DEF ExitEarly, Success, UnexpectedFailure
  <2>2. QED
    BY <1>2, <2>1
<1>5. CASE RejectClient
  <2>1. ExitWith(1)
    BY <1>5, Zenon DEF RejectClient, UnexpectedFailure
  <2>2. QED
    BY <1>2, <2>1
<1>6. CASE CreateClient
  BY <1>3, <1>6 DEF CreateClient, unread
<1>7. CASE ReadInputs
  <2>1. CASE ExitWith(1)
    BY <1>2, <2>1
  <2>2. CASE ~ExitWith(1)
    <3>1. ~ExitWith(UnexpectedFailure)
      BY <2>2 DEF UnexpectedFailure
    <3>2. /\ setup' = setup /\ config' = config /\ exit_code' = exit_code
          /\ stage' = IF enabled(config, "dump_inputs") THEN "dump_inputs" ELSE "inputs"
      BY <1>7, <3>1 DEF ReadInputs
    <3>3. ranges' = ranges
      BY <1>7, Zenon DEF ReadInputs, statusVars
    <3>4. QED
      BY <1>3, <3>2, <3>3
  <2>3. QED
    BY <2>1, <2>2
<1>8. QED
  BY <1>4, <1>5, <1>6, <1>7

LEMMA LoadInvariant == ProgramSpec => []LoadInv
<1>1. ProgramInit => LoadInv
  BY DEF ProgramInit, StartInit, LoadInv, Loaded
<1>2. LoadInv /\ [ProgramNext]_programVars => LoadInv'
  <2> SUFFICES ASSUME LoadInv, [ProgramNext]_programVars PROVE LoadInv'
    OBVIOUS
  <2>1. CASE UNCHANGED startVars
    BY <2>1, LoadKept DEF startVars
  <2>2. CASE StartNext
    BY <2>2, AcceptStep, RejectStep, ParseStep, DefaultStep, NamedStep, IgnoreStep, ListStep,
       LimitStep, LoadedStep DEF StartNext
  <2>3. QED
    BY <2>1, <2>2 DEF ProgramNext, programVars
<1>3. QED
  BY <1>1, <1>2, PTL DEF ProgramSpec

\* Where no file can be in the way that is there and cannot be read, the files that are
\* rejected are the faulty ones.
LEMMA RejectedAreFaulty ==
    ASSUME setup \in Setups
    PROVE  /\ RejectedFile => FaultyFile \/ UnreadableFile
           /\ FaultyFile => RejectedFile \/ UnreadableFile
<1> DEFINE f(i) == setup.dir[LOADERS[i]]
<1>1. DOMAIN LOADERS = 1 .. 4 /\ Len(LOADERS) = 4
  BY DEF LOADERS
<1>2. \A i \in 1 .. 4 : IsFile(f(i))
  BY <1>1, StartAssumption DEF IsSetup
<1>3. CASE setup.named # <<>>
  BY <1>3 DEF RejectedFile, FaultyFile
<1>4. CASE setup.named = <<>>
  <2>1. \A i \in 1 .. 4 : Offering(i) => f(i).state = "parsed" /\ DirFile(i) = f(i) /\ i \in Usable
    BY <1>1 DEF Offering, Offers, Usable, DirFile
  <2>2. ASSUME NEW i \in 1 .. 4, f(i).state # "unreadable"
        PROVE  /\ RejectedDefault(i) <=> MalformedDefault(i)
               /\ i \in Usable <=> Offering(i)
    <3>1. DirFile(i) = f(i)
      BY <2>2 DEF DirFile
    <3>2. RejectedDefault(i) <=> MalformedDefault(i)
      BY <2>2, <3>1, Zenon DEF RejectedDefault, MalformedDefault
    <3>3. i \in Usable <=> Offering(i)
      BY <1>1, <3>1 DEF Usable, Offering
    <3>4. QED
      BY <3>2, <3>3
  <2>3. \A i \in 1 .. 4 : MalformedDefault(i) => f(i).state # "unreadable" /\ ~Offering(i)
    <3>1. \A i \in 1 .. 4 : f(i).state # "parsed" => DOMAIN f(i).sections = {}
      BY <1>2 DEF IsFile
    <3>2. QED
      BY <3>1 DEF MalformedDefault, Offering, Offers
  <2>4. SUFFICES ASSUME ~UnreadableFile
                 PROVE  RejectedFile <=> FaultyFile
    BY <1>3
  <2>5. \A i \in 1 .. 4 : (\A j \in 1 .. i - 1 : ~Offering(j)) => f(i).state # "unreadable"
    BY <1>1, <1>4, <2>4 DEF UnreadableFile
  <2>6. ASSUME NEW i \in 1 .. 4, RejectedDefault(i), \A j \in Usable : i < j
        PROVE  MalformedDefault(i) /\ \A j \in 1 .. i - 1 : ~Offering(j)
    <3>1. \A j \in 1 .. i - 1 : j \in 1 .. 4 /\ ~(i < j)
      OBVIOUS
    <3>2. \A j \in 1 .. i - 1 : ~Offering(j)
      BY <2>1, <2>6, <3>1
    <3>3. f(i).state # "unreadable"
      BY <2>5, <3>2
    <3>4. QED
      BY <2>2, <2>6, <3>2, <3>3
  <2>7. ASSUME NEW i \in 1 .. 4, MalformedDefault(i), \A j \in 1 .. i - 1 : ~Offering(j)
        PROVE  RejectedDefault(i) /\ \A j \in Usable : i < j
    <3>1. f(i).state # "unreadable" /\ ~Offering(i)
      BY <2>3, <2>7
    <3>6. RejectedDefault(i)
      BY <2>2, <2>7, <3>1
    <3>2. \A j \in 1 .. i : ~Offering(j)
      <4>1. \A j \in 1 .. i : j = i \/ j \in 1 .. i - 1
        OBVIOUS
      <4>2. QED
        BY <2>7, <3>1, <4>1
    <3>3. \A j \in 1 .. i : j \notin Usable
      <4> SUFFICES ASSUME NEW j \in 1 .. i PROVE j \notin Usable
        OBVIOUS
      <4>1. j \in 1 .. 4 /\ \A k \in 1 .. j - 1 : k \in 1 .. i
        OBVIOUS
      <4>2. f(j).state # "unreadable"
        BY <2>5, <3>2, <4>1
      <4>3. QED
        BY <2>2, <3>2, <4>1, <4>2
    <3>4. Usable \subseteq 1 .. 4
      BY <1>1 DEF Usable
    <3>5. QED
      BY <3>3, <3>4, <3>6
  <2>8. QED
    BY <1>1, <1>4, <2>6, <2>7 DEF RejectedFile, FaultyFile
<1>5. QED
  BY <1>3, <1>4

\* A list of patterns that is missing or unreadable, a named file without options and a
\* malformed file in the directory end the program with their own exit code before
\* anything else is done, and nothing else has that code, in every start but one with a
\* file in the directory that is there and cannot be read (main.rs, load_config and
\* run_main).
THEOREM ConfigErrorsTheorem == ProgramSpec => []ConfigErrorsExit3
<1>1. LoadInv => ConfigErrorsExit3
  <2> SUFFICES ASSUME LoadInv PROVE ConfigErrorsExit3
    OBVIOUS
  <2>1. /\ RejectedFile => FaultyFile \/ UnreadableFile
        /\ FaultyFile => RejectedFile \/ UnreadableFile
    BY RejectedAreFaulty DEF LoadInv
  <2>2. CASE stage = "exited"
    <3>1. /\ exit_code = {ConfigFile} => RejectedFile \/ FaultyList
          /\ exit_code \in {{Success}, {UnexpectedFailure}} => ~RejectedFile /\ ~FaultyList
      BY <2>2 DEF LoadInv, RightExit
    <3>2. ~Loaded
      BY <2>2 DEF Loaded
    <3>3. QED
      BY <2>1, <3>1, <3>2 DEF ConfigErrorsExit3
  <2>3. CASE stage # "exited"
    <3>1. exit_code = {} /\ exit_code # {ConfigFile} /\ exit_code \notin {{Success}, {UnexpectedFailure}}
      BY <2>3 DEF LoadInv
    <3>2. Loaded => ~RejectedFile /\ ~FaultyList
      BY <2>3 DEF LoadInv, AllLoaded
    <3>3. QED
      BY <2>1, <3>1, <3>2 DEF ConfigErrorsExit3
  <2>4. QED
    BY <2>2, <2>3
<1>2. QED
  BY <1>1, LoadInvariant, PTL

\* Once the configuration is loaded, every option has the value of the first source that
\* sets it, every list has what all sources say in their order, the patterns to exclude
\* have those of every ignore list after them, and the limit on open files is kept,
\* whatever the sources are (config/mod.rs, Config::merge; main.rs, load_config).
THEOREM OptionsTheorem == ProgramSpec => []OptionsInOrder
<1>1. LoadInv => OptionsInOrder
  <2> SUFFICES ASSUME LoadInv, Loaded PROVE OptionsInOrder
    BY DEF OptionsInOrder
  <2>1. setup \in Setups /\ AllLoaded
    BY DEF LoadInv
  <2>2. ASSUME NEW f \in Promises \ {"accept", "exclude", "hosts", "max_concurrency"}
        PROVE  (IF f \in Chained THEN items(config, f) ELSE value(config, f)) = Promised(f)
    <3>1. CASE f \in Chained
      <4>1. f \in Chained \ {"exclude"}
        BY <2>2, <3>1
      <4>2. items(config, f) = flat(Lists(Sources, f))[Len(Sources)]
        BY <2>1, <4>1 DEF AllLoaded, MostAs, ListsAs
      <4>3. QED
        BY <2>1, <3>1, <4>2, PromisedLists
    <3>2. CASE f \notin Chained
      <4>1. f \in Plain \ {"max_concurrency"}
        <5>1. f \in Fields
          BY <2>1, <2>2, PromisesAreFields DEF AllLoaded
        <5>2. QED
          BY <2>2, <3>2, <5>1 DEF Plain
      <4>2. ValuesAs(Sources, config, Len(Sources), {f})
        BY <2>1, <4>1 DEF AllLoaded, MostAs, ValuesAs
      <4>3. value(config, f) = Promised(f)
        BY <2>1, <4>1, <4>2, PromisedValues
      <4>4. QED
        BY <3>2, <4>3
    <3>3. QED
      BY <3>1, <3>2
  <2>3. items(config, "exclude") = FlattenSeq(Patterns)
    BY <2>1 DEF AllLoaded
  <2>4. value(config, "max_concurrency") =
            Min({Promised("max_concurrency")}
                \cup {Max({1, n - BASELINE_OVERHEAD}) : n \in setup.soft_limit})
    BY <2>1 DEF AllLoaded
  <2>5. QED
    BY <2>2, <2>3, <2>4, Zenon DEF OptionsInOrder, Patterns, ExcludeFiles, Ignored
<1>2. QED
  BY <1>1, LoadInvariant, PTL
-----------------------------------------------------------------------------
(* The client *)

\* The client is made of the configuration as it is.
ClientOf(b, client_map) ==
    /\ client_map \in build_host_clients(b) /\ client = Client(b, client_map)
ClientInv ==
    stage = "ready" =>
        \E custom_headers \in from_header_pairs(headers(items(config, "header"))) :
            \E client_map : ClientOf(create(config, custom_headers), client_map)

LEMMA OrFields ==
    \A c, d : /\ DOMAIN or(c, d) = DOMAIN c \cup DOMAIN d
              /\ \A f \in DOMAIN c : or(c, d)[f] = c[f]
              /\ \A f \in DOMAIN d : f \notin DOMAIN c => or(c, d)[f] = d[f]
BY DEF or

LEMMA BuilderFields ==
    /\ DOMAIN BuilderOptions \cap {"schemes", "accepted", "custom_headers", "hosts",
                                   "default_client", "client_map", "filter"} = {}
    /\ {"exclude_all_private", "exclude_private_ips", "exclude_link_local_ips",
        "exclude_loopback_ips", "include_mail", "user_agent"} \subseteq DOMAIN BuilderOptions
    /\ BuilderOptions["exclude_all_private"] = "exclude_all_private"
    /\ BuilderOptions["exclude_private_ips"] = "exclude_private"
    /\ BuilderOptions["exclude_link_local_ips"] = "exclude_link_local"
    /\ BuilderOptions["exclude_loopback_ips"] = "exclude_loopback"
    /\ BuilderOptions["include_mail"] = "include_mail"
    /\ BuilderOptions["user_agent"] = "user_agent"
<1> DEFINE new == {"schemes", "accepted", "custom_headers", "hosts", "default_client",
                   "client_map", "filter"}
           F == {"exclude_all_private", "exclude_private_ips", "exclude_link_local_ips",
                 "exclude_loopback_ips", "include_mail"}
<1>1. /\ DOMAIN FilterOptions \cap new = {} /\ F \subseteq DOMAIN FilterOptions
      /\ "user_agent" \notin DOMAIN FilterOptions
      /\ FilterOptions["exclude_all_private"] = "exclude_all_private"
      /\ FilterOptions["exclude_private_ips"] = "exclude_private"
      /\ FilterOptions["exclude_link_local_ips"] = "exclude_link_local"
      /\ FilterOptions["exclude_loopback_ips"] = "exclude_loopback"
      /\ FilterOptions["include_mail"] = "include_mail"
  BY DEF FilterOptions
<1>2. DOMAIN WebsiteOptions \cap new = {} /\ "user_agent" \notin DOMAIN WebsiteOptions
  BY DEF WebsiteOptions
<1>3. /\ DOMAIN RequestOptions \cap new = {} /\ "user_agent" \in DOMAIN RequestOptions
      /\ RequestOptions["user_agent"] = "user_agent"
  BY DEF RequestOptions
<1>4. DOMAIN FileOptions \cap new = {}
  BY DEF FileOptions
<1> DEFINE l == or(FilterOptions, WebsiteOptions)
           r == or(RequestOptions, FileOptions)
<1>6. /\ DOMAIN l \cap new = {} /\ F \subseteq DOMAIN l /\ "user_agent" \notin DOMAIN l
      /\ \A f \in F : l[f] = FilterOptions[f]
  <2>1. /\ DOMAIN l = DOMAIN FilterOptions \cup DOMAIN WebsiteOptions
        /\ \A f \in DOMAIN FilterOptions : l[f] = FilterOptions[f]
    BY OrFields, Zenon
  <2> HIDE DEF l, new, F
  <2>2. QED
    BY <1>1, <1>2, <2>1
<1>7. /\ DOMAIN r \cap new = {} /\ "user_agent" \in DOMAIN r
      /\ r["user_agent"] = "user_agent"
  <2>1. /\ DOMAIN r = DOMAIN RequestOptions \cup DOMAIN FileOptions
        /\ \A f \in DOMAIN RequestOptions : r[f] = RequestOptions[f]
    BY OrFields, Zenon
  <2> HIDE DEF r, new
  <2>2. QED
    BY <1>3, <1>4, <2>1
<1>8. BuilderOptions = or(l, r)
  BY DEF BuilderOptions
<1> HIDE DEF l, r
<1>9. /\ DOMAIN BuilderOptions \cap new = {} /\ F \subseteq DOMAIN BuilderOptions
      /\ \A f \in F : BuilderOptions[f] = FilterOptions[f]
      /\ "user_agent" \in DOMAIN BuilderOptions /\ BuilderOptions["user_agent"] = "user_agent"
  <2>1. /\ DOMAIN BuilderOptions = DOMAIN l \cup DOMAIN r
        /\ \A f \in DOMAIN l : BuilderOptions[f] = l[f]
        /\ \A f \in DOMAIN r : f \notin DOMAIN l => BuilderOptions[f] = r[f]
    BY <1>8 DEF or
  <2>2. \A f \in F : f \in DOMAIN l /\ BuilderOptions[f] = l[f]
    BY <1>6, <2>1
  <2>3. "user_agent" \in DOMAIN BuilderOptions /\ BuilderOptions["user_agent"] = "user_agent"
    BY <1>6, <1>7, <2>1
  <2> HIDE DEF new, F
  <2>4. DOMAIN BuilderOptions \cap new = {}
    BY <1>6, <1>7, <2>1
  <2>5. F \subseteq DOMAIN BuilderOptions
    BY <1>6, <2>1
  <2>6. \A f \in F : BuilderOptions[f] = FilterOptions[f]
    BY <1>6, <2>2
  <2>7. QED
    BY <2>3, <2>4, <2>5, <2>6
<1>10. QED
  BY <1>1, <1>9

LEMMA CreateFields ==
    ASSUME NEW c, NEW h
    PROVE  LET b == create(c, h) IN
           /\ b.schemes = schemes(c)
           /\ b.accepted = {code \in MIN .. MAX :
                               \E i \in DOMAIN accept(c) : contains(accept(c)[i], code)}
           /\ b.custom_headers = h /\ b.hosts = items(c, "hosts")
           /\ b.user_agent = value(c, "user_agent")
           /\ {"schemes", "accepted", "custom_headers", "hosts", "user_agent"} \subseteq DOMAIN b
           /\ DOMAIN b \cap {"default_client", "client_map", "filter"} = {}
           /\ \A f \in DOMAIN BuilderOptions :
                  /\ f \in DOMAIN b <=> set(c, BuilderOptions[f])
                  /\ f \in DOMAIN b => b[f] = value(c, BuilderOptions[f])
<1> DEFINE b == create(c, h)
           p == [f \in {f \in DOMAIN BuilderOptions : set(c, BuilderOptions[f])} |->
                    value(c, BuilderOptions[f])]
           A == {code \in MIN .. MAX : \E i \in DOMAIN accept(c) : contains(accept(c)[i], code)}
           q == [schemes |-> schemes(c), accepted |-> A, custom_headers |-> h,
                 hosts |-> items(c, "hosts")]
<1>1. b = or(p, q)
  BY Zenon DEF create
<1>2. /\ DOMAIN p = {f \in DOMAIN BuilderOptions : set(c, BuilderOptions[f])}
      /\ \A f \in DOMAIN p : p[f] = value(c, BuilderOptions[f])
  BY Zenon
<1> HIDE DEF A, p
<1>3. /\ DOMAIN q = {"schemes", "accepted", "custom_headers", "hosts"}
      /\ q["schemes"] = schemes(c) /\ q["accepted"] = A /\ q["custom_headers"] = h
      /\ q["hosts"] = items(c, "hosts")
  OBVIOUS
<1> HIDE DEF q
<1>4. /\ DOMAIN or(p, q) = DOMAIN p \cup DOMAIN q
      /\ \A f \in DOMAIN p : or(p, q)[f] = p[f]
      /\ \A f \in DOMAIN q : f \notin DOMAIN p => or(p, q)[f] = q[f]
  BY DEF or
<1>5. DOMAIN p \cap {"schemes", "accepted", "custom_headers", "hosts",
                     "default_client", "client_map", "filter"} = {}
  BY <1>2, BuilderFields
<1> HIDE DEF b
<1>6. /\ b["schemes"] = schemes(c) /\ b["accepted"] = A /\ b["custom_headers"] = h
      /\ b["hosts"] = items(c, "hosts")
      /\ {"schemes", "accepted", "custom_headers", "hosts"} \subseteq DOMAIN b
      /\ DOMAIN b \cap {"default_client", "client_map", "filter"} = {}
  <2>1. /\ DOMAIN b = DOMAIN p \cup DOMAIN q
        /\ \A f \in DOMAIN q : f \notin DOMAIN p => b[f] = q[f]
    BY <1>1, <1>4, Zenon
  <2>2. \A f \in {"schemes", "accepted", "custom_headers", "hosts", "default_client",
                   "client_map", "filter"} : f \notin DOMAIN p
    BY <1>5, Zenon
  <2>3. \A f \in {"schemes", "accepted", "custom_headers", "hosts"} :
            f \in DOMAIN b /\ b[f] = q[f]
    BY <1>3, <2>1, <2>2
  <2>4. \A f \in {"default_client", "client_map", "filter"} : f \notin DOMAIN q
    BY <1>3
  <2>5. \A f \in {"default_client", "client_map", "filter"} : f \notin DOMAIN b
    BY <2>1, <2>2, <2>4
  <2>6. QED
    BY <1>3, <2>3, <2>5
<1>7. \A f \in DOMAIN BuilderOptions :
          /\ f \in DOMAIN b <=> set(c, BuilderOptions[f])
          /\ f \in DOMAIN b => b[f] = value(c, BuilderOptions[f])
  <2>1. ASSUME NEW f \in DOMAIN BuilderOptions PROVE f \notin DOMAIN q
    BY <1>3, BuilderFields
  <2>2. QED
    BY <1>1, <1>2, <1>4, <2>1
<1>8. "user_agent" \in DOMAIN b /\ b["user_agent"] = value(c, "user_agent")
  <2>1. set(c, "user_agent")
    BY DEF set, Default
  <2>2. QED
    BY <1>7, <2>1, BuilderFields
<1>9. QED
  BY <1>6, <1>7, <1>8 DEF b, A

LEMMA ClientFields ==
    ASSUME NEW b, NEW m, DOMAIN b \cap {"default_client", "client_map", "filter"} = {}
    PROVE  /\ \A f \in DOMAIN b : Client(b, m)[f] = b[f]
           /\ Client(b, m).default_client = build_client(b, <<>>)
           /\ Client(b, m).client_map = m
           /\ Client(b, m).filter.ips =
                  {f \in {"exclude_private_ips", "exclude_link_local_ips", "exclude_loopback_ips"} :
                      on(b, "exclude_all_private") \/ on(b, f)}
           /\ Client(b, m).filter.include_mail = on(b, "include_mail")
<1> DEFINE I == {f \in {"exclude_private_ips", "exclude_link_local_ips", "exclude_loopback_ips"} :
                    on(b, "exclude_all_private") \/ on(b, f)}
           M == on(b, "include_mail")
           d == build_client(b, <<>>)
           q == [default_client |-> d, client_map |-> m, filter |-> [ips |-> I, include_mail |-> M]]
<1>1. Client(b, m) = or(b, q)
  BY Zenon DEF Client
<1> HIDE DEF I, M, d
<1>2. /\ DOMAIN q = {"default_client", "client_map", "filter"}
      /\ q["default_client"] = d /\ q["client_map"] = m
      /\ q["filter"].ips = I /\ q["filter"].include_mail = M
  OBVIOUS
<1> HIDE DEF q
<1>3. /\ \A f \in DOMAIN b : or(b, q)[f] = b[f]
      /\ \A f \in DOMAIN q : f \notin DOMAIN b => or(b, q)[f] = q[f]
  BY DEF or
<1>4. \A f \in {"default_client", "client_map", "filter"} : Client(b, m)[f] = q[f]
  <2>1. \A f \in {"default_client", "client_map", "filter"} : f \notin DOMAIN b /\ f \in DOMAIN q
    BY <1>2, Zenon
  <2>2. QED
    BY <1>1, <1>3, <2>1, Zenon
<1>5. QED
  BY <1>1, <1>2, <1>3, <1>4 DEF I, M, d

\* Only create makes a client, and nothing changes the configuration after it.
LEMMA ClientStep ==
    ASSUME ClientInv, StartNext
    PROVE  ClientInv'
<1>1. ASSUME CreateClient PROVE ClientInv'
  <2>1. PICK custom_headers \in from_header_pairs(headers(items(config, "header"))) :
            \E client_map \in build_host_clients(create(config, custom_headers)) :
                client' = Client(create(config, custom_headers), client_map)
    BY <1>1, Zenon DEF CreateClient
  <2>2. config' = config
    BY <1>1 DEF CreateClient
  <2>3. QED
    BY <2>1, <2>2, Zenon DEF ClientInv, ClientOf
<1>2. \A code : ExitWith(code) => stage' # "ready"
  BY DEF ExitWith
<1>3. RejectArguments \/ RejectFile \/ RejectList => stage' # "ready"
  BY <1>2, Zenon DEF RejectArguments, RejectFile, RejectList
<1>4. ExitEarly \/ RejectClient => stage' # "ready"
  BY <1>2, Zenon DEF ExitEarly, RejectClient
<1>5. ReadInputs => stage' # "ready"
  BY <1>2 DEF ReadInputs
<1>6. ParseAccept \/ Parse \/ NoDefault \/ LoadNamed => stage' # "ready"
  BY DEF ParseAccept, Parse, NoDefault, LoadNamed
<1>7. TryDefault => stage' # "ready"
  BY DEF TryDefault
<1>8. ReadLycheeignore \/ ReadExcludeFile \/ LimitConcurrency => stage' # "ready"
  BY DEF ReadLycheeignore, ReadExcludeFile, LimitConcurrency
<1>9. stage' # "ready" => ClientInv'
  BY DEF ClientInv
<1>10. QED
  BY <1>1, <1>3, <1>4, <1>5, <1>6, <1>7, <1>8, <1>9 DEF StartNext

LEMMA ClientKept ==
    ASSUME ClientInv, stage' = stage, config' = config, client' = client
    PROVE  ClientInv'
BY DEF ClientInv, ClientOf

LEMMA ClientInvariant == ProgramSpec => []ClientInv
<1>1. ProgramInit => ClientInv
  BY DEF ProgramInit, StartInit, ClientInv
<1>2. ClientInv /\ [ProgramNext]_programVars => ClientInv'
  <2> SUFFICES ASSUME ClientInv, [ProgramNext]_programVars PROVE ClientInv'
    OBVIOUS
  <2>1. CASE UNCHANGED startVars
    BY <2>1, ClientKept DEF startVars
  <2>2. CASE StartNext
    BY <2>2, ClientStep
  <2>3. QED
    BY <2>1, <2>2 DEF ProgramNext, programVars
<1>3. QED
  BY <1>1, <1>2, PTL DEF ProgramSpec

\* Of an option that is no list, the first source with a value says what is promised.
LEMMA FirstPromised ==
    ASSUME setup \in Setups, NEW f, f \notin Chained, SetBy(Sources, f, Len(Sources))
    PROVE  \E i \in 1 .. Len(Sources) : FirstWith(Sources, f, i) /\ Promised(f) = Sources[i][f]
<1> DEFINE set_in == {i \in DOMAIN Sources : f \in DOMAIN Sources[i]}
<1>1. Promised(f) = IF set_in = {} THEN Default[f] ELSE Sources[Min(set_in)][f]
  BY DEF Promised
<1>2. Len(Sources) \in Nat /\ DOMAIN Sources = 1 .. Len(Sources)
  BY SourcesList
<1>3. set_in # {} /\ set_in \in SUBSET Nat /\ set_in \in SUBSET Int
  BY <1>2 DEF SetBy
<1>4. PICK x \in set_in : \A y \in set_in : x <= y
  BY <1>3, LeastOf
<1>5. Min(set_in) = x
  BY <1>3, <1>4, MinIs
<1>6. x \in 1 .. Len(Sources) /\ FirstWith(Sources, f, x)
  BY <1>2, <1>4 DEF FirstWith
<1>7. QED
  BY <1>1, <1>3, <1>5, <1>6

\* A flag is on if the first source with it says so.
Flags == {"exclude_all_private", "exclude_private", "exclude_link_local", "exclude_loopback",
          "include_mail", "offline"}

LEMMA Switches ==
    ASSUME setup \in Setups, AllLoaded, NEW f \in Flags
    PROVE  On(f) <=> enabled(config, f)
<1>1. f \in Plain \ {"max_concurrency"} /\ f \notin DOMAIN Default
  BY DEF Flags, Plain, Fields, FilterFields, Chained, Default
<1>2. ValuesAs(Sources, config, Len(Sources), {f})
  BY <1>1 DEF AllLoaded, MostAs, ValuesAs
<1>3. /\ value(config, f) = Promised(f)
      /\ f \in DOMAIN config <=> \E i \in DOMAIN Sources : f \in DOMAIN Sources[i]
  BY <1>1, <1>2, PromisedValues
<1>4. f \in DOMAIN config <=> f \in Promises
  BY <1>1, <1>3 DEF Promises
<1>5. f \in DOMAIN config => Promised(f) = config[f]
  BY <1>3 DEF value
<1>6. QED
  BY <1>4, <1>5 DEF On, enabled

\* What the client was made with.
ReadyClient(h, m) ==
    /\ h \in from_header_pairs(headers(items(config, "header")))
    /\ m \in build_host_clients(create(config, h)) /\ client = Client(create(config, h), m)

LEMMA ReadyClientIs ==
    ASSUME ClientInv, stage = "ready"
    PROVE  \E h, m : ReadyClient(h, m)
BY Zenon DEF ClientInv, ClientOf, ReadyClient

\* A field of the builder that stands for a flag is on as the option is.
LEMMA BuilderFlags ==
    ASSUME NEW h, NEW f \in DOMAIN BuilderOptions, BuilderOptions[f] \in Flags
    PROVE  on(create(config, h), f) <=> enabled(config, BuilderOptions[f])
<1> DEFINE b == create(config, h)
<1>1. /\ f \in DOMAIN b <=> set(config, BuilderOptions[f])
      /\ f \in DOMAIN b => b[f] = value(config, BuilderOptions[f])
  BY CreateFields
<1>2. BuilderOptions[f] \notin DOMAIN Default
  BY DEF Flags, Default
<1>3. /\ f \in DOMAIN b <=> BuilderOptions[f] \in DOMAIN config
      /\ f \in DOMAIN b => b[f] = config[BuilderOptions[f]]
  BY <1>1, <1>2 DEF set, value
<1> HIDE DEF b
<1>4. on(b, f) <=> enabled(config, BuilderOptions[f])
  BY <1>3 DEF on, enabled
<1>5. QED
  BY <1>4 DEF b

\* The codes that count as good are those of the first source with some.
LEMMA AcceptPromised ==
    ASSUME setup \in Setups, AllLoaded
    PROVE  accept(config) = IF ranges # <<>> THEN ranges
                            ELSE IF "accept" \in Promises THEN visit_seq(Promised("accept"))
                            ELSE default_accepted
<1>1. AcceptAs(Sources, config, Len(Sources), ranges)
  BY DEF AllLoaded, MostAs
<1>2. CASE ranges # <<>>
  BY <1>1, <1>2 DEF AcceptAs, accept
<1>3. CASE ranges = <<>>
  <2>1. "accept" \in Promises <=> SetBy(Sources, "accept", Len(Sources))
    BY SourcesList DEF Promises, Default, SetBy
  <2>2. /\ "accept" \in DOMAIN config <=> SetBy(Sources, "accept", Len(Sources))
        /\ \A i \in 1 .. Len(Sources) :
               FirstWith(Sources, "accept", i) => config.accept = visit_seq(Sources[i].accept)
    BY <1>1, <1>3 DEF AcceptAs
  <2>3. CASE SetBy(Sources, "accept", Len(Sources))
    <3>1. PICK i \in 1 .. Len(Sources) :
              FirstWith(Sources, "accept", i) /\ Promised("accept") = Sources[i]["accept"]
      <4>1. "accept" \notin Chained
        BY DEF Chained
      <4>2. QED
        BY <2>3, <4>1, FirstPromised
    <3>2. config.accept = visit_seq(Promised("accept"))
      BY <2>2, <3>1
    <3>3. QED
      BY <1>3, <2>1, <2>2, <2>3, <3>2 DEF accept
  <2>4. CASE ~SetBy(Sources, "accept", Len(Sources))
    BY <1>3, <2>1, <2>2, <2>4 DEF accept
  <2>5. QED
    BY <2>3, <2>4
<1>4. QED
  BY <1>2, <1>3

\* The client keeps out the private addresses, the schemes and the codes that the first
\* source with an option about them says, whatever the sources are (lychee-bin client.rs,
\* create; lychee-lib client.rs, ClientBuilder::client).
THEOREM ClientTheorem == ProgramSpec => []ClientAsSet
<1>1. LoadInv /\ ClientInv => ClientAsSet
  <2> SUFFICES ASSUME LoadInv, ClientInv, stage = "ready" PROVE ClientAsSet
    BY DEF ClientAsSet
  <2>1. setup \in Setups /\ AllLoaded
    BY DEF LoadInv, Loaded
  <2>2. PICK h, m : ReadyClient(h, m)
    BY ReadyClientIs
  <2> DEFINE b == create(config, h)
             ips == {"exclude_private_ips", "exclude_link_local_ips", "exclude_loopback_ips"}
  <2>3. /\ b.schemes = schemes(config)
        /\ b.accepted = {code \in MIN .. MAX :
                            \E i \in DOMAIN accept(config) : contains(accept(config)[i], code)}
        /\ {"schemes", "accepted", "custom_headers", "hosts", "user_agent"} \subseteq DOMAIN b
        /\ DOMAIN b \cap {"default_client", "client_map", "filter"} = {}
    BY CreateFields
  <2>4. client = Client(b, m)
    BY <2>2 DEF ReadyClient
  <2>5. \A f \in Flags : On(f) <=> enabled(config, f)
    BY <2>1, Switches
  <2>6. /\ on(b, "exclude_all_private") <=> On("exclude_all_private")
        /\ on(b, "exclude_private_ips") <=> On("exclude_private")
        /\ on(b, "exclude_link_local_ips") <=> On("exclude_link_local")
        /\ on(b, "exclude_loopback_ips") <=> On("exclude_loopback")
        /\ on(b, "include_mail") <=> On("include_mail")
    <3>1. \A f \in DOMAIN BuilderOptions :
              BuilderOptions[f] \in Flags => (on(b, f) <=> enabled(config, BuilderOptions[f]))
      BY BuilderFlags
    <3> HIDE DEF b
    <3>2. QED
      BY <2>5, <3>1, BuilderFields DEF Flags
  <2> HIDE DEF b
  <2>7. /\ client.filter.ips = {f \in ips : on(b, "exclude_all_private") \/ on(b, f)}
        /\ client.filter.include_mail = on(b, "include_mail")
        /\ client.schemes = b.schemes /\ client.accepted = b.accepted
    BY <2>3, <2>4, ClientFields
  <2>8. client.filter.ips =
            {f \in ips : \/ On("exclude_all_private")
                         \/ f = "exclude_private_ips" /\ On("exclude_private")
                         \/ f = "exclude_link_local_ips" /\ On("exclude_link_local")
                         \/ f = "exclude_loopback_ips" /\ On("exclude_loopback")}
    BY <2>6, <2>7
  <2>9. client.filter.include_mail <=> On("include_mail")
    BY <2>6, <2>7
  <2>10. client.schemes = IF On("offline") THEN {"file"} ELSE ToSet(Promised("scheme"))
    <3>1. "scheme" \in Chained \ {"exclude"} /\ "offline" \in Flags
      BY DEF Chained, Flags
    <3>2. items(config, "scheme") = Promised("scheme")
      BY <2>1, <3>1, PromisedLists DEF AllLoaded, MostAs, ListsAs
    <3>3. QED
      BY <2>3, <2>5, <2>7, <3>1, <3>2 DEF schemes
  <2>11. QED
    BY <2>1, <2>3, <2>7, <2>8, <2>9, <2>10, AcceptPromised, Zenon DEF ClientAsSet
<1>2. QED
  BY <1>1, LoadInvariant, ClientInvariant, PTL
-----------------------------------------------------------------------------
(* The headers of a request *)

LEMMA GreatestOf ==
    ASSUME NEW n \in Nat, NEW S \in SUBSET (1 .. n), S # {}
    PROVE  \E x \in S : \A y \in S : y <= x
<1> DEFINE T == {k \in Nat : n - k \in S}
<1>1. T \in SUBSET Nat /\ T # {}
  <2>1. PICK x \in S : TRUE
    OBVIOUS
  <2>2. n - x \in Nat /\ n - (n - x) = x
    BY <2>1
  <2>3. n - x \in T
    BY <2>1, <2>2
  <2>4. QED
    BY <2>3
<1>2. PICK k \in T : \A j \in T : k <= j
  <2> HIDE DEF T
  <2>1. QED
    BY <1>1, LeastOf
<1>3. ASSUME NEW y \in S PROVE y <= n - k
  <2>1. y \in Nat /\ n - y \in Nat /\ n - (n - y) = y
    BY <1>3
  <2>2. n - y \in T
    BY <1>3, <2>1
  <2>3. k <= n - y /\ k \in Nat
    BY <1>2, <2>2
  <2>4. QED
    BY <2>1, <2>3
<1>4. QED
  BY <1>2, <1>3

\* Of the pairs with one spelling of a name the last one counts.
LEMMA LastPair ==
    ASSUME NEW pairs, IsList(pairs), NEW n \in DOMAIN headers(pairs)
    PROVE  \E i \in DOMAIN pairs : pairs[i][1] = n /\ headers(pairs)[n] = pairs[i][2]
<1> DEFINE named == {i \in DOMAIN pairs : pairs[i][1] = n}
           LastOf(i) == i \in DOMAIN pairs /\ pairs[i][1] = n
                      /\ \A j \in DOMAIN pairs : pairs[j][1] = n => j <= i
           last == CHOOSE i \in DOMAIN pairs :
                       pairs[i][1] = n /\ \A j \in DOMAIN pairs : pairs[j][1] = n => j <= i
<1>1. Len(pairs) \in Nat /\ DOMAIN pairs = 1 .. Len(pairs)
  BY ListDomain
<1>2. named # {} /\ named \in SUBSET (1 .. Len(pairs))
  BY <1>1 DEF headers
<1>3. PICK x \in named : \A y \in named : y <= x
  <2> HIDE DEF named
  <2>1. QED
    BY <1>1, <1>2, GreatestOf
<1>4. LastOf(x)
  BY <1>3
<1>5. last \in DOMAIN pairs /\ pairs[last][1] = n
  BY <1>4, Zenon
<1>6. headers(pairs)[n] = pairs[last][2]
  BY Zenon DEF headers
<1>7. QED
  BY <1>5, <1>6

\* The headers for all hosts are those that the options say, by their names in lower case.
LEMMA CustomHeaders ==
    ASSUME NEW pairs, IsList(pairs), NEW h \in from_header_pairs(headers(pairs))
    PROVE  /\ \A i \in DOMAIN pairs : lower(pairs[i][1]) \in DOMAIN h
           /\ \A n \in DOMAIN h : h[n] \in Says(pairs, n)
<1> DEFINE map == headers(pairs)
<1>1. DOMAIN map = {pairs[i][1] : i \in DOMAIN pairs}
  BY DEF headers
<1>2. \A n \in DOMAIN map : \E i \in DOMAIN pairs : pairs[i][1] = n /\ map[n] = pairs[i][2]
  BY LastPair
<1> HIDE DEF map
<1>3. /\ DOMAIN h = {lower(n) : n \in DOMAIN map}
      /\ \A name \in DOMAIN h : \E n \in DOMAIN map : lower(n) = name /\ h[name] = map[n]
  <2>1. h \in from_header_pairs(map)
    BY DEF map
  <2>2. QED
    BY <2>1 DEF from_header_pairs
<1>4. \A i \in DOMAIN pairs : lower(pairs[i][1]) \in DOMAIN h
  BY <1>1, <1>3
<1>5. ASSUME NEW n \in DOMAIN h PROVE h[n] \in Says(pairs, n)
  <2>1. PICK s \in DOMAIN map : lower(s) = n /\ h[n] = map[s]
    BY <1>3
  <2>2. PICK i \in DOMAIN pairs : pairs[i][1] = s /\ map[s] = pairs[i][2]
    BY <1>2
  <2>3. QED
    BY <2>1, <2>2 DEF Says
<1>6. QED
  BY <1>4, <1>5

\* What goes out to a host with the given table, for the names that no request has set.
LEMMA BuiltHeaders ==
    ASSUME NEW b, NEW table, IsHeaderMap(table)
    PROVE  LET c == build_client(b, table) IN
           /\ DOMAIN c = {table[i][1] : i \in DOMAIN table}
                         \cup {"transfer-encoding", "user-agent"} \cup DOMAIN b.custom_headers
           /\ \A n \in DOMAIN c :
                  IF Says(table, n) # {} THEN c[n] = Says(table, n)
                  ELSE IF n = "user-agent" THEN c[n] = {b.user_agent}
                  ELSE \/ n = "transfer-encoding"
                       \/ n \in DOMAIN b.custom_headers /\ c[n] = {b.custom_headers[n]}
<1> DEFINE own == host_headers(table)
           agent == [n \in {"user-agent"} |-> {b.user_agent}]
           custom == [n \in DOMAIN b.custom_headers |-> {b.custom_headers[n]}]
           ours == or(TRANSFER_ENCODING, agent)
           all == or(ours, custom)
           c == build_client(b, table)
<1>1. /\ DOMAIN own = {table[i][1] : i \in DOMAIN table}
      /\ \A n \in DOMAIN own : own[n] = {table[i][2] : i \in {i \in DOMAIN table : table[i][1] = n}}
  BY DEF host_headers
<1>2. \A n : Says(table, n) = {table[i][2] : i \in {i \in DOMAIN table : table[i][1] = n}}
  BY DEF Says, IsHeaderMap
<1>3. \A n : Says(table, n) # {} <=> n \in DOMAIN own
  BY <1>1, <1>2
<1>4. \A n \in DOMAIN own : own[n] = Says(table, n)
  BY <1>1, <1>2
<1>5. /\ DOMAIN TRANSFER_ENCODING = {"transfer-encoding"}
      /\ DOMAIN agent = {"user-agent"} /\ agent["user-agent"] = {b.user_agent}
  BY DEF TRANSFER_ENCODING
<1>6. /\ DOMAIN custom = DOMAIN b.custom_headers
      /\ \A n \in DOMAIN custom : custom[n] = {b.custom_headers[n]}
  OBVIOUS
<1>7. c = or(own, all)
  BY Zenon DEF build_client, default_headers
<1> HIDE DEF own, agent, custom, c
<1>8. /\ DOMAIN ours = {"transfer-encoding", "user-agent"}
      /\ ours["user-agent"] = {b.user_agent}
  BY <1>5 DEF or
<1> HIDE DEF ours
<1>9. /\ DOMAIN all = {"transfer-encoding", "user-agent"} \cup DOMAIN custom
      /\ all["user-agent"] = {b.user_agent}
      /\ \A n \in DOMAIN custom : n \notin {"transfer-encoding", "user-agent"} => all[n] = custom[n]
  BY <1>8 DEF or
<1> HIDE DEF all
<1>10. /\ DOMAIN c = DOMAIN own \cup DOMAIN all
       /\ \A n \in DOMAIN own : c[n] = own[n]
       /\ \A n \in DOMAIN all : n \notin DOMAIN own => c[n] = all[n]
  BY <1>7 DEF or
<1>11. DOMAIN c = {table[i][1] : i \in DOMAIN table}
                  \cup {"transfer-encoding", "user-agent"} \cup DOMAIN b.custom_headers
  <2>1. DOMAIN c = DOMAIN own \cup ({"transfer-encoding", "user-agent"} \cup DOMAIN b.custom_headers)
    BY <1>6, <1>9, <1>10, Zenon
  <2>2. QED
    BY <1>1, <2>1
<1>12. ASSUME NEW n \in DOMAIN c
       PROVE  IF Says(table, n) # {} THEN c[n] = Says(table, n)
              ELSE IF n = "user-agent" THEN c[n] = {b.user_agent}
              ELSE \/ n = "transfer-encoding"
                   \/ n \in DOMAIN b.custom_headers /\ c[n] = {b.custom_headers[n]}
  <2>1. CASE n \in DOMAIN own
    BY <1>3, <1>4, <1>10, <2>1
  <2>2. CASE n \notin DOMAIN own
    <3>1. Says(table, n) = {} /\ n \in DOMAIN all /\ c[n] = all[n]
      BY <1>3, <1>10, <1>12, <2>2
    <3>2. QED
      BY <1>6, <1>9, <3>1
  <2>3. QED
    BY <2>1, <2>2
<1>13. QED
  BY <1>11, <1>12 DEF c

\* Every Host has the client for its name, the pool has it under that name, and a request
\* that has gone out had the headers of that client; before the client there is no Host.
HostsInv ==
    /\ IsList(made)
    /\ \A i \in DOMAIN made :
           {"name", "client"} \subseteq DOMAIN made[i] /\ made[i].client = Client_of(made[i].name)
    /\ \A k \in DOMAIN hosts : hosts[k] \in DOMAIN made /\ made[hosts[k]].name = k
SentInv ==
    /\ DOMAIN at = Calls /\ DOMAIN used = Calls /\ DOMAIN request = Calls /\ DOMAIN sent = Calls
    /\ HostsInv
    /\ \A t \in Calls : used[t] # 0 =>
           /\ at[t] \in {"running", "done"}
           /\ sent[t] = or(request[t].headers, Client_of(HostKey(request[t].url)))
    /\ stage # "ready" => made = <<>> /\ DOMAIN hosts = {} /\ \A t \in Calls : used[t] = 0

LEMMA NotReady ==
    ASSUME StartNext
    PROVE  stage # "ready"
<1>1. ParseAccept \/ RejectArguments \/ Parse => stage # "ready"
  BY DEF ParseAccept, RejectArguments, Parse
<1>2. TryDefault \/ NoDefault \/ LoadNamed \/ RejectFile => stage # "ready"
  BY DEF TryDefault, NoDefault, LoadNamed, RejectFile
<1>3. ReadLycheeignore \/ ReadExcludeFile \/ RejectList \/ LimitConcurrency => stage # "ready"
  BY DEF ReadLycheeignore, ReadExcludeFile, RejectList, LimitConcurrency
<1>4. ExitEarly \/ ReadInputs \/ CreateClient \/ RejectClient => stage # "ready"
  BY DEF ExitEarly, ReadInputs, CreateClient, RejectClient
<1>5. QED
  BY <1>1, <1>2, <1>3, <1>4 DEF StartNext

LEMMA ListAppend ==
    ASSUME NEW s, IsList(s), NEW x
    PROVE  /\ IsList(Append(s, x)) /\ DOMAIN Append(s, x) = DOMAIN s \cup {Len(s) + 1}
           /\ Len(s) + 1 \notin DOMAIN s /\ Append(s, x)[Len(s) + 1] = x
           /\ \A i \in DOMAIN s : Append(s, x)[i] = s[i]
<1> DEFINE S == ToSet(s) \cup {x}
<1>1. s \in Seq(S)
  <2>1. s \in Seq(ToSet(s)) /\ ToSet(s) \subseteq S
    BY DEF IsList
  <2> HIDE DEF ToSet, S
  <2>2. QED
    BY <2>1, SeqMonotonic
<1>2. x \in S
  OBVIOUS
<1> HIDE DEF S
<1>3. /\ Append(s, x) \in Seq(S) /\ Len(Append(s, x)) = Len(s) + 1
      /\ \A i \in 1 .. Len(s) : Append(s, x)[i] = s[i]
      /\ Append(s, x)[Len(s) + 1] = x
  BY <1>1, <1>2, AppendProperties
<1>4. /\ Len(s) \in Nat /\ DOMAIN s = 1 .. Len(s)
      /\ DOMAIN Append(s, x) = 1 .. Len(s) + 1
  BY <1>1, <1>3, LenProperties
<1>5. IsList(Append(s, x))
  BY <1>3, ListOf
<1>6. DOMAIN Append(s, x) = DOMAIN s \cup {Len(s) + 1} /\ Len(s) + 1 \notin DOMAIN s
  BY <1>4
<1>7. QED
  BY <1>3, <1>4, <1>5, <1>6

\* A list with one of its elements changed.
LEMMA ListExcept ==
    ASSUME NEW s, IsList(s), NEW r, DOMAIN r = DOMAIN s
    PROVE  (r = [i \in DOMAIN s |-> r[i]]) => IsList(r)
<1>1. Len(s) \in Nat /\ DOMAIN s = 1 .. Len(s)
  BY ListDomain
<1> DEFINE S == {r[i] : i \in DOMAIN s}
<1>2. ASSUME r = [i \in DOMAIN s |-> r[i]] PROVE r \in [1 .. Len(s) -> S]
  BY <1>1, <1>2
<1> HIDE DEF S
<1>3. ASSUME r \in [1 .. Len(s) -> S] PROVE r \in Seq(S)
  BY <1>1, <1>3
<1>4. QED
  BY <1>2, <1>3, ListOf

\* The Host that a look-up leaves in the pool has the client for its name.
LEMMA LookUp ==
    ASSUME HostsInv, UNCHANGED client, NEW key, NEW counted, get_or_create_host(key, counted)
    PROVE  HostsInv' /\ key \in DOMAIN hosts'
<1>1. \A k : Client_of(k)' = Client_of(k)
  BY DEF Client_of
<1> HIDE DEF Client_of
<1>2. CASE key \in DOMAIN hosts
  <2> DEFINE x == hosts[key]
  <2>1. /\ x \in DOMAIN made /\ hosts' = hosts
        /\ made' = [made EXCEPT ![x] = [made[x] EXCEPT !.requests = made[x].requests + counted]]
    BY <1>2 DEF get_or_create_host, HostsInv
  <2> HIDE DEF x
  <2>2. /\ DOMAIN made' = DOMAIN made /\ made' = [i \in DOMAIN made |-> made'[i]]
        /\ \A i \in DOMAIN made : i # x => made'[i] = made[i]
        /\ made'[x] = [made[x] EXCEPT !.requests = made[x].requests + counted]
    BY <2>1
  <2>3. IsList(made')
    BY <2>2, ListExcept DEF HostsInv
  <2>4. {"name", "client"} \subseteq DOMAIN made[x]
    BY <2>1 DEF HostsInv
  <2>5. /\ {"name", "client"} \subseteq DOMAIN made'[x]
        /\ made'[x].name = made[x].name /\ made'[x].client = made[x].client
    BY <2>2, <2>4
  <2>6. \A i \in DOMAIN made : /\ {"name", "client"} \subseteq DOMAIN made'[i]
                               /\ made'[i].name = made[i].name /\ made'[i].client = made[i].client
    BY <2>2, <2>5 DEF HostsInv
  <2>7. QED
    BY <1>1, <1>2, <2>1, <2>2, <2>3, <2>6 DEF HostsInv
<1>3. CASE key \notin DOMAIN hosts
  <2> DEFINE new == [New(key) EXCEPT !.requests = counted]
  <2>1. hosts' = entered(key) /\ made' = Append(made, new)
    BY <1>3 DEF get_or_create_host
  <2>2. new.name = key /\ new.client = Client_of(key) /\ {"name", "client"} \subseteq DOMAIN new
    BY DEF New
  <2> HIDE DEF new
  <2>3. /\ IsList(made') /\ DOMAIN made' = DOMAIN made \cup {Len(made) + 1}
        /\ Len(made) + 1 \notin DOMAIN made /\ made'[Len(made) + 1] = new
        /\ \A i \in DOMAIN made : made'[i] = made[i]
    BY <2>1, ListAppend DEF HostsInv
  <2>4. /\ DOMAIN hosts' = DOMAIN hosts \cup {key} /\ hosts'[key] = Len(made) + 1
        /\ \A k \in DOMAIN hosts : hosts'[k] = hosts[k]
    BY <1>3, <2>1 DEF entered
  <2>5. \A i \in DOMAIN made' :
            {"name", "client"} \subseteq DOMAIN made'[i] /\ made'[i].client = Client_of(made'[i].name)
    BY <2>2, <2>3 DEF HostsInv
  <2>6. \A k \in DOMAIN hosts' : hosts'[k] \in DOMAIN made' /\ made'[hosts'[k]].name = k
    BY <2>2, <2>3, <2>4 DEF HostsInv
  <2>7. QED
    BY <1>1, <2>3, <2>4, <2>5, <2>6 DEF HostsInv
<1>4. QED
  BY <1>2, <1>3

\* Before the client there is no Host: making it changes nothing.
LEMMA SentStart ==
    ASSUME SentInv, StartNext, UNCHANGED poolVars
    PROVE  SentInv'
<1>1. /\ made = <<>> /\ DOMAIN hosts = {} /\ DOMAIN made = {} /\ IsList(made)
      /\ \A t \in Calls : used[t] = 0
  BY NotReady, ListEmpty DEF SentInv
<1>2. Calls' = Calls /\ made' = made /\ hosts' = hosts /\ used' = used /\ at' = at
      /\ request' = request /\ sent' = sent
  BY SetupStays DEF Calls, poolVars
<1>3. HostsInv'
  BY <1>1, <1>2 DEF HostsInv
<1>4. QED
  BY <1>1, <1>2, <1>3 DEF SentInv

LEMMA SentStep ==
    ASSUME SentInv, stage = "ready", PoolNext, UNCHANGED startVars
    PROVE  SentInv'
<1>1. Calls' = Calls /\ client' = client /\ stage' = stage
  BY DEF startVars, Calls
<1>2. \A k : Client_of(k)' = Client_of(k)
  BY <1>1 DEF Client_of
<1> HIDE DEF Calls, Client_of
<1>3. ASSUME NEW t \in Calls, record_persistent_cache_hit(t) \/ build_request(t)
      PROVE  SentInv'
  <2>1. HostsInv'
    BY <1>1, <1>3, LookUp DEF record_persistent_cache_hit, build_request, SentInv
  <2>2. /\ UNCHANGED <<request, sent, used>> /\ at[t] = "new"
        /\ at' = [at EXCEPT ![t] = "done"] \/ at' = [at EXCEPT ![t] = "built"]
    BY <1>3 DEF record_persistent_cache_hit, build_request
  <2>3. \A u \in Calls : used[u] # 0 => u # t
    BY <2>2 DEF SentInv
  <2>4. QED
    BY <1>1, <1>2, <2>1, <2>2, <2>3 DEF SentInv, HostKey, lower
<1>4. ASSUME NEW t \in Calls, HandleChain(t)
      PROVE  SentInv'
  <2>1. /\ UNCHANGED <<hosts, made, sent, used>> /\ at[t] = "built"
        /\ at' = [at EXCEPT ![t] = "chained"]
        /\ DOMAIN request' = DOMAIN request
        /\ \A u \in DOMAIN request : u # t => request'[u] = request[u]
    BY <1>4 DEF HandleChain
  <2>2. \A u \in Calls : used[u] # 0 => u # t
    BY <2>1 DEF SentInv
  <2>3. HostsInv'
    BY <1>2, <2>1 DEF SentInv, HostsInv
  <2>4. QED
    BY <1>1, <1>2, <2>1, <2>2, <2>3 DEF SentInv, HostKey, lower
<1>5. ASSUME NEW t \in Calls, execute_request(t)
      PROVE  SentInv'
  <2> DEFINE key == HostKey(request[t].url)
  <2>1. HostsInv' /\ key \in DOMAIN hosts'
    BY <1>1, <1>5, LookUp DEF execute_request, executing_key, SentInv
  <2>2. /\ UNCHANGED request /\ at' = [at EXCEPT ![t] = "running"]
        /\ used' = [used EXCEPT ![t] = hosts'[key]]
        /\ sent' = [sent EXCEPT ![t] = or(request[t].headers, made'[hosts'[key]].client)]
    BY <1>5 DEF execute_request, executing_key
  <2>3. made'[hosts'[key]].client = Client_of(key)
    BY <1>2, <2>1 DEF HostsInv
  <2>4. \A u \in Calls : HostKey(request'[u].url) = HostKey(request[u].url)
    BY <2>2
  <2>5. ASSUME NEW u \in Calls, used'[u] # 0
        PROVE  /\ at'[u] \in {"running", "done"}
               /\ sent'[u] = or(request'[u].headers, Client_of(HostKey(request'[u].url)))
    <3>1. CASE u = t
      BY <2>2, <2>3, <3>1 DEF SentInv
    <3>2. CASE u # t
      <4>1. used'[u] = used[u] /\ at'[u] = at[u] /\ sent'[u] = sent[u] /\ request'[u] = request[u]
        BY <2>2, <3>2 DEF SentInv
      <4>2. QED
        BY <2>5, <4>1 DEF SentInv
    <3>3. QED
      BY <3>1, <3>2
  <2>6. DOMAIN at' = Calls /\ DOMAIN used' = Calls /\ DOMAIN request' = Calls /\ DOMAIN sent' = Calls
    BY <2>2 DEF SentInv
  <2>7. QED
    BY <1>1, <1>2, <2>1, <2>5, <2>6 DEF SentInv, HostKey, lower
<1>6. ASSUME NEW t \in Calls, Answer(t)
      PROVE  SentInv'
  <2>1. /\ UNCHANGED <<hosts, made, request, sent, used>> /\ at' = [at EXCEPT ![t] = "done"]
    BY <1>6 DEF Answer
  <2>2. HostsInv'
    BY <1>2, <2>1 DEF SentInv, HostsInv
  <2>3. QED
    BY <1>1, <1>2, <2>1, <2>2 DEF SentInv, HostKey, lower
<1>7. ASSUME NEW h \in DOMAIN hosts, remove_host(h)
      PROVE  SentInv'
  <2>1. /\ UNCHANGED <<made, at, request, sent, used>>
        /\ DOMAIN hosts' \subseteq DOMAIN hosts /\ \A k \in DOMAIN hosts' : hosts'[k] = hosts[k]
    BY <1>7 DEF remove_host
  <2>2. HostsInv'
    BY <1>2, <2>1 DEF SentInv, HostsInv
  <2>3. QED
    BY <1>1, <1>2, <2>1, <2>2 DEF SentInv, HostKey, lower
<1>8. QED
  BY <1>3, <1>4, <1>5, <1>6, <1>7 DEF PoolNext

LEMMA SentKept ==
    ASSUME SentInv, UNCHANGED programVars
    PROVE  SentInv'
BY DEF SentInv, HostsInv, programVars, startVars, poolVars, Calls, Client_of, HostKey, lower

LEMMA SentInvariant == ProgramSpec => []SentInv
<1>1. ProgramInit => SentInv
  BY ListEmpty DEF ProgramInit, PoolInit, SentInv, HostsInv, StartInit
<1>2. SentInv /\ [ProgramNext]_programVars => SentInv'
  BY SentStart, SentStep, SentKept DEF ProgramNext
<1>3. QED
  BY <1>1, <1>2, PTL DEF ProgramSpec

\* The client for a name is built with a table that may be the host's.
LEMMA TableOf ==
    ASSUME NEW h, NEW m, ReadyClient(h, m), HostsTyped(config), NEW key
    PROVE  \E table \in Tables(key) :
               IsHeaderMap(table) /\ Client_of(key) = build_client(create(config, h), table)
<1> DEFINE b == create(config, h)
           own == {name \in DOMAIN items(config, "hosts") : lower(name) = key}
<1>1. b.hosts = items(config, "hosts") /\ DOMAIN b \cap {"default_client", "client_map", "filter"} = {}
  BY CreateFields
<1>2. client = Client(b, m) /\ m \in build_host_clients(b)
  BY DEF ReadyClient
<1> HIDE DEF b
<1>3. client.client_map = m /\ client.default_client = build_client(b, <<>>)
  BY <1>1, <1>2, ClientFields
<1>4. PICK p : /\ p \in [{lower(name) : name \in DOMAIN b.hosts} -> DOMAIN b.hosts]
               /\ \A k \in DOMAIN p : lower(p[k]) = k
               /\ m = [k \in DOMAIN p |-> build_client(b, b.hosts[p[k]])]
  BY <1>2, Zenon DEF build_host_clients
<1>5. DOMAIN p = {lower(name) : name \in DOMAIN b.hosts} /\ DOMAIN m = DOMAIN p
  BY <1>4
<1>6. CASE key \in DOMAIN m
  <2>1. p[key] \in own
    BY <1>1, <1>4, <1>5, <1>6
  <2>2. "hosts" \in DOMAIN config
    BY <2>1, ListEmpty DEF items
  <2>3. items(config, "hosts") = config.hosts
    BY <2>2 DEF items
  <2>4. Client_of(key) = build_client(b, config.hosts[p[key]])
    BY <1>1, <1>3, <1>4, <1>5, <1>6, <2>3 DEF Client_of
  <2>5. IsHeaderMap(config.hosts[p[key]])
    BY <2>1 DEF HostsTyped
  <2>6. config.hosts[p[key]] \in Tables(key)
    BY <2>1 DEF Tables
  <2>7. QED
    BY <2>4, <2>5, <2>6 DEF b
<1>7. CASE key \notin DOMAIN m
  <2>1. own = {}
    BY <1>1, <1>5, <1>7
  <2>2. <<>> \in Tables(key)
    BY <2>1 DEF Tables
  <2>3. Client_of(key) = build_client(b, <<>>)
    BY <1>3, <1>7 DEF Client_of
  <2>4. IsHeaderMap(<<>>)
    BY ListEmpty DEF IsHeaderMap
  <2>5. QED
    BY <2>2, <2>3, <2>4 DEF b
<1>8. QED
  BY <1>6, <1>7

LEMMA HeadersRight ==
    ASSUME LoadInv, ClientInv, SentInv
    PROVE  HeadersPerHost
<1> SUFFICES ASSUME NEW t \in Calls, used[t] # 0
             PROVE  LET all == items(config, "header")
                    IN \E table \in Tables(HostKey(request[t].url)) :
                           /\ \A n \in DOMAIN sent[t] \ DOMAIN request[t].headers :
                                  \/ n = "transfer-encoding" /\ Says(table, n) = {}
                                  \/ sent[t][n] # {} /\ sent[t][n] \subseteq Said(table, n)
                           /\ \A i \in DOMAIN all : lower(all[i][1]) \in DOMAIN sent[t]
                           /\ \A i \in DOMAIN table : table[i][1] \in DOMAIN sent[t]
  BY Zenon DEF HeadersPerHost
<1> DEFINE all == items(config, "header")
           key == HostKey(request[t].url)
           R == request[t].headers
<1>1. stage = "ready" /\ sent[t] = or(R, Client_of(key))
  BY DEF SentInv
<1>2. AllLoaded
  BY <1>1 DEF LoadInv, Loaded
<1>3. HostsTyped(config) /\ IsList(all)
  BY <1>2 DEF AllLoaded, MostAs, ListsTyped, Chained
<1>4. PICK h, m : ReadyClient(h, m)
  BY <1>1, ReadyClientIs
<1>5. PICK table \in Tables(key) :
          IsHeaderMap(table) /\ Client_of(key) = build_client(create(config, h), table)
  BY <1>3, <1>4, TableOf
<1> DEFINE b == create(config, h)
           c == build_client(b, table)
<1>6. b.custom_headers = h /\ b.user_agent = value(config, "user_agent")
  BY CreateFields
<1>7. /\ \A i \in DOMAIN all : lower(all[i][1]) \in DOMAIN h
      /\ \A n \in DOMAIN h : h[n] \in Says(all, n)
  BY <1>3, <1>4, CustomHeaders DEF ReadyClient
<1> HIDE DEF all, b
<1>8. /\ DOMAIN c = {table[i][1] : i \in DOMAIN table}
                    \cup {"transfer-encoding", "user-agent"} \cup DOMAIN b.custom_headers
      /\ \A n \in DOMAIN c :
             IF Says(table, n) # {} THEN c[n] = Says(table, n)
             ELSE IF n = "user-agent" THEN c[n] = {b.user_agent}
             ELSE \/ n = "transfer-encoding"
                  \/ n \in DOMAIN b.custom_headers /\ c[n] = {b.custom_headers[n]}
  BY <1>5, BuiltHeaders
<1>9. Client_of(key) = c
  BY <1>5 DEF b
<1> HIDE DEF c, R, key
<1>10. /\ DOMAIN sent[t] = DOMAIN R \cup DOMAIN c
       /\ \A n \in DOMAIN c : n \notin DOMAIN R => sent[t][n] = c[n]
  BY <1>1, <1>9 DEF or
<1>11. ASSUME NEW n \in DOMAIN sent[t] \ DOMAIN R
       PROVE  \/ n = "transfer-encoding" /\ Says(table, n) = {}
              \/ sent[t][n] # {} /\ sent[t][n] \subseteq Said(table, n)
  <2>1. n \in DOMAIN c /\ sent[t][n] = c[n]
    BY <1>10, <1>11
  <2>2. n \in DOMAIN b.custom_headers => {b.custom_headers[n]} \subseteq Says(all, n)
    BY <1>6, <1>7
  <2> HIDE DEF Says
  <2>3. Said(table, n) = IF Says(table, n) # {} THEN Says(table, n)
                         ELSE IF n = "user-agent" THEN {value(config, "user_agent")}
                         ELSE Says(all, n)
    BY DEF Said, all
  <2>4. QED
    BY <1>6, <1>8, <2>1, <2>2, <2>3
<1>12. \A i \in DOMAIN all : lower(all[i][1]) \in DOMAIN sent[t]
  BY <1>6, <1>7, <1>8, <1>10
<1>13. \A i \in DOMAIN table : table[i][1] \in DOMAIN sent[t]
  BY <1>8, <1>10
<1>14. QED
  BY <1>5, <1>11, <1>12, <1>13 DEF all, key, R

\* Every request goes out with all headers of the host it goes to, each with a value that
\* is said of that host, the host's own table before what is said of all hosts, and two
\* requests under way to one host have the same Host until one is removed, whatever
\* options, links and quirks there are (pool.rs, build_request, execute_request and
\* get_or_create_host; client.rs, build_host_clients).
THEOREM RequestsTheorem == ProgramSpec => []RequestsPerHost
<1>1. LoadInv /\ ClientInv /\ SentInv => HeadersPerHost
  BY HeadersRight
<1>2. HeadersPerHost /\ HostShared => RequestsPerHost
  BY DEF RequestsPerHost
<1>3. QED
  BY <1>1, <1>2, LoadInvariant, ClientInvariant, SentInvariant, SharedTheorem, PTL
=============================================================================
