------------------------ MODULE PersistentCacheProofs ------------------------
(* What the disk cache serves, for every set of requests, URIs, outcomes and   *)
(* configurations and every number of runs.                                   *)
EXTENDS PersistentCache, TLAPS

USE DEF StatusCodes, NoCode, CacheStatus, Cached, Plain, Ok, RejectedStatusCode,
        Error, Timeout, UnknownMailStatus, Excluded, Unsupported
-----------------------------------------------------------------------------
(* The operators of Status keep to their types *)

LEMMA FromCacheType ==
    ASSUME NEW cs \in CacheStatuses, NEW accepted \in SUBSET StatusCodes
    PROVE from_cache_status(cs, accepted) \in Statuses
  BY DEF from_cache_status, CacheStatuses, Statuses

LEMMA ToCacheType ==
    ASSUME NEW s \in Statuses
    PROVE ToCacheStatus(s) \in CacheStatuses
  BY DEF ToCacheStatus, CacheStatuses, Statuses

LEMMA DeserializeType ==
    ASSUME NEW cs \in CacheStatuses
    PROVE deserialize(serialize(cs)) \in CacheStatuses
  BY DEF deserialize, serialize, CacheStatuses

\* An Ok that is read back from what a success has left is the same Ok.
LEMMA ReadBack ==
    ASSUME NEW s \in Statuses, is_success(s),
           deserialize(serialize(ToCacheStatus(s))).kind # "Error"
    PROVE deserialize(serialize(ToCacheStatus(s))) = ToCacheStatus(s)
  BY DEF deserialize, serialize, ToCacheStatus, is_success, Statuses, CacheStatuses

LEMMA StatusOfType ==
    ASSUME TypeOK, NEW o \in Outcome, CacheAssumption
    PROVE StatusOf(o) \in Statuses /\ StatusOf(o).from = "check" /\ StatusOf(o) # Excluded
  BY DEF StatusOf, Outcome, Statuses, new, FromErrorKind
-----------------------------------------------------------------------------
(* Timestamps *)

LEMMA ShortTimestamps ==
    ASSUME NEW n \in Nat
    PROVE /\ n \div 10 \in Nat /\ n \div 100 \in Nat
          /\ n \div 100 <= n \div 10 /\ n \div 10 <= n
  BY SMT

\* Only a whole timestamp, not later than now, is young enough.
LEMMA YoungIsBefore ==
    ASSUME CacheAssumption, now \in Clock, NEW c \in Configs, NEW m \in Clock,
           NEW ts \in {m, m \div 10, m \div 100}, Age(ts) < c.maxAge
    PROVE ts = m /\ m <= now /\ now - m < c.maxAge
<1>1. /\ now \in 0 .. Wrap - 1 /\ m \in 0 .. Wrap - 1 /\ Wrap \in Nat
      /\ c.maxAge \in Nat
  BY DEF CacheAssumption, Config
<1>2. /\ m \div 10 <= now /\ now - (m \div 10) >= c.maxAge
      /\ now < m => Wrap + now - m >= c.maxAge
  BY DEF CacheAssumption
<1>3. /\ m \div 10 \in 0 .. Wrap - 1 /\ m \div 100 \in 0 .. Wrap - 1
      /\ m \div 100 <= m \div 10
  BY <1>1, ShortTimestamps
<1>4. CASE ts = m
  BY <1>4, <1>1, <1>2 DEF Age
<1>5. CASE ts = m \div 10 \/ ts = m \div 100
  BY <1>5, <1>1, <1>2, <1>3 DEF Age
<1>6. QED
  BY <1>4, <1>5
-----------------------------------------------------------------------------
(* The invariant, action by action *)

LEMMA InitInvariant == CacheAssumption /\ Init => IInv
<1> SUFFICES ASSUME CacheAssumption, Init PROVE IInv
  OBVIOUS
<1>1. TypeOK
  BY DEF CacheAssumption, Init, TypeOK, Empty, Blank, Pending
<1>2. MemEarned /\ DiskEarned /\ NoCheckAhead
  BY DEF Init, MemEarned, DiskEarned, NoCheckAhead, Empty, Blank
<1>3. /\ GreenIsEarned /\ ErrorsRechecked
      /\ ExcludedStatusNotServed /\ ExcludedConsistently
  BY DEF Init, GreenIsEarned, ErrorsRechecked, ExcludedStatusNotServed,
         ExcludedConsistently, Pending
<1>4. QED
  BY <1>1, <1>2, <1>3 DEF IInv

\* load keeps only successes that are young enough, not excluded, and whole.
LEMMA LoadEarned ==
    ASSUME CacheAssumption, IInv, NEW c \in Configs, NEW u \in Uris,
           load(c)[u] # None
    PROVE /\ load(c)[u] \in Entries
          /\ load(c)[u].status.kind = "Ok"
          /\ load(c)[u].status.code \notin c.cacheExclude
          /\ \E k \in checks :
                /\ k.uri = u
                /\ is_success(k.status)
                /\ load(c)[u] = Entry(ToCacheStatus(k.status), k.timestamp)
                /\ k.timestamp <= now /\ now - k.timestamp < c.maxAge
<1> DEFINE row == disk.rows[u]
<1>1. row # NoRow /\ Kept(row, c)
      /\ load(c)[u] = Entry(deserialize(row.text), row.timestamp)
  BY DEF load
<1>2. PICK k \in checks :
        /\ k.uri = u
        /\ is_success(k.status)
        /\ row.text = serialize(ToCacheStatus(k.status))
        /\ row.timestamp \in {k.timestamp, k.timestamp \div 10, k.timestamp \div 100}
  BY <1>1 DEF IInv, DiskEarned
<1>3. now \in Clock /\ k.status \in Statuses /\ k.timestamp \in Clock
  BY DEF IInv, TypeOK
<1>4. /\ row.timestamp = k.timestamp
      /\ k.timestamp <= now /\ now - k.timestamp < c.maxAge
  BY <1>1, <1>2, <1>3, YoungIsBefore DEF Kept
<1>5. deserialize(row.text) = ToCacheStatus(k.status)
  BY <1>1, <1>2, <1>3, ReadBack DEF Kept
<1>6. ToCacheStatus(k.status) \in CacheStatuses /\ ToCacheStatus(k.status).kind = "Ok"
  BY <1>2, <1>3, ToCacheType DEF ToCacheStatus, is_success
<1>7. load(c)[u] = Entry(ToCacheStatus(k.status), k.timestamp)
  BY <1>1, <1>4, <1>5
<1>8. load(c)[u].status.code \notin c.cacheExclude
  BY <1>1, <1>5, <1>7 DEF Kept, is_code_excluded, Entry
<1>9. QED
  BY <1>2, <1>3, <1>4, <1>6, <1>7, <1>8 DEF Entry, Entries

LEMMA StartRunInvariant ==
    ASSUME CacheAssumption, IInv, NEW c \in Configs, StartRun(c)
    PROVE IInv'
<1> USE DEF StartRun
<1>1. TypeOK'
  <2>1. mem' \in [Uris -> Entries \cup {None}]
    BY LoadEarned DEF load
  <2>2. QED
    BY <2>1 DEF IInv, TypeOK, CacheAssumption
<1>2. MemEarned'
  <2> SUFFICES ASSUME NEW u \in Uris, load(c)[u] # None
               PROVE /\ load(c)[u].status.kind \in {"Ok", "Error"}
                     /\ load(c)[u].status.code \notin c.cacheExclude
                     /\ \E k \in checks :
                          /\ k.uri = u
                          /\ load(c)[u] = Entry(ToCacheStatus(k.status), k.timestamp)
                          /\ k.run = runs' \/ (is_success(k.status) /\ Before(k)')
    BY DEF MemEarned
  <2>1. QED
    BY LoadEarned DEF Before
<1>3. DiskEarned'
  BY DEF IInv, DiskEarned
<1>4. NoCheckAhead'
  BY DEF IInv, NoCheckAhead, TypeOK
<1>5. /\ GreenIsEarned' /\ ErrorsRechecked'
      /\ ExcludedStatusNotServed' /\ ExcludedConsistently'
  BY DEF GreenIsEarned, ErrorsRechecked, ExcludedStatusNotServed,
         ExcludedConsistently, Pending
<1>6. QED
  BY <1>1, <1>2, <1>3, <1>4, <1>5 DEF IInv

LEMMA InSequence ==
    ASSUME NEW S, NEW s \in Seq(S), NEW i \in DOMAIN s
    PROVE s[i] \in S
  OBVIOUS

\* A remap leads to a URI or fails.
LEMMA RemapType ==
    ASSUME CacheAssumption, TypeOK, NEW t \in Requests
    PROVE remap(t) \in Uris \cup {NoUri}
<1> DEFINE rules == cfg.options.remap
           u == UriOf[t]
<1>1. u \in Uris /\ rules \in Remaps
  BY DEF CacheAssumption, TypeOK, Config, Options
<1>2. CASE Deciding(rules, u) = {}
  BY <1>1, <1>2 DEF remap, remap_uri
<1>3. CASE Deciding(rules, u) # {}
  <2> DEFINE i == CHOOSE j \in Deciding(rules, u) : TRUE
  <2>1. i \in Deciding(rules, u)
    BY <1>3
  <2>2. i \in DOMAIN rules
    BY <2>1 DEF Deciding
  <2>3. remap(t) = rules[i].replacement[u]
    BY <1>3 DEF remap, remap_uri
  <2> HIDE DEF rules, i, u
  <2>4. rules[i] \in [pattern : SUBSET Uris, replacement : [Uris -> Uris \cup {NoUri}]]
    BY <1>1, <2>2, InSequence DEF Remaps
  <2>5. QED
    BY <1>1, <2>3, <2>4
<1>4. QED
  BY <1>2, <1>3

\* The branches of Filter::is_excluded are what the options promise.
LEMMA FilterAsPromised ==
    ASSUME CacheAssumption, TypeOK, NEW u \in Uris
    PROVE excluded(u) <=> ~Wanted(cfg.options, u)
<1> DEFINE o == cfg.options
           fo == FilterOf(o)
<1>1. o \in Options
  BY DEF CacheAssumption, TypeOK, Config
<1>2. KindExcluded(fo, u) <=> ~Checkable(o, u)
  BY <1>1 DEF KindExcluded, Checkable, FilterOf, is_scheme_excluded, is_host_excluded,
              is_ip_excluded, is_mail_excluded, Options, is_file
<1>3. fo.includes = o.include /\ fo.excludes = o.exclude
  BY DEF FilterOf
<1>4. is_match({}, u) = FALSE
  BY DEF is_match
<1> HIDE DEF o, fo
<1>5. is_uri_excluded(fo, u) <=> ~Wanted(o, u)
  BY <1>2, <1>3, <1>4 DEF is_uri_excluded, Wanted
<1>6. QED
  BY <1>5 DEF excluded, o, fo

\* What is true of the results stays true when nothing changes but them.
LEMMA LookupInvariant ==
    ASSUME CacheAssumption, IInv, NEW t \in Requests, Lookup(t)
    PROVE IInv'
<1> USE DEF Lookup
<1> DEFINE u == remap(t)
<1>1. cfg.accept \in SUBSET StatusCodes /\ u \in Uris \cup {NoUri}
  BY RemapType DEF IInv, TypeOK, CacheAssumption, Config
<1>2. CASE Stored(t) = None
  BY <1>2 DEF IInv, TypeOK, MemEarned, DiskEarned, NoCheckAhead, GreenIsEarned,
              ErrorsRechecked, ExcludedStatusNotServed, ExcludedConsistently,
              Before, remap
<1>3. CASE Stored(t) # None
  <2>1. u \in Uris /\ mem[u] # None /\ Stored(t) = mem[u]
    BY <1>1, <1>3 DEF Stored, Key
  <2>2. mem[u].status \in CacheStatuses
    BY <2>1 DEF IInv, TypeOK, Entries
  <2>3. PICK k \in checks :
          /\ k.uri = u
          /\ mem[u] = Entry(ToCacheStatus(k.status), k.timestamp)
          /\ k.run = runs \/ (is_success(k.status) /\ Before(k))
    <3>1. MemEarned
      BY DEF IInv
    <3>2. QED
      BY <2>1, <3>1 DEF MemEarned
  <2>4. /\ mem[u].status.kind \in {"Ok", "Error"}
        /\ mem[u].status.code \notin cfg.cacheExclude
    BY <2>1 DEF IInv, MemEarned
  <2>5. mem[u].status = ToCacheStatus(k.status) /\ mem[u].status.code = k.status.code
    BY <2>3 DEF Entry, ToCacheStatus
  <2>6. at' = [at EXCEPT ![t] = "done"] /\ result' = [result EXCEPT ![t] = cache_hit(t)]
    BY <1>3 DEF Resolve
  <2>10. excluded(u) => cache_hit(t) = Excluded
    BY DEF cache_hit, Key
  <2>11. ~excluded(u) => cache_hit(t) = from_cache_status(mem[u].status, cfg.accept)
    BY <2>1 DEF cache_hit, Key
  <2>7. cache_hit(t) \in Statuses
    <3>1. Excluded \in Statuses
      BY DEF Statuses
    <3>2. from_cache_status(mem[u].status, cfg.accept) \in Statuses
      BY SMTT(30), <1>1, <2>2, FromCacheType
    <3>3. QED
      BY <2>10, <2>11, <3>1, <3>2
  <2>8. TypeOK'
    BY <2>6, <2>7 DEF IInv, TypeOK
  <2>9. MemEarned' /\ DiskEarned' /\ NoCheckAhead'
    BY <1>3 DEF IInv, MemEarned, DiskEarned, NoCheckAhead, Before
  <2>12. GreenIsEarned'
    BY <1>1, <2>3, <2>4, <2>5, <2>6, <2>10, <2>11
       DEF IInv, TypeOK, GreenIsEarned, from_cache_status, is_success, ToCacheStatus,
           Before, remap
  <2>13. ErrorsRechecked'
    BY <1>1, <2>3, <2>4, <2>5, <2>6, <2>10, <2>11
       DEF IInv, TypeOK, ErrorsRechecked, from_cache_status, is_success, is_error,
           ToCacheStatus, remap
  <2>14. ExcludedStatusNotServed'
    BY <2>4, <2>6, <2>10, <2>11
       DEF IInv, TypeOK, ExcludedStatusNotServed, from_cache_status
  <2>15. ExcludedConsistently'
    <3>1. from_cache_status(mem[u].status, cfg.accept) # Excluded
      BY DEF from_cache_status
    <3>2. excluded(u) <=> ~Wanted(cfg.options, u)
      BY <2>1, FilterAsPromised DEF IInv
    <3>3. (cache_hit(t) = Excluded) <=> ~Wanted(cfg.options, u)
      BY <2>10, <2>11, <3>1, <3>2
    <3>4. QED
      BY <2>6, <3>3 DEF IInv, TypeOK, ExcludedConsistently, remap
  <2>16. QED
    BY <2>8, <2>9, <2>12, <2>13, <2>14, <2>15 DEF IInv
<1>4. QED
  BY <1>2, <1>3

LEMMA CheckSkippedInvariant ==
    ASSUME CacheAssumption, IInv, NEW t \in Requests, CheckSkipped(t)
    PROVE IInv'
<1> DEFINE s == IF remap(t) = NoUri THEN Error ELSE Excluded
<1>1. /\ at' = [at EXCEPT ![t] = "done"] /\ result' = [result EXCEPT ![t] = s]
      /\ remap(t) = NoUri \/ excluded(remap(t))
      /\ UNCHANGED <<now, disk, phase, cfg, mem, exit, runs, loadedAt, checks>>
  BY DEF CheckSkipped, Resolve
<1>2. s \in Statuses /\ s.from = "check" /\ (remap(t) # NoUri => s = Excluded)
  BY DEF Statuses
<1> HIDE DEF s
<1>3. TypeOK'
  BY <1>1, <1>2 DEF IInv, TypeOK
<1>4. MemEarned' /\ DiskEarned' /\ NoCheckAhead'
  BY <1>1 DEF IInv, MemEarned, DiskEarned, NoCheckAhead, Before
<1>5. GreenIsEarned' /\ ErrorsRechecked'
  BY <1>1, <1>2 DEF IInv, TypeOK, GreenIsEarned, ErrorsRechecked, Before, remap
<1>6. ExcludedStatusNotServed' /\ ExcludedConsistently'
  <2>1. remap(t) # NoUri => s = Excluded /\ ~Wanted(cfg.options, remap(t))
    BY <1>1, <1>2, RemapType, FilterAsPromised DEF IInv, TypeOK
  <2>2. QED
    BY <1>1, <1>2, <2>1
       DEF IInv, TypeOK, ExcludedStatusNotServed, ExcludedConsistently, remap
<1>7. QED
  BY <1>3, <1>4, <1>5, <1>6 DEF IInv

LEMMA CheckDoneInvariant ==
    ASSUME CacheAssumption, IInv, NEW t \in Requests, NEW o \in Outcomes[remap(t)],
           CheckDone(t, o)
    PROVE IInv'
<1> DEFINE u == remap(t)
           s == StatusOf(o)
           k == [uri |-> u, status |-> s, timestamp |-> now, run |-> runs]
<1>1. /\ at' = [at EXCEPT ![t] = "done"] /\ result' = [result EXCEPT ![t] = s]
      /\ mem' = IF should_ignore(u, s) THEN mem
                ELSE [mem EXCEPT ![u] = Entry(ToCacheStatus(s), now)]
      /\ checks' = checks \cup {k}
      /\ u \in Uris /\ ~excluded(u)
      /\ UNCHANGED <<now, disk, phase, cfg, exit, runs, loadedAt>>
  BY RemapType DEF CheckDone, Resolve, Key, Stamp, IInv, TypeOK
<1>2. s \in Statuses /\ s.from = "check" /\ s # Excluded /\ Wanted(cfg.options, u)
  <2>1. TypeOK /\ o \in Outcome
    BY <1>1 DEF IInv, CacheAssumption
  <2>2. QED
    BY <1>1, <2>1, StatusOfType, FilterAsPromised
<1>3. ToCacheStatus(s) \in CacheStatuses
  BY <1>2, ToCacheType
<1>4. ~should_ignore(u, s) => /\ ToCacheStatus(s).kind \in {"Ok", "Error"}
                              /\ ToCacheStatus(s).code \notin cfg.cacheExclude
  BY <1>2 DEF should_ignore, is_excluded, is_unsupported, ToCacheStatus, Statuses
<1>5. k.uri = u /\ k.status = s /\ k.timestamp = now /\ k.run = runs
  OBVIOUS
<1>6. TypeOK /\ runs \in Nat /\ now \in Clock
  BY DEF IInv, TypeOK, CacheAssumption
<1>7. TypeOK'
  <2>1. mem' \in [Uris -> Entries \cup {None}]
    BY <1>1, <1>3, <1>6 DEF TypeOK, Entries, Entry
  <2>2. checks' \subseteq [uri : Uris, status : Statuses, timestamp : Clock, run : Nat]
    BY <1>1, <1>2, <1>6 DEF TypeOK
  <2>3. QED
    BY <1>1, <1>2, <1>6, <2>1, <2>2 DEF TypeOK
<1> HIDE DEF u, s, k
<1>8. MemEarned'
  <2> SUFFICES ASSUME NEW v \in Uris, mem'[v] # None
               PROVE /\ mem'[v].status.kind \in {"Ok", "Error"}
                     /\ mem'[v].status.code \notin cfg.cacheExclude
                     /\ \E c \in checks' :
                           /\ c.uri = v
                           /\ mem'[v] = Entry(ToCacheStatus(c.status), c.timestamp)
                           /\ c.run = runs \/ (is_success(c.status) /\ Before(c))
    BY <1>1 DEF MemEarned, Before
  <2>1. CASE v = u /\ ~should_ignore(u, s)
    <3>1. mem'[v] = Entry(ToCacheStatus(s), now)
      BY <1>1, <1>6, <2>1 DEF TypeOK
    <3>2. QED
      BY <1>1, <1>4, <1>5, <2>1, <3>1 DEF Entry
  <2>2. CASE ~(v = u /\ ~should_ignore(u, s))
    <3>1. mem'[v] = mem[v] /\ MemEarned
      BY <1>1, <1>6, <2>2 DEF TypeOK, IInv
    <3>2. QED
      BY <1>1, <3>1 DEF MemEarned
  <2>3. QED
    BY <2>1, <2>2
<1>9. DiskEarned'
  BY <1>1 DEF IInv, DiskEarned
<1>10. NoCheckAhead'
  BY <1>1, <1>5, <1>6 DEF IInv, NoCheckAhead
<1>11. GreenIsEarned' /\ ErrorsRechecked'
  BY <1>1, <1>2 DEF IInv, TypeOK, GreenIsEarned, ErrorsRechecked, Before, remap
<1>12. ExcludedStatusNotServed' /\ ExcludedConsistently'
  BY <1>1, <1>2
     DEF IInv, TypeOK, ExcludedStatusNotServed, ExcludedConsistently, remap, u
<1>13. QED
  BY <1>7, <1>8, <1>9, <1>10, <1>11, <1>12 DEF IInv

\* What an end in good order or a step of the clock can disturb is the file.
LEMMA FileInvariant ==
    ASSUME CacheAssumption, IInv, TypeOK', DiskEarned',
           UNCHANGED <<cfg, mem, at, result, runs, loadedAt, checks>>
    PROVE IInv'
  BY DEF IInv, MemEarned, NoCheckAhead, GreenIsEarned, ErrorsRechecked,
         ExcludedStatusNotServed, ExcludedConsistently, Before, remap

\* What is left of a run that dies is the file.
LEMMA DieInvariant ==
    ASSUME CacheAssumption, IInv, NEW code \in 0 .. 2, Die(code),
           DiskEarned',
           disk' \in [exists : BOOLEAN, valid : BOOLEAN, modified : Clock,
                      rows : [Uris -> Rows \cup {NoRow}]]
    PROVE IInv'
<1>1. TypeOK'
  BY DEF IInv, TypeOK, Die, Empty
<1>2. MemEarned' /\ NoCheckAhead'
  BY DEF IInv, MemEarned, NoCheckAhead, Die, Empty
<1>3. /\ GreenIsEarned' /\ ErrorsRechecked'
      /\ ExcludedStatusNotServed' /\ ExcludedConsistently'
  BY DEF Die, GreenIsEarned, ErrorsRechecked, ExcludedStatusNotServed,
         ExcludedConsistently, Pending
<1>4. QED
  BY <1>1, <1>2, <1>3 DEF IInv

\* A stored entry is a success, with the time of its check.
LEMMA RowEarned ==
    ASSUME CacheAssumption, IInv, NEW u \in storable
    PROVE /\ u \in Uris /\ Row(u) \in Rows
          /\ \E c \in checks : /\ c.uri = u
                               /\ is_success(c.status)
                               /\ c.timestamp \in Nat
                               /\ Row(u) = [text |-> serialize(ToCacheStatus(c.status)),
                                            timestamp |-> c.timestamp]
<1>1. u \in Uris /\ mem[u] # None /\ mem[u].status.kind # "Error" /\ mem[u] \in Entries
  BY DEF storable, IInv, TypeOK
<1>2. PICK c \in checks :
        c.uri = u /\ mem[u] = Entry(ToCacheStatus(c.status), c.timestamp)
  BY <1>1 DEF IInv, MemEarned
<1>3. mem[u].status.kind = "Ok"
  BY <1>1 DEF IInv, MemEarned
<1>4. c.status \in Statuses /\ c.timestamp \in Nat
  <2>1. c.status \in Statuses /\ c.timestamp \in Clock
    BY DEF IInv, TypeOK
  <2>2. Clock \subseteq Nat
    BY DEF CacheAssumption
  <2>3. QED
    BY <2>1, <2>2
<1>5. is_success(c.status)
  BY <1>2, <1>3, <1>4 DEF Entry, ToCacheStatus, is_success, Statuses
<1>6. Row(u) = [text |-> serialize(ToCacheStatus(c.status)), timestamp |-> c.timestamp]
  BY <1>2 DEF Row, Entry
<1>7. Row(u) \in Rows
  BY <1>4, <1>6, ToCacheType DEF Rows
<1>8. QED
  BY <1>1, <1>2, <1>4, <1>5, <1>6, <1>7

LEMMA FinishInvariant ==
    ASSUME CacheAssumption, IInv, Finish
    PROVE IInv'
<1>1. /\ disk' = IF cfg.cache THEN File(Written(storable), TRUE) ELSE disk
      /\ phase' = "finished" /\ exit' = Verdict
      /\ UNCHANGED <<now, cfg, mem, at, result, runs, loadedAt, checks>>
  BY DEF Finish
<1>2. DiskEarned'
  <2> SUFFICES ASSUME NEW u \in Uris, disk'.rows[u] # NoRow
               PROVE \E c \in checks :
                        /\ c.uri = u
                        /\ is_success(c.status)
                        /\ disk'.rows[u].text = serialize(ToCacheStatus(c.status))
                        /\ disk'.rows[u].timestamp \in
                             {c.timestamp, c.timestamp \div 10, c.timestamp \div 100}
    BY <1>1 DEF DiskEarned
  <2>1. CASE disk' = disk
    BY <2>1 DEF IInv, DiskEarned
  <2>2. CASE disk' = File(Written(storable), TRUE)
    <3>1. u \in storable /\ disk'.rows[u] = Row(u)
      BY <2>2 DEF File, Written
    <3>2. PICK c \in checks :
            /\ c.uri = u
            /\ is_success(c.status)
            /\ Row(u) = [text |-> serialize(ToCacheStatus(c.status)),
                         timestamp |-> c.timestamp]
      BY <3>1, RowEarned
    <3>3. QED
      BY <3>1, <3>2
  <2>3. QED
    BY <1>1, <2>1, <2>2
<1>3. TypeOK'
  <2>1. Written(storable) \in [Uris -> Rows \cup {NoRow}]
    BY RowEarned DEF Written
  <2>2. now \in Clock /\ exit' \in 0 .. 2
    BY <1>1 DEF IInv, TypeOK, Verdict
  <2>3. File(Written(storable), TRUE) \in
          [exists : BOOLEAN, valid : BOOLEAN, modified : Clock,
           rows : [Uris -> Rows \cup {NoRow}]]
    BY <2>1, <2>2 DEF File
  <2>4. QED
    BY <1>1, <2>2, <2>3 DEF IInv, TypeOK
<1>4. QED
  BY <1>1, <1>2, <1>3, FileInvariant

LEMMA StoreCutInvariant ==
    ASSUME CacheAssumption, IInv, StoreCut
    PROVE IInv'
<1>1. PICK code \in 0 .. 2 : Die(code)
  BY DEF StoreCut, Verdict
<1>2. PICK us \in SUBSET storable, valid \in BOOLEAN :
        \/ disk' = File(Written(us), valid)
        \/ \E last \in us, n \in {10, 100} :
              disk' = File([Written(us) EXCEPT ![last].timestamp = @ \div n], TRUE)
  BY DEF StoreCut
<1>3. now \in Clock /\ UNCHANGED <<now, checks>>
  BY <1>1 DEF IInv, TypeOK, Die
<1>4. Written(us) \in [Uris -> Rows \cup {NoRow}]
  BY RowEarned DEF Written
<1>5. CASE disk' = File(Written(us), valid)
  <2>1. DiskEarned'
    BY <1>3, <1>5, RowEarned DEF DiskEarned, File, Written
  <2>2. disk' \in [exists : BOOLEAN, valid : BOOLEAN, modified : Clock,
                   rows : [Uris -> Rows \cup {NoRow}]]
    BY <1>3, <1>4, <1>5, Zenon DEF File
  <2>3. QED
    BY <1>1, <2>1, <2>2, DieInvariant
<1>6. ASSUME NEW last \in us, NEW n \in {10, 100},
             disk' = File([Written(us) EXCEPT ![last].timestamp = @ \div n], TRUE)
      PROVE IInv'
  <2> DEFINE short == [Row(last) EXCEPT !.timestamp = @ \div n]
  <2>1. last \in Uris /\ last \in storable /\ Written(us)[last] = Row(last)
    BY <1>2, RowEarned DEF Written
  <2>2. PICK c \in checks :
          /\ c.uri = last
          /\ is_success(c.status)
          /\ c.timestamp \in Nat
          /\ Row(last) = [text |-> serialize(ToCacheStatus(c.status)),
                          timestamp |-> c.timestamp]
    BY <2>1, RowEarned
  <2>3. short = [text |-> serialize(ToCacheStatus(c.status)),
                 timestamp |-> c.timestamp \div n]
    BY <2>2
  <2>4. disk'.rows = [Written(us) EXCEPT ![last] = short]
    BY <1>6, <2>1 DEF File, Written
  <2>5. short \in Rows
    <3>1. c.status \in Statuses
      BY DEF IInv, TypeOK
    <3>2. c.timestamp \div n \in Nat
      BY <2>2, ShortTimestamps
    <3>3. QED
      BY <2>3, <3>1, <3>2, ToCacheType DEF Rows
  <2> HIDE DEF short
  <2>6. DiskEarned'
    <3> SUFFICES ASSUME NEW u \in Uris, disk'.rows[u] # NoRow
                 PROVE \E k \in checks :
                          /\ k.uri = u
                          /\ is_success(k.status)
                          /\ disk'.rows[u].text = serialize(ToCacheStatus(k.status))
                          /\ disk'.rows[u].timestamp \in
                               {k.timestamp, k.timestamp \div 10, k.timestamp \div 100}
      BY <1>3 DEF DiskEarned
    <3>1. CASE u = last
      BY <3>1, <2>1, <2>2, <2>3, <2>4, <1>4
    <3>2. CASE u # last
      <4>1. u \in us /\ u \in storable /\ disk'.rows[u] = Row(u)
        BY <3>2, <2>4, <1>2, <1>4 DEF Written
      <4>2. PICK k \in checks : /\ k.uri = u
                               /\ is_success(k.status)
                               /\ k.timestamp \in Nat
                               /\ Row(u) = [text |-> serialize(ToCacheStatus(k.status)),
                                            timestamp |-> k.timestamp]
        <5>1. u \in storable
          BY <4>1
        <5>2. QED
          BY <5>1, RowEarned, SMTT(60)
      <4>3. QED
        BY <4>1, <4>2
    <3>3. QED
      BY <3>1, <3>2
  <2>7. disk' \in [exists : BOOLEAN, valid : BOOLEAN, modified : Clock,
                   rows : [Uris -> Rows \cup {NoRow}]]
    <3>1. [Written(us) EXCEPT ![last].timestamp = @ \div n]
            = [Written(us) EXCEPT ![last] = short]
      BY <1>6, <2>4 DEF File
    <3>2. [Written(us) EXCEPT ![last] = short] \in [Uris -> Rows \cup {NoRow}]
      BY <1>4, <2>5
    <3>3. QED
      BY <1>3, <1>6, <3>1, <3>2 DEF File
  <2>8. QED
    BY <1>1, <2>6, <2>7, DieInvariant
<1>7. QED
  BY <1>2, <1>5, <1>6

LEMMA OtherStepsInvariant ==
    ASSUME CacheAssumption, IInv,
           OutputFails \/ Abort \/ ClockChanges \/ UNCHANGED vars
    PROVE IInv'
<1>1. CASE OutputFails \/ Abort
  <2>1. PICK code \in 0 .. 2 : Die(code)
    BY <1>1 DEF OutputFails, Abort
  <2>2. disk' = disk /\ checks' = checks
    BY <1>1, <2>1 DEF OutputFails, Abort, Die
  <2>3. DiskEarned'
    BY <2>2 DEF IInv, DiskEarned
  <2>4. QED
    BY <2>1, <2>2, <2>3, DieInvariant DEF IInv, TypeOK
<1>2. CASE ClockChanges \/ UNCHANGED vars
  <2>1. /\ UNCHANGED <<disk, phase, cfg, mem, at, result, exit, runs, loadedAt, checks>>
        /\ now' \in Clock
    BY <1>2 DEF ClockChanges, vars, IInv, TypeOK
  <2>2. TypeOK' /\ DiskEarned'
    BY <2>1 DEF IInv, TypeOK, DiskEarned
  <2>3. QED
    BY <2>1, <2>2, FileInvariant
<1>3. QED
  BY <1>1, <1>2
-----------------------------------------------------------------------------
(* What a run leaves for the next *)

\* Within a run the code of a check says whether it was a success.
SuccessByCode ==
    \A c \in checks : c.run = runs =>
        (is_success(c.status) <=> IF checker(c.uri) = "website"
                                  THEN c.status.code \in cfg.accept
                                  ELSE c.status.code # NoCode)

\* What has been loaded is not checked again: an entry that comes in while a link is
\* being checked is of a check in this run.
EnteredMeanwhile ==
    \A t \in Requests :
        at[t] = "checking" /\ remap(t) # NoUri /\ mem[remap(t)] # None =>
        \E c \in checks : /\ c.run = runs /\ c.uri = remap(t)
                          /\ mem[remap(t)].status = ToCacheStatus(c.status)

\* A success is in memory as long as no other check of the link comes out differently.
Storing(t) ==
    /\ is_success(result[t])
    /\ remap(t) # NoUri /\ ~is_file(remap(t)) /\ result[t].code \notin cfg.cacheExclude
    /\ \A c \in checks : c.run = runs /\ c.uri = remap(t) => c.status.code = result[t].code
InMemory(t) ==
    mem[remap(t)] # None /\ mem[remap(t)].status = CacheStatus("Ok", result[t].code)
SuccessesKept == \A t \in Requests : Storing(t) => InMemory(t)

KInv == SuccessByCode /\ EnteredMeanwhile /\ SuccessesKept

\* A success, checked or served, is an Ok with a code.
LEMMA SuccessIsOk ==
    ASSUME TypeOK, NEW t \in Requests, is_success(result[t])
    PROVE result[t].kind = "Ok" /\ result[t].code \in StatusCodes
  BY DEF TypeOK, is_success, Statuses, Pending

LEMMA StartRunKeeps ==
    ASSUME CacheAssumption, IInv, KInv, NEW c \in Configs, StartRun(c)
    PROVE KInv'
<1>1. \A k \in checks : k.run # runs'
  BY DEF StartRun, IInv, NoCheckAhead, TypeOK, CacheAssumption
<1>2. SuccessByCode'
  BY <1>1 DEF StartRun, SuccessByCode
<1>3. EnteredMeanwhile' /\ SuccessesKept'
  BY DEF StartRun, EnteredMeanwhile, SuccessesKept, Storing, is_success, Pending
<1>4. QED
  BY <1>2, <1>3 DEF KInv

LEMMA LookupKeeps ==
    ASSUME CacheAssumption, IInv, KInv, NEW t \in Requests, Lookup(t)
    PROVE KInv'
<1>0. /\ TypeOK /\ cfg.accept \in SUBSET StatusCodes
      /\ UNCHANGED <<now, disk, phase, cfg, mem, exit, runs, loadedAt, checks>>
  BY DEF Lookup, IInv, TypeOK, CacheAssumption, Config
<1>a. cfg.accept \in SUBSET StatusCodes
  BY <1>0
<1>b. \A n \in cfg.accept : n # NoCode
  BY <1>a, SMTT(40)
<1>1. SuccessByCode'
  BY <1>0 DEF KInv, SuccessByCode
<1>2. CASE Stored(t) = None
  <2>1. at' = [at EXCEPT ![t] = "checking"] /\ UNCHANGED result
    BY <1>2 DEF Lookup
  <2>2. remap(t) # NoUri => mem[remap(t)] = None
    BY <1>2 DEF Stored, Key
  <2>3. EnteredMeanwhile'
    BY <1>0, <2>1, <2>2 DEF KInv, EnteredMeanwhile, TypeOK, remap
  <2>4. SuccessesKept'
    BY <1>0, <2>1 DEF KInv, SuccessesKept, Storing, InMemory, remap
  <2>5. QED
    BY <1>1, <2>3, <2>4 DEF KInv
<1>3. CASE Stored(t) # None
  <2> DEFINE u == remap(t)
  <2>1. /\ at' = [at EXCEPT ![t] = "done"] /\ result' = [result EXCEPT ![t] = cache_hit(t)]
    BY <1>3 DEF Lookup, Resolve
  <2>2. EnteredMeanwhile'
    BY <1>0, <2>1 DEF KInv, EnteredMeanwhile, TypeOK, remap
  <2>3. u \in Uris /\ mem[u] # None /\ Stored(t) = mem[u]
    BY <1>0, <1>3, RemapType DEF Stored, Key
  <2>4. mem[u].status.kind \in {"Ok", "Error"}
    BY <2>3 DEF IInv, MemEarned
  <2>5. mem[u].status.kind = "Error" => mem[u].status.code \notin cfg.accept
    <3> SUFFICES ASSUME mem[u].status.kind = "Error", mem[u].status.code \in cfg.accept
                 PROVE FALSE
      OBVIOUS
    <3>1. PICK k \in checks :
            /\ k.uri = u
            /\ mem[u] = Entry(ToCacheStatus(k.status), k.timestamp)
            /\ k.run = runs \/ (is_success(k.status) /\ Before(k))
      BY <2>3 DEF IInv, MemEarned
    <3>2. mem[u].status = ToCacheStatus(k.status) /\ mem[u].status.code = k.status.code
      BY <3>1 DEF Entry, ToCacheStatus
    <3>3. ~is_success(k.status)
      BY <3>2 DEF ToCacheStatus, is_success
    <3>4. k.status.code \in cfg.accept
      BY <3>2
    <3>5. k.status.code # NoCode
      BY <1>b, <3>4
    <3>6. QED
      BY <3>1, <3>3, <3>4, <3>5 DEF KInv, SuccessByCode
  <2>6. ASSUME is_success(cache_hit(t)) PROVE mem[u].status = CacheStatus("Ok", cache_hit(t).code)
    <3>1. cache_hit(t) = from_cache_status(mem[u].status, cfg.accept)
      BY <2>3, <2>6 DEF cache_hit, is_success
    <3>2. mem[u].status.kind = "Ok" /\ cache_hit(t) = Cached(mem[u].status)
      BY <2>4, <2>5, <2>6, <3>1 DEF from_cache_status, is_success
    <3>3. mem[u].status \in CacheStatuses
      BY <1>0, <2>3 DEF TypeOK, Entries
    <3>4. QED
      BY <3>2, <3>3 DEF CacheStatuses
  <2>7. SuccessesKept'
    <3> SUFFICES ASSUME NEW h \in Requests, Storing(h)' PROVE InMemory(h)'
      BY DEF SuccessesKept
    <3>1. CASE h = t
      BY <1>0, <2>1, <2>3, <2>6, <3>1 DEF TypeOK, Storing, InMemory, remap
    <3>2. CASE h # t
      <4>1. result'[h] = result[h]
        BY <1>0, <2>1, <3>2 DEF TypeOK
      <4>2. Storing(h)
        BY <1>0, <4>1 DEF Storing, remap
      <4>3. QED
        BY <1>0, <4>1, <4>2 DEF KInv, SuccessesKept, InMemory, remap
    <3>3. QED
      BY <3>1, <3>2
  <2>8. QED
    BY <1>1, <2>2, <2>7 DEF KInv
<1>4. QED
  BY <1>2, <1>3

LEMMA CheckSkippedKeeps ==
    ASSUME CacheAssumption, IInv, KInv, NEW t \in Requests, CheckSkipped(t)
    PROVE KInv'
<1> DEFINE s == IF remap(t) = NoUri THEN Error ELSE Excluded
<1>1. /\ at' = [at EXCEPT ![t] = "done"] /\ result' = [result EXCEPT ![t] = s]
      /\ UNCHANGED <<now, disk, phase, cfg, mem, exit, runs, loadedAt, checks>>
  BY DEF CheckSkipped, Resolve
<1>2. ~is_success(s)
  BY DEF is_success
<1> HIDE DEF s
<1>3. SuccessByCode' /\ EnteredMeanwhile'
  BY <1>1 DEF KInv, SuccessByCode, EnteredMeanwhile, IInv, TypeOK, remap
<1>4. SuccessesKept'
  <2> SUFFICES ASSUME NEW h \in Requests, Storing(h)' PROVE InMemory(h)'
    BY DEF SuccessesKept
  <2>1. h # t /\ result'[h] = result[h]
    BY <1>1, <1>2 DEF Storing, IInv, TypeOK
  <2>2. Storing(h)
    BY <1>1, <2>1 DEF Storing, remap
  <2>3. QED
    BY <1>1, <2>1, <2>2 DEF KInv, SuccessesKept, InMemory, remap
<1>5. QED
  BY <1>3, <1>4 DEF KInv

LEMMA OutcomeByCode ==
    ASSUME CacheAssumption, TypeOK, NEW u \in Uris, NEW o \in Outcomes[u]
    PROVE is_success(StatusOf(o)) <=> IF checker(u) = "website"
                                      THEN StatusOf(o).code \in cfg.accept
                                      ELSE StatusOf(o).code # NoCode
<1>1. /\ o \in Outcome /\ cfg.accept \in SUBSET StatusCodes
      /\ o.is = "response" => checker(u) = "website"
      /\ o.is = "success" => checker(u) # "website"
      /\ o.is = "uncertain" => checker(u) # "website"
  BY DEF CacheAssumption, TypeOK, Config
<1>2. CASE o.is = "response"
  BY <1>1, <1>2 DEF StatusOf, Outcome, new, is_success
<1>3. CASE o.is = "success"
  BY <1>1, <1>3 DEF StatusOf, is_success
<1>4. CASE o.is = "error"
  <2>1. StatusOf(o) \in {Timeout, Unsupported, Error}
    BY <1>4 DEF StatusOf, FromErrorKind
  <2>2. QED
    BY <1>1, <2>1, SMTT(30) DEF is_success
<1>5. CASE o.is = "uncertain"
  BY <1>1, <1>5 DEF StatusOf, is_success
<1>6. QED
  BY <1>1, <1>2, <1>3, <1>4, <1>5 DEF Outcome

LEMMA CheckDoneKeeps ==
    ASSUME CacheAssumption, IInv, KInv, NEW t \in Requests, NEW o \in Outcomes[remap(t)],
           CheckDone(t, o)
    PROVE KInv'
<1> DEFINE u == remap(t)
           s == StatusOf(o)
           k == [uri |-> u, status |-> s, timestamp |-> now, run |-> runs]
<1>1. /\ at' = [at EXCEPT ![t] = "done"] /\ result' = [result EXCEPT ![t] = s]
      /\ mem' = IF should_ignore(u, s) THEN mem
                ELSE [mem EXCEPT ![u] = Entry(ToCacheStatus(s), now)]
      /\ checks' = checks \cup {k}
      /\ u \in Uris /\ u # NoUri /\ at[t] = "checking"
      /\ UNCHANGED <<now, disk, phase, cfg, exit, runs, loadedAt>>
  BY RemapType DEF CheckDone, Resolve, Key, Stamp, IInv, TypeOK
<1>2. TypeOK /\ s \in Statuses
  <2>1. TypeOK /\ o \in Outcome
    BY <1>1 DEF IInv, CacheAssumption
  <2>2. QED
    BY <2>1, StatusOfType
<1>3. is_success(s) <=> IF checker(u) = "website" THEN s.code \in cfg.accept
                                                  ELSE s.code # NoCode
  BY <1>1, <1>2, OutcomeByCode
<1>4. k.uri = u /\ k.status = s /\ k.run = runs
  OBVIOUS
<1>5. \A h : remap(h)' = remap(h)
  BY <1>1 DEF remap
<1> HIDE DEF u, s, k
<1>6. SuccessByCode'
  BY <1>1, <1>3, <1>4 DEF KInv, SuccessByCode
<1>7. ~should_ignore(u, s) =>
        /\ mem'[u] = Entry(ToCacheStatus(s), now) /\ mem'[u].status = ToCacheStatus(s)
        /\ \A v \in Uris : v # u => mem'[v] = mem[v]
  BY <1>1, <1>2 DEF TypeOK, Entry
<1>8. should_ignore(u, s) => mem' = mem
  BY <1>1
<1>9. EnteredMeanwhile'
  <2> SUFFICES ASSUME NEW h \in Requests, at'[h] = "checking", remap(h) # NoUri,
                      mem'[remap(h)] # None
               PROVE \E c \in checks' : /\ c.run = runs /\ c.uri = remap(h)
                                        /\ mem'[remap(h)].status = ToCacheStatus(c.status)
    BY <1>1, <1>5 DEF EnteredMeanwhile
  <2>1. at[h] = "checking" /\ remap(h) \in Uris
    BY <1>1, <1>2, RemapType DEF TypeOK
  <2>2. CASE remap(h) = u /\ ~should_ignore(u, s)
    BY <1>1, <1>4, <1>7, <2>2
  <2>3. CASE ~(remap(h) = u /\ ~should_ignore(u, s))
    <3>1. mem'[remap(h)] = mem[remap(h)]
      BY <1>7, <1>8, <2>1, <2>3
    <3>2. QED
      BY <1>1, <2>1, <3>1 DEF KInv, EnteredMeanwhile
  <2>4. QED
    BY <2>2, <2>3
<1>10. SuccessesKept'
  <2> SUFFICES ASSUME NEW h \in Requests, Storing(h)' PROVE InMemory(h)'
    BY DEF SuccessesKept
  <2>1. /\ is_success(result'[h])
        /\ remap(h) # NoUri /\ ~is_file(remap(h)) /\ result'[h].code \notin cfg.cacheExclude
        /\ \A c \in checks' : c.run = runs /\ c.uri = remap(h) => c.status.code = result'[h].code
    BY <1>1, <1>5 DEF Storing
  <2>2. h # t => Storing(h) /\ result'[h] = result[h]
    <3> SUFFICES ASSUME h # t PROVE Storing(h) /\ result'[h] = result[h]
      OBVIOUS
    <3>1. result'[h] = result[h]
      BY <1>1, <1>2 DEF TypeOK
    <3>2. QED
      BY <1>1, <2>1, <3>1 DEF Storing
  <2>3. CASE remap(h) # u
    <3>1. h # t /\ remap(h) \in Uris
      BY <1>2, <2>1, <2>3, RemapType DEF u
    <3>2. InMemory(h) /\ result'[h] = result[h]
      BY <2>2, <3>1 DEF KInv, SuccessesKept
    <3>3. mem'[remap(h)] = mem[remap(h)]
      BY <1>7, <1>8, <2>3, <3>1
    <3>4. QED
      BY <1>5, <3>2, <3>3 DEF InMemory
  <2>4. CASE remap(h) = u
    <3>1. s.code = result'[h].code
      BY <1>1, <1>4, <2>1, <2>4
    <3>2. is_success(s)
      <4>1. CASE h = t
        BY <1>1, <1>2, <2>1, <4>1 DEF TypeOK
      <4>2. CASE h # t
        <5>1. mem[u] # None /\ mem[u].status = CacheStatus("Ok", result[h].code)
          BY <2>2, <2>4, <4>2 DEF KInv, SuccessesKept, InMemory
        <5>2. PICK c \in checks : /\ c.run = runs /\ c.uri = u
                                  /\ mem[u].status = ToCacheStatus(c.status)
          BY <1>1, <5>1 DEF KInv, EnteredMeanwhile, u
        <5>3. c.status \in Statuses
          BY <1>2 DEF TypeOK
        <5>4. is_success(c.status) /\ c.status.code = s.code
          BY <2>2, <3>1, <4>2, <5>1, <5>2, <5>3 DEF ToCacheStatus, is_success, Statuses
        <5>5. QED
          BY <1>3, <5>2, <5>4 DEF KInv, SuccessByCode
      <4>3. QED
        BY <4>1, <4>2
    <3>3. s.kind = "Ok" /\ ToCacheStatus(s) = CacheStatus("Ok", s.code)
      BY <1>2, <3>2 DEF is_success, ToCacheStatus
    <3>4. ~should_ignore(u, s)
      BY <2>1, <2>4, <3>1, <3>3 DEF should_ignore, is_excluded, is_unsupported
    <3>5. mem'[u] # None
      BY <1>7, <3>3, <3>4 DEF None, Entry
    <3>6. QED
      BY <1>5, <1>7, <2>4, <3>1, <3>3, <3>4, <3>5 DEF InMemory
  <2>5. QED
    BY <2>3, <2>4
<1>11. QED
  BY <1>6, <1>9, <1>10 DEF KInv

\* The end of a run, in good order or not, and what happens outside of it.
LEMMA EndKeeps ==
    ASSUME KInv, \/ Finish \/ OutputFails \/ StoreCut \/ Abort \/ ClockChanges
                 \/ UNCHANGED vars
    PROVE KInv'
<1>1. CASE UNCHANGED <<cfg, mem, at, result, runs, checks>>
  BY <1>1 DEF KInv, SuccessByCode, EnteredMeanwhile, SuccessesKept, Storing, InMemory, remap
<1>2. ASSUME NEW code, Die(code) PROVE KInv'
  BY <1>2 DEF Die, KInv, SuccessByCode, EnteredMeanwhile, SuccessesKept, Storing, is_success,
              Pending
<1>3. QED
  BY <1>1, <1>2 DEF Finish, OutputFails, StoreCut, Abort, ClockChanges, vars

\* Only Finish brings a run to its end, and it writes what is in memory.
LEMMA StoredStep ==
    ASSUME IInv, KInv, SuccessesStored, [Next]_vars
    PROVE SuccessesStored'
<1>1. CASE Finish
  <2> SUFFICES ASSUME cfg.cache, NEW t \in Requests, Storing(t)
               PROVE disk'.rows[remap(t)].text.code = result[t].code
    BY <1>1 DEF Finish, SuccessesStored, Storing, remap
  <2>1. InMemory(t)
    BY DEF KInv, SuccessesKept
  <2>2. remap(t) \in Uris
    BY CacheAssumption, RemapType DEF Storing, IInv
  <2>3. remap(t) \in storable
    BY <2>1, <2>2 DEF InMemory, storable
  <2>4. disk'.rows[remap(t)] = Row(remap(t))
    BY <1>1, <2>2, <2>3 DEF Finish, File, Written
  <2>5. serialize(mem[remap(t)].status).code = result[t].code
    BY <2>1 DEF InMemory, serialize
  <2>6. QED
    BY <2>4, <2>5 DEF Row
<1>2. CASE ClockChanges \/ UNCHANGED vars
  BY <1>2 DEF ClockChanges, vars, SuccessesStored, remap
<1>3. CASE phase' # "finished"
  BY <1>3 DEF SuccessesStored
<1>4. QED
  BY <1>1, <1>2, <1>3
     DEF Next, StartRun, Lookup, CheckSkipped, CheckDone, OutputFails, StoreCut, Abort, Die
-----------------------------------------------------------------------------
(* The theorems *)

\* Everything in memory, on disk and in the responses goes back to a check.
THEOREM Invariant == Spec => []IInv
<1>1. CacheAssumption
  BY CacheAssumption
<1>2. IInv /\ [Next]_vars => IInv'
  <2> SUFFICES ASSUME IInv, [Next]_vars PROVE IInv'
    OBVIOUS
  <2>1. ASSUME NEW c \in Configs, StartRun(c) PROVE IInv'
    BY <1>1, <2>1, StartRunInvariant
  <2>2. ASSUME NEW t \in Requests, Lookup(t) PROVE IInv'
    BY <1>1, <2>2, LookupInvariant
  <2>3. ASSUME NEW t \in Requests, CheckSkipped(t) PROVE IInv'
    BY <1>1, <2>3, CheckSkippedInvariant
  <2>4. ASSUME NEW t \in Requests, NEW u \in Uris, NEW o \in Outcomes[u],
               remap(t) = u, CheckDone(t, o)
        PROVE IInv'
    BY <1>1, <2>4, CheckDoneInvariant
  <2>5. CASE Finish
    BY <1>1, <2>5, FinishInvariant
  <2>6. CASE StoreCut
    BY <1>1, <2>6, StoreCutInvariant
  <2>7. CASE OutputFails \/ Abort \/ ClockChanges \/ UNCHANGED vars
    BY <1>1, <2>7, OtherStepsInvariant
  <2>8. QED
    BY <2>1, <2>2, <2>3, <2>4, <2>5, <2>6, <2>7 DEF Next
<1>3. QED
  BY <1>1, <1>2, InitInvariant, PTL DEF Spec

\* No green from the cache without a check of the same final URI, in this run or
\* within the maximum age, across crashes, cut files and clocks set back.
THEOREM GreenCached == Spec => []GreenIsEarned
  BY Invariant, PTL DEF IInv

\* A cached error was found in this run.
THEOREM ErrorsNotCarriedOver == Spec => []ErrorsRechecked
  BY Invariant, PTL DEF IInv

\* Neither excluded codes nor excluded links get past the cache.
THEOREM ExclusionsKept == Spec => [](ExcludedStatusNotServed /\ ExcludedConsistently)
  BY Invariant, PTL DEF IInv

\* What a run that ends in good order has found is there for the next one, however the
\* checks of one link have overlapped.
THEOREM SuccessesOnDisk == Spec => []SuccessesStored
<1>1. Init => KInv /\ SuccessesStored
  BY DEF Init, KInv, SuccessByCode, EnteredMeanwhile, SuccessesKept, Storing, is_success,
         Pending, SuccessesStored
<1>2. IInv /\ KInv /\ [Next]_vars => KInv'
  <2> SUFFICES ASSUME IInv, KInv, [Next]_vars PROVE KInv'
    OBVIOUS
  <2>1. ASSUME NEW c \in Configs, StartRun(c) PROVE KInv'
    BY <2>1, CacheAssumption, StartRunKeeps
  <2>2. ASSUME NEW t \in Requests, Lookup(t) PROVE KInv'
    BY <2>2, CacheAssumption, LookupKeeps
  <2>3. ASSUME NEW t \in Requests, CheckSkipped(t) PROVE KInv'
    BY <2>3, CacheAssumption, CheckSkippedKeeps
  <2>4. ASSUME NEW t \in Requests, NEW u \in Uris, NEW o \in Outcomes[u],
               remap(t) = u, CheckDone(t, o)
        PROVE KInv'
    BY <2>4, CacheAssumption, CheckDoneKeeps
  <2>5. CASE \/ Finish \/ OutputFails \/ StoreCut \/ Abort \/ ClockChanges
             \/ UNCHANGED vars
    BY <2>5, EndKeeps
  <2>6. QED
    BY <2>1, <2>2, <2>3, <2>4, <2>5 DEF Next
<1>3. QED
  BY <1>1, <1>2, StoredStep, Invariant, PTL DEF Spec
=============================================================================
