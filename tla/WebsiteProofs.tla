---------------------------- MODULE WebsiteProofs ----------------------------
(***************************************************************************)
(* Proofs about the checks of websites, for every set of checks and URLs,  *)
(* whatever servers, plugins and quirks do, and any bound on retries and   *)
(* redirects.                                                              *)
(***************************************************************************)
EXTENDS Website, SequenceTheorems, TLAPS

\* What the model of the environment gives the proofs.
LEMMA Environment ==
    /\ UrlOf \in [Checks -> Urls] /\ PageOf \in [Urls -> Urls]
    /\ Rewrite \in [Urls -> Urls]
    /\ NoUrl \notin Urls /\ HttpsOf \in [Urls -> Urls \cup {NoUrl}]
    /\ \A u \in Urls : HttpsOf[u] # NoUrl => HttpsOf[HttpsOf[u]] = NoUrl
    /\ RedirectTo \in [Urls -> SUBSET Urls]
    /\ \A s \in PluginAnswers : s \in Statuses
    /\ MaxRetries \in Nat /\ MaxRedirects \in Nat
    /\ 0 \in 0 .. MaxRetries /\ 0 \in 0 .. MaxRedirects
<1>1. MaxRetries \in Nat /\ MaxRedirects \in Nat
  BY WebsiteAssumption
<1>2. 0 \in 0 .. MaxRetries /\ 0 \in 0 .. MaxRedirects
  BY <1>1
<1>3. QED
  BY <1>1, <1>2, WebsiteAssumption

\* What a request comes back with is a status.
LEMMA StatusKnown ==
    /\ \A u \in Urls : \A c \in StatusCodes : StatusOfResponse(u, c) \in Statuses
    /\ \A e : FromErrorKind(e) \in Statuses
    /\ Ok(200) \in Statuses /\ Unsupported \in Statuses /\ InsecureURL \in Statuses
<1>1. Error \in Statuses /\ Timeout \in Statuses /\ Unsupported \in Statuses
  BY DEF Error, Timeout, Unsupported, Plain, Statuses
<1>2. \A c \in StatusCodes : Ok(c) \in Statuses /\ RejectedStatusCode(c) \in Statuses
  BY DEF Ok, RejectedStatusCode, Plain, Statuses
<1>3. ASSUME NEW u \in Urls, NEW c \in StatusCodes
      PROVE  StatusOfResponse(u, c) \in Statuses
  BY <1>1, <1>2 DEF StatusOfResponse, new
<1>4. \A e : FromErrorKind(e) \in Statuses
  BY <1>1 DEF FromErrorKind
<1>5. 200 \in StatusCodes
  BY DEF StatusCodes
<1>6. QED
  BY <1>1, <1>2, <1>3, <1>4, <1>5 DEF InsecureURL

\* What is remembered is a response.
LEMMA TextKnown ==
    ASSUME NEW c \in StatusCodes
    PROVE  \A S, x : [code |-> c, text |-> x \in S] \in [code : StatusCodes, text : BOOLEAN]
<1>1. \A text \in BOOLEAN : [code |-> c, text |-> text]
                              \in [code : StatusCodes, text : BOOLEAN]
  OBVIOUS
<1>2. \A S, x : (x \in S) \in BOOLEAN
  OBVIOUS
<1>3. QED
  BY <1>1, <1>2, Zenon

\* An attempt ends in a retry or in the last status.
LEMMA AttemptType ==
    ASSUME WebsiteTypes, NEW t \in Checks, NEW s \in Statuses, NEW again,
           AttemptEnds(t, s, again)
    PROVE  /\ place' \in [Checks -> Steps]
           /\ status' \in [Checks -> Statuses \cup {Pending}]
           /\ retries' \in [Checks -> 0 .. MaxRetries]
           /\ attempts' \in [Checks -> Nat]
           /\ retryable' \subseteq Checks
<1>1. place' \in [Checks -> Steps]
  BY DEF AttemptEnds, WebsiteTypes, Advance, Steps
<1>2. retries' \in [Checks -> 0 .. MaxRetries]
  <2>1. \/ MayRetry(t) /\ retries' = [retries EXCEPT ![t] = retries[t] + 1]
        \/ retries' = retries
    BY Zenon DEF AttemptEnds
  <2>2. MaxRetries \in Nat /\ retries \in [Checks -> 0 .. MaxRetries]
    BY Environment DEF WebsiteTypes
  <2>3. QED
    BY <2>1, <2>2 DEF MayRetry
<1>3. retryable' \subseteq Checks
  BY Zenon DEF AttemptEnds, WebsiteTypes
<1>4. /\ status' = [status EXCEPT ![t] = s]
      /\ attempts' = [attempts EXCEPT ![t] = attempts[t] + 1]
  BY Zenon DEF AttemptEnds
<1>5. /\ status' \in [Checks -> Statuses \cup {Pending}]
      /\ attempts' \in [Checks -> Nat]
  BY <1>4, SMTT(30) DEF WebsiteTypes
<1>6. QED
  BY <1>1, <1>2, <1>3, <1>5

LEMMA TypeStep ==
    ASSUME WebsiteTypes, [WebsiteNext]_websiteVars
    PROVE  WebsiteTypes'
<1> USE Environment DEF Advance, Steps, websiteVars, control, request, retrying, outcome
<1>1. ASSUME NEW t \in Checks, BuildRequest(t) PROVE WebsiteTypes'
  BY <1>1 DEF BuildRequest, WebsiteTypes
<1>2. ASSUME NEW t \in Checks, BuildFails(t) PROVE WebsiteTypes'
  BY <1>2, StatusKnown DEF BuildFails, WebsiteTypes
<1>3. ASSUME NEW t \in Checks, LockPlugins(t) PROVE WebsiteTypes'
  BY <1>3 DEF LockPlugins, WebsiteTypes
<1>4. ASSUME NEW t \in Checks, NEW s \in PluginAnswers, PluginDone(t, s) PROVE WebsiteTypes'
  BY <1>4 DEF PluginDone, Unlocked, WebsiteTypes
<1>5. ASSUME NEW t \in Checks, PluginNext(t) PROVE WebsiteTypes'
  BY <1>5 DEF PluginNext, Unlocked, WebsiteTypes
<1>6. ASSUME NEW t \in Checks, FromCache(t) PROVE WebsiteTypes'
  <2>1. responses[PageOf[sent[t]]].code \in StatusCodes
    BY <1>6 DEF FromCache, HasAnswer, WebsiteTypes
  <2>2. PICK s \in Statuses : AttemptEnds(t, s, should_retry(s))
    BY <1>6, <2>1, StatusKnown DEF FromCache, WebsiteTypes
  <2>3. QED
    BY <1>6, <2>2, AttemptType DEF FromCache, WebsiteTypes
<1>7. ASSUME NEW t \in Checks, SendRequest(t) PROVE WebsiteTypes'
  BY <1>7 DEF SendRequest, WebsiteTypes
<1>8. ASSUME NEW t \in Checks, NEW u \in Urls, Redirect(t, u) PROVE WebsiteTypes'
  <2>1. history' \in [Urls -> Seq(Urls)]
    BY <1>8, AppendProperties DEF Redirect, WebsiteTypes
  <2>2. hops' \in [Checks -> 0 .. MaxRedirects]
    <3>1. MaxRedirects \in Nat /\ hops \in [Checks -> 0 .. MaxRedirects]
      BY Environment DEF WebsiteTypes
    <3>2. hops[t] < MaxRedirects /\ hops' = [hops EXCEPT ![t] = hops[t] + 1]
      BY <1>8 DEF Redirect
    <3>3. QED
      BY <3>1, <3>2
  <2>3. QED
    BY <1>8, <2>1, <2>2 DEF Redirect, WebsiteTypes
<1>9. ASSUME NEW t \in Checks, NEW c \in StatusCodes, Respond(t, c) PROVE WebsiteTypes'
  <2>1. PICK s \in Statuses : AttemptEnds(t, s, should_retry(s))
    BY <1>9, StatusKnown DEF Respond, WebsiteTypes
  <2>2. [code |-> c, text |-> sent[t] \in NeedsText]
          \in [code : StatusCodes, text : BOOLEAN]
    BY TextKnown
  <2>3. responses' \in [Urls -> [code : StatusCodes, text : BOOLEAN] \cup {NoResponse}]
    BY <1>9, <2>2 DEF Respond, Remember, WebsiteTypes
  <2>4. QED
    BY <1>9, <2>1, <2>3, AttemptType DEF Respond, WebsiteTypes
<1>10. ASSUME NEW t \in Checks, Stop(t) PROVE WebsiteTypes'
  BY <1>9, <1>10 DEF Stop, StatusCodes
<1>11. ASSUME NEW t \in Checks, NEW u \in Urls, NEW o \in Answers[u], ReceiveResponse(t, o)
       PROVE  WebsiteTypes'
  <2>1. o.code \in StatusCodes
    BY <1>11, WebsiteAssumption DEF ReceiveResponse, Answer
  <2>2. QED
    BY <1>9, <1>11, <2>1 DEF ReceiveResponse
<1>12. ASSUME NEW t \in Checks, NEW u \in Urls, NEW o \in Answers[u], RequestFails(t, o)
       PROVE  WebsiteTypes'
  <2>1. PICK s \in Statuses : \E again : AttemptEnds(t, s, again)
    BY <1>12, StatusKnown, Zenon DEF RequestFails
  <2>2. QED
    BY <1>12, <2>1, AttemptType DEF RequestFails, WebsiteTypes
<1>13. ASSUME NEW t \in Checks, EndSleep(t) PROVE WebsiteTypes'
  BY <1>13 DEF EndSleep, WebsiteTypes
<1>14. ASSUME NEW t \in Checks, NEW found \in BOOLEAN, Github(t, found) PROVE WebsiteTypes'
  BY <1>14, StatusKnown DEF Github, WebsiteTypes
<1>15. ASSUME NEW t \in Checks, Probe(t) PROVE WebsiteTypes'
  BY <1>15 DEF Probe, NeedsProbe, WebsiteTypes
<1>16. ASSUME NEW t \in Checks, Finish(t) PROVE WebsiteTypes'
  <2>1. history[UrlOf[t]] \in Seq(Urls)
    BY DEF WebsiteTypes
  <2>2. QED
    BY <1>16, <2>1, StatusKnown DEF Finish, WebsiteTypes
<1>17. CASE UNCHANGED websiteVars
  BY <1>17 DEF WebsiteTypes
<1>18. QED
  BY <1>1, <1>2, <1>3, <1>4, <1>5, <1>6, <1>7, <1>8, <1>10, <1>11, <1>12, <1>13,
     <1>14, <1>15, <1>16, <1>17 DEF WebsiteNext, CheckStep

\* The lock of a page keeps requests apart: only the request of a URL adds to
\* its history, at the place the last redirect has led it to.
LEMMA RedirectStep ==
    ASSUME WebsiteInv, [WebsiteNext]_websiteVars
    PROVE  (PagesExclusive /\ LocationKnown /\ HopsInOrder)'
<1> USE DEF WebsiteInv, Advance
<1>1. ASSUME NEW t \in Checks, SendRequest(t)
      PROVE  (PagesExclusive /\ LocationKnown /\ HopsInOrder)'
  <2>1. PagesExclusive'
    BY <1>1 DEF SendRequest, HostFree, WebsiteTypes, PagesExclusive, request
  <2>2. LocationKnown'
    BY <1>1 DEF SendRequest, WebsiteTypes, LocationKnown
  <2>3. QED
    BY <1>1, <2>1, <2>2 DEF SendRequest, HopsInOrder
<1>2. ASSUME NEW t \in Checks, NEW u \in Urls, Redirect(t, u)
      PROVE  (PagesExclusive /\ LocationKnown /\ HopsInOrder)'
  <2> DEFINE h == history[sent[t]]
  <2>1. /\ sent[t] \in Urls /\ h \in Seq(Urls)
        /\ history' = [history EXCEPT ![sent[t]] = Append(h, u)]
        /\ place[t] = "flight" /\ u \in RedirectTo[location[t]]
        /\ UNCHANGED <<place, sent>>
    BY <1>2 DEF Redirect, WebsiteTypes, control
  <2>2. /\ Append(h, u) \in Seq(Urls) /\ Len(Append(h, u)) = Len(h) + 1
        /\ Append(h, u)[Len(h) + 1] = u
        /\ \A i \in 1 .. Len(h) : Append(h, u)[i] = h[i]
    BY <2>1, AppendProperties
  <2>3. PagesExclusive'
    BY <2>1 DEF PagesExclusive
  <2>4. ASSUME NEW o \in Checks, place[o] = "flight", o # t PROVE sent[o] # sent[t]
    BY <2>1, <2>4 DEF PagesExclusive
  <2>5. ASSUME NEW o \in Checks, place'[o] = "flight"
        PROVE  IF hops'[o] = 0 THEN location'[o] = sent'[o]
               ELSE LET g == history'[sent'[o]] IN g # <<>> /\ location'[o] = g[Len(g)]
    <3>1. CASE o = t
      <4>1. location'[t] = u /\ history'[sent[t]] = Append(h, u)
        BY <1>2, <2>1 DEF Redirect, WebsiteTypes
      <4>2. hops'[t] # 0
        BY <1>2 DEF Redirect, WebsiteTypes
      <4>3. Append(h, u) # <<>>
        BY <2>1, <2>2, EmptySeq, LenProperties
      <4>4. QED
        BY <2>1, <2>2, <3>1, <4>1, <4>2, <4>3
    <3>2. CASE o # t
      <4>1. /\ history'[sent[o]] = history[sent[o]]
            /\ location'[o] = location[o] /\ hops'[o] = hops[o]
        BY <1>2, <2>1, <2>4, <2>5, <3>2 DEF Redirect, WebsiteTypes
      <4>2. QED
        BY <2>1, <2>5, <4>1 DEF LocationKnown
    <3>3. QED
      BY <3>1, <3>2
  <2>6. ASSUME NEW v \in Urls, NEW i \in DOMAIN history'[v]
        PROVE  \/ history'[v][i] \in RedirectTo[v]
               \/ i > 1 /\ history'[v][i] \in RedirectTo[history'[v][i - 1]]
    <3>1. CASE v # sent[t]
      BY <2>1, <2>6, <3>1 DEF HopsInOrder, WebsiteTypes
    <3>2. CASE v = sent[t]
      <4>1. history'[v] = Append(h, u) /\ i \in 1 .. Len(h) + 1
        BY <2>1, <2>2, <2>6, <3>2, LenProperties DEF WebsiteTypes
      <4>2. CASE i \in 1 .. Len(h)
        <5>1. i \in DOMAIN h
          BY <2>1, <4>2, LenProperties
        <5>2. \/ h[i] \in RedirectTo[v]
              \/ i > 1 /\ h[i] \in RedirectTo[h[i - 1]]
          BY <2>1, <3>2, <5>1 DEF HopsInOrder
        <5>3. Len(h) \in Nat
          BY <2>1, LenProperties
        <5>4. i > 1 => i - 1 \in 1 .. Len(h)
          BY <4>2, <5>3
        <5>5. QED
          BY <2>2, <4>1, <4>2, <5>2, <5>4
      <4>3. CASE i = Len(h) + 1
        <5>1. CASE hops[t] = 0
          <6>1. location[t] = v
            BY <2>1, <3>2, <5>1 DEF LocationKnown
          <6>2. QED
            BY <2>1, <2>2, <4>1, <4>3, <6>1
        <5>2. CASE hops[t] # 0
          <6>1. h # <<>> /\ location[t] = h[Len(h)]
            BY <2>1, <5>2 DEF LocationKnown
          <6>2. Len(h) \in Nat /\ Len(h) # 0
            BY <2>1, <6>1, EmptySeq, LenProperties
          <6>3. i > 1 /\ i - 1 = Len(h) /\ Len(h) \in 1 .. Len(h)
            BY <4>3, <6>2
          <6>4. QED
            BY <2>1, <2>2, <4>1, <4>3, <6>1, <6>3
        <5>3. QED
          BY <5>1, <5>2
      <4>4. QED
        BY <2>1, <4>1, <4>2, <4>3, LenProperties
    <3>3. QED
      BY <3>1, <3>2
  <2>7. LocationKnown'
    BY <2>5 DEF LocationKnown
  <2>8. HopsInOrder'
    BY <2>6 DEF HopsInOrder
  <2>9. QED
    BY <2>3, <2>7, <2>8
<1> DEFINE Kept(o) == /\ place[o] = "flight" /\ sent'[o] = sent[o]
                      /\ location'[o] = location[o] /\ hops'[o] = hops[o]
<1>3. ASSUME history' = history, \A o \in Checks : place'[o] = "flight" => Kept(o)
      PROVE  (PagesExclusive /\ LocationKnown /\ HopsInOrder)'
  <2>1. PagesExclusive'
    BY <1>3 DEF PagesExclusive
  <2>2. LocationKnown'
    BY <1>3 DEF LocationKnown
  <2>3. HopsInOrder'
    BY <1>3 DEF HopsInOrder
  <2>4. QED
    BY <2>1, <2>2, <2>3
<1>4. ASSUME NEW t \in Checks, NEW step \in Steps \ {"flight"}, Advance(t, step),
             UNCHANGED <<location, hops, history>>,
             \/ UNCHANGED sent
             \/ place[t] = "plugins" /\ sent' = [sent EXCEPT ![t] = Rewrite[url[t]]]
      PROVE  (PagesExclusive /\ LocationKnown /\ HopsInOrder)'
  <2>1. \A o \in Checks : place'[o] = "flight" => o # t /\ place[o] = "flight"
    BY <1>4 DEF WebsiteTypes
  <2>2. \A o \in Checks : place'[o] = "flight" => Kept(o)
    BY <1>4, <2>1 DEF WebsiteTypes
  <2>3. QED
    BY <1>3, <1>4, <2>2
<1>5. ASSUME NEW t \in Checks, NEW s, NEW again, AttemptEnds(t, s, again),
             UNCHANGED <<sent, location, hops, history>>
      PROVE  (PagesExclusive /\ LocationKnown /\ HopsInOrder)'
  <2>1. Advance(t, "sleep") \/ Advance(t, "ended")
    BY <1>5, Zenon DEF AttemptEnds
  <2>2. QED
    BY <1>4, <1>5, <2>1 DEF Steps
<1>6. ASSUME NEW t \in Checks, FromCache(t) \/ Stop(t)
      PROVE  (PagesExclusive /\ LocationKnown /\ HopsInOrder)'
  <2>1. /\ \E s, again : AttemptEnds(t, s, again)
        /\ UNCHANGED <<sent, location, hops, history>>
    BY <1>6, Zenon DEF FromCache, Stop, Respond, request
  <2>2. QED
    BY <1>5, <2>1
<1>7. ASSUME NEW t \in Checks, NEW o, ReceiveResponse(t, o) \/ RequestFails(t, o)
      PROVE  (PagesExclusive /\ LocationKnown /\ HopsInOrder)'
  <2>1. /\ \E s, again : AttemptEnds(t, s, again)
        /\ UNCHANGED <<sent, location, hops, history>>
    BY <1>7, Zenon DEF ReceiveResponse, RequestFails, Respond, request
  <2>2. QED
    BY <1>5, <2>1
<1>8. ASSUME NEW t \in Checks,
             \/ BuildRequest(t) \/ BuildFails(t) \/ LockPlugins(t) \/ PluginNext(t)
             \/ (\E s \in PluginAnswers : PluginDone(t, s)) \/ EndSleep(t)
             \/ (\E found \in BOOLEAN : Github(t, found)) \/ Probe(t) \/ Finish(t)
      PROVE  (PagesExclusive /\ LocationKnown /\ HopsInOrder)'
  <2>1. /\ \E step \in Steps \ {"flight"} : Advance(t, step)
        /\ UNCHANGED <<location, hops, history>>
        /\ \/ UNCHANGED sent
           \/ place[t] = "plugins" /\ sent' = [sent EXCEPT ![t] = Rewrite[url[t]]]
    BY <1>8
    DEF BuildRequest, BuildFails, LockPlugins, PluginNext, PluginDone, EndSleep, Github,
        Probe, Finish, request, Steps
  <2>2. QED
    BY <1>4, <2>1
<1>9. CASE UNCHANGED websiteVars
  BY <1>3, <1>9 DEF websiteVars, control, request
<1>10. QED
  BY <1>1, <1>2, <1>6, <1>7, <1>8, <1>9 DEF WebsiteNext, CheckStep

\* Retries are counted before the sleep, requests after their answer.
LEMMA RetryStep ==
    ASSUME WebsiteInv, [WebsiteNext]_websiteVars
    PROVE  AttemptsCounted' /\ RetriesUsedUp'
<1> DEFINE Counted(o) ==
             /\ place[o] \in {"chain", "plugins", "attempt", "flight", "sleep"}
                  => attempts[o] = retries[o]
             /\ attempts[o] <= retries[o] + 1
           UsedUp(o) ==
             /\ attempts[o] <= MaxRetries + 1
             /\ place[o] = "ended" /\ o \in retryable /\ ~is_success(status[o])
                  => attempts[o] = MaxRetries + 1
<1>0. /\ MaxRetries \in Nat /\ retries \in [Checks -> 0 .. MaxRetries]
      /\ attempts \in [Checks -> Nat] /\ retryable \subseteq Checks
      /\ place \in [Checks -> Steps] /\ status \in [Checks -> Statuses \cup {Pending}]
      /\ \A o \in Checks : Counted(o) /\ UsedUp(o)
  BY Environment DEF WebsiteInv, WebsiteTypes, AttemptsCounted, RetriesUsedUp
<1>1. ASSUME NEW t \in Checks,
             \A o \in Checks \ {t} :
                 /\ place'[o] = place[o] /\ attempts'[o] = attempts[o]
                 /\ retries'[o] = retries[o] /\ status'[o] = status[o]
                 /\ (o \in retryable') => (o \in retryable),
             Counted(t)', UsedUp(t)'
      PROVE  AttemptsCounted' /\ RetriesUsedUp'
  <2>1. \A o \in Checks : Counted(o)' /\ UsedUp(o)'
    BY <1>0, <1>1
  <2>2. QED
    BY <2>1 DEF AttemptsCounted, RetriesUsedUp
<1>2. ASSUME NEW t \in Checks, NEW s, NEW again, AttemptEnds(t, s, again),
             place[t] \in {"attempt", "flight"}
      PROVE  AttemptsCounted' /\ RetriesUsedUp'
  <2>1. /\ attempts' = [attempts EXCEPT ![t] = attempts[t] + 1]
        /\ status' = [status EXCEPT ![t] = s]
        /\ retryable' = IF again THEN retryable \cup {t} ELSE retryable \ {t}
    BY <1>2, Zenon DEF AttemptEnds
  <2>2. \A o \in Checks \ {t} : (o \in retryable') => (o \in retryable)
    BY <2>1, Zenon
  <2>3. attempts[t] = retries[t] /\ retries[t] \in 0 .. MaxRetries /\ attempts[t] \in Nat
    BY <1>0, <1>2
  <2>4. CASE MayRetry(t) /\ ~is_success(s) /\ again
    <3>1. /\ place' = [place EXCEPT ![t] = "sleep"]
          /\ retries' = [retries EXCEPT ![t] = retries[t] + 1]
      BY <1>2, <2>4, Zenon DEF AttemptEnds, Advance
    <3>2. Counted(t)' /\ UsedUp(t)'
      BY <1>0, <2>1, <2>3, <2>4, <3>1 DEF MayRetry
    <3>3. QED
      BY <1>0, <1>1, <2>1, <2>2, <3>1, <3>2
  <2>5. CASE ~(MayRetry(t) /\ ~is_success(s) /\ again)
    <3>1. place' = [place EXCEPT ![t] = "ended"] /\ retries' = retries
      BY <1>2, <2>5, Zenon DEF AttemptEnds, Advance
    <3>2. Counted(t)'
      BY <1>0, <2>1, <2>3, <3>1
    <3>3. t \in retryable' /\ ~is_success(status'[t]) => retries[t] = MaxRetries
      <4>1. status'[t] = s
        BY <1>0, <2>1
      <4>2. t \in retryable' => again
        BY <2>1, Zenon
      <4>3. again /\ ~is_success(s) => ~MayRetry(t)
        BY <2>5, Zenon
      <4>4. ~MayRetry(t) => retries[t] = MaxRetries
        BY <1>0, <2>3 DEF MayRetry
      <4>5. QED
        BY <4>1, <4>2, <4>3, <4>4, Zenon
    <3>4. UsedUp(t)'
      BY <1>0, <2>1, <2>3, <3>1, <3>3
    <3>5. QED
      BY <1>0, <1>1, <2>1, <2>2, <3>1, <3>2, <3>4
  <2>6. QED
    BY <2>4, <2>5
<1>3. ASSUME NEW t \in Checks, FromCache(t) \/ Stop(t)
      PROVE  AttemptsCounted' /\ RetriesUsedUp'
  <2>1. place[t] \in {"attempt", "flight"} /\ \E s, again : AttemptEnds(t, s, again)
    BY <1>3, Zenon DEF FromCache, Stop, Respond
  <2>2. QED
    BY <1>2, <2>1
<1>4. ASSUME NEW t \in Checks, NEW o, ReceiveResponse(t, o) \/ RequestFails(t, o)
      PROVE  AttemptsCounted' /\ RetriesUsedUp'
  <2>1. place[t] \in {"attempt", "flight"} /\ \E s, again : AttemptEnds(t, s, again)
    BY <1>4, Zenon DEF ReceiveResponse, RequestFails, Respond
  <2>2. QED
    BY <1>2, <2>1
<1>5. ASSUME NEW t \in Checks, BuildRequest(t)
      PROVE  AttemptsCounted' /\ RetriesUsedUp'
  BY <1>0, <1>1, <1>5 DEF BuildRequest, Advance
<1>6. ASSUME NEW t \in Checks,
             BuildFails(t) \/ \E found \in BOOLEAN : Github(t, found)
      PROVE  AttemptsCounted' /\ RetriesUsedUp'
  <2>1. /\ place' = [place EXCEPT ![t] = "settled"]
        /\ \E s : status' = [status EXCEPT ![t] = s]
        /\ UNCHANGED <<attempts, retries, retryable>>
    BY <1>6, Zenon DEF BuildFails, Github, Advance
  <2>2. QED
    BY <1>0, <1>1, <2>1
<1>7. ASSUME NEW t \in Checks, NEW s \in PluginAnswers, PluginDone(t, s)
      PROVE  AttemptsCounted' /\ RetriesUsedUp'
  BY <1>0, <1>1, <1>7 DEF PluginDone, Advance
<1>8. ASSUME NEW t \in Checks,
             \/ LockPlugins(t) \/ PluginNext(t) \/ SendRequest(t) \/ EndSleep(t)
             \/ Probe(t) \/ Finish(t) \/ \E u \in Urls : Redirect(t, u)
      PROVE  AttemptsCounted' /\ RetriesUsedUp'
  <2>1. /\ UNCHANGED <<attempts, retries, retryable, status>>
        /\ \/ /\ place[t] \in {"chain", "plugins", "attempt", "flight", "sleep"}
              /\ \E step \in {"plugins", "attempt", "flight"} :
                    place' = [place EXCEPT ![t] = step]
           \/ \E step \in {"start", "done"} : place' = [place EXCEPT ![t] = step]
           \/ UNCHANGED place
    BY <1>8 DEF LockPlugins, PluginNext, SendRequest, EndSleep, Probe, Finish, Redirect, Advance,
                control, request, retrying
  <2>2. QED
    BY <1>0, <1>1, <2>1
<1>9. CASE UNCHANGED websiteVars
  BY <1>0, <1>9 DEF websiteVars, control, retrying, AttemptsCounted, RetriesUsedUp
<1>10. QED
  BY <1>3, <1>4, <1>5, <1>6, <1>7, <1>8, <1>9 DEF WebsiteNext, CheckStep

\* A check turns to HTTPS once, after its own URL has succeeded.
LEMMA ProbeStep ==
    ASSUME WebsiteInv, [WebsiteNext]_websiteVars
    PROVE  ProbeOfSuccess' /\ HttpsPreferred'
<1> DEFINE OneProbe(o) ==
             IF first[o] = Pending THEN url[o] = UrlOf[o]
             ELSE is_success(first[o]) /\ url[o] = HttpsOf[UrlOf[o]]
           Preferred(o) ==
             (/\ place[o] = "done" /\ is_success(verdict[o])
              /\ RequireHttps /\ HttpsOf[UrlOf[o]] # NoUrl)
             => /\ first[o] # Pending /\ is_success(first[o])
                /\ url[o] = HttpsOf[UrlOf[o]] /\ ~is_success(status[o])
<1>0. WebsiteTypes /\ \A o \in Checks : OneProbe(o) /\ Preferred(o)
  BY DEF WebsiteInv, ProbeOfSuccess, HttpsPreferred
<1>1. ASSUME \A o \in Checks : OneProbe(o)' /\ Preferred(o)'
      PROVE  ProbeOfSuccess' /\ HttpsPreferred'
  BY <1>1 DEF ProbeOfSuccess, HttpsPreferred
<1>2. ASSUME NEW t \in Checks, NEW step \in Steps \ {"done"},
             \/ place' = place \/ place' = [place EXCEPT ![t] = step],
             place[t] # "done", UNCHANGED <<url, first, verdict>>,
             status' = status \/ \E s : status' = [status EXCEPT ![t] = s]
      PROVE  ProbeOfSuccess' /\ HttpsPreferred'
  <2>1. \A o \in Checks : place'[o] = "done" => place[o] = "done" /\ status'[o] = status[o]
    BY <1>0, <1>2 DEF WebsiteTypes
  <2>2. QED
    BY <1>0, <1>1, <1>2, <2>1
<1>3. ASSUME NEW t \in Checks, NEW s, NEW again, AttemptEnds(t, s, again),
             place[t] # "done", UNCHANGED <<url, first, verdict>>
      PROVE  ProbeOfSuccess' /\ HttpsPreferred'
  <2>1. /\ status' = [status EXCEPT ![t] = s]
        /\ \E step \in {"sleep", "ended"} : place' = [place EXCEPT ![t] = step]
    BY <1>3, Zenon DEF AttemptEnds, Advance
  <2>2. QED
    BY <1>2, <1>3, <2>1 DEF Steps
<1>4. ASSUME NEW t \in Checks, FromCache(t) \/ Stop(t)
      PROVE  ProbeOfSuccess' /\ HttpsPreferred'
  <2>1. /\ place[t] # "done" /\ UNCHANGED <<url, first, verdict>>
        /\ \E s, again : AttemptEnds(t, s, again)
    BY <1>4, Zenon DEF FromCache, Stop, Respond, outcome
  <2>2. QED
    BY <1>3, <2>1
<1>5. ASSUME NEW t \in Checks, NEW o, ReceiveResponse(t, o) \/ RequestFails(t, o)
      PROVE  ProbeOfSuccess' /\ HttpsPreferred'
  <2>1. /\ place[t] # "done" /\ UNCHANGED <<url, first, verdict>>
        /\ \E s, again : AttemptEnds(t, s, again)
    BY <1>5, Zenon DEF ReceiveResponse, RequestFails, Respond, outcome
  <2>2. QED
    BY <1>3, <2>1
<1>6. ASSUME NEW t \in Checks,
             \/ BuildRequest(t) \/ BuildFails(t) \/ LockPlugins(t) \/ PluginNext(t)
             \/ (\E s \in PluginAnswers : PluginDone(t, s)) \/ SendRequest(t)
             \/ (\E u \in Urls : Redirect(t, u)) \/ EndSleep(t)
             \/ (\E found \in BOOLEAN : Github(t, found))
      PROVE  ProbeOfSuccess' /\ HttpsPreferred'
  <2>1. /\ place[t] # "done" /\ UNCHANGED <<url, first, verdict>>
        /\ status' = status \/ \E s : status' = [status EXCEPT ![t] = s]
        /\ place' = place \/ \E step \in Steps \ {"done"} : place' = [place EXCEPT ![t] = step]
    BY <1>6
    DEF BuildRequest, BuildFails, LockPlugins, PluginNext, PluginDone, SendRequest, Redirect,
        EndSleep, Github, Advance, Steps, control, retrying, outcome
  <2>2. "start" \in Steps \ {"done"}
    BY DEF Steps
  <2>3. QED
    BY <1>2, <2>1, <2>2
<1>7. ASSUME NEW t \in Checks, Probe(t) PROVE ProbeOfSuccess' /\ HttpsPreferred'
  <2>1. /\ HttpsOf[url[t]] # NoUrl /\ status[t].kind = "Ok"
        /\ place' = [place EXCEPT ![t] = "start"] /\ UNCHANGED <<status, verdict>>
        /\ first' = [first EXCEPT ![t] = status[t]]
        /\ url' = [url EXCEPT ![t] = HttpsOf[url[t]]]
    BY <1>7 DEF Probe, NeedsProbe, Advance, retrying, outcome
  <2>2. UrlOf[t] \in Urls /\ url[t] \in Urls
    BY <1>0, Environment DEF WebsiteTypes
  <2>3. first[t] = Pending /\ url[t] = UrlOf[t]
    BY <1>0, <2>1, <2>2, Environment
  <2>4. first'[t] = status[t] /\ url'[t] = HttpsOf[UrlOf[t]] /\ place'[t] = "start"
    BY <1>0, <2>1, <2>3 DEF WebsiteTypes
  <2>5. status[t] # Pending /\ is_success(status[t])
    BY <2>1 DEF Pending, Plain, is_success
  <2>6. \A o \in Checks \ {t} : /\ first'[o] = first[o] /\ url'[o] = url[o]
                                /\ place'[o] = place[o]
    BY <1>0, <2>1 DEF WebsiteTypes
  <2>7. QED
    BY <1>0, <1>1, <2>1, <2>4, <2>5, <2>6
<1>8. ASSUME NEW t \in Checks, Finish(t) PROVE ProbeOfSuccess' /\ HttpsPreferred'
  <2>1. /\ place' = [place EXCEPT ![t] = "done"] /\ UNCHANGED <<status, first, url>>
        /\ ~NeedsProbe(t)
        /\ verdict' = [verdict EXCEPT ![t] =
                         CASE first[t] = Pending -> status[t]
                           [] first[t] # Pending /\ is_success(status[t]) -> InsecureURL
                           [] OTHER -> first[t]]
    BY <1>8 DEF Finish, Advance, retrying
  <2>2. Preferred(t)'
    <3>1. verdict'[t] = CASE first[t] = Pending -> status[t]
                         [] first[t] # Pending /\ is_success(status[t]) -> InsecureURL
                         [] OTHER -> first[t]
      BY <1>0, <2>1 DEF WebsiteTypes
    <3>2. ~is_success(InsecureURL)
      BY DEF is_success, InsecureURL, Error, Plain
    <3>3. CASE first[t] = Pending
      BY <1>0, <2>1, <3>1, <3>3 DEF NeedsProbe, is_success
    <3>4. CASE first[t] # Pending
      BY <1>0, <2>1, <3>1, <3>2, <3>4
    <3>5. QED
      BY <3>3, <3>4
  <2>3. \A o \in Checks \ {t} : place'[o] = place[o] /\ verdict'[o] = verdict[o]
    BY <1>0, <2>1 DEF WebsiteTypes
  <2>4. QED
    BY <1>0, <1>1, <2>1, <2>2, <2>3
<1>9. CASE UNCHANGED websiteVars
  BY <1>0, <1>1, <1>9 DEF websiteVars, control, retrying, outcome
<1>10. QED
  BY <1>4, <1>5, <1>6, <1>7, <1>8, <1>9 DEF WebsiteNext, CheckStep

\* The inductive invariant of the checks of websites.
THEOREM Invariant == WebsiteSpec => []WebsiteInv
<1>1. WebsiteInit => WebsiteInv
  <2> SUFFICES ASSUME WebsiteInit PROVE WebsiteInv
    OBVIOUS
  <2>1. WebsiteTypes
    BY Environment, EmptySeq DEF WebsiteInit, WebsiteTypes, Steps
  <2>2. PagesExclusive /\ LocationKnown
    BY DEF WebsiteInit, PagesExclusive, LocationKnown
  <2>3. HopsInOrder
    BY DEF WebsiteInit, HopsInOrder
  <2>4. AttemptsCounted /\ RetriesUsedUp
    BY Environment DEF WebsiteInit, AttemptsCounted, RetriesUsedUp
  <2>5. ProbeOfSuccess /\ HttpsPreferred
    BY DEF WebsiteInit, ProbeOfSuccess, HttpsPreferred
  <2>6. QED
    BY <2>1, <2>2, <2>3, <2>4, <2>5 DEF WebsiteInv
<1>2. WebsiteInv /\ [WebsiteNext]_websiteVars => WebsiteInv'
  BY TypeStep, RedirectStep, RetryStep, ProbeStep DEF WebsiteInv
<1>3. QED
  BY <1>1, <1>2, PTL DEF WebsiteSpec

\* The redirects of a request are recorded in order, whoever else is at work.
THEOREM RedirectsInOrder == WebsiteSpec => []HopsInOrder
BY Invariant, PTL DEF WebsiteInv

\* The bound on the requests of retry_request, and that it is used up.
THEOREM RetriesBounded == WebsiteSpec => []RetriesUsedUp
BY Invariant, PTL DEF WebsiteInv

\* --require-https: no plain HTTP success that works over HTTPS.
THEOREM HttpsRequired == WebsiteSpec => []HttpsPreferred
BY Invariant, PTL DEF WebsiteInv
-----------------------------------------------------------------------------
(* The hosts of the checks are those of HostPromise *)

FetchOf(t) == [caller |-> t, page |-> PageOf[sent[t]], text |-> sent[t] \in NeedsText]
Flying == {h \in Checks : place[h] = "flight"}
Fetches == {FetchOf(t) : t \in Flying}
Known == [u \in Urls |-> IF responses[u] = NoResponse THEN {} ELSE {responses[u]}]
LastingCodes == {c \in StatusCodes : ~Transient(c)}

\* The requests under way change with the step of one check.
LEMMA FetchesFollow ==
    ASSUME NEW t \in Checks
    PROVE  /\ Flying' = Flying /\ (\A h \in Flying : sent'[h] = sent[h]) => Fetches' = Fetches
           /\ UNCHANGED sent /\ Flying' = Flying \cup {t}
                  => Fetches' = Fetches \cup {FetchOf(t)}
           /\ UNCHANGED sent /\ Flying' = Flying \ {t} => Fetches' = Fetches \ {FetchOf(t)}
           /\ t \in Flying => FetchOf(t) \in Fetches
<1>1. ASSUME NEW h, NEW g, FetchOf(h) = FetchOf(g) PROVE h = g
  <2>1. FetchOf(h).caller = h /\ FetchOf(g).caller = g
    BY DEF FetchOf
  <2>2. QED
    BY <1>1, <2>1
<1>2. /\ \A h : sent'[h] = sent[h] => FetchOf(h)' = FetchOf(h)
      /\ UNCHANGED sent => \A h : FetchOf(h)' = FetchOf(h)
  BY DEF FetchOf
<1>3. Fetches' = {FetchOf(h)' : h \in Flying'}
  BY DEF Fetches
<1> HIDE DEF Flying, FetchOf
<1>4. QED
  BY <1>1, <1>2, <1>3 DEF Fetches

\* What the end of a request leaves behind.
LEMMA RespondStep ==
    ASSUME WebsiteTypes, NEW t \in Checks, NEW c \in StatusCodes, place[t] = "flight", Respond(t, c)
    PROVE  /\ Fetches' = Fetches \ {FetchOf(t)}
           /\ \/ Known' = Known
              \/ /\ c \in LastingCodes
                 /\ Known' = [Known EXCEPT ![PageOf[sent[t]]] =
                                 {[code |-> c, text |-> sent[t] \in NeedsText]}]
<1>1. /\ place' = [place EXCEPT ![t] = "sleep"] \/ place' = [place EXCEPT ![t] = "ended"]
      /\ UNCHANGED sent /\ Remember(t, c)
  BY DEF Respond, AttemptEnds, Advance, request
<1>2. Flying' = Flying \ {t}
  BY <1>1 DEF WebsiteTypes, Flying
<1>3. Fetches' = Fetches \ {FetchOf(t)}
  BY <1>1, <1>2, FetchesFollow
<1>4. CASE Transient(c)
  BY <1>1, <1>3, <1>4 DEF Remember, Known
<1>5. CASE ~Transient(c)
  <2> DEFINE r == [code |-> c, text |-> sent[t] \in NeedsText]
  <2>1. responses' = [responses EXCEPT ![PageOf[sent[t]]] = r]
    BY <1>1, <1>5 DEF Remember
  <2>2. r # NoResponse
    <3>1. r.code = c /\ NoResponse.code = NoCode /\ c # NoCode
      BY DEF NoResponse, StatusCodes, NoCode
    <3>2. QED
      BY <3>1
  <2>3. PageOf[sent[t]] \in Urls /\ DOMAIN responses = Urls
    BY Environment DEF WebsiteTypes
  <2> HIDE DEF r
  <2>4. Known' = [Known EXCEPT ![PageOf[sent[t]]] = {r}]
    BY <2>1, <2>2, <2>3 DEF Known
  <2>5. QED
    BY <1>3, <1>5, <2>4 DEF LastingCodes, r
<1>6. QED
  BY <1>4, <1>5

\* A request begins, or one ends, or none of them does.
LEMMA PromiseStep ==
    ASSUME WebsiteTypes, [WebsiteNext]_websiteVars
    PROVE  \/ Fetches' = Fetches /\ Known' = Known
           \/ \E t \in Checks : /\ t \notin Flying /\ ~HasAnswer(t) /\ Known' = Known
                                /\ HostFree(t) /\ Fetches' = Fetches \cup {FetchOf(t)}
           \/ \E t \in Flying : /\ Fetches' = Fetches \ {FetchOf(t)}
                                /\ \/ Known' = Known
                                   \/ \E c \in LastingCodes :
                                          Known' = [Known EXCEPT ![PageOf[sent[t]]] =
                                              {[code |-> c, text |-> sent[t] \in NeedsText]}]
<1> DEFINE Goal ==
           \/ Fetches' = Fetches /\ Known' = Known
           \/ \E t \in Checks : /\ t \notin Flying /\ ~HasAnswer(t) /\ Known' = Known
                                /\ HostFree(t) /\ Fetches' = Fetches \cup {FetchOf(t)}
           \/ \E t \in Flying : /\ Fetches' = Fetches \ {FetchOf(t)}
                                /\ \/ Known' = Known
                                   \/ \E c \in LastingCodes :
                                          Known' = [Known EXCEPT ![PageOf[sent[t]]] =
                                              {[code |-> c, text |-> sent[t] \in NeedsText]}]
<1>1. UNCHANGED responses => Known' = Known
  BY DEF Known
<1>2. ASSUME NEW t \in Checks, place[t] # "flight", UNCHANGED responses,
             \A h \in Checks \ {t} : sent'[h] = sent[h],
             \E step \in Steps \ {"flight"} : place' = [place EXCEPT ![t] = step]
      PROVE  Goal
  <2>1. Flying' = Flying /\ t \notin Flying
    BY <1>2 DEF WebsiteTypes, Flying
  <2>2. \A h \in Flying : sent'[h] = sent[h]
    BY <1>2, <2>1 DEF Flying
  <2>3. QED
    BY <1>1, <1>2, <2>1, <2>2, FetchesFollow
<1>3. ASSUME NEW t \in Checks,
             \/ BuildRequest(t) \/ BuildFails(t) \/ LockPlugins(t) \/ EndSleep(t)
             \/ (\E s \in PluginAnswers : PluginDone(t, s))
             \/ (\E found \in BOOLEAN : Github(t, found)) \/ Probe(t) \/ Finish(t)
             \/ FromCache(t)
      PROVE  Goal
  <2>1. place[t] # "flight" /\ UNCHANGED <<sent, responses>>
    BY <1>3 DEF BuildRequest, BuildFails, LockPlugins, EndSleep, PluginDone, Github, Probe,
                Finish, FromCache, request
  <2>2. \E step \in {"chain", "settled", "plugins", "attempt", "ended", "start", "done",
                     "sleep"} : place' = [place EXCEPT ![t] = step]
    BY <1>3 DEF BuildRequest, BuildFails, LockPlugins, EndSleep, PluginDone, Github, Probe,
                Finish, FromCache, AttemptEnds, Advance
  <2>3. QED
    BY <1>2, <2>1, <2>2 DEF Steps
<1>4. ASSUME NEW t \in Checks, PluginNext(t) PROVE Goal
  <2>1. /\ place[t] # "flight" /\ UNCHANGED responses /\ place' = [place EXCEPT ![t] = "attempt"]
        /\ sent' = [sent EXCEPT ![t] = Rewrite[url[t]]]
    BY <1>4 DEF PluginNext, Advance
  <2>2. \A h \in Checks \ {t} : sent'[h] = sent[h]
    BY <2>1 DEF WebsiteTypes
  <2>3. QED
    BY <1>2, <2>1, <2>2 DEF Steps
<1>5. ASSUME NEW t \in Checks, SendRequest(t) PROVE Goal
  <2>1. /\ place[t] = "attempt" /\ HostFree(t) /\ ~HasAnswer(t) /\ UNCHANGED <<sent, responses>>
        /\ place' = [place EXCEPT ![t] = "flight"]
    BY <1>5 DEF SendRequest, Advance
  <2>2. t \notin Flying /\ Flying' = Flying \cup {t}
    BY <2>1 DEF WebsiteTypes, Flying
  <2>3. QED
    BY <1>1, <2>1, <2>2, FetchesFollow
<1>6. ASSUME NEW t \in Checks, NEW u \in Urls, Redirect(t, u) PROVE Goal
  <2>1. UNCHANGED <<place, sent, responses>>
    BY <1>6 DEF Redirect, control
  <2>2. QED
    BY <1>1, <2>1 DEF Fetches, FetchOf, Flying
<1>7. ASSUME NEW t \in Checks, NEW c \in StatusCodes, place[t] = "flight", Respond(t, c)
      PROVE  Goal
  <2>1. t \in Flying
    BY <1>7 DEF Flying
  <2>2. QED
    BY <1>7, <2>1, RespondStep
<1>8. ASSUME NEW t \in Checks, Stop(t) PROVE Goal
  <2>1. 301 \in StatusCodes
    BY DEF StatusCodes
  <2>2. QED
    BY <1>7, <1>8, <2>1 DEF Stop
<1>9. ASSUME NEW t \in Checks, NEW u \in Urls, NEW o \in Answers[u], ReceiveResponse(t, o) PROVE Goal
  <2>1. place[t] = "flight" /\ Respond(t, o.code) /\ o.is = "response"
    BY <1>9 DEF ReceiveResponse
  <2>2. o.code \in StatusCodes
    BY <2>1, WebsiteAssumption DEF Answer
  <2>3. QED
    BY <1>7, <2>1, <2>2
<1>10. ASSUME NEW t \in Checks, NEW u \in Urls, NEW o \in Answers[u], RequestFails(t, o)
       PROVE  Goal
  <2>1. /\ place[t] = "flight" /\ UNCHANGED <<sent, responses>>
        /\ place' = [place EXCEPT ![t] = "sleep"] \/ place' = [place EXCEPT ![t] = "ended"]
    BY <1>10 DEF RequestFails, AttemptEnds, Advance, request
  <2>2. t \in Flying /\ Flying' = Flying \ {t}
    BY <2>1 DEF WebsiteTypes, Flying
  <2>3. QED
    BY <1>1, <2>1, <2>2, FetchesFollow
<1>11. CASE UNCHANGED websiteVars
  BY <1>11 DEF websiteVars, control, request, Fetches, FetchOf, Flying, Known
<1>12. QED
  BY <1>3, <1>4, <1>5, <1>6, <1>8, <1>9, <1>10, <1>11 DEF WebsiteNext, CheckStep

\* Whatever a check does with hosts is a step of HostPromise, which Host implements.
THEOREM StandsOnHosts == WebsiteSpec => UsesHostPromise
<1>1. WebsiteInit => Hosts!Init
  BY DEF WebsiteInit, Hosts!Init
<1>2. WebsiteTypes /\ [WebsiteNext]_websiteVars => [Hosts!Next]_(Hosts!vars)
  <2> SUFFICES ASSUME WebsiteTypes, [WebsiteNext]_websiteVars PROVE [Hosts!Next]_(Hosts!vars)
    OBVIOUS
  <2>1. CASE Fetches' = Fetches /\ Known' = Known
    BY <2>1 DEF Hosts!vars, Fetches, FetchOf, Flying, Known
  <2>2. ASSUME NEW t \in Checks, t \notin Flying, ~HasAnswer(t), Known' = Known,
               HostFree(t), Fetches' = Fetches \cup {FetchOf(t)}
        PROVE  Hosts!Next
    <3>0. PageOf[sent[t]] \in Urls /\ (sent[t] \in NeedsText) \in BOOLEAN
      BY Environment DEF WebsiteTypes
    <3>1. PICK p \in Urls, text \in BOOLEAN :
            p = PageOf[sent[t]] /\ text = (sent[t] \in NeedsText)
      BY <3>0, Zenon
    <3>2. \A f \in Fetches : f.caller # t /\ f.page # p
      BY <2>2, <3>1 DEF HostFree, Fetches, FetchOf, Flying
    <3>3. ~\E a \in Known[p] : text => a.text
      BY <2>2, <3>1 DEF HasAnswer, Known
    <3>4. Hosts!Begin(t, p, text)
      BY <2>2, <3>1, <3>2, <3>3
      DEF Hosts!Begin, Hosts!Known, Hosts!Fetch, Fetches, FetchOf, Flying, Known
    <3>5. QED
      BY <3>4 DEF Hosts!Next
  <2>3. ASSUME NEW t \in Flying, Fetches' = Fetches \ {FetchOf(t)},
               \/ Known' = Known
               \/ \E c \in LastingCodes :
                      Known' = [Known EXCEPT ![PageOf[sent[t]]] =
                                   {[code |-> c, text |-> sent[t] \in NeedsText]}]
        PROVE  Hosts!Next
    <3>1. PICK f \in Fetches : f = FetchOf(t)
      BY DEF Fetches
    <3>2. f.page = PageOf[sent[t]] /\ f.text = (sent[t] \in NeedsText)
      BY <3>1 DEF FetchOf
    <3>3. CASE Known' = Known
      <4>1. Hosts!GiveUp(f)
        BY <2>3, <3>1, <3>3 DEF Hosts!GiveUp, Fetches, FetchOf, Flying, Known
      <4>2. QED
        BY <4>1 DEF Hosts!Next, Fetches, FetchOf, Flying
    <3>4. ASSUME NEW c \in LastingCodes,
                 Known' = [Known EXCEPT ![f.page] = {[code |-> c, text |-> f.text]}]
          PROVE  Hosts!Next
      <4>1. Hosts!Remember(f, c)
        BY <2>3, <3>1, <3>4 DEF Hosts!Remember, Fetches, FetchOf, Flying, Known
      <4>2. QED
        BY <4>1 DEF Hosts!Next, Fetches, FetchOf, Flying, LastingCodes
    <3>5. QED
      BY <2>3, <3>2, <3>3, <3>4
  <2>4. QED
    BY <2>1, <2>2, <2>3, PromiseStep
<1>3. WebsiteInv => WebsiteTypes
  BY DEF WebsiteInv
<1>4. QED
  BY <1>1, <1>2, <1>3, Invariant, PTL DEF WebsiteSpec, UsesHostPromise, Hosts!Spec
=============================================================================
