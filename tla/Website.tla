------------------------------- MODULE Website -------------------------------
(***************************************************************************)
(* WebsiteChecker: the concurrent checks of websites.                      *)
(*                                                                         *)
(* A check passes the plugin chain, which all checks share under one lock, *)
(* and its own chain of quirks and retried requests.  A failure may be     *)
(* overruled by GitHub's API, and a plain HTTP success by the same URL     *)
(* over HTTPS.  The checks also share the hosts (module Host): here one    *)
(* request for a URL is under way at a time, and cached responses answer   *)
(* later ones.  reqwest reports every redirect it follows to the shared    *)
(* history while the request is under way.                                 *)
(***************************************************************************)
EXTENDS Status, Sequences, FiniteSets

CONSTANTS
    Checks,
    Urls,
    NoUrl,
    UrlOf,         \* the URL a check is about
    PageOf,        \* a URL without its fragment
    NeedsText,     \* the URLs with a fragment to look up
    BadFragment,   \* those whose fragment is not in the page
    Rewrite,       \* what the quirks make of a URL
    Unbuildable,   \* the URLs that no request can be built for
    HttpsOf,       \* to_https of a plain HTTP URL, NoUrl for others
    Domain,        \* of a URL
    Segments,      \* of its path
    Visibility,    \* of the repository: "public", "private" or "none"
    GithubToken,   \* whether there is a client for GitHub's API
    RedirectTo,    \* where the server of a URL redirects to
    Answers,       \* how a request at a URL may end other than by a redirect
    PluginAnswers, \* the statuses that plugins end the chain with
    Accepted,      \* accepted status codes
    MaxRetries,
    MaxRedirects,
    RequireHttps,
    Nobody         \* the plugin chain is not locked

Answer == [is : {"response"}, code : StatusCodes] \cup [is : {"error"}, kind : STRING]

ASSUME WebsiteAssumption ==
    /\ NoUrl \notin Urls
    /\ UrlOf \in [Checks -> Urls]
    /\ PageOf \in [Urls -> Urls]
    /\ BadFragment \subseteq NeedsText /\ NeedsText \subseteq Urls
    /\ Rewrite \in [Urls -> Urls]
    /\ HttpsOf \in [Urls -> Urls \cup {NoUrl}]
    /\ \A u \in Urls : HttpsOf[u] # NoUrl => HttpsOf[HttpsOf[u]] = NoUrl
    /\ GithubToken \in BOOLEAN
    /\ RedirectTo \in [Urls -> SUBSET Urls]
    /\ \A u \in Urls : Answers[u] \subseteq Answer
    /\ PluginAnswers \subseteq {s \in Statuses : s.from = "check"}
    /\ Accepted \subseteq StatusCodes
    /\ MaxRetries \in Nat /\ MaxRedirects \in Nat
    /\ RequireHttps \in BOOLEAN
    /\ Nobody \notin Checks

VARIABLES
    place,        \* where each check is
    plugins,   \* who holds the lock of the plugin chain
    url,       \* the URL a check is working on, its own or the HTTPS one
    sent,      \* the URL of its request, after the quirks
    location,  \* where the redirects have led the request
    hops,      \* the redirects it has followed
    retries,   \* retries of retry_request
    attempts,  \* the requests made in this retry_request
    status,    \* the status so far
    retryable, \* the checks whose last attempt is worth a retry
    first,     \* the status over plain HTTP, while and after HTTPS is tried
    verdict,    \* the status check_website returns
    reported,  \* the redirects it returns
    responses,     \* the hosts' responses
    history    \* RedirectHistory, by the URL of the request

control == <<place, plugins>>
request == <<sent, location, hops>>
retrying == <<retries, attempts, status, retryable>>
outcome == <<verdict, reported>>
websiteVars == <<control, url, request, retrying, first, outcome, responses, history>>

Pending == Plain("Pending", NoCode)
NoResponse == [code |-> NoCode, text |-> FALSE]

Steps == {"start", "chain", "plugins", "attempt", "flight", "sleep", "ended",
          "settled", "done"}

WebsiteTypes ==
    /\ place \in [Checks -> Steps]
    /\ plugins \in Checks \cup {Nobody}
    /\ url \in [Checks -> Urls]
    /\ sent \in [Checks -> Urls] /\ location \in [Checks -> Urls]
    /\ hops \in [Checks -> 0 .. MaxRedirects]
    /\ retries \in [Checks -> 0 .. MaxRetries] /\ attempts \in [Checks -> Nat]
    /\ status \in [Checks -> Statuses \cup {Pending}]
    /\ retryable \subseteq Checks
    /\ first \in [Checks -> Statuses \cup {Pending}]
    /\ verdict \in [Checks -> Statuses \cup {Pending}]
    /\ reported \in [Checks -> Seq(Urls)]
    /\ responses \in [Urls -> [code : StatusCodes, text : BOOLEAN] \cup {NoResponse}]
    /\ history \in [Urls -> Seq(Urls)]

WebsiteInit ==
    /\ place = [t \in Checks |-> "start"]
    /\ plugins = Nobody
    /\ url = UrlOf
    /\ sent = UrlOf /\ location = UrlOf
    /\ hops = [t \in Checks |-> 0]
    /\ retries = [t \in Checks |-> 0] /\ attempts = [t \in Checks |-> 0]
    /\ status = [t \in Checks |-> Pending]
    /\ retryable = {}
    /\ first = [t \in Checks |-> Pending]
    /\ verdict = [t \in Checks |-> Pending]
    /\ reported = [t \in Checks |-> <<>>]
    /\ responses = [u \in Urls |-> NoResponse]
    /\ history = [u \in Urls |-> <<>>]

Advance(t, step) == place' = [place EXCEPT ![t] = step]
-----------------------------------------------------------------------------
(* check_website_inner: the request is built and passes the chains *)

BuildRequest(t) ==
    /\ place[t] = "start"
    /\ url[t] \notin Unbuildable
    /\ Advance(t, "chain")
    /\ retries' = [retries EXCEPT ![t] = 0]
    /\ attempts' = [attempts EXCEPT ![t] = 0]
    /\ UNCHANGED <<plugins, url, request, status, retryable, first, outcome, responses, history>>

\* Both ways of failing, no host and no request, are Unsupported, and the early
\* return leaves GitHub out.
BuildFails(t) ==
    /\ place[t] = "start"
    /\ url[t] \in Unbuildable
    /\ Advance(t, "settled")
    /\ status' = [status EXCEPT ![t] = Unsupported]
    /\ UNCHANGED <<plugins, url, request, retries, attempts, retryable, first, outcome,
                   responses, history>>

LockPlugins(t) ==
    /\ place[t] = "chain"
    /\ plugins = Nobody
    /\ plugins' = t
    /\ Advance(t, "plugins")
    /\ UNCHANGED <<url, request, retrying, first, outcome, responses, history>>

LockKept(t) == t   \* mutant
Unlocked(t) == Nobody

PluginDone(t, s) ==
    /\ place[t] = "plugins"
    /\ plugins' = Unlocked(t)
    /\ status' = [status EXCEPT ![t] = s]
    /\ retryable' = retryable \ {t}
    /\ Advance(t, "ended")
    /\ UNCHANGED <<url, request, retries, attempts, first, outcome, responses, history>>

\* The lock is returned at the end of traverse, before the check's own chain.
PluginNext(t) ==
    /\ place[t] = "plugins"
    /\ plugins' = Unlocked(t)
    /\ sent' = [sent EXCEPT ![t] = Rewrite[url[t]]]
    /\ Advance(t, "attempt")
    /\ UNCHANGED <<url, location, hops, retrying, first, outcome, responses, history>>
-----------------------------------------------------------------------------
(* retry_request and check_default *)

is_success_code(c) == c \in 200 .. 299
Transient(c) == c \in 500 .. 599 \cup {408, 429}   \* should_retry of a code

\* A response to a request for u: fragments are looked up in pages only.
StatusOfResponse(u, c) ==
    IF u \in BadFragment /\ is_success_code(c) THEN Error ELSE new(c, Accepted)

\* Of the rejected codes only 429 is retried, whatever Transient says.
should_retry(s) == s = RejectedStatusCode(429) \/ s = Timeout

\* Of a request that gets no response: a connection cut halfway, by the server or by the
\* system, is worth a retry, one that cannot be made is not.
should_retry_io(kind) == kind \in {"reset", "aborted", "timed out"}
should_retry_request(kind) ==
    kind \in {"timeout", "incomplete", "canceled"} \/ should_retry_io(kind)

\* mutant: the first attempt is taken for a retry.
RetryOneLess(t) == retries[t] + 1 < MaxRetries
MayRetry(t) == retries[t] < MaxRetries

\* The loop of retry_request after an attempt.
AttemptEnds(t, s, again) ==
    /\ status' = [status EXCEPT ![t] = s]
    /\ retryable' = IF again THEN retryable \cup {t} ELSE retryable \ {t}
    /\ attempts' = [attempts EXCEPT ![t] = @ + 1]
    /\ IF MayRetry(t) /\ ~is_success(s) /\ again
         THEN retries' = [retries EXCEPT ![t] = @ + 1] /\ Advance(t, "sleep")
         ELSE Advance(t, "ended") /\ UNCHANGED retries

\* mutant: no lock.
HostIdle(t) == TRUE
\* Module Host: one request for a page at a time.
HostFree(t) == \A h \in Checks : place[h] = "flight" => PageOf[sent[h]] # PageOf[sent[t]]

\* The host has an answer, with its text if that is needed.
HasAnswer(t) ==
    /\ responses[PageOf[sent[t]]] # NoResponse
    /\ sent[t] \in NeedsText => responses[PageOf[sent[t]]].text

FromCache(t) ==
    /\ place[t] = "attempt"
    /\ HostFree(t)
    /\ HasAnswer(t)
    /\ LET s == StatusOfResponse(sent[t], responses[PageOf[sent[t]]].code) IN
          AttemptEnds(t, s, should_retry(s))
    /\ UNCHANGED <<plugins, url, request, first, outcome, responses, history>>

SendRequest(t) ==
    /\ place[t] = "attempt"
    /\ HostFree(t)
    /\ ~HasAnswer(t)
    /\ location' = [location EXCEPT ![t] = sent[t]]
    /\ hops' = [hops EXCEPT ![t] = 0]
    /\ Advance(t, "flight")
    /\ UNCHANGED <<plugins, url, sent, retrying, first, outcome, responses, history>>

\* redirect_policy: previous() counts the first URL too.
Redirect(t, u) ==
    /\ place[t] = "flight"
    /\ u \in RedirectTo[location[t]]
    /\ hops[t] < MaxRedirects
    /\ history' = [history EXCEPT ![sent[t]] = Append(@, u)]
    /\ location' = [location EXCEPT ![t] = u]
    /\ hops' = [hops EXCEPT ![t] = @ + 1]
    /\ UNCHANGED <<control, url, sent, retrying, first, outcome, responses>>

\* cache_result
Remember(t, c) ==
    responses' = IF Transient(c) THEN responses
             ELSE [responses EXCEPT ![PageOf[sent[t]]] =
                      [code |-> c, text |-> sent[t] \in NeedsText]]

Respond(t, c) ==
    /\ LET s == StatusOfResponse(sent[t], c) IN AttemptEnds(t, s, should_retry(s))
    /\ Remember(t, c)
    /\ UNCHANGED <<plugins, url, request, first, outcome, history>>

\* One redirect too many: the redirect itself is the response.
Stop(t) ==
    /\ place[t] = "flight"
    /\ RedirectTo[location[t]] # {}
    /\ hops[t] = MaxRedirects
    /\ Respond(t, 301)

ReceiveResponse(t, o) ==
    /\ place[t] = "flight"
    /\ o \in Answers[location[t]]
    /\ o.is = "response"
    /\ Respond(t, o.code)

RequestFails(t, o) ==
    /\ place[t] = "flight"
    /\ o \in Answers[location[t]]
    /\ o.is = "error"
    /\ LET s == FromErrorKind(o.kind) IN
          AttemptEnds(t, s, should_retry(s) \/ should_retry_request(o.kind))
    /\ UNCHANGED <<plugins, url, request, first, outcome, responses, history>>

EndSleep(t) ==
    /\ place[t] = "sleep"
    /\ Advance(t, "attempt")
    /\ UNCHANGED <<plugins, url, request, retrying, first, outcome, responses, history>>
-----------------------------------------------------------------------------
(* handle_github and handle_insecure_url *)

\* Owners that are none.
GITHUB_API_EXCLUDED_ENDPOINTS ==
    {"about", "collections", "events", "explore", "features", "issues", "marketplace", "new",
     "notifications", "pricing", "pulls", "sponsors", "topics", "watching"}
IsGithubUri(u) ==
    /\ Domain[u] \in {"github.com", "www.github.com", "raw.githubusercontent.com"}
    /\ Len(Segments[u]) >= 2 /\ Segments[u][1] \notin GITHUB_API_EXCLUDED_ENDPOINTS
HasEndpoint(u) == Len(Segments[u]) > 2 /\ Segments[u][3] # ""

\* What is in a private repository is good if that is there; of a public one only itself.
check_github(u) ==
    /\ IsGithubUri(u) /\ GithubToken
    /\ Visibility[u] = "private" \/ (Visibility[u] = "public" /\ ~HasEndpoint(u))

Github(t, found) ==
    /\ place[t] = "ended"
    /\ found => ~is_success(status[t]) /\ check_github(url[t])
    /\ status' = [status EXCEPT ![t] = IF found THEN Ok(200) ELSE @]
    /\ Advance(t, "settled")
    /\ UNCHANGED <<plugins, url, request, retries, attempts, retryable, first, outcome,
                   responses, history>>

\* mutant: a link that was redirected is not asked for again.
ProbeUnlessRedirected(t) ==
    RequireHttps /\ HttpsOf[url[t]] # NoUrl /\ status[t].kind = "Ok" /\ hops[t] = 0
NeedsProbe(t) ==
    RequireHttps /\ HttpsOf[url[t]] # NoUrl /\ status[t].kind = "Ok"

Probe(t) ==
    /\ place[t] = "settled"
    /\ NeedsProbe(t)
    /\ first' = [first EXCEPT ![t] = status[t]]
    /\ url' = [url EXCEPT ![t] = HttpsOf[url[t]]]
    /\ Advance(t, "start")
    /\ UNCHANGED <<plugins, request, retrying, outcome, responses, history>>

InsecureURL == Error

Finish(t) ==
    /\ place[t] = "settled"
    /\ ~NeedsProbe(t)
    /\ verdict' = [verdict EXCEPT ![t] =
                     CASE first[t] = Pending -> status[t]
                       [] first[t] # Pending /\ is_success(status[t]) -> InsecureURL
                       [] OTHER -> first[t]]
    /\ reported' = [reported EXCEPT ![t] = history[UrlOf[t]]]
    /\ Advance(t, "done")
    /\ UNCHANGED <<plugins, url, request, retrying, first, responses, history>>
-----------------------------------------------------------------------------
CheckStep(t) ==
    \/ BuildRequest(t) \/ BuildFails(t) \/ LockPlugins(t)
    \/ PluginNext(t) \/ (\E s \in PluginAnswers : PluginDone(t, s))
    \/ FromCache(t) \/ SendRequest(t) \/ (\E u \in Urls : Redirect(t, u)) \/ Stop(t)
    \/ (\E u \in Urls : \E o \in Answers[u] : ReceiveResponse(t, o) \/ RequestFails(t, o))
    \/ EndSleep(t)
    \/ (\E found \in BOOLEAN : Github(t, found))
    \/ Probe(t) \/ Finish(t)

WebsiteNext == \E t \in Checks : CheckStep(t)

WebsiteSpec == WebsiteInit /\ [][WebsiteNext]_websiteVars

\* Handlers return, requests time out, sleeps end; tokio's mutexes are queues,
\* and finitely many requests ask for each of them.
WebsiteFairSpec == WebsiteSpec /\ \A t \in Checks : WF_websiteVars(CheckStep(t))
-----------------------------------------------------------------------------
(* Properties *)

\* The redirects of a request are recorded one after the other, whatever other
\* requests are under way: every entry of a history is where its URL, or the
\* entry before it, redirects to.  (record_redirects only appends to what is
\* there for the first URL; the lock of the page keeps the requests apart.)
HopsInOrder ==
    \A u \in Urls : \A i \in DOMAIN history[u] :
        \/ history[u][i] \in RedirectTo[u]
        \/ i > 1 /\ history[u][i] \in RedirectTo[history[u][i - 1]]

\* retry_request makes at most one request and MaxRetries retries, and gives up
\* on a failure worth a retry only after all of them.
RetriesUsedUp ==
    \A t \in Checks :
        /\ attempts[t] <= MaxRetries + 1
        /\ place[t] = "ended" /\ t \in retryable /\ ~is_success(status[t])
             => attempts[t] = MaxRetries + 1

\* With --require-https a plain HTTP link is a success only if the same URL was
\* tried over HTTPS, with all its redirects and retries, and failed
\* (handle_insecure_url).
HttpsPreferred ==
    \A t \in Checks :
        (/\ place[t] = "done" /\ is_success(verdict[t])
         /\ RequireHttps /\ HttpsOf[UrlOf[t]] # NoUrl)
        => /\ first[t] # Pending /\ is_success(first[t])
           /\ url[t] = HttpsOf[UrlOf[t]] /\ ~is_success(status[t])

\* Every check ends, with all checks on one lock of plugins, one request a page
\* at a time, and redirects in a circle (redirect_policy, retry_request).
AllChecksEnd == \A t \in Checks : <>(place[t] = "done")

Hosts == INSTANCE HostPromise
           WITH Callers <- Checks, Pages <- Urls,
                Lasting <- {c \in StatusCodes : ~Transient(c)},
                fetching <- {[caller |-> t, page |-> PageOf[sent[t]],
                              text |-> sent[t] \in NeedsText] :
                                t \in {h \in Checks : place[h] = "flight"}},
                answers <- [u \in Urls |-> IF responses[u] = NoResponse THEN {} ELSE {responses[u]}]

\* The hosts that the checks send their requests through are those of HostPromise.
UsesHostPromise == Hosts!Spec

(* What HopsInOrder and the other two rest on. *)

\* One request for a page at a time.
PagesExclusive ==
    \A t, o \in Checks :
        place[t] = "flight" /\ place[o] = "flight" /\ PageOf[sent[t]] = PageOf[sent[o]] => t = o

\* A request is where the last redirect in the history of its URL leads.
LocationKnown ==
    \A t \in Checks : place[t] = "flight" =>
        IF hops[t] = 0 THEN location[t] = sent[t]
        ELSE LET h == history[sent[t]] IN h # <<>> /\ location[t] = h[Len(h)]

AttemptsCounted ==
    \A t \in Checks :
        /\ place[t] \in {"chain", "plugins", "attempt", "flight", "sleep"}
             => attempts[t] = retries[t]
        /\ attempts[t] <= retries[t] + 1

\* The URL of a check is its own until that has succeeded, then the HTTPS one.
ProbeOfSuccess ==
    \A t \in Checks :
        IF first[t] = Pending THEN url[t] = UrlOf[t]
        ELSE is_success(first[t]) /\ url[t] = HttpsOf[UrlOf[t]]

\* The inductive invariant: the parts above hold with the properties, whatever
\* the order of the steps of the checks.
WebsiteInv ==
    /\ WebsiteTypes /\ PagesExclusive /\ LocationKnown /\ HopsInOrder
    /\ AttemptsCounted /\ RetriesUsedUp /\ ProbeOfSuccess /\ HttpsPreferred
=============================================================================
