----------------------------- MODULE MCWebsite -----------------------------
(* Two checks of one page of a plain HTTP site: one looks a fragment up, the *)
(* other's fragment is a line number, which a quirk deletes.  The page is    *)
(* redirected twice, its HTTPS form in a circle.  A third check is about a   *)
(* URL without a host.                                                       *)
EXTENDS Website, TLC

CONSTANTS t1, t2, t3, anchor, line, page, middle, end, https, circle, bad

MCUrls == {anchor, line, page, middle, end, https, circle, bad}
MCUrlOf == t1 :> anchor @@ t2 :> line @@ t3 :> bad
MCPageOf == [u \in MCUrls |-> IF u \in {anchor, line} THEN page ELSE u]
MCRewrite == [u \in MCUrls |-> IF u = line THEN page ELSE u]
MCHttpsOf == [u \in MCUrls |-> IF u \in {anchor, line, page} THEN https ELSE NoUrl]
MCRedirectTo ==
    [u \in MCUrls |-> CASE u \in {anchor, line, page} -> {middle}
                        [] u = middle -> {end}
                        [] u = https -> {circle}
                        [] u = circle -> {https}
                        [] OTHER -> {}]

Responds(c) == [is |-> "response", code |-> c]
Failure(e) == [is |-> "error", kind |-> e]

MCAnswers ==
    [u \in MCUrls |-> CASE u = end -> {Responds(200), Responds(429), Failure("incomplete")}
                        [] u = https -> {Responds(200), Failure("timeout")}
                        [] OTHER -> {}]
MCDomain == [u \in MCUrls |-> IF u = https THEN "github.com" ELSE "example.com"]
MCSegments ==
    [u \in MCUrls |-> IF u = https THEN <<"owner", "repo", "blob", "file">> ELSE <<"owner", "repo">>]
MCVisibility == [u \in MCUrls |-> IF u = https THEN "private" ELSE "none"]
MCPluginAnswers == {Excluded}
=============================================================================
