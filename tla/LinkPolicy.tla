------------------------------ MODULE LinkPolicy -----------------------------
(***************************************************************************)
(* Which links are checked, and as what: the remaps (remap.rs), the filter *)
(* made of the options (client.rs of both crates) and what it excludes     *)
(* (filter/mod.rs), as Client::check asks them.                            *)
(*                                                                         *)
(* A regular expression is the set of the URIs it matches.  Domains and    *)
(* paths are sequences of syllables, with "." a syllable of its own, so    *)
(* that a suffix of a name need not begin at a dot.                        *)
(***************************************************************************)
EXTENDS Naturals, SequencesExt

CONSTANTS
    Uris,
    NoUri,          \* no URI: what a remap makes is not a URL
    Parts,          \* scheme, domain, address and path of a URI
    FalsePositives  \* the URIs that FALSE_POSITIVE_PAT matches

Addresses == {"loopback", "private", "link_local", "other", "none"}

\* A mail address or a telephone number has no host, an address no domain.
ASSUME UriAssumption ==
    /\ NoUri \notin Uris
    /\ FalsePositives \subseteq Uris
    /\ Parts \in [Uris -> [scheme : STRING, domain : Seq(STRING), address : Addresses,
                           path : Seq(STRING)]]
    /\ \A u \in Uris : /\ Parts[u].address # "none" => Parts[u].domain = <<>>
                       /\ Parts[u].scheme \in {"mailto", "tel"} =>
                            Parts[u].domain = <<>> /\ Parts[u].address = "none"

RegexSets == SUBSET SUBSET Uris
is_match(regexes, u) == \E regex \in regexes : u \in regex

Remaps == Seq([pattern : SUBSET Uris, replacement : [Uris -> Uris \cup {NoUri}]])

\* The options a link's fate depends on.
Options ==
    [include : RegexSets, exclude : RegexSets, scheme : SUBSET STRING,
     offline : BOOLEAN, exclude_all_private : BOOLEAN, exclude_private : BOOLEAN,
     exclude_link_local : BOOLEAN, exclude_loopback : BOOLEAN,
     include_mail : BOOLEAN, remap : Remaps]

is_mail(u) == Parts[u].scheme = "mailto"
is_tel(u) == Parts[u].scheme = "tel"
is_file(u) == Parts[u].scheme = "file"
is_loopback(u) == Parts[u].address = "loopback"
is_private(u) == Parts[u].address = "private"
is_link_local(u) == Parts[u].address = "link_local"
-----------------------------------------------------------------------------
(* Remaps *)

\* The first rule that matches decides, on its own.
Deciding(rules, u) ==
    {i \in DOMAIN rules : /\ u \in rules[i].pattern
                          /\ \A j \in 1 .. i - 1 : u \notin rules[j].pattern}

remap_uri(rules, u) ==
    IF Deciding(rules, u) = {} THEN u
    ELSE rules[CHOOSE i \in Deciding(rules, u) : TRUE].replacement[u]
-----------------------------------------------------------------------------
(* The filter *)

ExampleDomains == {<<"example", ".", tld>> : tld \in {"com", "org", "net", "edu"}}
ExampleTlds == {<<".", tld>> : tld \in {"test", "example", "invalid", "localhost"}}
UnsupportedDomains == {<<"twitter", ".", "com">>}

\* split_once('.'): what is behind the first dot, if there is one.
SplitOnce(d) ==
    {SubSeq(d, i + 1, Len(d)) :
        i \in {j \in DOMAIN d : d[j] = "." /\ \A k \in 1 .. j - 1 : d[k] # "."}}

\* Of an example domain the name itself and those one level below it; of mail
\* addresses all that end like one.
is_example_domain(u) ==
    LET d == Parts[u].domain IN
        \/ \E example \in ExampleDomains : d = example \/ example \in SplitOnce(d)
        \/ \E tld \in ExampleTlds : IsSuffix(tld, d)
        \/ is_mail(u) /\ \E example \in ExampleDomains : IsSuffix(example, Parts[u].path)

is_unsupported_domain(u) ==
    \E domain \in UnsupportedDomains : IsSuffix(domain, Parts[u].domain)

\* mutant: --exclude-all-private is not about loopback addresses
FilterOfPrivate(o) ==
    [includes |-> o.include,
     excludes |-> o.exclude,
     schemes |-> IF o.offline THEN {"file"} ELSE o.scheme,
     exclude_private_ips |-> o.exclude_all_private \/ o.exclude_private,
     exclude_link_local_ips |-> o.exclude_all_private \/ o.exclude_link_local,
     exclude_loopback_ips |-> o.exclude_loopback,
     include_mail |-> o.include_mail]

\* The Filter that both client.rs make of the options.
FilterOf(o) ==
    [includes |-> o.include,
     excludes |-> o.exclude,
     schemes |-> IF o.offline THEN {"file"} ELSE o.scheme,
     exclude_private_ips |-> o.exclude_all_private \/ o.exclude_private,
     exclude_link_local_ips |-> o.exclude_all_private \/ o.exclude_link_local,
     exclude_loopback_ips |-> o.exclude_all_private \/ o.exclude_loopback,
     include_mail |-> o.include_mail]

is_scheme_excluded(f, u) == f.schemes # {} /\ Parts[u].scheme \notin f.schemes
is_host_excluded(f, u) == f.exclude_loopback_ips /\ Parts[u].domain = <<"localhost">>
is_ip_excluded(f, u) ==
    \/ f.exclude_loopback_ips /\ is_loopback(u)
    \/ f.exclude_private_ips /\ is_private(u)
    \/ f.exclude_link_local_ips /\ is_link_local(u)
is_mail_excluded(f, u) == is_mail(u) /\ ~f.include_mail

\* The kind of link alone rules it out.
KindExcluded(f, u) ==
    \/ is_scheme_excluded(f, u) \/ is_host_excluded(f, u)
    \/ is_ip_excluded(f, u) \/ is_mail_excluded(f, u)
    \/ is_tel(u) \/ is_example_domain(u) \/ is_unsupported_domain(u)

\* mutant: excludes come before includes.
ExcludesFirst(f, u) ==
    IF KindExcluded(f, u) THEN TRUE
    ELSE \/ is_match(f.excludes, u)
         \/ ~is_match(f.includes, u) /\
              (u \in FalsePositives \/ (f.includes # {} /\ f.excludes = {}))

\* Filter::is_excluded
is_uri_excluded(f, u) ==
    IF KindExcluded(f, u) THEN TRUE
    ELSE IF f.includes = {} /\ f.excludes = {} THEN u \in FalsePositives
    ELSE IF f.includes # {} /\ is_match(f.includes, u) THEN FALSE
    ELSE u \in FalsePositives \/ f.excludes = {} \/ is_match(f.excludes, u)
\* Which of its checkers Client::check asks about a link that is not excluded.
checker(u) == IF is_file(u) THEN "file" ELSE IF is_mail(u) THEN "mail" ELSE "website"
-----------------------------------------------------------------------------
(* What the options promise *)

\* Links of this kind are asked for, and lychee can check them.
Checkable(o, u) ==
    /\ o.offline => is_file(u)
    /\ o.scheme # {} /\ ~o.offline => Parts[u].scheme \in o.scheme
    /\ is_mail(u) => o.include_mail
    /\ o.exclude_all_private \/ o.exclude_loopback =>
          ~is_loopback(u) /\ Parts[u].domain # <<"localhost">>
    /\ o.exclude_all_private \/ o.exclude_private => ~is_private(u)
    /\ o.exclude_all_private \/ o.exclude_link_local => ~is_link_local(u)
    /\ ~is_tel(u) /\ ~is_example_domain(u) /\ ~is_unsupported_domain(u)

\* --include has preference over --exclude and the known false positives, and on
\* its own admits nothing else; together with --exclude it only adds.
Wanted(o, u) ==
    /\ Checkable(o, u)
    /\ \/ is_match(o.include, u)
       \/ /\ u \notin FalsePositives /\ ~is_match(o.exclude, u)
          /\ o.include = {} \/ o.exclude # {}
=============================================================================
