------------------------------- MODULE Status -------------------------------
(***************************************************************************)
(* lychee_lib's Status and CacheStatus, and what the program asks of them. *)
(*                                                                         *)
(* A status is its kind, its HTTP code and whether it came out of lychee's *)
(* cache; a CacheStatus is a kind and a code.  An Error that carries a     *)
(* code is RejectedStatusCode, no other error kind gives one away.         *)
(***************************************************************************)
EXTENDS Naturals

NoCode == 0
StatusCodes == 100 .. 999

Plain(kind, c) == [kind |-> kind, code |-> c, from |-> "check"]

Ok(c) == Plain("Ok", c)
RejectedStatusCode(c) == Plain("Error", c)
Error == Plain("Error", NoCode)
Timeout == Plain("Timeout", NoCode)
UnknownMailStatus == Plain("UnknownMailStatus", NoCode)
Excluded == Plain("Excluded", NoCode)
Unsupported == Plain("Unsupported", NoCode)

CacheStatus(kind, c) == [kind |-> kind, code |-> c]
Cached(cs) == [kind |-> cs.kind, code |-> cs.code, from |-> "cache"]

CacheStatuses ==
    [kind : {"Ok"}, code : StatusCodes]
    \cup [kind : {"Error"}, code : StatusCodes \cup {NoCode}]
    \cup [kind : {"Excluded", "Unsupported"}, code : {NoCode}]

Statuses ==
    [kind : {"Ok"}, code : StatusCodes, from : {"check", "cache"}]
    \cup [kind : {"Error"}, code : StatusCodes \cup {NoCode}, from : {"check", "cache"}]
    \cup [kind : {"Excluded", "Unsupported"}, code : {NoCode}, from : {"check", "cache"}]
    \cup [kind : {"Timeout", "UnknownMailStatus"}, code : {NoCode}, from : {"check"}]

\* The predicates of Status look at the kind, fresh or cached.  An uncertain
\* mail check is neither a success nor an error; a cached timeout is an error.
is_success(s) == s.kind = "Ok"
is_error(s) == s.kind \in {"Error", "Timeout"}
is_timeout(s) == s.kind = "Timeout"
is_excluded(s) == s.kind = "Excluded"
is_unsupported(s) == s.kind = "Unsupported"

\* Status::new: what a response means depends on the accepted codes.
new(c, accepted) == IF c \in accepted THEN Ok(c) ELSE RejectedStatusCode(c)

\* From<ErrorKind>: errors of reqwest are told apart by what they are about.
FromErrorKind(e) ==
    CASE e = "timeout" -> Timeout
      [] e \in {"InvalidUrlHost", "builder", "body", "decode"} -> Unsupported
      [] OTHER -> Error

\* From<&Status> for CacheStatus
ToCacheStatus(s) ==
    CacheStatus(IF s.kind \in {"Timeout", "UnknownMailStatus"} THEN "Error" ELSE s.kind,
                s.code)

\* from_cache_status.  The test of an Ok code is always true (status.rs:112).
from_cache_status(cs, accepted) ==
    IF cs.kind = "Error" /\ cs.code \in accepted
      THEN Cached(CacheStatus("Ok", cs.code))
      ELSE Cached(cs)

(* The cache file holds a code, or a word, or nothing for an Error without   *)
(* code.  Read back, a code is Ok exactly when it is 2xx.                     *)

serialize(cs) ==
    [word |-> IF cs.kind \in {"Ok", "Error"} THEN "" ELSE cs.kind, code |-> cs.code]

deserialize(field) ==
    CASE field.word \in {"Excluded", "Unsupported"} -> CacheStatus(field.word, NoCode)
      [] field.code \in 200 .. 299 -> CacheStatus("Ok", field.code)
      [] OTHER -> CacheStatus("Error", field.code)
=============================================================================
