---------------------------- MODULE StatusCodes ----------------------------
(***************************************************************************)
(* The status codes that --accept and --cache-exclude-status select: each  *)
(* part of the text is a range (types/accept/range.rs), and the selector   *)
(* takes in one range after the other, merging it with the one it took in  *)
(* last (types/status_code_selector.rs).                                   *)
(***************************************************************************)
EXTENDS Naturals, Sequences

CONSTANTS
    MIN, MAX    \* 100 and 999

VARIABLES
    texts,      \* the parts that have not been read yet
    ranges,     \* the selector
    asked       \* the ranges read so far, for the properties

statusVars == <<texts, ranges, asked>>

ASSUME CodesAssumption == MIN \in Nat /\ MAX \in Nat

StatusRange == {r \in [start : Nat, end : Nat] :
                   MIN <= r.start /\ r.start <= r.end /\ r.end <= MAX}
contains(r, code) == r.start <= code /\ code <= r.end
new_range(start, end) == [start |-> start, end |-> end]
\* InvalidStatusCodeValue and InvalidRangeIndices
Valid(r) == r \in StatusRange

\* A part is "single" with its code in `start`, or a range whose bounds may be left out
\* (a `start` or an `end` of {}), "inclusive" (..=) or "exclusive" (..).  The text without
\* a pattern and the one with a number too large for u16 are a range that is not Valid;
\* so is what `end - 1` makes of 0.
Bound(option, default) == IF option = {} THEN default ELSE CHOOSE n \in option : TRUE
from_str(part) ==
    IF part.kind = "single" THEN new_range(part.code, part.code)
    ELSE new_range(Bound(part.start, MIN),
                   IF part.end = {} THEN MAX
                   ELSE IF part.kind = "inclusive" THEN Bound(part.end, MAX)
                   ELSE IF Bound(part.end, MAX) = 0 THEN MAX + 1
                   ELSE Bound(part.end, MAX) - 1)

EndOverlaps(self, other) == self.end >= other.start /\ other.end >= self.end
StartOverlaps(self, other) == self.start <= other.end /\ other.start <= self.start

Merges_touching(self, other) ==   \* mutant: neighbours count as overlapping, one off
    EndOverlaps([self EXCEPT !.end = self.end + 2], other) \/ StartOverlaps(self, other)
Merges(self, other) == EndOverlaps(self, other) \/ StartOverlaps(self, other)
merge_range(self, other) ==
    IF EndOverlaps(self, other) THEN [self EXCEPT !.end = other.end]
    ELSE [self EXCEPT !.start = other.start]

add_range_replacing(self, r) ==   \* mutant: the new range takes the place of the last one
    IF self # <<>> /\ Merges(self[Len(self)], r)
    THEN [self EXCEPT ![Len(self)] = r]
    ELSE Append(self, r)
add_range(self, r) ==
    IF self # <<>> /\ Merges(self[Len(self)], r)
    THEN [self EXCEPT ![Len(self)] = merge_range(self[Len(self)], r)]
    ELSE Append(self, r)

default_accepted == <<new_range(100, 103), new_range(200, 299)>>

ReadPart ==
    /\ texts # <<>>
    /\ LET r == from_str(Head(texts)) IN
       /\ Valid(r)
       /\ ranges' = add_range(ranges, r)
       /\ asked' = asked \cup {r}
    /\ texts' = Tail(texts)

BadPart == texts # <<>> /\ ~Valid(from_str(Head(texts)))
-----------------------------------------------------------------------------
Selected(code) == \E i \in DOMAIN ranges : contains(ranges[i], code)
Asked(code) == \E r \in asked : contains(r, code)

\* One range begins before another and does not end before it.
Engulfs(r, s) == r.start < s.start /\ s.end <= r.end

\* Whatever order ranges come in and however they are merged, every code selected has
\* been asked for; and every code asked for is selected, unless a range engulfs another
\* one (status_code_selector.rs, add_range).
CodesAsAsked ==
    \A code \in MIN .. MAX :
        /\ Selected(code) => Asked(code)
        /\ Asked(code) /\ (\A r, s \in asked : ~Engulfs(r, s)) => Selected(code)

\* Without the exception: "holds ranges of HTTP status codes, and determines whether a
\* specific code is matched" (status_code_selector.rs:22-23).
AcceptedAsListed == \A code \in MIN .. MAX : Asked(code) => Selected(code)
=============================================================================
