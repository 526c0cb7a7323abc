---- MODULE Coverage ----
(***************************************************************************)
(* The pure functions tiering decides with: merge_intervals and is_covered *)
(* (is a chunk wholly in cold?), select_overlapping (which objects does a  *)
(* query read?), on every list of ranges over a small time line.           *)
(*                                                                         *)
(* Instants are numbers; a range is [lo, hi] for merged and staging        *)
(* objects, whose hi is the time of their last row, and [lo, hi) for       *)
(* exports and chunks.  The code keeps both in the same two columns.       *)
(***************************************************************************)
EXTENDS Naturals, Sequences, Ranges

CONSTANTS
    MaxTime,        \* bound: instants are 0..MaxTime
    MaxObjects      \* bound: length of the list of ranges

ASSUME CoverageBounds == MaxTime \in Nat \ {0} /\ MaxObjects \in Nat

VARIABLES
    objects,    \* sequence of the ranges in the manifest, in query order
    verdict     \* what the code answers about a window; <<>> until asked

coverageVars == <<objects, verdict>>

Time == 0..MaxTime
Interval == {r \in [lo : Time, hi : Time] : r.lo <= r.hi}

-----------------------------------------------------------------------------
(* merge_intervals                                                         *)

(* Order of Python tuples.                                                 *)
Before(a, b) == a.lo < b.lo \/ (a.lo = b.lo /\ a.hi <= b.hi)

Orders(n) == {p \in [1..n -> 1..n] : \A j \in 1..n : \E i \in 1..n : p[i] = j}

Sorts(p, s) == \A i, j \in 1..Len(s) : i < j => Before(s[p[i]], s[p[j]])

Sorted(s) ==
    LET p == CHOOSE q \in Orders(Len(s)) : Sorts(q, s)
    IN  [i \in 1..Len(s) |-> s[p[i]]]

Larger(a, b) == IF a < b THEN b ELSE a

(* Mutant of MergeInto: the later end wins, not the larger one.            *)
MergeLastEnd(out, r) ==
    IF out # <<>> /\ r.lo <= out[Len(out)].hi
    THEN [out EXCEPT ![Len(out)] = [lo |-> @.lo, hi |-> r.hi]]
    ELSE Append(out, r)

MergeInto(out, r) ==
    IF out # <<>> /\ r.lo <= out[Len(out)].hi
    THEN [out EXCEPT ![Len(out)] = [lo |-> @.lo, hi |-> Larger(@.hi, r.hi)]]
    ELSE Append(out, r)

(* What out is after each turn of the loop over sorted ranges.             *)
MergeLoop(sorted) ==
    LET out[n \in 0..Len(sorted)] ==
            IF n = 0 THEN <<>> ELSE MergeInto(out[n - 1], sorted[n])
    IN  out

merge_intervals(s) == MergeLoop(Sorted(s))[Len(s)]

-----------------------------------------------------------------------------
(* is_covered                                                              *)

(* One turn of the loop; it has returned once answer is set.               *)
Advance(st, r, ce) ==
    LET cursor == Larger(st.cursor, r.hi)
    IN  IF st.answer # "none" THEN st
        ELSE IF r.lo > st.cursor THEN [st EXCEPT !.answer = "no"]
        ELSE [cursor |-> cursor, answer |-> IF cursor >= ce THEN "yes" ELSE "none"]

CursorLoop(cs, ce, merged) ==
    LET st[n \in 0..Len(merged)] ==
            IF n = 0 THEN [cursor |-> cs, answer |-> "none"]
            ELSE Advance(st[n - 1], merged[n], ce)
    IN  st

is_covered(cs, ce, s) ==
    LET merged == merge_intervals(s)
        end == CursorLoop(cs, ce, merged)[Len(merged)]
    IN  end.answer = "yes" \/ (end.answer = "none" /\ end.cursor >= ce)

-----------------------------------------------------------------------------
(* select_overlapping                                                      *)

(* Mutant of Overlaps: the object's range is taken as half open.           *)
OverlapsHalfOpen(r, w) == ~ (r.hi <= w.from) /\ ~ (r.lo > w.to)

Overlaps(r, w) == ~ (r.hi < w.from) /\ ~ (r.lo > w.to)

select_overlapping(s, w) ==
    LET kept[n \in 0..Len(s)] ==
            IF n = 0 THEN <<>>
            ELSE IF Overlaps(s[n], w) THEN Append(kept[n - 1], s[n])
            ELSE kept[n - 1]
    IN  kept[Len(s)]

-----------------------------------------------------------------------------
CoverageInit == objects = <<>> /\ verdict = <<>>

(* The manifest gains a row.                                               *)
Record(r) ==
    /\ verdict = <<>>
    /\ Len(objects) < MaxObjects
    /\ objects' = Append(objects, r)
    /\ UNCHANGED verdict

(* An eviction asks for the chunk w, or a query for the window w.          *)
Ask(w) ==
    /\ verdict = <<>>
    /\ verdict' = [window |-> w,
                   covered |-> is_covered(w.from, w.to, objects),
                   kept |-> select_overlapping(objects, w)]
    /\ UNCHANGED objects

Windows == {w \in [from : Time, to : Time] : w.from < w.to}

CoverageNext == (\E r \in Interval : Record(r)) \/ (\E w \in Windows : Ask(w))

CoverageSpec == CoverageInit /\ [][CoverageNext]_coverageVars

-----------------------------------------------------------------------------
Asked == verdict # <<>>
window == verdict.window
Objects == {objects[j] : j \in 1..Len(objects)}

(* The sort, the merge and the cursor with its two early returns decide    *)
(* exactly whether the recorded ranges leave no instant of the chunk out,  *)
(* for ranges in any order, nested, touching, empty or repeated.           *)
CoveredIffNoGap == Asked => (verdict.covered <=> CoveredBy(window.from, window.to, Objects))

(* Partition pruning never drops an object with a row in the query window: *)
(* both ends of the window and both ends of the object's range count.      *)
PruningKeepsRows ==
    Asked => \A r \in Objects :
        (\E t \in Time : r.lo <= t /\ t <= r.hi /\ window.from <= t /\ t <= window.to)
            => \E j \in 1..Len(verdict.kept) : verdict.kept[j] = r
====
