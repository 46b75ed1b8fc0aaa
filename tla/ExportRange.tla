----------------------------- MODULE ExportRange -----------------------------
(***************************************************************************)
(* What an export contains: the pure part of services/recording_export.py. *)
(* The recordings of a camera that touch the requested range are clipped   *)
(* and gathered into groups that are continuous up to a tolerance; every   *)
(* group is rendered by concatenating its recordings and cutting the       *)
(* result; the groups become one file, one file each, or a ZIP.            *)
(*                                                                         *)
(* Instants are whole seconds and [start, end) is an interval of them.     *)
(***************************************************************************)
EXTENDS Integers, Sequences, FiniteSets, SequencesExt

CONSTANT Tolerance   \* GAP_TOLERANCE_SECONDS

ASSUME ToleranceAssumption == Tolerance \in Nat

\* A row of recordings: [id, start, end, ready, file].  Those that are ready
\* and touch the range become sources, available if the file is there.
Sources(rows, lower, upper) ==
    {r \in rows : r.ready /\ r.start < upper /\ r.end > lower}

Larger(a, b) == IF a >= b THEN a ELSE b
Smaller(a, b) == IF a <= b THEN a ELSE b
Duration(i) == Larger(0, i.end - i.start)
Instants(i) == i.start..(i.end - 1)

Clip(r, lower, upper) ==
    [r EXCEPT !.start = Larger(@, lower), !.end = Smaller(@, upper)]
Clipped(rows, lower, upper) ==
    {c \in {Clip(r, lower, upper) : r \in Sources(rows, lower, upper)} : c.end > c.start}

\* sorted by (start_at, end_at, id)
Earlier(a, b) ==
    \/ a.start < b.start
    \/ a.start = b.start /\ a.end < b.end
    \/ a.start = b.start /\ a.end = b.end /\ a.id < b.id
Sorted(set, before(_, _)) ==
    CHOOSE s \in [1..Cardinality(set) -> set] :
        \A j, k \in 1..Cardinality(set) : j < k => before(s[j], s[k])
InOrder(set) == Sorted(set, Earlier)

\* mutant: the group ends where its latest source ends, not its longest
GatherLatest(slack, intervals, source) ==
    LET last == intervals[Len(intervals)] IN
    IF intervals = <<>> \/ source.start > last.end + slack
    THEN Append(intervals, [start |-> source.start, end |-> source.end, ids |-> {source.id}])
    ELSE [intervals EXCEPT ![Len(intervals)] =
            [start |-> last.start, end |-> source.end, ids |-> last.ids \cup {source.id}]]

\* The last interval grows by what begins at most slack after its end.
Gather(slack, intervals, source) ==
    LET last == intervals[Len(intervals)] IN
    IF intervals = <<>> \/ source.start > last.end + slack
    THEN Append(intervals, [start |-> source.start, end |-> source.end, ids |-> {source.id}])
    ELSE [intervals EXCEPT ![Len(intervals)] =
            [start |-> last.start, end |-> Larger(last.end, source.end),
             ids |-> last.ids \cup {source.id}]]
Groups(rows, lower, upper) ==
    FoldLeft(LAMBDA groups, source : Gather(Tolerance, groups, source), <<>>,
             InOrder({c \in Clipped(rows, lower, upper) : c.file}))

\* _merge_intervals: without a tolerance
Unavailable(rows, lower, upper) ==
    FoldLeft(LAMBDA lost, source : Gather(0, lost, source), <<>>,
             InOrder({c \in Clipped(rows, lower, upper) : ~c.file}))

\* What precedes the first group, lies between two and follows the last; a
\* hole inside the tolerance counts only where the range begins.
Gaps(groups, lower, upper) ==
    LET end(k) == IF k = 0 THEN lower ELSE groups[k].end
        before == {[start |-> end(k - 1), end |-> groups[k].start] : k \in DOMAIN groups} IN
    {g \in before : g.end > g.start /\ (g.start = lower \/ Duration(g) > Tolerance)}
    \cup {g \in {[start |-> end(Len(groups)), end |-> upper]} : g.end > g.start}

-----------------------------------------------------------------------------
(* Rendering.  FFmpeg's concat demuxer plays the whole files one after the  *)
(* other, by their own start; -ss and -t cut what the group asks for.       *)
ByStart(r, s) == r.start < s.start \/ (r.start = s.start /\ r.id < s.id)
Files(rows, group) == {r \in rows : r.id \in group.ids}
Frames(f) == [i \in 1..(f.end - f.start) |-> f.start + i - 1]
Played(rows, group) ==
    FoldLeft(LAMBDA played, f : played \o Frames(f), <<>>,
             Sorted(Files(rows, group), ByStart))

FirstStart(rows, group) ==
    LET files == Files(rows, group) IN
    (CHOOSE r \in files : \A s \in files : r.start <= s.start).start

TrimArgs(rows, group) ==
    [ss |-> Larger(0, group.start - FirstStart(rows, group)), t |-> Duration(group)]
Rendered(rows, group) ==
    LET played == Played(rows, group)
        cut == TrimArgs(rows, group) IN
    SubSeq(played, cut.ss + 1, Smaller(Len(played), cut.ss + cut.t))

-----------------------------------------------------------------------------
(* Packing.  Without a gap there is one file whatever was asked for; a ZIP  *)
(* stands for all groups.  An artifact is [kind, start, end, shows].        *)
EffectivePolicy(gaps, policy) == IF gaps = {} THEN "merge" ELSE policy

Artifacts(rows, lower, upper, policy, package) ==
    LET groups == Groups(rows, lower, upper)
        merged == EffectivePolicy(Gaps(groups, lower, upper), policy) = "merge"
        shown == {k \in DOMAIN groups : Rendered(rows, groups[k]) # <<>>}
        whole(kind) == [kind |-> kind, start |-> groups[1].start,
                        end |-> groups[Len(groups)].end, shows |-> shown] IN
    IF groups = <<>> THEN {}
    ELSE IF merged THEN {whole("mp4")}
    ELSE IF package = "zip" THEN {whole("zip")}
    ELSE {[kind |-> "mp4", start |-> groups[k].start, end |-> groups[k].end,
           shows |-> {k}] : k \in shown}

-----------------------------------------------------------------------------
Covered(intervals) == UNION {Instants(intervals[k]) : k \in DOMAIN intervals}

(* Groups and gaps tile the requested range, footage lies in groups only,   *)
(* each available recording is in one group, and what a group covers       *)
(* without footage is a hole no longer than the tolerance.                  *)
RangeTiled(rows, lower, upper) ==
    LET groups == Groups(rows, lower, upper)
        gaps == Gaps(groups, lower, upper)
        available == {r \in Sources(rows, lower, upper) : r.file}
        seen == UNION {Instants(Clip(r, lower, upper)) : r \in available}
        silent == Covered(groups) \ seen IN
    /\ Covered(groups) \cup UNION {Instants(g) : g \in gaps} = lower..(upper - 1)
    /\ \A g \in gaps : Instants(g) \cap Covered(groups) = {}
    /\ \A j, k \in DOMAIN groups : j < k => groups[j].end + Tolerance < groups[k].start
    /\ seen \subseteq Covered(groups)
    /\ \A r \in available : \E k \in DOMAIN groups :
          \A j \in DOMAIN groups : r.id \in groups[j].ids <=> j = k
    /\ \A t \in silent : ~ (t..(t + Tolerance) \subseteq silent)
    /\ LET lost == Unavailable(rows, lower, upper) IN
       Covered(lost) = UNION {Instants(Clip(r, lower, upper)) :
                              r \in Sources(rows, lower, upper) \ available}

(* A rendered group begins with the instant it is named after, is no longer *)
(* than its interval and shows only what its recordings show.  It shows     *)
(* exactly its interval, once and in order, when its recordings neither     *)
(* overlap nor leave a hole.                                                *)
GroupsRendered(rows, lower, upper) ==
    LET groups == Groups(rows, lower, upper) IN
    \A k \in DOMAIN groups :
        LET g == groups[k]
            files == Files(rows, g)
            shown == Rendered(rows, g)
            apart == \A r, s \in files : r # s => r.end <= s.start \/ s.end <= r.start
            whole == Instants(g) \subseteq UNION {Instants(r) : r \in files} IN
        /\ shown # <<>> /\ Len(shown) <= Duration(g) /\ shown[1] = g.start
        /\ ToSet(shown) \subseteq UNION {Instants(r) : r \in files}
        /\ apart /\ whole => shown = [i \in 1..Duration(g) |-> g.start + i - 1]

(* Whatever is asked for, every group is in exactly one artifact, and an    *)
(* artifact spans the groups it shows.                                      *)
NothingUnpacked(rows, lower, upper) ==
    LET groups == Groups(rows, lower, upper) IN
    \A policy \in {"merge", "split"}, package \in {"individual", "zip"} :
        LET made == Artifacts(rows, lower, upper, policy, package) IN
        /\ \A k \in DOMAIN groups : \E a \in made :
              /\ \A b \in made : k \in b.shows <=> b = a
              /\ a.start <= groups[k].start /\ groups[k].end <= a.end
        /\ package = "individual" => \A a \in made : a.kind = "mp4"
=============================================================================
