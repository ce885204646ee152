------------------------------ MODULE SceneAnalyzer ------------------------------
(***************************************************************************)
(* SceneAnalyzer of server/capture/scene_analyzer.cpp: the dirty           *)
(* rectangles of a frame are merged until no two of them intersect, and    *)
(* the area they cover decides whether the frame is idle and whether it    *)
(* calls for a keyframe.  A step handles one rectangle of the first pass,  *)
(* or one pair of the passes that follow.  Percentages are exact here and  *)
(* rounded to 24 bits in the code.                                         *)
(***************************************************************************)
EXTENDS Integers, Sequences, FiniteSets

CONSTANTS
    FrameWidth, FrameHeight,    \* the size of the frame
    Threshold,                  \* keyframe_threshold_, in percent (80 unless it is set)
    IdleParts,                  \* a frame is idle below 1/IdleParts of its area (10 000)
    Frames                      \* the lists of dirty rectangles that occur

Rect ==
    {r \in [left : 0..FrameWidth, right : 0..FrameWidth,
            top : 0..FrameHeight, bottom : 0..FrameHeight] :
        r.left < r.right /\ r.top < r.bottom}

ASSUME SceneAssumption ==
    /\ {FrameWidth, FrameHeight, IdleParts} \subseteq Nat \ {0}
    /\ Threshold \in 0..100
    /\ Frames \subseteq Seq(Rect)

VARIABLES
    dirty,      \* dirty_rects of the frame
    spc,        \* where analyze is: "idle", "absorb", "compare" or "done"
    fed,        \* rectangles of dirty the first pass has taken
    merged,     \* the merged list
    row, col,   \* the pair the later passes compare next
    changed,    \* whether the pass has merged anything
    verdict     \* the result: is_idle and trigger_keyframe

sceneVars == <<dirty, spc, fed, merged, row, col, changed, verdict>>
passVars == <<row, col, changed>>

SceneTypeOK ==
    /\ dirty \in Seq(Rect)
    /\ spc \in {"idle", "absorb", "compare", "done"}
    /\ fed \in 0..Len(dirty)
    /\ merged \in Seq(Rect)
    /\ row \in Nat \ {0}
    /\ col \in Nat \ {0}
    /\ changed \in BOOLEAN
    /\ verdict \in [idle : BOOLEAN, keyframe : BOOLEAN]

SceneInit ==
    /\ dirty = <<>>
    /\ spc = "idle"
    /\ fed = 0
    /\ merged = <<>>
    /\ row = 1
    /\ col = 2
    /\ changed = FALSE
    /\ verdict = [idle |-> FALSE, keyframe |-> FALSE]

--------------------------------------------------------------------------------
(* Rectangles *)

Lower(x, y) == IF x <= y THEN x ELSE y
Upper(x, y) == IF x <= y THEN y ELSE x

\* Mutant: rectangles that overlap in one direction only are taken for disjoint.
Bug_IntersectByCorner(a, b) ==
    /\ b.left \in a.left..(a.right - 1)
    /\ b.top \in a.top..(a.bottom - 1)

RectsIntersect(a, b) ==
    ~(a.right <= b.left \/ a.left >= b.right \/ a.bottom <= b.top \/ a.top >= b.bottom)

\* The smallest rectangle that holds both.
MergeRects(a, b) ==
    [left |-> Lower(a.left, b.left), right |-> Upper(a.right, b.right),
     top |-> Lower(a.top, b.top), bottom |-> Upper(a.bottom, b.bottom)]

AreaOf(r) == (r.right - r.left) * (r.bottom - r.top)

\* calculate_area
Area(s) ==
    LET sum[k \in 0..Len(s)] == IF k = 0 THEN 0 ELSE sum[k - 1] + AreaOf(s[k])
    IN  sum[Len(s)]

\* merged.erase
Erase(s, k) == [n \in 1..(Len(s) - 1) |-> IF n < k THEN s[n] ELSE s[n + 1]]

TotalArea == FrameWidth * FrameHeight

--------------------------------------------------------------------------------
(* analyze and merge_rects *)

\* A frame without dirty rectangles is idle.
AnalyzeEmpty ==
    /\ spc = "idle"
    /\ <<>> \in Frames
    /\ dirty' = <<>>
    /\ merged' = <<>>
    /\ fed' = 0
    /\ spc' = "done"
    /\ verdict' = [idle |-> TRUE, keyframe |-> FALSE]
    /\ UNCHANGED passVars

AnalyzeBegins ==
    /\ spc = "idle"
    /\ dirty' \in Frames \ {<<>>}
    /\ merged' = <<>>
    /\ fed' = 0
    /\ spc' = "absorb"
    /\ UNCHANGED <<passVars, verdict>>

\* First pass: the next rectangle is absorbed by the first that it intersects.
Absorbed ==
    /\ spc = "absorb"
    /\ fed < Len(dirty)
    /\ \E k \in DOMAIN merged :
          /\ RectsIntersect(merged[k], dirty[fed + 1])
          /\ \A h \in 1..(k - 1) : ~RectsIntersect(merged[h], dirty[fed + 1])
          /\ merged' = [merged EXCEPT ![k] = MergeRects(@, dirty[fed + 1])]
    /\ fed' = fed + 1
    /\ UNCHANGED <<dirty, spc, passVars, verdict>>

\* ... or kept apart.
KeptApart ==
    /\ spc = "absorb"
    /\ fed < Len(dirty)
    /\ \A k \in DOMAIN merged : ~RectsIntersect(merged[k], dirty[fed + 1])
    /\ merged' = Append(merged, dirty[fed + 1])
    /\ fed' = fed + 1
    /\ UNCHANGED <<dirty, spc, passVars, verdict>>

PassBegins ==
    /\ row' = 1
    /\ col' = 2
    /\ changed' = FALSE

AbsorbEnds ==
    /\ spc = "absorb"
    /\ fed = Len(dirty)
    /\ spc' = "compare"
    /\ PassBegins
    /\ UNCHANGED <<dirty, fed, merged, verdict>>

\* Later passes: a pair that intersects becomes one rectangle, and the next one takes
\* the place of the one erased.
PairMerged ==
    /\ spc = "compare"
    /\ row < col
    /\ col <= Len(merged)
    /\ RectsIntersect(merged[row], merged[col])
    /\ merged' = Erase([merged EXCEPT ![row] = MergeRects(@, merged[col])], col)
    /\ changed' = TRUE
    /\ UNCHANGED <<dirty, spc, fed, row, col, verdict>>

PairKept ==
    /\ spc = "compare"
    /\ row < col
    /\ col <= Len(merged)
    /\ ~RectsIntersect(merged[row], merged[col])
    /\ col' = col + 1
    /\ UNCHANGED <<dirty, spc, fed, merged, row, changed, verdict>>

RowEnds ==
    /\ spc = "compare"
    /\ row <= Len(merged)
    /\ col > Len(merged)
    /\ row' = row + 1
    /\ col' = row + 2
    /\ UNCHANGED <<dirty, spc, fed, merged, changed, verdict>>

\* A pass that has merged something is followed by another.
PassRepeats ==
    /\ spc = "compare"
    /\ row > Len(merged)
    /\ changed
    /\ PassBegins
    /\ UNCHANGED <<dirty, spc, fed, merged, verdict>>

\* Mutant: a single pass over the pairs.
Bug_AnalyzeEndsAfterOnePass ==
    /\ spc = "compare"
    /\ row > Len(merged)
    /\ spc' = "done"
    /\ verdict' = [idle |-> Area(merged) * IdleParts < TotalArea,
                   keyframe |-> Area(merged) * 100 >= Threshold * TotalArea]
    /\ UNCHANGED <<dirty, fed, merged, passVars>>

AnalyzeEnds ==
    /\ spc = "compare"
    /\ row > Len(merged)
    /\ ~changed
    /\ spc' = "done"
    /\ verdict' = [idle |-> Area(merged) * IdleParts < TotalArea,
                   keyframe |-> Area(merged) * 100 >= Threshold * TotalArea]
    /\ UNCHANGED <<dirty, fed, merged, passVars>>

\* The caller takes the result, and the lists go.
AnalyzeTaken ==
    /\ spc = "done"
    /\ spc' = "idle"
    /\ dirty' = <<>>
    /\ merged' = <<>>
    /\ fed' = 0
    /\ verdict' = [idle |-> FALSE, keyframe |-> FALSE]
    /\ PassBegins

Merging ==
    \/ Absorbed \/ KeptApart \/ AbsorbEnds
    \/ PairMerged \/ PairKept \/ RowEnds \/ PassRepeats

SceneNext == AnalyzeEmpty \/ AnalyzeBegins \/ Merging \/ AnalyzeEnds \/ AnalyzeTaken

SceneSpec == SceneInit /\ [][SceneNext]_sceneVars

--------------------------------------------------------------------------------
(* Properties *)

Inside(a, b) ==
    b.left <= a.left /\ a.right <= b.right /\ b.top <= a.top /\ a.bottom <= b.bottom

\* The pixels of a rectangle.
Cells(r) == (r.left..(r.right - 1)) \X (r.top..(r.bottom - 1))

\* The number of dirty pixels, whatever rectangles overlap: the reference for analyze.
DirtyArea == Cardinality(UNION {Cells(dirty[k]) : k \in DOMAIN dirty})

\* Nothing dirty is lost: each of the rectangles that have been fed lies in a merged one.
MergedCovers ==
    \A k \in 1..fed : \E m \in DOMAIN merged : Inside(dirty[k], merged[m])

\* Nothing is counted twice: no two merged rectangles have a point in common.
MergedDisjoint ==
    \A a, b \in DOMAIN merged : a # b => ~RectsIntersect(merged[a], merged[b])

\* What analyze is left with covers all that is dirty and overlaps nowhere, although a
\* merged pair may have grown into a rectangle that was compared with both before.
MergedSound == spc = "done" => fed = Len(dirty) /\ MergedCovers /\ MergedDisjoint

\* Merged rectangles enlarge what is dirty and never exceed the frame, so a frame whose
\* dirty pixels reach the threshold calls for a keyframe, and one called idle is dirty below
\* 1/IdleParts.  This is what the code makes of its two bounds; the header draws both
\* elsewhere, see IdleOnlyIfClean and KeyframeOnlyAbove.
VerdictSound ==
    spc = "done" =>
        /\ DirtyArea <= Area(merged)
        /\ Area(merged) <= TotalArea
        /\ DirtyArea > 0 /\ DirtyArea * 100 >= Threshold * TotalArea => verdict.keyframe
        /\ verdict.idle => DirtyArea * IdleParts < TotalArea

\* Promised and false, the header of is_idle, "True if dirty_percent == 0.0": an idle frame
\* is a clean one.
IdleOnlyIfClean == spc = "done" /\ verdict.idle => DirtyArea = 0

\* Promised and false, the header of trigger_keyframe, "True if dirty_percent > 80%": not
\* exactly at the threshold.
KeyframeOnlyAbove ==
    spc = "done" /\ verdict.keyframe => Area(merged) * 100 > Threshold * TotalArea
================================================================================
