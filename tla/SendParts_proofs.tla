------------------------------ MODULE SendParts_proofs ------------------------------
(***************************************************************************)
(* The parts of the server between capture and transport, for every value  *)
(* of their constants.  They share no variable; a theorem about one does   *)
(* not mention the others.                                                 *)
(*                                                                         *)
(* SceneAnalyzer: what analyze is left with covers all that is dirty and   *)
(* overlaps nowhere.  The second half needs what a pass that has not       *)
(* merged anything has established so far: all pairs of the rows it has    *)
(* left, and the pairs of its row before the present one, are disjoint.    *)
(* From there to the verdict: cells of disjoint rectangles add up, and the *)
(* area of what covers all that is dirty is no less.                       *)
(*                                                                         *)
(* AdaptiveController: a client waits at most MaxGop frames for each       *)
(* keyframe it misses (those asked for by a change of codec are never      *)
(* sent), and is never sent a stream it cannot decode.                     *)
(*                                                                         *)
(* PacketPacer: never more is sent than rate and burst allow.  BurstBounded *)
(* speaks of the tokens already counted; what is inductive also speaks of  *)
(* those that the next refill will find.                                   *)
(*                                                                         *)
(* FecEncoder: any one loss among the packets of a block is what the       *)
(* others and a parity packet add up to.  More losses are not determined.  *)
(*                                                                         *)
(* Areas and parities are sums over lists, defined by recursive functions. *)
(* RecursionExists says that such a definition has a solution, and         *)
(* InductionUpto carries what holds of its first value to its last.        *)
(***************************************************************************)
EXTENDS SceneAnalyzer, AdaptiveController, PacketPacer, FecEncoder, FiniteSetTheorems,
        WellFoundedInduction, TLAPS

--------------------------------------------------------------------------------
(* Arithmetic *)

\* Products of natural numbers are natural numbers, and grow with their factors.
LEMMA ProductType == \A m, n \in Nat : m * n \in Nat
  OBVIOUS

LEMMA ProductGrows == \A m, n, k \in Nat : m <= n => m * k <= n * k
  OBVIOUS

LEMMA ProductOfSum == \A m, n, k \in Int : (m + n) * k = m * k + n * k
  OBVIOUS

LEMMA ProductOfDifference == \A m, n, k \in Int : (m - n) * k = m * k - n * k
  OBVIOUS

\* A division rounds down.
LEMMA QuotientRoundsDown ==
    ASSUME NEW m \in Nat, NEW k \in Nat \ {0}
    PROVE  m \div k \in Nat /\ (m \div k) * k <= m
  OBVIOUS

--------------------------------------------------------------------------------
(* Sums over lists *)

\* A set of natural numbers has a least one: the intervals that end in its members are
\* finite sets, and inclusion is well-founded on those.
LEMMA LeastNumber ==
    ASSUME NEW T \in SUBSET Nat, T # {}
    PROVE  \E m \in T : \A n \in T : m <= n
<1> DEFINE U == {1..n : n \in T}
           R == StrictSubsetOrdering(Nat)
<1>1. U \subseteq FiniteSubsetsOf(Nat)
  <2> SUFFICES ASSUME NEW n \in T
               PROVE  1..n \in FiniteSubsetsOf(Nat)
    OBVIOUS
  <2>1. IsFiniteSet(1..n)
    BY FS_Interval
  <2> QED
    BY <2>1 DEF FiniteSubsetsOf
<1>2. IsWellFoundedOn(R, FiniteSubsetsOf(Nat))
  BY FS_StrictSubsetOrderingWellFounded
<1>3. U # {}
  OBVIOUS
<1>4. PICK x \in U : \A y \in U : ~(<<y, x>> \in R)
  <2> HIDE DEF U, R
  <2> QED
    BY <1>1, <1>2, <1>3, WFMin
<1>5. PICK m \in T : x = 1..m
  OBVIOUS
<1>6. ASSUME NEW n \in T, n < m
      PROVE  FALSE
  <2>1. 1..n \subseteq 1..m /\ m \in 1..m /\ m \notin 1..n
    BY <1>6
  <2>2. <<1..n, 1..m>> \in R
    BY <2>1 DEF StrictSubsetOrdering
  <2> QED
    BY <1>4, <1>5, <2>2
<1> QED
  BY <1>6

\* Induction over 0..N, for the numbers of which something holds.
LEMMA InductionUpto ==
    ASSUME NEW N \in Nat, NEW G, 0 \in G,
           \A k \in 1..N : k - 1 \in G => k \in G
    PROVE  \A k \in 0..N : k \in G
<1> DEFINE T == {k \in 0..N : k \notin G}
<1>1. CASE T # {}
  <2>1. T \subseteq Nat
    OBVIOUS
  <2>2. PICK m \in T : \A n \in T : m <= n
    <3> HIDE DEF T
    <3> QED
      BY <1>1, <2>1, LeastNumber
  <2>3. m \in 0..N /\ m \notin G
    BY <2>2
  <2>4. m \in 1..N /\ m - 1 \in 0..N /\ ~(m <= m - 1)
    BY <2>3
  <2>5. m - 1 \notin T
    <3> HIDE DEF T
    <3> QED
      BY <2>2, <2>4
  <2> QED
    BY <2>3, <2>4, <2>5
<1> QED
  BY <1>1

\* What a recursive function over 0..N says of itself has a solution.
LEMMA RecursionExists ==
    ASSUME NEW N \in Nat, NEW g \in [(1..N) \X Int -> Int]
    PROVE  \E f \in [0..N -> Int] :
               f[0] = 0 /\ \A k \in 1..N : f[k] = g[<<k, f[k - 1]>>]
<1> DEFINE Solves(f, n) == f[0] = 0 /\ \A k \in 1..n : f[k] = g[<<k, f[k - 1]>>]
           G == {n \in 0..N : \E f \in [0..n -> Int] : Solves(f, n)}
<1>1. 0 \in G
  <2> DEFINE f == [k \in 0..0 |-> 0]
  <2>1. f \in [0..0 -> Int] /\ Solves(f, 0)
    OBVIOUS
  <2> HIDE DEF f
  <2>2. \E x \in [0..0 -> Int] : Solves(x, 0)
    BY <2>1
  <2> QED
    BY <2>2
<1>2. ASSUME NEW m \in 1..N, m - 1 \in G
      PROVE  m \in G
  <2>1. PICK f \in [0..(m - 1) -> Int] : Solves(f, m - 1)
    BY <1>2
  <2> DEFINE h == [k \in 0..m |-> IF k = m THEN g[<<m, f[m - 1]>>] ELSE f[k]]
  <2>2. f[m - 1] \in Int /\ g[<<m, f[m - 1]>>] \in Int
    BY <2>1
  <2>3. h \in [0..m -> Int]
    BY <2>1, <2>2
  <2>4. h[0] = 0
    BY <2>1
  <2>5. ASSUME NEW k \in 1..m
        PROVE  h[k] = g[<<k, h[k - 1]>>]
    <3>1. h[k - 1] = f[k - 1]
      OBVIOUS
    <3>2. CASE k = m
      <4>1. h[m] = g[<<m, f[m - 1]>>]
        OBVIOUS
      <4> HIDE DEF h
      <4> QED
        BY <3>1, <3>2, <4>1
    <3>3. CASE k # m
      <4>1. h[k] = f[k] /\ k \in 1..(m - 1)
        BY <3>3
      <4> QED
        BY <2>1, <3>1, <4>1
    <3> QED
      BY <3>2, <3>3
  <2>6. Solves(h, m)
    BY <2>4, <2>5
  <2> HIDE DEF h
  <2>7. \E x \in [0..m -> Int] : Solves(x, m)
    BY <2>3, <2>6
  <2>8. m \in 0..N
    OBVIOUS
  <2> QED
    BY <2>7, <2>8
<1>3. N \in G
  <2>1. N \in 0..N
    OBVIOUS
  <2> HIDE DEF G
  <2> QED
    BY <1>1, <1>2, <2>1, InductionUpto
<1> QED
  BY <1>3

--------------------------------------------------------------------------------
(***************************************************************************)
(* SceneAnalyzer                                                           *)
(***************************************************************************)

\* All rectangles have been fed when the passes over the pairs begin.
AllFed == spc \in {"compare", "done"} => fed = Len(dirty)

\* What an uninterrupted pass knows of the pairs it has compared.
Compared ==
    spc = "compare" /\ ~changed =>
        /\ \A a, b \in DOMAIN merged :
               a < row /\ a < b => ~RectsIntersect(merged[a], merged[b])
        /\ \A b \in DOMAIN merged :
               row < b /\ b < col => ~RectsIntersect(merged[row], merged[b])

SceneInv ==
    /\ SceneTypeOK
    /\ row < col
    /\ AllFed
    /\ MergedCovers
    /\ Compared
    /\ spc = "done" => MergedDisjoint

--------------------------------------------------------------------------------
(* Rectangles and lists of them *)

\* The sides of a rectangle are positions in the frame.
LEMMA RectSides ==
    \A r \in Rect :
        /\ r.left \in 0..FrameWidth /\ r.right \in 0..FrameWidth /\ r.left < r.right
        /\ r.top \in 0..FrameHeight /\ r.bottom \in 0..FrameHeight /\ r.top < r.bottom
        /\ {r.left, r.right, r.top, r.bottom} \subseteq Int
<1>1. FrameWidth \in Nat /\ FrameHeight \in Nat
  BY SceneAssumption
<1> QED
  BY <1>1 DEF Rect

\* Whether two rectangles meet does not depend on their order.
LEMMA MeetingIsMutual ==
    \A a, b \in Rect : RectsIntersect(a, b) <=> RectsIntersect(b, a)
<1> TAKE a, b \in Rect
<1>1. {a.left, a.right, a.top, a.bottom, b.left, b.right, b.top, b.bottom} \subseteq Int
  BY RectSides
<1> QED
  BY <1>1 DEF RectsIntersect

\* The lesser and the greater of two positions are positions up to the same limit, and
\* lie on the sides they should.
LEMMA Between ==
    ASSUME NEW n \in Nat, NEW x \in 0..n, NEW y \in 0..n
    PROVE  /\ Lower(x, y) \in 0..n /\ Upper(x, y) \in 0..n
           /\ Lower(x, y) <= x /\ Lower(x, y) <= y
           /\ x <= Upper(x, y) /\ y <= Upper(x, y)
  BY DEF Lower, Upper

\* Two rectangles merged are a rectangle of the frame, in which both lie.
LEMMA MergeHolds ==
    ASSUME NEW a \in Rect, NEW b \in Rect
    PROVE  /\ MergeRects(a, b) \in Rect
           /\ Inside(a, MergeRects(a, b))
           /\ Inside(b, MergeRects(a, b))
<1>1. FrameWidth \in Nat /\ FrameHeight \in Nat
  BY SceneAssumption
<1> DEFINE m == MergeRects(a, b)
           l == Lower(a.left, b.left)
           r == Upper(a.right, b.right)
           t == Lower(a.top, b.top)
           u == Upper(a.bottom, b.bottom)
<1>2. /\ a.left \in 0..FrameWidth /\ a.right \in 0..FrameWidth /\ a.left < a.right
      /\ a.top \in 0..FrameHeight /\ a.bottom \in 0..FrameHeight /\ a.top < a.bottom
      /\ b.left \in 0..FrameWidth /\ b.right \in 0..FrameWidth
      /\ b.top \in 0..FrameHeight /\ b.bottom \in 0..FrameHeight
  BY RectSides
<1>3. l \in 0..FrameWidth /\ l <= a.left /\ l <= b.left
  BY <1>1, <1>2, Between
<1>4. r \in 0..FrameWidth /\ a.right <= r /\ b.right <= r
  BY <1>1, <1>2, Between
<1>5. t \in 0..FrameHeight /\ t <= a.top /\ t <= b.top
  BY <1>1, <1>2, Between
<1>6. u \in 0..FrameHeight /\ a.bottom <= u /\ b.bottom <= u
  BY <1>1, <1>2, Between
<1> HIDE DEF l, r, t, u
<1>7. l < r /\ t < u
  BY <1>1, <1>2, <1>3, <1>4, <1>5, <1>6
<1>8. m = [left |-> l, right |-> r, top |-> t, bottom |-> u]
  BY DEF MergeRects, l, r, t, u
<1> HIDE DEF m
<1>9. m \in Rect
  BY <1>3, <1>4, <1>5, <1>6, <1>7, <1>8 DEF Rect
<1>10. Inside(a, m) /\ Inside(b, m)
  BY <1>3, <1>4, <1>5, <1>6, <1>8 DEF Inside
<1> QED
  BY <1>9, <1>10 DEF m

\* Inside is a preorder.
LEMMA InsideItself == \A a \in Rect : Inside(a, a)
  BY RectSides DEF Inside

LEMMA InsideTransitive ==
    ASSUME NEW a \in Rect, NEW b \in Rect, NEW c \in Rect, Inside(a, b), Inside(b, c)
    PROVE  Inside(a, c)
<1>1. /\ {a.left, a.right, a.top, a.bottom} \subseteq Int
      /\ {b.left, b.right, b.top, b.bottom} \subseteq Int
      /\ {c.left, c.right, c.top, c.bottom} \subseteq Int
  BY RectSides
<1> QED
  BY <1>1 DEF Inside

\* The list without one of its elements.
LEMMA EraseShape ==
    ASSUME NEW s \in Seq(Rect), NEW k \in 1..Len(s)
    PROVE  /\ Erase(s, k) \in Seq(Rect)
           /\ Len(Erase(s, k)) = Len(s) - 1
           /\ \A n \in 1..(Len(s) - 1) :
                 Erase(s, k)[n] = IF n < k THEN s[n] ELSE s[n + 1]
<1>1. Len(s) \in Nat /\ \A n \in 1..Len(s) : s[n] \in Rect
  OBVIOUS
<1> DEFINE e == Erase(s, k)
           last == Len(s) - 1
<1>2. last \in Nat
  BY <1>1
<1>3. \A n \in 1..last : n \in 1..Len(s) /\ n + 1 \in 1..Len(s)
  BY <1>1
<1>4. e = [n \in 1..last |-> IF n < k THEN s[n] ELSE s[n + 1]]
  BY DEF Erase
<1>5. e \in [1..last -> Rect]
  BY <1>1, <1>3, <1>4
<1> HIDE DEF e, last
<1>6. e \in Seq(Rect)
  BY <1>2, <1>5
<1>7. Len(e) = last
  BY <1>2, <1>5, <1>6
<1> QED
  BY <1>4, <1>6, <1>7 DEF e, last

\* Every rectangle of the list s lies in one of the list t.
Within(s, t) == \A p \in DOMAIN s : \E q \in DOMAIN t : Inside(s[p], t[q])

\* What lies in a rectangle of s lies in one of t.
LEMMA CoverCarried ==
    ASSUME NEW s \in Seq(Rect), NEW t \in Seq(Rect), Within(s, t),
           NEW r \in Rect, NEW p \in DOMAIN s, Inside(r, s[p])
    PROVE  \E q \in DOMAIN t : Inside(r, t[q])
<1>1. PICK q \in DOMAIN t : Inside(s[p], t[q])
  BY DEF Within
<1>2. s[p] \in Rect /\ t[q] \in Rect
  OBVIOUS
<1>3. Inside(r, t[q])
  BY <1>1, <1>2, InsideTransitive
<1> QED
  BY <1>3

\* The list with r merged into its k-th rectangle.
MergedInto(s, k, r) == [s EXCEPT ![k] = MergeRects(@, r)]

\* What that does to the list.
LEMMA MergeAt ==
    ASSUME NEW s \in Seq(Rect), NEW k \in DOMAIN s, NEW r \in Rect
    PROVE  LET t == MergedInto(s, k, r)
           IN  /\ t \in Seq(Rect) /\ Len(t) = Len(s) /\ DOMAIN t = DOMAIN s
               /\ Within(s, t)
               /\ \A p \in DOMAIN s : Inside(s[p], t[p])
               /\ Inside(r, t[k])
<1> DEFINE t == MergedInto(s, k, r)
<1>1. s[k] \in Rect
  OBVIOUS
<1>2. /\ MergeRects(s[k], r) \in Rect
      /\ Inside(s[k], MergeRects(s[k], r)) /\ Inside(r, MergeRects(s[k], r))
  BY <1>1, MergeHolds
<1>3. t \in Seq(Rect) /\ Len(t) = Len(s) /\ DOMAIN t = DOMAIN s
  BY <1>2 DEF MergedInto
<1>4. t[k] = MergeRects(s[k], r) /\ \A n \in DOMAIN s : n # k => t[n] = s[n]
  BY DEF MergedInto
<1> HIDE DEF t
<1>5. ASSUME NEW p \in DOMAIN s
      PROVE  Inside(s[p], t[p])
  <2>1. s[p] \in Rect
    OBVIOUS
  <2>2. CASE p = k
    BY <1>2, <1>4, <2>2
  <2>3. CASE p # k
    BY <1>4, <2>1, <2>3, InsideItself
  <2> QED
    BY <2>2, <2>3
<1>6. Within(s, t)
  BY <1>3, <1>5 DEF Within
<1> QED
  BY <1>2, <1>3, <1>4, <1>5, <1>6 DEF t

\* Merging the rectangle at c into the one at k before it, and erasing it.
LEMMA MergePair ==
    ASSUME NEW s \in Seq(Rect), NEW k \in 1..Len(s), NEW c \in 1..Len(s), k < c,
           NEW t, t = Erase(MergedInto(s, k, s[c]), c)
    PROVE  t \in Seq(Rect) /\ Within(s, t)
<1> DEFINE u == MergedInto(s, k, s[c])
<1>1. s[c] \in Rect /\ DOMAIN s = 1..Len(s)
  OBVIOUS
<1>2. /\ u \in Seq(Rect) /\ Len(u) = Len(s)
      /\ Inside(s[c], u[k])
      /\ \A p \in DOMAIN s : Inside(s[p], u[p])
  BY <1>1, MergeAt
<1> HIDE DEF u
<1>3. /\ t \in Seq(Rect) /\ Len(t) = Len(s) - 1
      /\ \A n \in 1..(Len(s) - 1) : t[n] = IF n < c THEN u[n] ELSE u[n + 1]
  BY <1>2, EraseShape DEF u
<1>4. Len(s) \in Nat /\ DOMAIN t = 1..(Len(s) - 1) /\ DOMAIN u = 1..Len(s)
  BY <1>2, <1>3
<1>5. k \in DOMAIN t /\ t[k] = u[k]
  BY <1>3, <1>4
<1>6. ASSUME NEW q \in 1..Len(s), q # c
      PROVE  \E n \in DOMAIN t : t[n] = u[q]
  <2>1. CASE q < c
    <3>1. q \in 1..(Len(s) - 1)
      BY <1>4, <2>1
    <3>2. t[q] = u[q]
      BY <1>3, <2>1, <3>1
    <3> QED
      BY <1>4, <3>1, <3>2
  <2>2. CASE q > c
    <3>1. q - 1 \in 1..(Len(s) - 1) /\ ~(q - 1 < c) /\ (q - 1) + 1 = q
      BY <1>4, <2>2
    <3>2. t[q - 1] = u[q]
      BY <1>3, <3>1
    <3> QED
      BY <1>4, <3>1, <3>2
  <2> QED
    BY <1>4, <1>6, <2>1, <2>2
<1>7. Within(s, t)
  <2> SUFFICES ASSUME NEW p \in DOMAIN s
               PROVE  \E n \in DOMAIN t : Inside(s[p], t[n])
    BY DEF Within
  <2>1. CASE p = c
    BY <1>2, <1>5, <2>1
  <2>2. CASE p # c
    BY <1>1, <1>2, <1>4, <1>6, <2>2
  <2> QED
    BY <2>1, <2>2
<1> QED
  BY <1>3, <1>7

--------------------------------------------------------------------------------
(* The invariant *)

\* A step after which every merged rectangle lies in one of the new list loses nothing of
\* what has been fed, provided that the new list covers what it feeds.
LEMMA CoversKept ==
    ASSUME SceneTypeOK, MergedCovers,
           merged' \in Seq(Rect), Within(merged, merged'),
           dirty' = dirty, fed' \in fed..(fed + 1), fed' <= Len(dirty),
           fed' = fed + 1 => \E m \in DOMAIN merged' : Inside(dirty[fed + 1], merged'[m])
    PROVE  MergedCovers'
<1> SUFFICES ASSUME NEW k \in 1..fed'
             PROVE  \E m \in DOMAIN merged' : Inside(dirty[k], merged'[m])
  BY DEF MergedCovers
<1>1. fed \in Nat /\ Len(dirty) \in Nat /\ dirty \in Seq(Rect) /\ merged \in Seq(Rect)
  BY DEF SceneTypeOK
<1>2. CASE k \in 1..fed
  <2>1. PICK p \in DOMAIN merged : Inside(dirty[k], merged[p])
    BY <1>2 DEF MergedCovers
  <2>2. dirty[k] \in Rect
    BY <1>1
  <2> QED
    BY <1>1, <2>1, <2>2, CoverCarried
<1>3. CASE k \notin 1..fed
  <2>1. fed' = fed + 1 /\ k = fed + 1
    BY <1>1, <1>3
  <2> QED
    BY <2>1
<1> QED
  BY <1>2, <1>3

\* The empty list is a list of rectangles.
LEMMA EmptyList == <<>> \in Seq(Rect) /\ Len(<<>>) = 0 /\ DOMAIN <<>> = {}
  OBVIOUS

\* Nothing has been analyzed at first.
LEMMA SceneInitInv == SceneInit => SceneInv
<1> SUFFICES ASSUME SceneInit
             PROVE  SceneInv
  OBVIOUS
<1>1. SceneTypeOK
  <2>1. dirty = <<>> /\ merged = <<>> /\ fed = 0 /\ fed \in 0..Len(dirty)
    BY EmptyList DEF SceneInit
  <2>2. row \in Nat \ {0} /\ col \in Nat \ {0}
    BY DEF SceneInit
  <2> QED
    BY <2>1, <2>2, EmptyList DEF SceneInit, SceneTypeOK
<1>2. MergedCovers
  BY DEF SceneInit, MergedCovers
<1> QED
  BY <1>1, <1>2 DEF SceneInit, SceneInv, AllFed, Compared

\* Every step keeps the invariant.
LEMMA SceneStepInv == SceneInv /\ [SceneNext]_sceneVars => SceneInv'
<1> SUFFICES ASSUME SceneInv, [SceneNext]_sceneVars
             PROVE  SceneInv'
  OBVIOUS
<1>0. /\ SceneTypeOK /\ row < col /\ AllFed /\ MergedCovers /\ Compared
      /\ dirty \in Seq(Rect) /\ merged \in Seq(Rect)
      /\ Len(dirty) \in Nat /\ Len(merged) \in Nat
      /\ DOMAIN merged = 1..Len(merged)
      /\ fed \in Nat /\ fed <= Len(dirty)
      /\ row \in Nat \ {0} /\ col \in Nat \ {0}
  BY DEF SceneInv, SceneTypeOK
<1>1. CASE AnalyzeEmpty \/ AnalyzeBegins \/ AnalyzeTaken
  <2>1. dirty' \in Seq(Rect) /\ merged' = <<>> /\ fed' = 0
    <3>1. \A f \in Frames : f \in Seq(Rect)
      BY SceneAssumption
    <3> QED
      BY <1>1, <3>1, EmptyList DEF AnalyzeEmpty, AnalyzeBegins, AnalyzeTaken
  <2>2. SceneTypeOK'
    <3>1. fed' \in 0..Len(dirty')
      BY <2>1
    <3>2. spc' \in {"idle", "absorb", "compare", "done"} /\ changed' \in BOOLEAN
      BY <1>0, <1>1
      DEF SceneTypeOK, AnalyzeEmpty, AnalyzeBegins, AnalyzeTaken, passVars, PassBegins
    <3>3. row' \in Nat \ {0} /\ col' \in Nat \ {0}
      BY <1>0, <1>1 DEF AnalyzeEmpty, AnalyzeBegins, AnalyzeTaken, passVars, PassBegins
    <3>4. verdict' \in [idle : BOOLEAN, keyframe : BOOLEAN]
      <4>1. verdict \in [idle : BOOLEAN, keyframe : BOOLEAN]
        BY <1>0 DEF SceneTypeOK
      <4>2. CASE AnalyzeBegins
        BY <4>1, <4>2 DEF AnalyzeBegins
      <4>3. CASE AnalyzeEmpty
        BY <4>3 DEF AnalyzeEmpty
      <4>4. CASE AnalyzeTaken
        BY <4>4 DEF AnalyzeTaken
      <4> QED
        BY <1>1, <4>2, <4>3, <4>4
    <3> QED
      BY <2>1, <3>1, <3>2, <3>3, <3>4, EmptyList DEF SceneTypeOK
  <2>3. MergedCovers' /\ MergedDisjoint'
    BY <2>1 DEF MergedCovers, MergedDisjoint
  <2>4. AllFed' /\ Compared' /\ row' < col'
    BY <1>0, <1>1
    DEF AllFed, Compared, AnalyzeEmpty, AnalyzeBegins, AnalyzeTaken, passVars, PassBegins
  <2> QED
    BY <2>2, <2>3, <2>4 DEF SceneInv
<1>2. CASE Absorbed
  <2>1. PICK k \in DOMAIN merged : merged' = MergedInto(merged, k, dirty[fed + 1])
    BY <1>2 DEF Absorbed, MergedInto
  <2>2. dirty[fed + 1] \in Rect
    BY <1>0, <1>2 DEF Absorbed
  <2>3. /\ merged' \in Seq(Rect) /\ DOMAIN merged' = DOMAIN merged
        /\ Within(merged, merged') /\ Inside(dirty[fed + 1], merged'[k])
    BY <1>0, <2>1, <2>2, MergeAt
  <2>4. /\ dirty' = dirty /\ fed' = fed + 1 /\ fed < Len(dirty)
        /\ spc = "absorb" /\ UNCHANGED <<spc, row, col, changed, verdict>>
    BY <1>2 DEF Absorbed, passVars
  <2>5. MergedCovers'
    BY <1>0, <2>1, <2>3, <2>4, CoversKept
  <2> QED
    BY <1>0, <2>3, <2>4, <2>5 DEF SceneInv, SceneTypeOK, AllFed, Compared
<1>3. CASE KeptApart
  <2>1. dirty[fed + 1] \in Rect
    BY <1>0, <1>3 DEF KeptApart
  <2>2. merged' = Append(merged, dirty[fed + 1])
    BY <1>3 DEF KeptApart
  <2>3. /\ merged' \in Seq(Rect) /\ DOMAIN merged' = 1..(Len(merged) + 1)
        /\ merged'[Len(merged) + 1] = dirty[fed + 1]
        /\ \A p \in DOMAIN merged : merged'[p] = merged[p]
    BY <1>0, <2>1, <2>2
  <2>4. Within(merged, merged')
    <3> SUFFICES ASSUME NEW p \in DOMAIN merged
                 PROVE  \E q \in DOMAIN merged' : Inside(merged[p], merged'[q])
      BY DEF Within
    <3>1. p \in DOMAIN merged' /\ merged[p] \in Rect /\ merged'[p] = merged[p]
      BY <1>0, <2>3
    <3> QED
      BY <3>1, InsideItself
  <2>5. Len(merged) + 1 \in DOMAIN merged' /\ Inside(dirty[fed + 1], merged'[Len(merged) + 1])
    BY <1>0, <2>1, <2>3, InsideItself
  <2>6. /\ dirty' = dirty /\ fed' = fed + 1 /\ fed < Len(dirty)
        /\ spc = "absorb" /\ UNCHANGED <<spc, row, col, changed, verdict>>
    BY <1>3 DEF KeptApart, passVars
  <2>7. MergedCovers'
    BY <1>0, <2>3, <2>4, <2>5, <2>6, CoversKept
  <2> QED
    BY <1>0, <2>3, <2>6, <2>7 DEF SceneInv, SceneTypeOK, AllFed, Compared
<1>4. CASE PairMerged
  <2>1. row \in 1..Len(merged) /\ col \in 1..Len(merged)
    BY <1>0, <1>4 DEF PairMerged
  <2>2. merged' = Erase(MergedInto(merged, row, merged[col]), col)
    BY <1>4 DEF PairMerged, MergedInto
  <2>3. merged' \in Seq(Rect) /\ Within(merged, merged')
    BY <1>0, <2>1, <2>2, MergePair
  <2>4. changed' = TRUE /\ spc = "compare" /\ UNCHANGED <<dirty, spc, fed, row, col, verdict>>
    BY <1>4 DEF PairMerged
  <2>5. MergedCovers'
    BY <1>0, <2>3, <2>4, CoversKept
  <2> QED
    BY <1>0, <2>3, <2>4, <2>5 DEF SceneInv, SceneTypeOK, AllFed, Compared
<1>5. CASE PairKept
  <2>1. /\ spc = "compare" /\ col <= Len(merged) /\ ~RectsIntersect(merged[row], merged[col])
        /\ col' = col + 1
        /\ UNCHANGED <<dirty, spc, fed, merged, row, changed, verdict>>
    BY <1>5 DEF PairKept
  <2>2. MergedCovers'
    BY <1>0, <2>1 DEF MergedCovers
  <2>3. Compared'
    BY <1>0, <2>1 DEF Compared
  <2> QED
    BY <1>0, <2>1, <2>2, <2>3 DEF SceneInv, SceneTypeOK, AllFed
<1>6. CASE RowEnds
  <2>1. /\ spc = "compare" /\ row <= Len(merged) /\ col > Len(merged)
        /\ row' = row + 1 /\ col' = row + 2
        /\ UNCHANGED <<dirty, spc, fed, merged, changed, verdict>>
    BY <1>6 DEF RowEnds
  <2>2. MergedCovers'
    BY <1>0, <2>1 DEF MergedCovers
  <2>3. Compared'
    BY <1>0, <2>1 DEF Compared
  <2> QED
    BY <1>0, <2>1, <2>2, <2>3 DEF SceneInv, SceneTypeOK, AllFed
<1>7. CASE AbsorbEnds \/ PassRepeats
  <2>1. /\ row' = 1 /\ col' = 2 /\ changed' = FALSE /\ spc' = "compare" /\ fed = Len(dirty)
        /\ UNCHANGED <<dirty, fed, merged, verdict>>
    BY <1>0, <1>7 DEF AbsorbEnds, PassRepeats, PassBegins, AllFed
  <2>2. MergedCovers'
    BY <1>0, <2>1 DEF MergedCovers
  <2>3. Compared'
    BY <1>0, <2>1 DEF Compared
  <2>4. SceneTypeOK'
    <3>1. changed' \in BOOLEAN
      BY <2>1
    <3>2. row' \in Nat \ {0} /\ col' \in Nat \ {0}
      BY <2>1
    <3>3. fed' \in 0..Len(dirty') /\ spc' \in {"idle", "absorb", "compare", "done"}
      BY <1>0, <2>1
    <3> QED
      BY <1>0, <2>1, <3>1, <3>2, <3>3 DEF SceneTypeOK
  <2>5. AllFed' /\ row' < col' /\ spc' # "done"
    BY <2>1 DEF AllFed
  <2> QED
    BY <2>2, <2>3, <2>4, <2>5 DEF SceneInv
<1>8. CASE AnalyzeEnds
  <2>1. /\ spc = "compare" /\ row > Len(merged) /\ ~changed /\ spc' = "done"
        /\ UNCHANGED <<dirty, fed, merged, row, col, changed>>
    BY <1>8 DEF AnalyzeEnds, passVars
  <2>2. verdict' \in [idle : BOOLEAN, keyframe : BOOLEAN]
    BY <1>8 DEF AnalyzeEnds
  <2>3. MergedDisjoint'
    <3> SUFFICES ASSUME NEW a \in DOMAIN merged, NEW b \in DOMAIN merged, a # b
                 PROVE  ~RectsIntersect(merged[a], merged[b])
      BY <2>1 DEF MergedDisjoint
    <3>1. merged[a] \in Rect /\ merged[b] \in Rect
      BY <1>0
    <3>2. a < b \/ b < a
      BY <1>0
    <3>3. a < row /\ b < row
      BY <1>0, <2>1
    <3> QED
      BY <1>0, <2>1, <3>1, <3>2, <3>3, MeetingIsMutual DEF Compared
  <2>4. MergedCovers'
    BY <1>0, <2>1 DEF MergedCovers
  <2>5. SceneTypeOK'
    BY <1>0, <2>1, <2>2 DEF SceneTypeOK
  <2>6. AllFed' /\ Compared' /\ row' < col'
    BY <1>0, <2>1 DEF AllFed, Compared
  <2> QED
    BY <2>3, <2>4, <2>5, <2>6 DEF SceneInv
<1>9. CASE UNCHANGED sceneVars
  <2>1. UNCHANGED <<dirty, spc, fed, merged, row, col, changed, verdict>>
    BY <1>9 DEF sceneVars
  <2> QED
    BY <2>1
    DEF SceneInv, SceneTypeOK, AllFed, MergedCovers, Compared, MergedDisjoint
<1> QED
  BY <1>1, <1>2, <1>3, <1>4, <1>5, <1>6, <1>7, <1>8, <1>9 DEF SceneNext, Merging

\* The invariant holds in every behaviour of SceneAnalyzer.
THEOREM SceneInvariant == SceneSpec => []SceneInv
  BY SceneInitInv, SceneStepInv, PTL DEF SceneSpec

\* The lists always hold rectangles of the frame, and the indices stay positive.
THEOREM SceneTypesCorrect == SceneSpec => []SceneTypeOK
<1>1. SceneInv => SceneTypeOK
  BY DEF SceneInv
<1> QED
  BY <1>1, SceneInvariant, PTL

\* The rectangles analyze is left with cover all dirty ones and overlap nowhere, for any
\* number of rectangles and any number of passes over them.
THEOREM MergeIsSound == SceneSpec => []MergedSound
<1>1. SceneInv => MergedSound
  BY DEF SceneInv, MergedSound, AllFed
<1> QED
  BY <1>1, SceneInvariant, PTL

--------------------------------------------------------------------------------
(* Areas *)

LEMMA CellsCount ==
    ASSUME NEW r \in Rect
    PROVE  /\ IsFiniteSet(Cells(r))
           /\ Cardinality(Cells(r)) = AreaOf(r)
           /\ AreaOf(r) \in Nat
<1>1. /\ r.left \in Int /\ r.right \in Int /\ r.left < r.right
      /\ r.top \in Int /\ r.bottom \in Int /\ r.top < r.bottom
  BY RectSides
<1>2. /\ IsFiniteSet(r.left..(r.right - 1))
      /\ Cardinality(r.left..(r.right - 1)) = r.right - r.left
  <2>1. r.right - 1 \in Int /\ ~(r.left > r.right - 1)
        /\ (r.right - 1) - r.left + 1 = r.right - r.left
    BY <1>1
  <2> QED
    BY <1>1, <2>1, FS_Interval
<1>3. /\ IsFiniteSet(r.top..(r.bottom - 1))
      /\ Cardinality(r.top..(r.bottom - 1)) = r.bottom - r.top
  <2>1. r.bottom - 1 \in Int /\ ~(r.top > r.bottom - 1)
        /\ (r.bottom - 1) - r.top + 1 = r.bottom - r.top
    BY <1>1
  <2> QED
    BY <1>1, <2>1, FS_Interval
<1>4. IsFiniteSet(Cells(r)) /\ Cardinality(Cells(r)) = AreaOf(r)
  <2> DEFINE S == r.left..(r.right - 1)
             T == r.top..(r.bottom - 1)
  <2> HIDE DEF S, T
  <2>1. IsFiniteSet(S \X T) /\ Cardinality(S \X T) = Cardinality(S) * Cardinality(T)
    BY <1>2, <1>3, FS_Product DEF S, T
  <2> QED
    BY <1>2, <1>3, <2>1 DEF S, T, Cells, AreaOf
<1> QED
  BY <1>4, FS_CardinalityType

\* A pixel of both rectangles is on the inner side of all their sides.
LEMMA CellsApart ==
    ASSUME NEW a \in Rect, NEW b \in Rect, ~RectsIntersect(a, b)
    PROVE  Cells(a) \cap Cells(b) = {}
<1>1. /\ a.left \in Int /\ a.right \in Int /\ a.top \in Int /\ a.bottom \in Int
      /\ b.left \in Int /\ b.right \in Int /\ b.top \in Int /\ b.bottom \in Int
  BY RectSides
<1>2. ASSUME NEW c \in Cells(a) \cap Cells(b)
      PROVE  FALSE
  <2>1. PICK x \in a.left..(a.right - 1), y \in a.top..(a.bottom - 1) : c = <<x, y>>
    BY <1>2 DEF Cells
  <2>2. x \in b.left..(b.right - 1) /\ y \in b.top..(b.bottom - 1)
    BY <1>2, <2>1 DEF Cells
  <2> QED
    BY <1>1, <2>1, <2>2 DEF RectsIntersect
<1> QED
  BY <1>2

LEMMA CellsInside ==
    ASSUME NEW a \in Rect, NEW b \in Rect, Inside(a, b)
    PROVE  Cells(a) \subseteq Cells(b)
<1>1. /\ a.left \in Int /\ a.right \in Int /\ a.top \in Int /\ a.bottom \in Int
      /\ b.left \in Int /\ b.right \in Int /\ b.top \in Int /\ b.bottom \in Int
  BY RectSides
<1>2. a.left..(a.right - 1) \subseteq b.left..(b.right - 1)
  BY <1>1 DEF Inside
<1>3. a.top..(a.bottom - 1) \subseteq b.top..(b.bottom - 1)
  BY <1>1 DEF Inside
<1> QED
  BY <1>2, <1>3 DEF Cells

FrameCells == (0..(FrameWidth - 1)) \X (0..(FrameHeight - 1))

LEMMA FrameCount ==
    /\ IsFiniteSet(FrameCells) /\ Cardinality(FrameCells) = TotalArea
    /\ TotalArea \in Nat \ {0}
    /\ \A r \in Rect : Cells(r) \subseteq FrameCells
<1>1. FrameWidth \in Nat \ {0} /\ FrameHeight \in Nat \ {0}
  BY SceneAssumption
<1>2. IsFiniteSet(0..(FrameWidth - 1)) /\ Cardinality(0..(FrameWidth - 1)) = FrameWidth
  <2>1. 0 \in Int /\ FrameWidth - 1 \in Int /\ ~(0 > FrameWidth - 1)
        /\ (FrameWidth - 1) - 0 + 1 = FrameWidth
    BY <1>1
  <2> QED
    BY <2>1, FS_Interval
<1>3. IsFiniteSet(0..(FrameHeight - 1)) /\ Cardinality(0..(FrameHeight - 1)) = FrameHeight
  <2>1. 0 \in Int /\ FrameHeight - 1 \in Int /\ ~(0 > FrameHeight - 1)
        /\ (FrameHeight - 1) - 0 + 1 = FrameHeight
    BY <1>1
  <2> QED
    BY <2>1, FS_Interval
<1>4. IsFiniteSet(FrameCells) /\ Cardinality(FrameCells) = TotalArea
  <2> DEFINE S == 0..(FrameWidth - 1)
             T == 0..(FrameHeight - 1)
  <2> HIDE DEF S, T
  <2>1. IsFiniteSet(S \X T) /\ Cardinality(S \X T) = Cardinality(S) * Cardinality(T)
    BY <1>2, <1>3, FS_Product DEF S, T
  <2> QED
    BY <1>2, <1>3, <2>1 DEF S, T, FrameCells, TotalArea
<1>5. \A m, n \in Nat \ {0} : m * n \in Nat \ {0}
  OBVIOUS
<1>6. ASSUME NEW r \in Rect
      PROVE  Cells(r) \subseteq FrameCells
  <2>1. r.left..(r.right - 1) \subseteq 0..(FrameWidth - 1)
    BY <1>1, RectSides
  <2>2. r.top..(r.bottom - 1) \subseteq 0..(FrameHeight - 1)
    BY <1>1, RectSides
  <2> QED
    BY <2>1, <2>2 DEF Cells, FrameCells
<1>7. TotalArea \in Nat \ {0}
  BY <1>1, <1>5 DEF TotalArea
<1> QED
  BY <1>4, <1>6, <1>7

\* calculate_area adds up the areas of the list, one rectangle after the other.
LEMMA AreaAdds ==
    ASSUME NEW s \in Seq(Rect)
    PROVE  \E sum :
               /\ Area(s) = sum[Len(s)]
               /\ sum[0] = 0
               /\ \A k \in 1..Len(s) : sum[k] = sum[k - 1] + AreaOf(s[k])
<1> DEFINE N == Len(s)
           Adds(f) == f = [k \in 0..N |-> IF k = 0 THEN 0 ELSE f[k - 1] + AreaOf(s[k])]
           g == [p \in (1..N) \X Int |-> p[2] + AreaOf(s[p[1]])]
<1>1. N \in Nat
  OBVIOUS
<1>2. \A k \in 1..N : AreaOf(s[k]) \in Nat
  BY CellsCount
<1>3. g \in [(1..N) \X Int -> Int]
  BY <1>2
<1>4. PICK f \in [0..N -> Int] : f[0] = 0 /\ \A k \in 1..N : f[k] = g[<<k, f[k - 1]>>]
  <2> HIDE DEF g, N
  <2> QED
    BY <1>1, <1>3, RecursionExists
<1>5. ASSUME NEW k \in 1..N
      PROVE  f[k] = f[k - 1] + AreaOf(s[k])
  <2>1. f[k] = g[<<k, f[k - 1]>>]
    BY <1>4
  <2>2. <<k, f[k - 1]>> \in (1..N) \X Int
    BY <1>1, <1>4
  <2> QED
    BY <2>1, <2>2
<1>6. Adds(f)
  <2>1. \A k \in 0..N : f[k] = IF k = 0 THEN 0 ELSE f[k - 1] + AreaOf(s[k])
    BY <1>1, <1>4, <1>5
  <2> QED
    BY <2>1
<1> DEFINE sum == CHOOSE h : Adds(h)
<1>7. Adds(sum)
  <2> HIDE DEF Adds
  <2> QED
    BY <1>6
<1>8. Area(s) = sum[N]
  BY DEF Area
<1>9. sum[0] = 0 /\ \A k \in 1..N : sum[k] = sum[k - 1] + AreaOf(s[k])
  <2> HIDE DEF sum
  <2>1. sum = [k \in 0..N |-> IF k = 0 THEN 0 ELSE sum[k - 1] + AreaOf(s[k])]
    BY <1>7
  <2>2. 0 \in 0..N /\ \A k \in 1..N : k \in 0..N /\ k # 0
    BY <1>1
  <2> HIDE DEF N
  <2> QED
    BY <2>1, <2>2
<1> HIDE DEF sum
<1> QED
  BY <1>8, <1>9

\* The area of a list whose rectangles do not overlap is the number of pixels they have.
LEMMA AreaCounts ==
    ASSUME NEW s \in Seq(Rect),
           \A a, b \in DOMAIN s : a # b => ~RectsIntersect(s[a], s[b])
    PROVE  LET pixels == UNION {Cells(s[k]) : k \in DOMAIN s}
           IN  IsFiniteSet(pixels) /\ Area(s) = Cardinality(pixels)
<1> DEFINE N == Len(s)
           Upto(n) == UNION {Cells(s[k]) : k \in 1..n}
<1>1. N \in Nat /\ DOMAIN s = 1..N /\ \A k \in 1..N : s[k] \in Rect
  OBVIOUS
<1>2. PICK sum : /\ Area(s) = sum[N]
                 /\ sum[0] = 0
                 /\ \A k \in 1..N : sum[k] = sum[k - 1] + AreaOf(s[k])
  BY AreaAdds
<1> DEFINE Good(n) == IsFiniteSet(Upto(n)) /\ sum[n] = Cardinality(Upto(n))
           G == {n \in 0..N : Good(n)}
<1>3. Good(0)
  <2>1. Upto(0) = {}
    OBVIOUS
  <2> HIDE DEF Upto
  <2> QED
    BY <1>2, <2>1, FS_EmptySet
<1>4. ASSUME NEW n \in 1..N, Good(n - 1)
      PROVE  Good(n)
  <2> DEFINE old == Upto(n - 1)
             new == Cells(s[n])
  <2>1. Upto(n) = old \cup new
    <3>1. 1..n = (1..(n - 1)) \cup {n}
      BY <1>1
    <3> QED
      BY <3>1
  <2>2. old \cap new = {}
    <3> SUFFICES ASSUME NEW k \in 1..(n - 1)
                 PROVE  Cells(s[k]) \cap Cells(s[n]) = {}
      OBVIOUS
    <3>1. k \in DOMAIN s /\ n \in DOMAIN s /\ k # n /\ s[k] \in Rect /\ s[n] \in Rect
      BY <1>1
    <3> QED
      BY <3>1, CellsApart
  <2>3. IsFiniteSet(new) /\ Cardinality(new) = AreaOf(s[n]) /\ AreaOf(s[n]) \in Nat
    BY <1>1, CellsCount
  <2>4. IsFiniteSet(old) /\ sum[n - 1] = Cardinality(old) /\ sum[n] = sum[n - 1] + AreaOf(s[n])
    BY <1>2, <1>4
  <2> HIDE DEF old, new, Upto
  <2>5. Cardinality(old) \in Nat /\ Cardinality({}) = 0
    BY <2>4, FS_CardinalityType, FS_EmptySet
  <2>6. /\ IsFiniteSet(old \cup new)
        /\ Cardinality(old \cup new) = Cardinality(old) + Cardinality(new) - Cardinality({})
    BY <2>2, <2>3, <2>4, FS_Union
  <2> QED
    <3>1. IsFiniteSet(Upto(n))
      BY <2>1, <2>6
    <3>2. Cardinality(Upto(n)) = Cardinality(old) + AreaOf(s[n])
      <4>1. \A x, y \in Nat : x + y - 0 = x + y
        OBVIOUS
      <4> QED
        BY <2>1, <2>3, <2>5, <2>6, <4>1
    <3>3. sum[n] = Cardinality(old) + AreaOf(s[n])
      BY <2>4
    <3> QED
      BY <3>1, <3>2, <3>3
<1>5. Good(N)
  <2>1. 0 \in G /\ \A n \in 1..N : n - 1 \in G => n \in G
    <3> HIDE DEF Good
    <3> QED
      BY <1>1, <1>3, <1>4
  <2>2. N \in G
    <3>1. N \in 0..N
      BY <1>1
    <3> HIDE DEF G, N
    <3>2. \A n \in 0..N : n \in G
      BY <1>1, <2>1, InductionUpto
    <3> QED
      BY <3>1, <3>2
  <2> HIDE DEF Good
  <2> QED
    BY <2>2
<1>6. Upto(N) = UNION {Cells(s[k]) : k \in DOMAIN s}
  BY <1>1
<1> HIDE DEF Upto
<1> QED
  BY <1>2, <1>5, <1>6

\* The result is the comparison of the merged area with the two thresholds, or that of a
\* frame without dirty rectangles.
VerdictInv ==
    spc = "done" =>
        \/ dirty = <<>> /\ merged = <<>> /\ verdict = [idle |-> TRUE, keyframe |-> FALSE]
        \/ verdict = [idle |-> Area(merged) * IdleParts < TotalArea,
                      keyframe |-> Area(merged) * 100 >= Threshold * TotalArea]

LEMMA VerdictStep == VerdictInv /\ [SceneNext]_sceneVars => VerdictInv'
<1> SUFFICES ASSUME VerdictInv, [SceneNext]_sceneVars
             PROVE  VerdictInv'
  OBVIOUS
<1>1. CASE AnalyzeEmpty
  BY <1>1 DEF AnalyzeEmpty, VerdictInv
<1>2. CASE AnalyzeEnds
  <2>1. /\ merged' = merged
        /\ verdict' = [idle |-> Area(merged) * IdleParts < TotalArea,
                       keyframe |-> Area(merged) * 100 >= Threshold * TotalArea]
    BY <1>2 DEF AnalyzeEnds
  <2>2. Area(merged)' = Area(merged)
    BY <2>1
  <2> QED
    BY <2>1, <2>2 DEF VerdictInv
<1>3. CASE AnalyzeBegins \/ AnalyzeTaken
  BY <1>3 DEF AnalyzeBegins, AnalyzeTaken, VerdictInv
<1>4. CASE Merging
  <2>1. spc' # "done"
    BY <1>4 DEF Merging, Absorbed, KeptApart, AbsorbEnds, PairMerged, PairKept, RowEnds,
                PassRepeats
  <2> QED
    BY <2>1 DEF VerdictInv
<1>5. CASE UNCHANGED sceneVars
  <2>1. UNCHANGED <<dirty, spc, merged, verdict>>
    BY <1>5 DEF sceneVars
  <2>2. Area(merged)' = Area(merged)
    BY <2>1
  <2> QED
    BY <2>1, <2>2 DEF VerdictInv
<1> QED
  BY <1>1, <1>2, <1>3, <1>4, <1>5 DEF SceneNext

\* What analyze is left with has at least the dirty pixels and at most those of the frame.
LEMMA AreasInOrder ==
    ASSUME SceneInv, spc = "done"
    PROVE  /\ DirtyArea \in Nat /\ Area(merged) \in Nat
           /\ DirtyArea <= Area(merged) /\ Area(merged) <= TotalArea
<1> DEFINE soiled == UNION {Cells(dirty[k]) : k \in DOMAIN dirty}
           kept == UNION {Cells(merged[k]) : k \in DOMAIN merged}
<1>1. /\ dirty \in Seq(Rect) /\ merged \in Seq(Rect) /\ fed = Len(dirty)
      /\ MergedCovers /\ MergedDisjoint
  BY DEF SceneInv, SceneTypeOK, AllFed
<1>2. soiled \subseteq kept
  <2> SUFFICES ASSUME NEW k \in DOMAIN dirty
               PROVE  Cells(dirty[k]) \subseteq kept
    OBVIOUS
  <2>1. PICK m \in DOMAIN merged : Inside(dirty[k], merged[m])
    BY <1>1 DEF MergedCovers
  <2>2. Cells(dirty[k]) \subseteq Cells(merged[m])
    BY <1>1, <2>1, CellsInside
  <2> QED
    BY <2>1, <2>2
<1>3. kept \subseteq FrameCells
  <2> SUFFICES ASSUME NEW k \in DOMAIN merged
               PROVE  Cells(merged[k]) \subseteq FrameCells
    OBVIOUS
  <2> QED
    BY <1>1, FrameCount
<1>4. IsFiniteSet(kept) /\ Area(merged) = Cardinality(kept)
  BY <1>1, AreaCounts DEF MergedDisjoint
<1>5. DirtyArea = Cardinality(soiled)
  BY DEF DirtyArea
<1> HIDE DEF soiled, kept
<1>6. IsFiniteSet(soiled) /\ Cardinality(soiled) <= Cardinality(kept)
  BY <1>2, <1>4, FS_Subset
<1>7. Cardinality(kept) <= TotalArea
  BY <1>3, FrameCount, FS_Subset
<1> QED
  BY <1>4, <1>5, <1>6, <1>7, FS_CardinalityType

\* A frame whose dirty pixels reach the threshold calls for a keyframe and one called idle is
\* dirty below its part of the frame (the header says: not at all), whatever the size of the
\* frame, the thresholds and the rectangles: merging counts no pixel twice, and none that is
\* not in the frame.
THEOREM VerdictsAreSound == SceneSpec => []VerdictSound
<1>1. SceneInit => VerdictInv
  BY DEF SceneInit, VerdictInv
<1>2. ASSUME SceneInv, VerdictInv, spc = "done"
      PROVE  /\ DirtyArea <= Area(merged)
             /\ Area(merged) <= TotalArea
             /\ DirtyArea > 0 /\ DirtyArea * 100 >= Threshold * TotalArea => verdict.keyframe
             /\ verdict.idle => DirtyArea * IdleParts < TotalArea
  <2> DEFINE d == DirtyArea
             a == Area(merged)
  <2>1. d \in Nat /\ a \in Nat /\ d <= a /\ a <= TotalArea
    BY <1>2, AreasInOrder
  <2>2. /\ TotalArea \in Nat \ {0} /\ Threshold \in Nat /\ IdleParts \in Nat
        /\ Threshold * TotalArea \in Nat
    BY FrameCount, SceneAssumption
  <2>3. CASE dirty = <<>> /\ merged = <<>> /\ verdict = [idle |-> TRUE, keyframe |-> FALSE]
    <3>1. UNION {Cells(dirty[k]) : k \in DOMAIN dirty} = {}
      BY <2>3
    <3>2. d = 0
      BY <3>1, FS_EmptySet DEF DirtyArea
    <3>3. d * IdleParts = 0
      BY <2>2, <3>2
    <3> HIDE DEF d, a
    <3> QED
      BY <2>1, <2>2, <2>3, <3>2, <3>3 DEF d, a
  <2>4. CASE verdict = [idle |-> a * IdleParts < TotalArea,
                        keyframe |-> a * 100 >= Threshold * TotalArea]
    <3>1. d * IdleParts <= a * IdleParts /\ d * IdleParts \in Nat /\ a * IdleParts \in Nat
      <4> HIDE DEF d, a
      <4> QED
        BY <2>1, <2>2, ProductType, ProductGrows
    <3>2. d * 100 <= a * 100
      <4> HIDE DEF d, a
      <4> QED
        BY <2>1
    <3>3. verdict.idle <=> a * IdleParts < TotalArea
      BY <2>4
    <3>4. verdict.keyframe <=> a * 100 >= Threshold * TotalArea
      BY <2>4
    <3> HIDE DEF d, a
    <3>5. d * 100 >= Threshold * TotalArea => verdict.keyframe
      BY <2>1, <2>2, <3>2, <3>4
    <3>6. verdict.idle => d * IdleParts < TotalArea
      BY <2>2, <3>1, <3>3
    <3> QED
      BY <2>1, <3>5, <3>6 DEF d, a
  <2> QED
    BY <1>2, <2>3, <2>4 DEF VerdictInv
<1>3. SceneInv /\ VerdictInv => VerdictSound
  BY <1>2 DEF VerdictSound
<1> QED
  BY <1>1, <1>3, VerdictStep, SceneInvariant, PTL DEF SceneSpec

--------------------------------------------------------------------------------
(***************************************************************************)
(* AdaptiveController                                                      *)
(***************************************************************************)

\* Frames waited since the last keyframe sent, and MaxGop more for each one missed: what
\* KeyframeInTime leaves out is that the counter stays below MaxGop.
WaitExplained == waited <= sinceKey + MaxGop * missed

RateInv ==
    /\ RateTypeOK
    /\ WaitExplained
    /\ ClientCanDecode

ConfigType == [codec : Codec, rate : Nat, idr : BOOLEAN, lossless : BOOLEAN]

\* A configuration a client with the features in a can decode.
Decodable(c, a) ==
    /\ c.codec \in a \cup {"H264"}
    /\ c.lossless => "lossless" \in a

--------------------------------------------------------------------------------
(* The helpers *)

\* The best codec is one of the codecs, and one the client has unless it is H.264.
LEMMA BestCodec ==
    ASSUME NEW a \in SUBSET Feature
    PROVE  Best(a) \in Codec /\ Best(a) \in a \cup {"H264"}
  BY DEF Best, Codec

\* adapt_codec turns a configuration into one the client decodes, provided that the codec
\* it finds, which lossless coding keeps, is one already.
LEMMA AdaptCodecFits ==
    ASSUME NEW a \in SUBSET Feature, NEW e \in Nat, NEW c \in ConfigType,
           c.codec \in a \cup {"H264"}
    PROVE  AdaptCodec(c, e, a) \in ConfigType /\ Decodable(AdaptCodec(c, e, a), a)
<1>1. CASE e > 2000 /\ "lossless" \in a
  <2>1. AdaptCodec(c, e, a) = [c EXCEPT !.lossless = TRUE]
    BY <1>1 DEF AdaptCodec
  <2>2. [c EXCEPT !.lossless = TRUE] \in ConfigType
    BY DEF ConfigType
  <2>3. [c EXCEPT !.lossless = TRUE].codec = c.codec
    BY DEF ConfigType
  <2> QED
    BY <1>1, <2>1, <2>2, <2>3 DEF Decodable
<1>2. CASE ~(e > 2000 /\ "lossless" \in a)
  <2>1. AdaptCodec(c, e, a)
          = [c EXCEPT !.lossless = FALSE, !.codec = Best(a), !.idr = @ \/ c.codec # Best(a)]
    BY <1>2 DEF AdaptCodec
  <2>2. (c.idr \/ c.codec # Best(a)) \in BOOLEAN
    OBVIOUS
  <2> QED
    BY <2>1, <2>2, BestCodec DEF ConfigType, Decodable
<1> QED
  BY <1>1, <1>2

\* Whatever a conversion that does not fit leaves, the target is a rate.
LEMMA TargetsAreRates == \A e \in Nat : Targets(e) \subseteq Nat
<1> SUFFICES ASSUME NEW e \in Nat, NEW t \in Targets(e)
             PROVE  t \in Nat
  OBVIOUS
<1> DEFINE wanted == (e * 4) \div 5
           words == IF wanted < Word THEN {wanted} ELSE {wanted % Word, Word - 1}
<1>1. wanted \in Nat
  OBVIOUS
<1>2. wanted % Word \in Nat /\ Word - 1 \in Nat
  BY <1>1, ControllerAssumption
<1>3. words \subseteq Nat
  BY <1>1, <1>2
<1>4. PICK w \in words : t = IF w < 1 THEN 1 ELSE IF w > 150 THEN 150 ELSE w
  BY DEF Targets
<1> QED
  BY <1>3, <1>4

\* adapt_bitrate changes nothing but the rate.
LEMMA AdaptBitrateKeepsCodec ==
    ASSUME NEW c \in ConfigType, NEW e \in Nat, NEW d \in AdaptBitrate(c, e)
    PROVE  d \in ConfigType /\ d.codec = c.codec
<1>1. CASE d = c
  BY <1>1
<1>2. CASE d # c
  <2>1. PICK t \in Targets(e) : d = [c EXCEPT !.rate = t]
    BY <1>2 DEF AdaptBitrate
  <2> QED
    BY <2>1, TargetsAreRates DEF ConfigType
<1> QED
  BY <1>1, <1>2

--------------------------------------------------------------------------------
(* The invariant *)

\* A change of codec noted is a Boolean.
LEMMA SwitchNoted == NotesSwitch => switched' \in BOOLEAN
<1>1. (switched \/ config'.codec # config.codec) \in BOOLEAN
  OBVIOUS
<1> QED
  BY <1>1, Zenon DEF NotesSwitch

\* init is called with the first client.
LEMMA RateInitInv == RateInit => RateInv
<1> SUFFICES ASSUME RateInit
             PROVE  RateInv
  OBVIOUS
<1>1. agreed \in SUBSET Feature
  BY ControllerAssumption DEF RateInit
<1>2. Default \in ConfigType /\ Default.codec = "H264"
  BY DEF Default, ConfigType, Codec
<1>3. config \in ConfigType /\ Decodable(config, agreed)
  BY <1>1, <1>2, AdaptCodecFits DEF RateInit
<1>4. RateTypeOK
  <2>1. estimate = 0 /\ sinceKey = 0 /\ switched = FALSE /\ waited = 0 /\ missed = 0
    BY DEF RateInit
  <2>2. 0 \in 0..(MaxGop - 1) /\ 0 \in 0..MaxMissed /\ 0 \in Nat /\ FALSE \in BOOLEAN
    BY ControllerAssumption
  <2>3. config \in [codec : Codec, rate : Nat, idr : BOOLEAN, lossless : BOOLEAN]
    BY <1>3 DEF ConfigType
  <2>4. agreed \subseteq Feature
    BY <1>1
  <2> QED
    BY <2>1, <2>2, <2>3, <2>4, Zenon DEF RateTypeOK
<1>5. WaitExplained
  BY ControllerAssumption DEF WaitExplained, RateInit
<1> QED
  BY <1>3, <1>4, <1>5 DEF RateInv, ClientCanDecode, Decodable

\* Every step keeps the invariant.
LEMMA RateStepInv == RateInv /\ [RateNext]_rateVars => RateInv'
<1> SUFFICES ASSUME RateInv, [RateNext]_rateVars
             PROVE  RateInv'
  OBVIOUS
<1> USE DEF RateInv
<1>0. /\ config \in ConfigType
      /\ agreed \in SUBSET Feature
      /\ estimate \in Nat /\ sinceKey \in Nat /\ waited \in Nat /\ missed \in Nat
      /\ MaxGop \in Nat \ {0} /\ MaxMissed \in Nat
  BY ControllerAssumption DEF RateTypeOK, ConfigType
<1>1. CASE ClientConnects
  <2>1. agreed' \in SUBSET Feature
    BY <1>1, ControllerAssumption DEF ClientConnects
  <2>2. Default \in ConfigType /\ Default.codec = "H264"
    BY DEF Default, ConfigType, Codec
  <2>3. config' \in ConfigType /\ Decodable(config', agreed')
    BY <1>0, <1>1, <2>1, <2>2, AdaptCodecFits DEF ClientConnects
  <2>4. RateTypeOK'
    <3>1. switched' \in BOOLEAN
      BY <1>1, SwitchNoted DEF ClientConnects
    <3>2. UNCHANGED <<estimate, sinceKey>> /\ waited' = 0 /\ missed' = 0
      BY <1>1 DEF ClientConnects
    <3> QED
      BY <2>1, <2>3, <3>1, <3>2, ControllerAssumption DEF RateTypeOK, ConfigType
  <2>5. WaitExplained'
    BY <1>0, <1>1 DEF WaitExplained, ClientConnects
  <2> QED
    BY <2>3, <2>4, <2>5 DEF ClientCanDecode, Decodable
<1>2. CASE UpdateNetworkStats
  <2>1. estimate' \in Nat
    BY <1>2, ControllerAssumption DEF UpdateNetworkStats
  <2>2. PICK c \in AdaptBitrate(config, estimate') : config' = AdaptCodec(c, estimate', agreed)
    BY <1>2 DEF UpdateNetworkStats
  <2>3. c \in ConfigType /\ c.codec \in agreed \cup {"H264"}
    BY <1>0, <2>1, AdaptBitrateKeepsCodec DEF ClientCanDecode
  <2>4. config' \in ConfigType /\ Decodable(config', agreed)
    BY <1>0, <2>1, <2>2, <2>3, AdaptCodecFits
  <2>5. RateTypeOK'
    <3>1. switched' \in BOOLEAN
      BY <1>2, SwitchNoted DEF UpdateNetworkStats
    <3>2. UNCHANGED <<agreed, sinceKey, waited, missed>>
      BY <1>2 DEF UpdateNetworkStats
    <3> QED
      BY <2>1, <2>4, <3>1, <3>2 DEF RateTypeOK, ConfigType
  <2>6. WaitExplained'
    BY <1>2 DEF WaitExplained, UpdateNetworkStats
  <2> QED
    BY <1>2, <2>4, <2>5, <2>6 DEF ClientCanDecode, Decodable, UpdateNetworkStats
<1>3. CASE EvaluateAny
  <2>1. PICK scene \in Verdicts : EvaluateFrame(scene)
    BY <1>3 DEF EvaluateAny
  <2> DEFINE key == scene.keyframe \/ sinceKey + 1 >= MaxGop
  <2>2. Frame(key) /\ key \in BOOLEAN
    BY <2>1 DEF EvaluateFrame, Verdicts
  <2>3. ~key => sinceKey + 1 < MaxGop
    BY <1>0
  <2>4. sinceKey + 1 <= MaxGop
    BY <1>0 DEF RateTypeOK
  <2>5. sinceKey' \in 0..(MaxGop - 1)
    BY <1>0, <2>2, <2>3 DEF Frame
  <2>6. waited' \in Nat /\ missed' \in 0..MaxMissed
    BY <1>0, <2>2 DEF Frame, RateTypeOK
  <2>7. config' = [config EXCEPT !.idr = key] /\ UNCHANGED <<agreed, estimate>>
    BY <2>2 DEF Frame
  <2>8. config' \in ConfigType /\ Decodable(config', agreed)
    BY <1>0, <2>2, <2>7 DEF ConfigType, Decodable, ClientCanDecode
  <2>9. RateTypeOK'
    <3>1. switched' = FALSE
      BY <2>2 DEF Frame
    <3> QED
      BY <2>5, <2>6, <2>7, <2>8, <3>1 DEF RateTypeOK, ConfigType
  <2>10. WaitExplained'
    <3> HIDE DEF key
    <3>1. CASE ~key
      <4>1. sinceKey' = sinceKey + 1 /\ waited' = waited + 1 /\ missed' = missed
        BY <2>2, <3>1 DEF Frame
      <4> QED
        BY <1>0, <4>1 DEF WaitExplained
    <3>2. CASE key /\ waited' = 0 /\ missed' = 0
      BY <1>0, <2>2, <3>2 DEF WaitExplained, Frame
    <3>3. CASE key /\ waited' = waited + 1 /\ missed' = missed + 1
      <4>1. sinceKey' = 0
        BY <2>2, <3>3 DEF Frame
      <4>2. MaxGop * (missed + 1) = MaxGop * missed + MaxGop
        BY <1>0
      <4> QED
        BY <1>0, <2>4, <3>3, <4>1, <4>2 DEF WaitExplained
    <3> QED
      BY <2>2, <3>1, <3>2, <3>3 DEF Frame
  <2> QED
    BY <2>7, <2>8, <2>9, <2>10 DEF ClientCanDecode, Decodable
<1>4. CASE UNCHANGED rateVars
  BY <1>4 DEF rateVars, RateTypeOK, WaitExplained, ClientCanDecode
<1> QED
  BY <1>1, <1>2, <1>3, <1>4 DEF RateNext

\* The invariant holds in every behaviour of AdaptiveController.
THEOREM RateInvariant == RateSpec => []RateInv
  BY RateInitInv, RateStepInv, PTL DEF RateSpec

\* A client that joins in mid-stream or loses keyframes waits less than MaxGop frames for
\* each keyframe it misses: the counter evaluate_frame keeps is never left behind by
\* init, by statistics or by frames called idle.  It is all the client has: the keyframe a
\* new client or a change of codec asks for is forgotten, see CodecSwitchForcesIdr.
THEOREM KeyframesComeInTime == RateSpec => []KeyframeInTime
<1>1. RateInv => KeyframeInTime
  <2> SUFFICES ASSUME RateInv
               PROVE  KeyframeInTime
    OBVIOUS
  <2>1. /\ MaxGop \in Nat \ {0} /\ missed \in Nat /\ waited \in Nat
        /\ sinceKey \in Nat /\ sinceKey < MaxGop
        /\ waited <= sinceKey + MaxGop * missed
    BY ControllerAssumption DEF RateInv, RateTypeOK, WaitExplained
  <2>2. MaxGop * (1 + missed) = MaxGop + MaxGop * missed
    BY <2>1
  <2> QED
    BY <2>1, <2>2 DEF KeyframeInTime
<1> QED
  BY <1>1, RateInvariant, PTL

\* The configuration evaluate_frame returns is one the present client decodes, whatever
\* codec and losslessness the clients before it have left in the estimate.
THEOREM StreamsAreDecodable == RateSpec => []ClientCanDecode
<1>1. RateInv => ClientCanDecode
  BY DEF RateInv
<1> QED
  BY <1>1, RateInvariant, PTL

--------------------------------------------------------------------------------
(***************************************************************************)
(* PacketPacer                                                             *)
(***************************************************************************)

\* What a refill without rounding would leave in the bucket, in 1/TokenUnit tokens.
Pending == Least(maxTokens * TokenUnit, tokens * TokenUnit + rate * elapsed)

PacerInv ==
    /\ PacerTypeOK
    /\ tokens <= maxTokens
    /\ Pending <= allowed

--------------------------------------------------------------------------------
(* The invariant *)

\* What is in the bucket after a refill was there already, or has come at the rate since
\* the last one: rounding only loses.
LEMMA RefillAllowed ==
    ASSUME PacerInv
    PROVE  /\ Refilled \in Nat
           /\ Refilled <= maxTokens
           /\ Refilled * TokenUnit <= allowed
<1>1. /\ rate \in Nat /\ tokens \in Nat /\ maxTokens \in Nat /\ elapsed \in Nat
      /\ allowed \in Int /\ tokens <= maxTokens /\ TokenUnit \in Nat \ {0}
  BY PacerAssumption DEF PacerInv, PacerTypeOK
<1> DEFINE earned == rate * elapsed
           gain == earned \div TokenUnit
<1>2. earned \in Nat
  BY <1>1, ProductType
<1>3. gain \in Nat /\ gain * TokenUnit <= earned
  BY <1>1, <1>2, QuotientRoundsDown
<1>4. Refilled = Least(maxTokens, tokens + gain)
  BY DEF Refilled
<1>5. Pending <= allowed /\ Pending = Least(maxTokens * TokenUnit, tokens * TokenUnit + earned)
  BY DEF PacerInv, Pending
<1> HIDE DEF earned, gain
<1>6. /\ maxTokens * TokenUnit \in Nat /\ tokens * TokenUnit \in Nat
      /\ gain * TokenUnit \in Nat
  BY <1>1, <1>3, ProductType
<1>7. Refilled \in Nat /\ Refilled <= maxTokens /\ Refilled <= tokens + gain
  BY <1>1, <1>3, <1>4 DEF Least
<1>8. Refilled * TokenUnit \in Nat /\ Refilled * TokenUnit <= maxTokens * TokenUnit
  BY <1>1, <1>7, ProductType, ProductGrows
<1>9. Refilled * TokenUnit <= tokens * TokenUnit + earned
  <2>1. Refilled * TokenUnit <= (tokens + gain) * TokenUnit
    BY <1>1, <1>3, <1>7, ProductGrows
  <2>2. (tokens + gain) * TokenUnit = tokens * TokenUnit + gain * TokenUnit
    BY <1>1, <1>3, ProductOfSum
  <2> QED
    BY <1>2, <1>3, <1>6, <1>8, <2>1, <2>2
<1> QED
  BY <1>1, <1>2, <1>5, <1>6, <1>7, <1>8, <1>9 DEF Least

\* Nothing is in the bucket before the first set_rate.
LEMMA PacerInitInv == PacerInit => PacerInv
  BY PacerAssumption DEF PacerInit, PacerInv, PacerTypeOK, Pending, Least

\* Every step keeps the invariant.
LEMMA PacerStepInv == PacerInv /\ [PacerNext]_pacerVars => PacerInv'
<1> SUFFICES ASSUME PacerInv, [PacerNext]_pacerVars
             PROVE  PacerInv'
  OBVIOUS
<1>0. /\ rate \in Nat /\ tokens \in Nat /\ maxTokens \in Nat /\ elapsed \in Nat
      /\ waiting \in Nat /\ allowed \in Int
      /\ tokens <= maxTokens /\ TokenUnit \in Nat \ {0}
      /\ Pending <= allowed
      /\ maxTokens * TokenUnit \in Nat /\ tokens * TokenUnit \in Nat /\ rate * elapsed \in Nat
  BY PacerAssumption, ProductType DEF PacerInv, PacerTypeOK
<1>1. CASE TimePasses
  <2>1. /\ elapsed' = elapsed + 1
        /\ allowed' = Least(maxTokens * TokenUnit, allowed + rate * 1)
        /\ UNCHANGED <<rate, tokens, maxTokens, waiting>>
    BY <1>1 DEF TimePasses, AllowedAfter
  <2>2. rate * (elapsed + 1) = rate * elapsed + rate
    BY <1>0
  <2>3. PacerTypeOK'
    BY <1>0, <2>1 DEF PacerTypeOK, Least
  <2>4. Pending' <= allowed'
    BY <1>0, <2>1, <2>2 DEF Pending, Least
  <2> QED
    BY <1>0, <2>1, <2>3, <2>4 DEF PacerInv
<1>2. CASE SetRate
  <2>1. /\ rate' \in Nat /\ maxTokens' = (rate' * BurstTicks) \div TokenUnit
        /\ tokens' = Least(tokens, maxTokens') /\ allowed' = maxTokens' * TokenUnit
        /\ UNCHANGED <<elapsed, waiting>>
    BY <1>2, PacerAssumption DEF SetRate
  <2>2. maxTokens' \in Nat
    <3>1. rate' * BurstTicks \in Nat
      BY <2>1, PacerAssumption, ProductType
    <3> QED
      BY <1>0, <2>1, <3>1, QuotientRoundsDown
  <2>3. tokens' \in Nat /\ tokens' <= maxTokens'
    BY <1>0, <2>1, <2>2 DEF Least
  <2>4. maxTokens' * TokenUnit \in Nat /\ tokens' * TokenUnit \in Nat /\ rate' * elapsed' \in Nat
    BY <1>0, <2>1, <2>2, <2>3, ProductType
  <2>5. PacerTypeOK'
    BY <1>0, <2>1, <2>2, <2>3, <2>4 DEF PacerTypeOK
  <2>6. Pending' <= allowed'
    BY <2>1, <2>4 DEF Pending, Least
  <2> QED
    BY <2>3, <2>5, <2>6 DEF PacerInv
<1>3. CASE WaitBegins
  <2>1. waiting' \in Nat /\ UNCHANGED <<rate, tokens, maxTokens, elapsed, allowed>>
    BY <1>3, PacerAssumption DEF WaitBegins
  <2> QED
    BY <1>0, <2>1 DEF PacerInv, PacerTypeOK, Pending
<1>4. CASE Sends
  <2>1. /\ waiting > 0 /\ Refilled >= waiting /\ tokens' = Refilled - waiting
        /\ elapsed' = (IF rate > 0 THEN 0 ELSE elapsed)
        /\ allowed' = allowed - waiting * TokenUnit
        /\ waiting' = 0
        /\ UNCHANGED <<rate, maxTokens>>
    BY <1>4 DEF Sends
  <2>2. Refilled \in Nat /\ Refilled <= maxTokens /\ Refilled * TokenUnit <= allowed
    BY RefillAllowed
  <2>3. tokens' \in Nat /\ tokens' <= maxTokens'
    BY <1>0, <2>1, <2>2
  <2>4. /\ tokens' * TokenUnit = Refilled * TokenUnit - waiting * TokenUnit
        /\ waiting * TokenUnit \in Nat /\ Refilled * TokenUnit \in Nat
    BY <1>0, <2>1, <2>2, ProductOfDifference, ProductType
  <2>5. rate' * elapsed' = 0
    BY <1>0, <2>1
  <2>6. PacerTypeOK'
    BY <1>0, <2>1, <2>3, <2>4 DEF PacerTypeOK
  <2>7. Pending' <= allowed'
    BY <1>0, <2>1, <2>2, <2>4, <2>5 DEF Pending, Least
  <2> QED
    BY <2>3, <2>6, <2>7 DEF PacerInv
<1>5. CASE Wakes
  <2>1. PICK over \in 0..MaxOversleep : Sleeps(over)
    BY <1>5 DEF Wakes
  <2> DEFINE ticks == ((waiting - Refilled) * TokenUnit) \div rate + over
  <2>2. /\ waiting > Refilled /\ rate > 0 /\ tokens' = Refilled /\ elapsed' = ticks
        /\ allowed' = Least(maxTokens * TokenUnit, allowed + rate * ticks)
        /\ UNCHANGED <<rate, maxTokens, waiting>>
    BY <2>1 DEF Sleeps, AllowedAfter
  <2>3. Refilled \in Nat /\ Refilled <= maxTokens /\ Refilled * TokenUnit <= allowed
    BY RefillAllowed
  <2>4. ticks \in Nat
    <3>1. waiting - Refilled \in Nat
      BY <1>0, <2>2, <2>3
    <3>2. (waiting - Refilled) * TokenUnit \in Nat
      BY <1>0, <3>1, ProductType
    <3>3. ((waiting - Refilled) * TokenUnit) \div rate \in Nat
      BY <1>0, <2>2, <3>2, QuotientRoundsDown
    <3>4. over \in Nat
      BY PacerAssumption
    <3> QED
      BY <3>3, <3>4
  <2> HIDE DEF ticks
  <2>5. rate * ticks \in Nat /\ Refilled * TokenUnit \in Nat
    BY <1>0, <2>3, <2>4, ProductType
  <2>6. PacerTypeOK'
    BY <1>0, <2>2, <2>3, <2>4, <2>5 DEF PacerTypeOK, Least
  <2>7. Pending' <= allowed'
    BY <1>0, <2>2, <2>3, <2>5 DEF Pending, Least
  <2> QED
    BY <2>2, <2>3, <2>6, <2>7 DEF PacerInv
<1>6. CASE UNCHANGED pacerVars
  BY <1>6 DEF pacerVars, PacerInv, PacerTypeOK, Pending
<1> QED
  BY <1>1, <1>2, <1>3, <1>4, <1>5, <1>6 DEF PacerNext

\* The invariant holds in every behaviour of PacketPacer.
THEOREM PacerInvariant == PacerSpec => []PacerInv
  BY PacerInitInv, PacerStepInv, PTL DEF PacerSpec

\* No interval carries more than its length times the rate and one burst, whenever rates
\* are set, refills round and sleeps last longer than asked.
THEOREM BurstsAreBounded == PacerSpec => []BurstBounded
<1>1. PacerInv => BurstBounded
  <2> SUFFICES ASSUME PacerInv
               PROVE  BurstBounded
    OBVIOUS
  <2>1. /\ tokens \in Nat /\ maxTokens \in Nat /\ allowed \in Int /\ tokens <= maxTokens
        /\ TokenUnit \in Nat /\ rate \in Nat /\ elapsed \in Nat /\ Pending <= allowed
    BY PacerAssumption DEF PacerInv, PacerTypeOK
  <2>2. /\ tokens * TokenUnit \in Nat /\ maxTokens * TokenUnit \in Nat /\ rate * elapsed \in Nat
        /\ tokens * TokenUnit <= maxTokens * TokenUnit
    BY <2>1, ProductType, ProductGrows
  <2> QED
    BY <2>1, <2>2 DEF BurstBounded, Pending, Least
<1> QED
  BY <1>1, PacerInvariant, PTL

--------------------------------------------------------------------------------
(***************************************************************************)
(* FecEncoder                                                              *)
(***************************************************************************)

\* Sums of bits without carry.
LEMMA BitSums ==
    /\ \A a, b \in Bit : (a + b) % 2 \in Bit
    /\ \A a \in Bit : (a + 0) % 2 = a /\ (a + a) % 2 = 0
    /\ \A a, b \in Bit : (a + ((a + b) % 2)) % 2 = b
    /\ \A a, b \in Bit : (((a + b) % 2) + a) % 2 = b
    /\ \A a, b, c, d \in Bit :
           (((a + c) % 2) + ((b + d) % 2)) % 2 = (((a + b) % 2) + ((c + d) % 2)) % 2
<1>1. Bit = {0, 1} /\ 0 % 2 = 0 /\ 1 % 2 = 1 /\ 2 % 2 = 0
  BY DEF Bit
<1>2. 0 + 0 = 0 /\ 0 + 1 = 1 /\ 1 + 0 = 1 /\ 1 + 1 = 2
  OBVIOUS
<1> QED
  BY <1>1, <1>2

\* The parity of a list, as partial sums that can be reasoned about.
LEMMA ParityAdds ==
    ASSUME NEW s \in Seq(Bit)
    PROVE  \E sum :
               /\ Parity(s) = sum[Len(s)]
               /\ sum[0] = 0
               /\ \A k \in 1..Len(s) : sum[k] = (sum[k - 1] + s[k]) % 2
               /\ \A k \in 0..Len(s) : sum[k] \in Bit
<1> DEFINE N == Len(s)
           Adds(f) == f = [k \in 0..N |-> IF k = 0 THEN 0 ELSE (f[k - 1] + s[k]) % 2]
           g == [p \in (1..N) \X Int |-> (p[2] + s[p[1]]) % 2]
<1>1. N \in Nat
  OBVIOUS
<1>2. \A k \in 1..N : s[k] \in Bit /\ s[k] \in Int
  BY DEF Bit
<1>3. g \in [(1..N) \X Int -> Int]
  BY <1>2
<1>4. PICK f \in [0..N -> Int] : f[0] = 0 /\ \A k \in 1..N : f[k] = g[<<k, f[k - 1]>>]
  <2> HIDE DEF g, N
  <2> QED
    BY <1>1, <1>3, RecursionExists
<1>5. ASSUME NEW k \in 1..N
      PROVE  f[k] = (f[k - 1] + s[k]) % 2
  <2>1. f[k] = g[<<k, f[k - 1]>>]
    BY <1>4
  <2>2. <<k, f[k - 1]>> \in (1..N) \X Int
    BY <1>1, <1>4
  <2> QED
    BY <2>1, <2>2
<1>6. Adds(f)
  <2>1. \A k \in 0..N : f[k] = IF k = 0 THEN 0 ELSE (f[k - 1] + s[k]) % 2
    BY <1>1, <1>4, <1>5
  <2> QED
    BY <2>1
<1> DEFINE sum == CHOOSE h : Adds(h)
<1>7. Adds(sum)
  <2> HIDE DEF Adds
  <2> QED
    BY <1>6
<1>8. Parity(s) = sum[N]
  BY DEF Parity
<1>9. sum[0] = 0 /\ \A k \in 1..N : sum[k] = (sum[k - 1] + s[k]) % 2
  <2> HIDE DEF sum
  <2>1. sum = [k \in 0..N |-> IF k = 0 THEN 0 ELSE (sum[k - 1] + s[k]) % 2]
    BY <1>7
  <2>2. 0 \in 0..N /\ \A k \in 1..N : k \in 0..N /\ k # 0
    BY <1>1
  <2> HIDE DEF N
  <2> QED
    BY <2>1, <2>2
<1>10. \A k \in 0..N : sum[k] \in Bit
  <2> DEFINE G == {k \in 0..N : sum[k] \in Bit}
  <2>1. 0 \in G
    BY <1>1, <1>9 DEF Bit
  <2>2. ASSUME NEW k \in 1..N, k - 1 \in G
        PROVE  k \in G
    <3>1. sum[k - 1] \in Bit /\ s[k] \in Bit /\ k \in 0..N
      BY <1>1, <1>2, <2>2
    <3> HIDE DEF sum
    <3>2. sum[k] = (sum[k - 1] + s[k]) % 2
      BY <1>9
    <3>3. sum[k] \in Bit
      BY <3>1, <3>2, BitSums
    <3> QED
      BY <3>1, <3>3
  <2>3. \A k \in 0..N : k \in G
    <3> HIDE DEF G, N
    <3> QED
      BY <1>1, <2>1, <2>2, InductionUpto
  <2> QED
    BY <2>3
<1> QED
  <2> HIDE DEF sum
  <2> QED
    BY <1>8, <1>9, <1>10

\* One more packet is added to the parity of those before it.
LEMMA ParityAppends ==
    ASSUME NEW s \in Seq(Bit), NEW b \in Bit
    PROVE  Parity(s) \in Bit /\ Parity(Append(s, b)) = (Parity(s) + b) % 2
<1> DEFINE t == Append(s, b)
           N == Len(s)
<1>1. PICK x : /\ Parity(s) = x[N]
               /\ x[0] = 0
               /\ \A k \in 1..N : x[k] = (x[k - 1] + s[k]) % 2
               /\ \A k \in 0..N : x[k] \in Bit
  BY ParityAdds
<1>2. t \in Seq(Bit) /\ Len(t) = N + 1 /\ N \in Nat /\ t[N + 1] = b
  OBVIOUS
<1>3. \A k \in 1..N : t[k] = s[k]
  OBVIOUS
<1>4. PICK y : /\ Parity(t) = y[N + 1]
               /\ y[0] = 0
               /\ \A k \in 1..(N + 1) : y[k] = (y[k - 1] + t[k]) % 2
  <2> HIDE DEF t, N
  <2> QED
    BY <1>2, ParityAdds
<1> DEFINE G == {k \in 0..N : x[k] = y[k]}
<1>5. 0 \in G
  BY <1>1, <1>2, <1>4
<1>6. ASSUME NEW k \in 1..N, k - 1 \in G
      PROVE  k \in G
  <2>1. x[k - 1] = y[k - 1] /\ k \in 0..N /\ k \in 1..(N + 1)
    BY <1>2, <1>6
  <2> HIDE DEF t, N
  <2>2. x[k] = y[k]
    BY <2>1, <1>1, <1>3, <1>4
  <2> QED
    BY <2>1, <2>2
<1>7. \A k \in 0..N : k \in G
  <2> HIDE DEF G, N
  <2> QED
    BY <1>2, <1>5, <1>6, InductionUpto
<1>8. x[N] = y[N] /\ N \in 0..N /\ N + 1 \in 1..(N + 1) /\ (N + 1) - 1 = N
  BY <1>2, <1>7
<1> HIDE DEF t, N
<1>9. Parity(t) = (x[N] + b) % 2 /\ x[N] \in Bit
  BY <1>1, <1>2, <1>4, <1>8
<1> QED
  BY <1>1, <1>9 DEF t

\* A list and the list with one bit cleared differ in parity by that bit.
LEMMA ParityOfLoss ==
    ASSUME NEW s \in Seq(Bit), NEW gone \in DOMAIN s
    PROVE  (Parity([s EXCEPT ![gone] = 0]) + Parity(s)) % 2 = s[gone]
<1> DEFINE t == [s EXCEPT ![gone] = 0]
           N == Len(s)
<1>1. PICK x : /\ Parity(s) = x[N]
               /\ x[0] = 0
               /\ \A k \in 1..N : x[k] = (x[k - 1] + s[k]) % 2
               /\ \A k \in 0..N : x[k] \in Bit
  BY ParityAdds
<1>2. t \in Seq(Bit) /\ Len(t) = N /\ N \in Nat
  BY DEF Bit
<1>3. /\ gone \in 1..N
      /\ s[gone] \in Bit
      /\ t[gone] = 0
      /\ \A k \in 1..N : k # gone => t[k] = s[k]
      /\ \A k \in 1..N : s[k] \in Bit /\ t[k] \in Bit
  BY DEF Bit
<1>4. PICK y : /\ Parity(t) = y[N]
               /\ y[0] = 0
               /\ \A k \in 1..N : y[k] = (y[k - 1] + t[k]) % 2
               /\ \A k \in 0..N : y[k] \in Bit
  <2> HIDE DEF t
  <2> QED
    BY <1>2, ParityAdds
<1> DEFINE Differ(k) == (y[k] + x[k]) % 2 = IF k < gone THEN 0 ELSE s[gone]
           G == {k \in 0..N : Differ(k)}
<1> HIDE DEF t, N
<1>5. 0 \in G
  BY <1>1, <1>2, <1>3, <1>4
<1>6. ASSUME NEW k \in 1..N, k - 1 \in G
      PROVE  k \in G
  <2>1. Differ(k - 1) /\ k - 1 \in 0..N /\ k \in 0..N
    BY <1>2, <1>6
  <2> DEFINE a == y[k - 1]
             b == x[k - 1]
             c == t[k]
             d == s[k]
  <2>2. a \in Bit /\ b \in Bit /\ c \in Bit /\ d \in Bit
    BY <2>1, <1>1, <1>3, <1>4
  <2>3. y[k] = (a + c) % 2 /\ x[k] = (b + d) % 2
    BY <1>1, <1>4
  <2>4. (y[k] + x[k]) % 2 = (((a + b) % 2) + ((c + d) % 2)) % 2
    <3> HIDE DEF a, b, c, d
    <3> QED
      BY <2>2, <2>3, BitSums
  <2>5. CASE k = gone
    <3>1. (a + b) % 2 = 0 /\ c = 0 /\ d = s[gone]
      BY <1>2, <1>3, <2>1, <2>5
    <3>2. Differ(k)
      <4> HIDE DEF a, b, c, d
      <4>1. (0 + ((0 + s[gone]) % 2)) % 2 = s[gone]
        BY <1>3 DEF Bit
      <4> QED
        BY <3>1, <2>4, <2>5, <4>1
    <3> QED
      BY <2>1, <3>2
  <2>6. CASE k # gone
    <3>1. c = d /\ (c + d) % 2 = 0
      BY <1>3, <2>2, <2>6, BitSums
    <3>2. (k - 1 < gone) <=> (k < gone)
      BY <1>2, <1>3, <2>6
    <3>3. (a + b) % 2 \in Bit
      <4> HIDE DEF a, b
      <4> QED
        BY <2>2, BitSums
    <3>4. (y[k] + x[k]) % 2 = (a + b) % 2
      <4> HIDE DEF a, b, c, d
      <4> QED
        BY <2>4, <3>1, <3>3, BitSums
    <3>5. Differ(k)
      BY <2>1, <3>2, <3>4
    <3> QED
      BY <2>1, <3>5
  <2> QED
    BY <2>5, <2>6
<1>7. \A k \in 0..N : k \in G
  <2> HIDE DEF G
  <2> QED
    BY <1>2, <1>5, <1>6, InductionUpto
<1>8. Differ(N) /\ ~(N < gone)
  BY <1>2, <1>3, <1>7
<1> QED
  BY <1>1, <1>4, <1>8 DEF t

\* While the parity packets are at hand they are those of the packets they stand for, and
\* the block holds what has been sent since.
FecInv ==
    /\ FecTypeOK
    /\ block = sent
    /\ \A p \in DOMAIN output : output[p] = Parity(covered)

\* What encode returns for a full block are parity packets, each the sum of the block.
LEMMA ParityPacketsFit ==
    ASSUME NEW s \in Seq(Bit), NEW l \in Level
    PROVE  /\ ParityPackets(s, l) \in Seq(Bit)
           /\ \A p \in DOMAIN ParityPackets(s, l) : ParityPackets(s, l)[p] = Parity(s)
<1>1. Parity(s) \in Bit
  BY ParityAppends DEF Bit
<1>2. Parities \in Nat
  BY FecAssumption
<1> QED
  BY <1>1, <1>2 DEF ParityPackets

LEMMA FecInitInv == FecInit => FecInv
<1> SUFFICES ASSUME FecInit
             PROVE  FecInv
  OBVIOUS
<1>1. <<>> \in Seq(Bit) /\ DOMAIN <<>> = {} /\ 0 \in 0..(Groups - 1)
  BY FecAssumption
<1> QED
  BY <1>1 DEF FecInit, FecInv, FecTypeOK, Level

LEMMA FecStepInv == FecInv /\ [FecNext]_fecVars => FecInv'
<1> SUFFICES ASSUME FecInv, [FecNext]_fecVars
             PROVE  FecInv'
  OBVIOUS
<1>1. /\ level \in Level /\ group \in 0..(Groups - 1)
      /\ block \in Seq(Bit) /\ output \in Seq(Bit) /\ sent \in Seq(Bit) /\ covered \in Seq(Bit)
      /\ block = sent
      /\ \A p \in DOMAIN output : output[p] = Parity(covered)
  BY DEF FecInv, FecTypeOK
<1>2. <<>> \in Seq(Bit) /\ DOMAIN <<>> = {}
  OBVIOUS
<1>3. CASE SetLevel
  <2>1. level' \in Level
    BY <1>3 DEF SetLevel
  <2>2. UNCHANGED <<block, group, output, sent, covered>>
    BY <1>3 DEF SetLevel
  <2> QED
    BY <1>1, <2>1, <2>2 DEF FecInv, FecTypeOK
<1>4. CASE EncodeUnprotected
  BY <1>1, <1>2, <1>4 DEF EncodeUnprotected, FecInv, FecTypeOK
<1>5. CASE EncodeCollects
  <2>1. PICK packet \in Bit : block' = Append(block, packet) /\ sent' = Append(sent, packet)
    BY <1>5 DEF EncodeCollects
  <2>2. output' = <<>> /\ UNCHANGED <<level, group, covered>>
    BY <1>5 DEF EncodeCollects
  <2>3. block' \in Seq(Bit) /\ block' = sent'
    BY <1>1, <2>1
  <2> QED
    BY <1>1, <1>2, <2>2, <2>3 DEF FecInv, FecTypeOK
<1>6. CASE EncodeCloses
  <2>1. PICK packet \in Bit : /\ output' = ParityPackets(Append(block, packet), level)
                              /\ covered' = Append(sent, packet)
    BY <1>6 DEF EncodeCloses
  <2>2. /\ block' = <<>> /\ sent' = <<>> /\ level' = level
        /\ group' = (group + 1) % Groups
    BY <1>6 DEF EncodeCloses
  <2>3. covered' \in Seq(Bit) /\ output' = ParityPackets(covered', level)
    BY <1>1, <2>1
  <2>4. output' \in Seq(Bit) /\ \A p \in DOMAIN output' : output'[p] = Parity(covered')
    BY <1>1, <2>3, ParityPacketsFit
  <2>5. group' \in 0..(Groups - 1)
    BY <1>1, <2>2, FecAssumption
  <2> QED
    BY <1>1, <1>2, <2>2, <2>3, <2>4, <2>5 DEF FecInv, FecTypeOK
<1>7. CASE UNCHANGED fecVars
  BY <1>1, <1>7 DEF fecVars, FecInv, FecTypeOK
<1> QED
  BY <1>3, <1>4, <1>5, <1>6, <1>7 DEF FecNext

\* The invariant holds in every behaviour of FecEncoder.
THEOREM FecInvariant == FecSpec => []FecInv
  BY FecInitInv, FecStepInv, PTL DEF FecSpec

\* Whatever levels are set between packets, a parity packet and all the packets it stands for
\* but one determine that one, and none it does not stand for is added in.  For two losses
\* there is no such theorem at any level, see LossesDetermined.
THEOREM OneLossIsDetermined == FecSpec => []OneLossDetermined
<1>1. FecInv => OneLossDetermined
  <2> SUFFICES ASSUME FecInv, NEW p \in DOMAIN output, NEW gone \in DOMAIN covered
               PROVE  Parity(Append([covered EXCEPT ![gone] = 0], output[p])) = covered[gone]
    BY DEF OneLossDetermined
  <2> DEFINE t == [covered EXCEPT ![gone] = 0]
  <2>1. covered \in Seq(Bit) /\ output[p] = Parity(covered)
    BY DEF FecInv, FecTypeOK
  <2>2. t \in Seq(Bit)
    BY <2>1 DEF Bit
  <2>3. Parity(covered) \in Bit
    BY <2>1, ParityAppends DEF Bit
  <2>4. Parity(Append(t, output[p])) = (Parity(t) + Parity(covered)) % 2
    <3> HIDE DEF t
    <3> QED
      BY <2>1, <2>2, <2>3, ParityAppends
  <2>5. (Parity(t) + Parity(covered)) % 2 = covered[gone]
    BY <2>1, ParityOfLoss
  <2> QED
    BY <2>4, <2>5
<1> QED
  BY <1>1, FecInvariant, PTL

================================================================================
