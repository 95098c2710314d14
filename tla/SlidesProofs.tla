---------------------------- MODULE SlidesProofs ----------------------------
(***************************************************************************)
(* What the operators of Slides do to a deck, for every presentation: the  *)
(* lemmas on which the theorems about Reveal rest.  A deck is Sound when   *)
(* its indices, classes and fragments agree; every way of navigating keeps *)
(* it so.                                                                  *)
(***************************************************************************)
EXTENDS Slides, FiniteSetTheorems, FunctionTheorems, TLAPS

-----------------------------------------------------------------------------
(* Numbers.                                                                 *)
LEMMA ModInRange ==
  ASSUME NEW i \in Int, NEW k \in Nat, k > 0
  PROVE  /\ i % k \in 0 .. k - 1
         /\ i \in 0 .. k - 1 => i % k = i
         /\ i = k => i % k = 0
         /\ i = -1 => i % k = k - 1
OBVIOUS

(* Bounded() lands on a slide, and leaves an index that is one alone.       *)
LEMMA BoundedInRange ==
  ASSUME NEW p, p.loop \in BOOLEAN, NEW i \in Int, NEW k \in Nat
  PROVE  /\ Bounded(p, i, k) \in Nat
         /\ k = 0 => Bounded(p, i, k) = 0
         /\ k > 0 => Bounded(p, i, k) \in 0 .. k - 1
         /\ i \in 0 .. k - 1 => Bounded(p, i, k) = i
BY ModInRange DEF Bounded

(* A neighbour that exists, or that looping leads to, is another slide.     *)
LEMMA BoundedNeighbour ==
  ASSUME NEW p, p.loop \in BOOLEAN, NEW k \in Nat, NEW h \in 0 .. k - 1, p.loop => k > 1
  PROVE  /\ h > 0 \/ p.loop => Bounded(p, h - 1, k) # h
         /\ h < k - 1 \/ p.loop => Bounded(p, h + 1, k) # h
<1>1. CASE ~p.loop
  BY <1>1 DEF Bounded
<1>2. CASE p.loop
  <2>1. Bounded(p, h - 1, k) = (h - 1) % k /\ Bounded(p, h + 1, k) = (h + 1) % k
    BY <1>2 DEF Bounded
  <2>2. (h - 1) % k # h
    <3>1. CASE h = 0
      BY <1>2, <3>1, ModInRange
    <3>2. CASE h > 0
      <4>1. h - 1 \in 0 .. k - 1
        BY <3>2
      <4>2. (h - 1) % k = h - 1
        BY <4>1, ModInRange
      <4> QED BY <4>2
    <3> QED BY <3>1, <3>2
  <2>3. (h + 1) % k # h
    <3>1. CASE h = k - 1
      BY <1>2, <3>1, ModInRange
    <3>2. CASE h < k - 1
      <4>1. h + 1 \in 0 .. k - 1
        BY <3>2
      <4>2. (h + 1) % k = h + 1
        BY <4>1, ModInRange
      <4> QED BY <4>2
    <3> QED BY <3>1, <3>2
  <2> QED BY <2>1, <2>2, <2>3
<1> QED BY <1>1, <1>2

LEMMA CountTo ==
  ASSUME NEW n \in Nat
  PROVE  IsFiniteSet(0 .. n - 1) /\ Cardinality(0 .. n - 1) = n
<1>1. 0 \in Int /\ n - 1 \in Int
  OBVIOUS
<1>2. IsFiniteSet(0 .. n - 1) /\ Cardinality(0 .. n - 1) = IF 0 > n - 1 THEN 0 ELSE n - 1 - 0 + 1
  BY <1>1, FS_Interval
<1> QED BY <1>2

LEMMA Fewer ==
  ASSUME NEW S, IsFiniteSet(S), NEW T, T \subseteq S
  PROVE  /\ IsFiniteSet(T) /\ Cardinality(T) \in Nat /\ Cardinality(S) \in Nat
         /\ Cardinality(T) <= Cardinality(S)
         /\ Cardinality(T) = Cardinality(S) => T = S
BY FS_Subset, FS_CardinalityType

(* The ranks of the members of a finite set of numbers have no gaps.        *)
Rank(S, k) == Cardinality({j \in S : j < k})

LEMMA RankMonotone ==
  ASSUME NEW S \in SUBSET Int, IsFiniteSet(S), NEW i \in S, NEW k \in S
  PROVE  /\ Rank(S, i) \in 0 .. Cardinality(S) - 1
         /\ i < k => Rank(S, i) < Rank(S, k)
<1> DEFINE B == {m \in S : m < i}
           C == {m \in S : m < k}
<1>1. IsFiniteSet(B) /\ i \notin B
  <2>1. B \subseteq S
    OBVIOUS
  <2> HIDE DEF B
  <2>2. IsFiniteSet(B)
    BY <2>1, Fewer
  <2> USE DEF B
  <2> QED BY <2>2
<1>2. B \cup {i} \subseteq S /\ (i < k => B \cup {i} \subseteq C) /\ C \subseteq S
  <2>1. ASSUME i < k, NEW m \in B \cup {i} PROVE m \in C
    <3>1. m \in Int /\ i \in Int /\ k \in Int /\ m <= i
      OBVIOUS
    <3> QED BY <2>1, <3>1
  <2> QED BY <2>1
<1>3. Rank(S, i) = Cardinality(B) /\ Rank(S, k) = Cardinality(C)
  BY DEF Rank
<1> HIDE DEF B, C
<1>4. /\ Cardinality(B \cup {i}) = Cardinality(B) + 1 /\ Cardinality(B) \in Nat
  BY <1>1, FS_AddElement, FS_CardinalityType
<1>5. Cardinality(B \cup {i}) <= Cardinality(S) /\ Cardinality(S) \in Nat
  BY <1>2, Fewer
<1>6. IsFiniteSet(C) /\ Cardinality(C) \in Nat
  BY <1>2, Fewer
<1>7. i < k => Cardinality(B \cup {i}) <= Cardinality(C)
  BY <1>2, <1>6, Fewer
<1> QED BY <1>3, <1>4, <1>5, <1>6, <1>7

LEMMA RanksFill ==
  ASSUME NEW S \in SUBSET Int, IsFiniteSet(S)
  PROVE  {Rank(S, k) : k \in S} = 0 .. Cardinality(S) - 1
<1> DEFINE n == Cardinality(S)
           f == [k \in S |-> Rank(S, k)]
<1>1. n \in Nat
  BY FS_CardinalityType
<1>2. f \in [S -> 0 .. n - 1]
  BY RankMonotone
<1>3. \A i, k \in S : f[i] = f[k] => i = k
  <2>1. ASSUME NEW i \in S, NEW k \in S, i # k PROVE f[i] # f[k]
    <3>1. i < k \/ k < i
      BY <2>1
    <3>2. i < k => Rank(S, i) < Rank(S, k)
      BY RankMonotone
    <3>3. k < i => Rank(S, k) < Rank(S, i)
      BY RankMonotone
    <3>4. Rank(S, i) \in Int /\ Rank(S, k) \in Int
      BY RankMonotone
    <3> QED BY <3>1, <3>2, <3>3, <3>4
  <2> QED BY <2>1
<1>4. f \in Injection(S, 0 .. n - 1)
  BY <1>2, <1>3, Fun_IsInj
<1>5. IsFiniteSet(0 .. n - 1) /\ Cardinality(0 .. n - 1) = n
  BY <1>1, CountTo
<1>6. f \in Surjection(S, 0 .. n - 1)
  BY <1>4, <1>5, FS_Injection
<1>7. \A m \in 0 .. n - 1 : \E k \in S : f[k] = m
  BY <1>6 DEF Surjection
<1> QED BY <1>2, <1>7

-----------------------------------------------------------------------------
(* Sections, and the slides among them.                                     *)
LEMMA PresentationTypes ==
  ASSUME NEW p, IsPresentation(p)
  PROVE  /\ p.n \in Nat /\ p.n > 0 /\ p.loop \in BOOLEAN /\ p.rtl \in BOOLEAN
         /\ \A x \in 0 .. p.n - 1 : p.verticals[x] \in Nat
BY DEF IsPresentation

LEMMA SectionPairs ==
  ASSUME NEW p, IsPresentation(p), NEW s
  PROVE  s \in Sections(p) <=>
           \E x \in 0 .. p.n - 1 : \E y \in {Whole} \cup 0 .. p.verticals[x] - 1 : s = <<x, y>>
BY DEF Sections, Tops, Children

LEMMA SectionParts ==
  ASSUME NEW p, IsPresentation(p), NEW s \in Sections(p)
  PROVE  /\ s = <<s[1], s[2]>> /\ s[1] \in 0 .. p.n - 1 /\ p.verticals[s[1]] \in Nat
         /\ s[2] \in Int
         /\ IsVerticalSlide(s) <=> s[2] \in 0 .. p.verticals[s[1]] - 1
         /\ ~IsVerticalSlide(s) <=> s \in Tops(p)
         /\ \A x \in 0 .. p.n - 1 : s \in Children(p, x) <=> IsVerticalSlide(s) /\ s[1] = x
<1>0. PICK x \in 0 .. p.n - 1 : \E y \in {Whole} \cup 0 .. p.verticals[x] - 1 : s = <<x, y>>
  BY SectionPairs
<1>1. PICK y \in {Whole} \cup 0 .. p.verticals[x] - 1 : s = <<x, y>>
  BY <1>0
<1>2. s[1] = x /\ s[2] = y /\ p.verticals[x] \in Nat
  BY <1>1 DEF IsPresentation
<1> QED BY <1>1, <1>2 DEF IsVerticalSlide, Whole, Tops, Children

LEMMA TopIsSection ==
  ASSUME NEW p, IsPresentation(p), NEW x \in 0 .. p.n - 1
  PROVE  <<x, Whole>> \in Sections(p) /\ <<x, Whole>> \in Tops(p) /\ p.verticals[x] \in Nat
BY DEF Sections, Tops, IsPresentation

LEMMA LeafParts ==
  ASSUME NEW p, IsPresentation(p), NEW l \in Leaves(p)
  PROVE  /\ l \in Sections(p) /\ l # None
         /\ l = <<l[1], l[2]>> /\ l[1] \in 0 .. p.n - 1 /\ p.verticals[l[1]] \in Nat
         /\ l[2] \in Int
         /\ IF p.verticals[l[1]] = 0 THEN l[2] = Whole ELSE l[2] \in 0 .. p.verticals[l[1]] - 1
         /\ IsVerticalSlide(l) <=> p.verticals[l[1]] > 0
<1>1. l \in Sections(p) /\ (l[2] = Whole => ~IsStack(p, l[1]))
  BY DEF Leaves
<1>2. /\ l = <<l[1], l[2]>> /\ l[1] \in 0 .. p.n - 1 /\ p.verticals[l[1]] \in Nat
      /\ l[2] \in Int
      /\ IsVerticalSlide(l) <=> l[2] \in 0 .. p.verticals[l[1]] - 1
  BY <1>1, SectionParts
<1>3. l # None
  BY <1>2 DEF None, Whole
<1> QED BY <1>1, <1>2, <1>3 DEF IsStack, IsVerticalSlide

(* Document order, for slides: across first, then down.                     *)
LEMMA Precedence ==
  ASSUME NEW p, IsPresentation(p), NEW l \in Leaves(p), NEW m \in Leaves(p)
  PROVE  /\ Precedes(l, m) <=>
              l[1] < m[1] \/ (l[1] = m[1] /\ IsVerticalSlide(l) /\ l[2] < m[2])
         /\ l = m \/ Precedes(l, m) \/ Precedes(m, l)
         /\ ~(Precedes(l, m) /\ Precedes(m, l)) /\ ~Precedes(l, l)
<1>1. /\ l = <<l[1], l[2]>> /\ l[1] \in Int /\ p.verticals[l[1]] \in Nat /\ l[2] \in Int
      /\ IF p.verticals[l[1]] = 0 THEN l[2] = Whole ELSE l[2] \in 0 .. p.verticals[l[1]] - 1
      /\ IsVerticalSlide(l) <=> p.verticals[l[1]] > 0
  BY LeafParts
<1>2. /\ m = <<m[1], m[2]>> /\ m[1] \in Int /\ p.verticals[m[1]] \in Nat /\ m[2] \in Int
      /\ IF p.verticals[m[1]] = 0 THEN m[2] = Whole ELSE m[2] \in 0 .. p.verticals[m[1]] - 1
      /\ IsVerticalSlide(m) <=> p.verticals[m[1]] > 0
  BY LeafParts
<1>3. l = m <=> l[1] = m[1] /\ l[2] = m[2]
  BY <1>1, <1>2
<1>4. Whole \notin Nat
  BY DEF Whole
<1>5. l[1] # m[1] \/ l[2] = m[2] \/ (IsVerticalSlide(l) /\ IsVerticalSlide(m))
  BY <1>1, <1>2
<1>6. Precedes(l, m) <=>
        l[1] < m[1] \/ (l[1] = m[1] /\ IsVerticalSlide(l) /\ l[2] < m[2])
  BY <1>1, <1>2, <1>3, <1>4, <1>5 DEF Precedes, IsVerticalSlide
<1>7. Precedes(m, l) <=>
        m[1] < l[1] \/ (l[1] = m[1] /\ IsVerticalSlide(m) /\ m[2] < l[2])
  BY <1>1, <1>2, <1>3, <1>4, <1>5 DEF Precedes, IsVerticalSlide
<1>8. ~Precedes(l, l)
  BY <1>1 DEF Precedes
<1> QED BY <1>1, <1>2, <1>3, <1>5, <1>6, <1>7, <1>8

(* The indices of a slide: 0 for the vertical one outside a stack.          *)
Placed(p, x, y) == x \in 0 .. p.n - 1 /\ y \in Nat /\ (y = 0 \/ y < p.verticals[x])

LEMMA SlideAtLeaf ==
  ASSUME NEW p, IsPresentation(p), NEW x, NEW y, Placed(p, x, y)
  PROVE  /\ SlideAt(p, x, y) \in Leaves(p) /\ SlideAt(p, x, y) # None
         /\ SlideAt(p, x, y)[1] = x
         /\ p.verticals[x] = 0 => y = 0 /\ SlideAt(p, x, y)[2] = Whole
         /\ p.verticals[x] > 0 => SlideAt(p, x, y)[2] = y
         /\ IsVerticalSlide(SlideAt(p, x, y)) <=> p.verticals[x] > 0
         /\ p.verticals[x] \in Nat
<1>1. p.verticals[x] \in Nat /\ x \in 0 .. p.n - 1 /\ x # Whole
  BY DEF Placed, IsPresentation, Whole
<1>2. CASE p.verticals[x] = 0
  <2>1. SlideAt(p, x, y) = <<x, Whole>> /\ y = 0
    BY <1>2 DEF SlideAt, Placed
  <2>2. <<x, Whole>> \in Sections(p)
    BY <1>1, TopIsSection
  <2> QED BY <1>1, <1>2, <2>1, <2>2 DEF Leaves, IsStack, None, IsVerticalSlide
<1>3. CASE p.verticals[x] > 0
  <2>1. y \in 0 .. p.verticals[x] - 1
    BY <1>1, <1>3 DEF Placed
  <2>2. SlideAt(p, x, y) = <<x, y>> /\ y # Whole
    BY <2>1 DEF SlideAt, Whole
  <2>3. <<x, y>> \in Sections(p)
    BY <1>1, <2>1, SectionPairs
  <2> QED BY <1>1, <1>3, <2>2, <2>3 DEF Leaves, None, IsVerticalSlide
<1> QED BY <1>1, <1>2, <1>3

LEMMA SlideAtInjective ==
  ASSUME NEW p, IsPresentation(p), NEW x, NEW y, Placed(p, x, y), NEW h, NEW v, Placed(p, h, v)
  PROVE  SlideAt(p, x, y) = SlideAt(p, h, v) <=> x = h /\ y = v
<1>1. p.verticals[x] \in Nat
  BY SlideAtLeaf
<1> QED BY <1>1, SlideAtLeaf

(* Where slide() lands.                                                     *)
LEMMA Lands ==
  ASSUME NEW p, IsPresentation(p), NEW h \in Int, NEW v \in Int
  PROVE  LET x == Bounded(p, h, p.n)
         IN Placed(p, x, Bounded(p, v, p.verticals[x]))
<1> DEFINE x == Bounded(p, h, p.n)
<1>1. p.loop \in BOOLEAN /\ p.n \in Nat /\ p.n > 0
  BY DEF IsPresentation
<1>2. x \in 0 .. p.n - 1
  BY <1>1, BoundedInRange
<1>3. p.verticals[x] \in Nat
  BY <1>2 DEF IsPresentation
<1> HIDE DEF x
<1>4. /\ Bounded(p, v, p.verticals[x]) \in Nat
      /\ p.verticals[x] = 0 => Bounded(p, v, p.verticals[x]) = 0
      /\ p.verticals[x] > 0 => Bounded(p, v, p.verticals[x]) \in 0 .. p.verticals[x] - 1
  BY <1>1, <1>3, BoundedInRange
<1>5. Placed(p, x, Bounded(p, v, p.verticals[x]))
  BY <1>2, <1>3, <1>4 DEF Placed
<1> QED BY <1>5 DEF x

LEMMA LandsHere ==
  ASSUME NEW p, IsPresentation(p), NEW x, NEW y, Placed(p, x, y)
  PROVE  Bounded(p, x, p.n) = x /\ Bounded(p, y, p.verticals[x]) = y
<1>1. /\ p.loop \in BOOLEAN /\ p.n \in Nat /\ x \in 0 .. p.n - 1 /\ x \in Int
      /\ p.verticals[x] \in Nat /\ y \in Nat /\ (y = 0 \/ y < p.verticals[x])
  BY DEF IsPresentation, Placed
<1>2. Bounded(p, x, p.n) = x
  BY <1>1, BoundedInRange
<1>3. CASE p.verticals[x] = 0
  BY <1>1, <1>3 DEF Bounded
<1>4. CASE p.verticals[x] > 0
  <2>1. y \in 0 .. p.verticals[x] - 1
    BY <1>1, <1>4
  <2> QED BY <1>1, <1>2, <2>1, BoundedInRange
<1> QED BY <1>1, <1>2, <1>3, <1>4

-----------------------------------------------------------------------------
(* The fields of a deck.                                                    *)
Fields == {"h", "v", "cur", "prev", "cls", "mem", "vis", "mark", "attr",
           "shown", "home", "overview", "events"}

HasFields(e) == Fields \subseteq DOMAIN e

(* g differs from e in its fragments and events at most.                    *)
SamePlace(e, g) ==
  /\ HasFields(g)
  /\ g.h = e.h /\ g.v = e.v /\ g.cur = e.cur /\ g.prev = e.prev /\ g.cls = e.cls
  /\ g.mem = e.mem /\ g.shown = e.shown /\ g.home = e.home /\ g.overview = e.overview

(* Fragments.  The numbers of a slide's fragments have no gaps, ...         *)
Numbered(a) == \E m \in Nat : Range(a) = 0 .. m - 1

(* ... and the visible ones are those below some number.                    *)
UpTo(a, w) == {i \in DOMAIN a : a[i] < w}
Staged(a, V) == \E m \in Nat : Range(a) = 0 .. m - 1 /\ \E w \in 0 .. m : V = UpTo(a, w)

(* The number sortFragments() gives the fragment i of S.                    *)
NumberIn(a, S, i) ==
  LET ordered == {a[k] : k \in S} \ {Undef}
  IN IF a[i] # Undef
     THEN Cardinality({k \in ordered : k < a[i]})
     ELSE Cardinality(ordered) + Cardinality({j \in S : j < i /\ a[j] = Undef})

LEMMA SortFields ==
  ASSUME NEW e, HasFields(e), NEW l, NEW S
  PROVE  LET g == SortFragments(e, l, S)
         IN /\ SamePlace(e, g) /\ g.vis = e.vis /\ g.mark = e.mark /\ g.events = e.events
            /\ g.attr = [e.attr EXCEPT ![l] =
                           [i \in DOMAIN e.attr[l] |->
                              IF i \in S THEN NumberIn(e.attr[l], S, i) ELSE e.attr[l][i]]]
BY DEF SortFragments, NumberIn, HasFields, Fields, SamePlace

LEMMA SortOnly ==
  ASSUME NEW e, HasFields(e), NEW l, NEW S
  PROVE  LET g == SortFragments(e, l, S)
         IN SamePlace(e, g) /\ g.vis = e.vis /\ g.mark = e.mark
BY DEF SortFragments, HasFields, Fields, SamePlace

(* Numbers without gaps, of all fragments or of the visible ones, stay.     *)
LEMMA NumberSame ==
  ASSUME NEW a \in Seq(Int), NEW S \in SUBSET DOMAIN a, NEW m \in Nat,
         {a[k] : k \in S} = 0 .. m - 1, NEW i \in S
  PROVE  NumberIn(a, S, i) = a[i]
<1> DEFINE ordered == {a[k] : k \in S} \ {Undef}
<1>1. ordered = 0 .. m - 1 /\ a[i] \in 0 .. m - 1 /\ a[i] # Undef
  BY DEF Undef
<1>2. {k \in ordered : k < a[i]} = 0 .. a[i] - 1
  <2> HIDE DEF ordered
  <2> QED BY <1>1
<1>3. Cardinality(0 .. a[i] - 1) = a[i]
  BY <1>1, CountTo
<1> QED BY <1>1, <1>2, <1>3 DEF NumberIn

LEMMA SortSame ==
  ASSUME NEW e, HasFields(e), NEW l \in DOMAIN e.attr, e.attr = [x \in DOMAIN e.attr |-> e.attr[x]],
         e.attr[l] \in Seq(Int), NEW S \in SUBSET DOMAIN e.attr[l], NEW m \in Nat,
         {e.attr[l][k] : k \in S} = 0 .. m - 1
  PROVE  SortFragments(e, l, S).attr = e.attr
<1> DEFINE a == e.attr[l]
           b == [i \in DOMAIN a |-> IF i \in S THEN NumberIn(a, S, i) ELSE a[i]]
<1>1. SortFragments(e, l, S).attr = [e.attr EXCEPT ![l] = b]
  BY SortFields
<1>2. \A i \in S : NumberIn(a, S, i) = a[i]
  BY NumberSame
<1>3. b = a
  BY <1>2
<1> HIDE DEF b
<1> QED BY <1>1, <1>3

(* Whatever the markup says, sortFragments() numbers without gaps: first    *)
(* the numbers there are, by rank, then the fragments that have none.       *)
LEMMA SortNumbers ==
  ASSUME NEW a \in Seq(Nat \cup {Undef})
  PROVE  LET b == [i \in DOMAIN a |-> NumberIn(a, DOMAIN a, i)]
         IN b \in Seq(Nat) /\ DOMAIN b = DOMAIN a /\ Numbered(b)
<1> DEFINE N == DOMAIN a
           O == {a[k] : k \in N} \ {Undef}
           U == {i \in N : a[i] = Undef}
           b == [i \in N |-> NumberIn(a, N, i)]
           q == Cardinality(O)
           r == Cardinality(U)
<1>1. N = 1 .. Len(a) /\ Len(a) \in Nat /\ IsFiniteSet(N) /\ \A i \in N : a[i] \in Nat \cup {Undef}
  <2>1. N = 1 .. Len(a) /\ Len(a) \in Nat
    OBVIOUS
  <2>2. IsFiniteSet(1 .. Len(a))
    BY <2>1, FS_Interval
  <2> QED BY <2>1, <2>2
<1>2. IsFiniteSet(O) /\ O \subseteq Nat
  <2>1. O \subseteq {a[k] : k \in N} /\ O \subseteq Nat
    BY <1>1
  <2>2. IsFiniteSet({a[k] : k \in N})
    <3> DEFINE R == {a[k] : k \in N}
    <3>1. [k \in N |-> a[k]] \in Surjection(N, R)
      BY DEF Surjection
    <3> HIDE DEF R
    <3>2. IsFiniteSet(R)
      BY <1>1, <3>1, FS_Surjection
    <3> QED BY <3>2 DEF R
  <2> QED BY <2>1, <2>2, Fewer
<1>3. IsFiniteSet(U) /\ U \subseteq Int
  <2>1. U \subseteq N /\ U \subseteq Int
    BY <1>1
  <2> QED BY <1>1, <2>1, Fewer
<1>4. \A i \in N : b[i] = IF a[i] # Undef THEN Rank(O, a[i]) ELSE q + Rank(U, i)
  <2>1. ASSUME NEW i \in N PROVE {j \in N : j < i /\ a[j] = Undef} = {j \in U : j < i}
    OBVIOUS
  <2> QED BY <2>1 DEF NumberIn, Rank
<1>5. \A i \in N : a[i] # Undef => a[i] \in O
  OBVIOUS
<1>6. \A i \in N : a[i] = Undef => i \in U
  OBVIOUS
<1>7. \A k \in O : \E i \in N : a[i] = k /\ a[i] # Undef
  OBVIOUS
<1>8. q \in Nat /\ r \in Nat
  BY <1>2, <1>3, FS_CardinalityType
<1>9. {Rank(O, k) : k \in O} = 0 .. q - 1
  <2> HIDE DEF O
  <2>1. O \in SUBSET Int /\ IsFiniteSet(O)
    BY <1>2
  <2> QED BY <2>1, RanksFill
<1>10. {Rank(U, i) : i \in U} = 0 .. r - 1
  BY <1>3, RanksFill
<1>11. \A i \in U : i \in N /\ a[i] = Undef
  OBVIOUS
<1>12. DOMAIN b = N
  OBVIOUS
<1> HIDE DEF O, U, b, q, r
<1>13. \A i \in N : b[i] \in 0 .. q + r - 1
  <2> SUFFICES ASSUME NEW i \in N PROVE b[i] \in 0 .. q + r - 1
    OBVIOUS
  <2>1. CASE a[i] # Undef
    <3>1. Rank(O, a[i]) \in 0 .. q - 1
      BY <1>5, <1>9, <2>1
    <3> QED BY <1>4, <1>8, <2>1, <3>1
  <2>2. CASE a[i] = Undef
    <3>1. Rank(U, i) \in 0 .. r - 1
      BY <1>6, <1>10, <2>2
    <3> QED BY <1>4, <1>8, <2>2, <3>1
  <2> QED BY <2>1, <2>2
<1>14. \A k \in 0 .. q + r - 1 : \E i \in N : b[i] = k
  <2> SUFFICES ASSUME NEW k \in 0 .. q + r - 1 PROVE \E i \in N : b[i] = k
    OBVIOUS
  <2>1. CASE k < q
    <3>1. k \in 0 .. q - 1
      BY <1>8, <2>1
    <3>2. PICK o \in O : Rank(O, o) = k
      BY <1>9, <3>1
    <3> QED BY <1>4, <1>7, <3>2
  <2>2. CASE k >= q
    <3>1. k - q \in 0 .. r - 1
      BY <1>8, <2>2
    <3>2. PICK i \in U : Rank(U, i) = k - q
      BY <1>10, <3>1
    <3>3. b[i] = q + (k - q)
      BY <1>4, <1>11, <3>2
    <3> QED BY <1>8, <1>11, <3>3
  <2> QED BY <1>8, <2>1, <2>2
<1>15. q + r \in Nat /\ Range(b) = 0 .. (q + r) - 1
  BY <1>8, <1>12, <1>13, <1>14 DEF Range
<1>16. b \in Seq(Nat)
  <2>1. b = [i \in 1 .. Len(a) |-> b[i]]
    BY <1>1 DEF b
  <2>2. \A i \in 1 .. Len(a) : b[i] \in Nat
    BY <1>1, <1>8, <1>13
  <2>3. b \in [1 .. Len(a) -> Nat]
    BY <2>1, <2>2
  <2> QED BY <1>1, <2>3
<1> QED BY <1>12, <1>15, <1>16 DEF Numbered, b

(* The fragments of every slide.                                            *)
Fragmented(p, e) ==
  /\ e.attr \in [Leaves(p) -> Seq(Int)]
  /\ e.vis \in [Leaves(p) -> SUBSET Nat]
  /\ e.mark \in [Leaves(p) -> SUBSET Nat]
  /\ \A l \in Leaves(p) : /\ DOMAIN e.attr[l] = DOMAIN p.frags[l]
                          /\ e.mark[l] \subseteq e.vis[l]
                          /\ Staged(e.attr[l], e.vis[l])

LEMMA Clip ==
  ASSUME NEW a \in Seq(Int), NEW m \in Nat, Range(a) = 0 .. m - 1, NEW k \in Int
  PROVE  /\ Staged(a, UpTo(a, k))
         /\ UpTo(a, k) \subseteq DOMAIN a /\ UpTo(a, k) \in SUBSET Nat
         /\ UpTo(a, 0) = {} /\ UpTo(a, m) = DOMAIN a
<1>0. \A i \in DOMAIN a : a[i] \in 0 .. m - 1
  BY DEF Range
<1>1. \A i \in DOMAIN a : a[i] \in Int /\ 0 <= a[i] /\ a[i] < m
  BY <1>0
<1>2. UpTo(a, 0) = {} /\ UpTo(a, m) = DOMAIN a
  <2>1. \A i \in DOMAIN a : ~(a[i] < 0)
    BY <1>1
  <2> QED BY <1>1, <2>1 DEF UpTo
<1>3. ASSUME k < 0 PROVE UpTo(a, k) = UpTo(a, 0)
  <2>1. UpTo(a, k) = {}
    BY <1>1, <1>3 DEF UpTo
  <2> QED BY <1>2, <2>1
<1>4. ASSUME k > m PROVE UpTo(a, k) = UpTo(a, m)
  <2>0. \A i \in DOMAIN a : a[i] < k
    BY <1>1, <1>4
  <2>1. UpTo(a, k) = DOMAIN a
    BY <2>0 DEF UpTo
  <2> QED BY <1>2, <2>1
<1>5. UpTo(a, k) \subseteq DOMAIN a /\ UpTo(a, k) \in SUBSET Nat
  <2>1. DOMAIN a \subseteq Nat
    OBVIOUS
  <2> QED BY <2>1 DEF UpTo
<1>6. \E w \in 0 .. m : UpTo(a, k) = UpTo(a, w)
  <2>1. CASE k \in 0 .. m
    BY <2>1
  <2> QED BY <1>2, <1>3, <1>4, <2>1
<1> QED BY <1>2, <1>5, <1>6 DEF Staged

(* Two stages of the same slide are the same only if no number lies between. *)
LEMMA StagesDiffer ==
  ASSUME NEW a \in Seq(Int), NEW m \in Nat, Range(a) = 0 .. m - 1, NEW w \in 0 .. m
  PROVE  /\ w < m => UpTo(a, w + 1) # UpTo(a, w)
         /\ w > 0 => UpTo(a, w - 1) # UpTo(a, w)
         /\ UpTo(a, w) = {} <=> w = 0
         /\ UpTo(a, w) = DOMAIN a <=> w = m
<1>1. \A k \in 0 .. m - 1 : \E i \in DOMAIN a : a[i] = k
  BY DEF Range
<1>2. ASSUME w < m PROVE \E i \in DOMAIN a : i \in UpTo(a, w + 1) /\ i \notin UpTo(a, w)
  <2>1. PICK i \in DOMAIN a : a[i] = w
    BY <1>1, <1>2
  <2> QED BY <2>1 DEF UpTo
<1>3. ASSUME w > 0 PROVE \E i \in DOMAIN a : i \in UpTo(a, w) /\ i \notin UpTo(a, w - 1)
  <2>1. PICK i \in DOMAIN a : a[i] = w - 1
    BY <1>1, <1>3
  <2> QED BY <2>1 DEF UpTo
<1>4. UpTo(a, 0) = {} /\ UpTo(a, m) = DOMAIN a
  BY Clip
<1> QED BY <1>2, <1>3, <1>4

LEMMA VisibleNumbers ==
  ASSUME NEW a \in Seq(Int), NEW m \in Nat, Range(a) = 0 .. m - 1, NEW w \in 0 .. m
  PROVE  {a[i] : i \in UpTo(a, w)} = 0 .. w - 1
<1>1. \A k \in 0 .. m - 1 : \E i \in DOMAIN a : a[i] = k
  BY DEF Range
<1>2. \A i \in DOMAIN a : a[i] \in 0 .. m - 1
  BY DEF Range
<1>3. ASSUME NEW k \in 0 .. w - 1 PROVE \E i \in UpTo(a, w) : a[i] = k
  <2>1. PICK i \in DOMAIN a : a[i] = k
    BY <1>1
  <2> QED BY <2>1 DEF UpTo
<1>4. ASSUME NEW i \in UpTo(a, w) PROVE a[i] \in 0 .. w - 1
  BY <1>2 DEF UpTo
<1> QED BY <1>3, <1>4

LEMMA LastVisibleIs ==
  ASSUME NEW e, NEW a \in Seq(Int), e.attr[e.cur] = a, NEW m \in Nat, Range(a) = 0 .. m - 1,
         NEW w \in 0 .. m, e.vis[e.cur] = UpTo(a, w)
  PROVE  LastVisible(e) = w - 1
<1> DEFINE S == {e.attr[e.cur][i] : i \in e.vis[e.cur]}
<1>1. S = 0 .. w - 1
  BY VisibleNumbers
<1>2. LastVisible(e) = IF S = {} THEN -1 ELSE CHOOSE k \in S : \A j \in S : j <= k
  BY DEF LastVisible
<1> HIDE DEF S
<1>3. CASE w = 0
  BY <1>1, <1>2, <1>3
<1>4. CASE w > 0
  <2>1. w - 1 \in S /\ \A j \in S : j <= w - 1
    BY <1>1, <1>4
  <2>2. \A k \in S : (\A j \in S : j <= k) => k = w - 1
    BY <1>1, <2>1
  <2> QED BY <1>2, <2>1, <2>2
<1> QED BY <1>3, <1>4

LEMMA ShowFields ==
  ASSUME NEW e, HasFields(e), NEW index
  PROVE  LET g == ShowUpTo(e, index)
             on == {i \in DOMAIN e.attr[e.cur] : e.attr[e.cur][i] <= index}
         IN /\ SamePlace(e, g) /\ g.attr = e.attr
            /\ g.vis = [e.vis EXCEPT ![e.cur] = on]
            /\ g.mark = [e.mark EXCEPT ![e.cur] = {i \in on : e.attr[e.cur][i] = index}]
BY DEF ShowUpTo, HasFields, Fields, SamePlace

(* What changes on the current slide only.                                  *)
FragmentStep(p, e, g) ==
  /\ SamePlace(e, g) /\ g.attr = e.attr /\ Fragmented(p, g)
  /\ \A l \in Leaves(p) : l # e.cur => g.vis[l] = e.vis[l]

(* Once more with the stages: ShowUpTo() leads from one to another.         *)
LEMMA ShowStage ==
  ASSUME NEW p, NEW e, HasFields(e), Fragmented(p, e), e.cur \in Leaves(p), NEW k \in Int
  PROVE  LET g == ShowUpTo(e, k - 1)
         IN FragmentStep(p, e, g) /\ g.vis[e.cur] = UpTo(e.attr[e.cur], k)
<1> DEFINE a == e.attr[e.cur]
           on == {i \in DOMAIN a : a[i] <= k - 1}
           g == ShowUpTo(e, k - 1)
<1>1. a \in Seq(Int)
  BY DEF Fragmented
<1>2. on = UpTo(a, k)
  BY <1>1 DEF UpTo
<1>3. /\ SamePlace(e, g) /\ g.attr = e.attr
      /\ g.vis = [e.vis EXCEPT ![e.cur] = on]
      /\ g.mark = [e.mark EXCEPT ![e.cur] = {i \in on : a[i] = k - 1}]
  BY ShowFields
<1>4. PICK m \in Nat : Range(a) = 0 .. m - 1
  BY DEF Fragmented, Staged
<1>5. UpTo(a, k) \in SUBSET Nat /\ Staged(a, UpTo(a, k))
  <2> HIDE DEF a, on, g
  <2> QED BY <1>1, <1>4, Clip
<1> DEFINE marked == {i \in on : a[i] = k - 1}
<1>7. marked \subseteq UpTo(a, k)
  BY <1>2
<1> HIDE DEF on, g, a, marked
<1>8. /\ g.vis \in [Leaves(p) -> SUBSET Nat] /\ g.mark \in [Leaves(p) -> SUBSET Nat]
      /\ g.attr \in [Leaves(p) -> Seq(Int)]
  <2>1. g.mark = [e.mark EXCEPT ![e.cur] = marked]
    BY <1>3 DEF marked
  <2> QED BY <1>2, <1>3, <1>5, <1>7, <2>1 DEF Fragmented
<1>9. ASSUME NEW l \in Leaves(p)
      PROVE  /\ DOMAIN g.attr[l] = DOMAIN p.frags[l] /\ g.mark[l] \subseteq g.vis[l]
             /\ Staged(g.attr[l], g.vis[l])
  <2>1. g.mark = [e.mark EXCEPT ![e.cur] = marked]
    BY <1>3 DEF marked
  <2>2. CASE l = e.cur
    <3>1. g.vis[l] = UpTo(a, k) /\ g.mark[l] = marked /\ g.attr[l] = a
      BY <1>2, <1>3, <2>1, <2>2 DEF Fragmented, a
    <3> QED BY <1>3, <1>5, <1>7, <3>1 DEF Fragmented
  <2>3. CASE l # e.cur
    <3>1. g.vis[l] = e.vis[l] /\ g.mark[l] = e.mark[l] /\ g.attr[l] = e.attr[l]
      BY <1>3, <2>1, <2>3 DEF Fragmented
    <3> QED BY <3>1 DEF Fragmented
  <2> QED BY <2>2, <2>3
<1>10. Fragmented(p, g)
  BY <1>8, <1>9 DEF Fragmented
<1>11. g.vis[e.cur] = UpTo(a, k) /\ \A l \in Leaves(p) : l # e.cur => g.vis[l] = e.vis[l]
  BY <1>2, <1>3 DEF Fragmented
<1> QED BY <1>3, <1>10, <1>11 DEF FragmentStep, g, a

LEMMA SortKeepsNumbers ==
  ASSUME NEW p, NEW e, HasFields(e), Fragmented(p, e), NEW l \in Leaves(p)
  PROVE  LET a == e.attr[l]
             g == SortFragments(e, l, DOMAIN a)
             s == SortFragments(g, l, g.vis[l])
         IN /\ SamePlace(e, g) /\ g.attr = e.attr /\ g.vis = e.vis /\ g.mark = e.mark
            /\ SamePlace(e, s) /\ s.attr = e.attr /\ s.vis = e.vis /\ s.mark = e.mark
<1> DEFINE a == e.attr[l]
           g == SortFragments(e, l, DOMAIN a)
           s == SortFragments(g, l, g.vis[l])
<1>1. /\ a \in Seq(Int) /\ l \in DOMAIN e.attr
      /\ e.attr = [x \in DOMAIN e.attr |-> e.attr[x]]
  BY DEF Fragmented
<1>2. PICK m \in Nat : Range(a) = 0 .. m - 1 /\ \E w \in 0 .. m : e.vis[l] = UpTo(a, w)
  BY DEF Fragmented, Staged
<1>3. PICK w \in 0 .. m : e.vis[l] = UpTo(a, w)
  BY <1>2
<1>4. {a[k] : k \in DOMAIN a} = 0 .. m - 1
  BY <1>2 DEF Range
<1>5. /\ SamePlace(e, g) /\ g.vis = e.vis /\ g.mark = e.mark
  BY SortOnly
<1>6. g.attr = e.attr
  <2>1. DOMAIN a \in SUBSET DOMAIN e.attr[l]
    OBVIOUS
  <2> QED BY <1>1, <1>4, <2>1, SortSame
<1> HIDE DEF g
<1>7. HasFields(g) /\ /\ SamePlace(g, s) /\ s.vis = g.vis /\ s.mark = g.mark
  <2>1. HasFields(g)
    BY <1>5 DEF SamePlace
  <2> QED BY <2>1, SortOnly
<1>8. s.attr = g.attr
  <2>1. {a[i] : i \in UpTo(a, w)} = 0 .. w - 1
    <3> HIDE DEF a
    <3> QED BY <1>1, <1>2, VisibleNumbers
  <2>2. g.vis[l] = UpTo(a, w) /\ g.attr[l] = a
    BY <1>3, <1>5, <1>6
  <2>3. g.vis[l] \in SUBSET DOMAIN g.attr[l]
    BY <2>2 DEF UpTo
  <2>4. {g.attr[l][i] : i \in g.vis[l]} = 0 .. w - 1 /\ w \in Nat
    BY <2>1, <2>2
  <2> QED BY <1>1, <1>6, <1>7, <2>3, <2>4, SortSame
<1>9. SamePlace(e, s)
  BY <1>5, <1>7 DEF SamePlace
<1> QED BY <1>5, <1>6, <1>7, <1>8, <1>9 DEF g

LEMMA SameFragmented ==
  ASSUME NEW p, NEW e, NEW g, Fragmented(p, e), g.attr = e.attr, g.vis = e.vis, g.mark = e.mark
  PROVE  Fragmented(p, g)
BY DEF Fragmented

LEMMA SamePlaceTransitive ==
  ASSUME NEW e, NEW g, NEW k, SamePlace(e, g), SamePlace(g, k)
  PROVE  SamePlace(e, k)
BY DEF SamePlace

LEMMA NavigateFragmentEffect ==
  ASSUME NEW p, NEW e, HasFields(e), Fragmented(p, e), e.cur \in Leaves(p), NEW f \in Int
  PROVE  FragmentStep(p, e, NavigateFragment(p, e, f))
<1> DEFINE g == SortFragments(e, e.cur, DOMAIN e.attr[e.cur])
<1>1. CASE ~HasFragments(p, e)
  BY <1>1 DEF NavigateFragment, FragmentStep, SamePlace
<1>2. CASE HasFragments(p, e)
  <2>1. SamePlace(e, g) /\ g.attr = e.attr /\ g.vis = e.vis /\ g.mark = e.mark
    BY SortKeepsNumbers
  <2>2. NavigateFragment(p, e, f) = ShowUpTo(g, f)
    BY <1>2 DEF NavigateFragment
  <2> HIDE DEF g
  <2>3. HasFields(g) /\ g.cur = e.cur /\ Fragmented(p, g)
    BY <2>1, SameFragmented DEF SamePlace
  <2>4. f = (f + 1) - 1 /\ f + 1 \in Int
    OBVIOUS
  <2>5. FragmentStep(p, g, ShowUpTo(g, f))
    <3>1. FragmentStep(p, g, ShowUpTo(g, (f + 1) - 1))
      BY <2>3, <2>4, ShowStage
    <3> QED BY <2>4, <3>1
  <2>6. SamePlace(e, ShowUpTo(g, f))
    BY <2>1, <2>5, SamePlaceTransitive DEF FragmentStep
  <2> QED BY <2>1, <2>2, <2>3, <2>5, <2>6 DEF FragmentStep
<1> QED BY <1>1, <1>2

LEMMA FragmentShows ==
  ASSUME NEW p, NEW e, HasFields(e), Fragmented(p, e), e.cur \in Leaves(p),
         HasFragments(p, e), NEW f \in Int
  PROVE  NavigateFragment(p, e, f).vis[e.cur] = UpTo(e.attr[e.cur], f + 1)
<1> DEFINE g == SortFragments(e, e.cur, DOMAIN e.attr[e.cur])
<1>1. SamePlace(e, g) /\ g.attr = e.attr /\ g.vis = e.vis /\ g.mark = e.mark
  BY SortKeepsNumbers
<1>2. NavigateFragment(p, e, f) = ShowUpTo(g, f)
  BY DEF NavigateFragment
<1> HIDE DEF g
<1>3. HasFields(g) /\ g.cur = e.cur /\ Fragmented(p, g)
  BY <1>1, SameFragmented DEF SamePlace
<1>4. f = (f + 1) - 1 /\ f + 1 \in Int
  OBVIOUS
<1>5. ShowUpTo(g, (f + 1) - 1).vis[g.cur] = UpTo(g.attr[g.cur], f + 1)
  BY <1>3, <1>4, ShowStage
<1>6. ShowUpTo(g, f).vis[g.cur] = UpTo(g.attr[g.cur], f + 1)
  BY <1>4, <1>5
<1> QED BY <1>1, <1>2, <1>3, <1>6

(* A step of the fragments leads from one stage to the next or the one      *)
(* before, and does nothing when there is none.                             *)
LEMMA StepStage ==
  ASSUME NEW p, NEW e, HasFields(e), Fragmented(p, e), e.cur \in Leaves(p),
         HasFragments(p, e), NEW by \in {-1, 1},
         NEW m \in Nat, Range(e.attr[e.cur]) = 0 .. m - 1,
         NEW w \in 0 .. m, e.vis[e.cur] = UpTo(e.attr[e.cur], w)
  PROVE  LET g == StepFragment(p, e, by)
         IN /\ FragmentStep(p, e, g)
            /\ g.vis[e.cur] = UpTo(e.attr[e.cur], w + by)
<1> DEFINE a == e.attr[e.cur]
           all == SortFragments(e, e.cur, DOMAIN a)
           s == SortFragments(all, e.cur, all.vis[e.cur])
<1>1. SamePlace(e, s) /\ s.attr = e.attr /\ s.vis = e.vis /\ s.mark = e.mark
  BY SortKeepsNumbers
<1>2. StepFragment(p, e, by) = ShowUpTo(s, LastVisible(s) + by)
  <2>1. all.cur = e.cur
    BY SortKeepsNumbers DEF SamePlace
  <2> QED BY <2>1 DEF StepFragment
<1> HIDE DEF s, all
<1>3. HasFields(s) /\ s.cur = e.cur /\ Fragmented(p, s)
  BY <1>1, SameFragmented DEF SamePlace
<1>4. LastVisible(s) = w - 1
  <2>1. a \in Seq(Int)
    BY DEF Fragmented
  <2>2. s.attr[s.cur] = a /\ s.vis[s.cur] = UpTo(a, w)
    BY <1>1, <1>3
  <2> HIDE DEF a
  <2>3. Range(a) = 0 .. m - 1
    BY DEF a
  <2> QED BY <2>1, <2>2, <2>3, LastVisibleIs
<1>5. LastVisible(s) + by = (w + by) - 1 /\ w + by \in Int
  BY <1>4
<1> DEFINE k == w + by
<1>6. FragmentStep(p, s, ShowUpTo(s, k - 1)) /\ ShowUpTo(s, k - 1).vis[s.cur] = UpTo(s.attr[s.cur], k)
  <2>1. k \in Int
    BY <1>5
  <2> HIDE DEF k
  <2> QED BY <1>3, <2>1, ShowStage
<1> HIDE DEF k
<1>7. SamePlace(e, ShowUpTo(s, k - 1))
  BY <1>1, <1>6, SamePlaceTransitive DEF FragmentStep
<1>8. FragmentStep(p, e, ShowUpTo(s, k - 1)) /\ ShowUpTo(s, k - 1).vis[e.cur] = UpTo(a, k)
  BY <1>1, <1>3, <1>6, <1>7 DEF FragmentStep
<1> QED BY <1>2, <1>5, <1>8 DEF k

LEMMA SameVisible ==
  ASSUME NEW p, NEW e, Fragmented(p, e), NEW g, FragmentStep(p, e, g), e.cur \in Leaves(p)
  PROVE  g.vis = e.vis <=> g.vis[e.cur] = e.vis[e.cur]
<1>1. e.vis \in [Leaves(p) -> SUBSET Nat] /\ g.vis \in [Leaves(p) -> SUBSET Nat]
  BY DEF Fragmented, FragmentStep
<1>2. ASSUME g.vis[e.cur] = e.vis[e.cur] PROVE g.vis = e.vis
  <2>1. \A l \in Leaves(p) : g.vis[l] = e.vis[l]
    BY <1>2 DEF FragmentStep
  <2> QED BY <1>1, <2>1
<1> QED BY <1>2

(* When a step of the fragments of the current slide does something.        *)
LEMMA StepEffect ==
  ASSUME NEW p, NEW e, HasFields(e), Fragmented(p, e), e.cur \in Leaves(p), NEW by \in {-1, 1}
  PROVE  LET g == StepFragment(p, e, by)
         IN /\ FragmentStep(p, e, g)
            /\ FragmentMoved(e, g) <=> g.vis[e.cur] # e.vis[e.cur]
            /\ FragmentMoved(e, g) => HasFragments(p, e)
            /\ by = -1 => (FragmentMoved(e, g) <=> HasFragments(p, e) /\ e.vis[e.cur] # {})
            /\ by = 1 => (FragmentMoved(e, g) <=>
                            HasFragments(p, e) /\ e.vis[e.cur] # DOMAIN e.attr[e.cur])
<1> DEFINE g == StepFragment(p, e, by)
           a == e.attr[e.cur]
           V == e.vis[e.cur]
<1>1. CASE ~HasFragments(p, e)
  <2>1. g = e
    BY <1>1 DEF StepFragment
  <2>2. FragmentStep(p, e, e)
    BY DEF FragmentStep, SamePlace
  <2> QED BY <1>1, <2>1, <2>2 DEF FragmentMoved
<1>2. CASE HasFragments(p, e)
  <2>1. a \in Seq(Int)
    BY DEF Fragmented
  <2>2. PICK m \in Nat : Range(a) = 0 .. m - 1 /\ \E w \in 0 .. m : V = UpTo(a, w)
    BY DEF Fragmented, Staged
  <2>3. PICK w \in 0 .. m : V = UpTo(a, w)
    BY <2>2
  <2>4. FragmentStep(p, e, g) /\ g.vis[e.cur] = UpTo(a, w + by)
    BY <1>2, <2>2, <2>3, StepStage
  <2>5. FragmentMoved(e, g) <=> g.vis[e.cur] # V
    BY <2>4, SameVisible DEF FragmentMoved
  <2> HIDE DEF a, g
  <2>6. /\ w < m => UpTo(a, w + 1) # UpTo(a, w)
        /\ w > 0 => UpTo(a, w - 1) # UpTo(a, w)
        /\ UpTo(a, w) = {} <=> w = 0
        /\ UpTo(a, w) = DOMAIN a <=> w = m
    BY <2>1, <2>2, StagesDiffer
  <2>7. w = 0 => UpTo(a, w - 1) = UpTo(a, w)
    <3>1. \A i \in DOMAIN a : a[i] \in 0 .. m - 1
      BY <2>2 DEF Range
    <3>2. \A i \in DOMAIN a : a[i] \in Int /\ ~(a[i] < 0) /\ ~(a[i] < -1)
      BY <3>1
    <3> QED BY <3>2 DEF UpTo
  <2>8. w = m => UpTo(a, w + 1) = UpTo(a, w)
    <3>1. \A i \in DOMAIN a : a[i] \in 0 .. m - 1
      BY <2>2 DEF Range
    <3>2. \A i \in DOMAIN a : a[i] \in Int /\ a[i] < m /\ a[i] < m + 1
      BY <3>1
    <3> QED BY <3>2 DEF UpTo
  <2>9. CASE by = -1
    <3>1. w + by = w - 1
      BY <2>9
    <3>2. g.vis[e.cur] # V <=> V # {}
      BY <2>3, <2>4, <2>6, <2>7, <3>1
    <3> QED BY <1>2, <2>4, <2>5, <2>9, <3>2 DEF g
  <2>10. CASE by = 1
    <3>1. g.vis[e.cur] # V <=> V # DOMAIN a
      BY <2>3, <2>4, <2>6, <2>8, <2>10
    <3> QED BY <1>2, <2>4, <2>5, <2>10, <3>1 DEF g, a
  <2> QED BY <2>9, <2>10
<1> QED BY <1>1, <1>2

(* What slide() and the steps of fragments dispatch.                        *)
Signals == {"fragmenthidden", "fragmentshown", "slidechanged", "url"}

(* What the loop of navigateFragment() dispatches after the events s, when  *)
(* the visible fragments were V and are W.                                  *)
FragmentEvents(s, V, W) == s \o (IF V \ W # {} THEN <<"fragmenthidden">> ELSE <<>>)
                             \o (IF W \ V # {} THEN <<"fragmentshown">> ELSE <<>>)

LEMMA NoFragmentEvents ==
  ASSUME NEW s \in Seq(Signals), NEW V
  PROVE  FragmentEvents(s, V, V) = s
<1>1. V \ V = {}
  OBVIOUS
<1>2. s \o <<>> = s
  OBVIOUS
<1> QED BY <1>1, <1>2 DEF FragmentEvents

LEMMA ShowEvents ==
  ASSUME NEW p, NEW e, HasFields(e), Fragmented(p, e), e.cur \in Leaves(p), NEW index
  PROVE  LET g == ShowUpTo(e, index)
         IN g.events = FragmentEvents(e.events, e.vis[e.cur], g.vis[e.cur])
<1> DEFINE g == ShowUpTo(e, index)
           on == {i \in DOMAIN e.attr[e.cur] : e.attr[e.cur][i] <= index}
<1>1. /\ SamePlace(e, g) /\ g.attr = e.attr
      /\ g.vis = [e.vis EXCEPT ![e.cur] = on]
      /\ g.mark = [e.mark EXCEPT ![e.cur] = {i \in on : e.attr[e.cur][i] = index}]
  BY ShowFields
<1>2. g.vis[e.cur] = on
  <2> HIDE DEF on, g
  <2> QED BY <1>1 DEF Fragmented
<1>3. g.events = FragmentEvents(e.events, e.vis[e.cur], on)
  BY DEF ShowUpTo, HasFields, Fields, FragmentEvents
<1> QED BY <1>2, <1>3

LEMMA SortSilent ==
  ASSUME NEW e, HasFields(e), NEW l, NEW S
  PROVE  SortFragments(e, l, S).events = e.events
BY DEF SortFragments, HasFields, Fields

LEMMA FragmentsSay ==
  ASSUME NEW p, NEW e, HasFields(e), Fragmented(p, e), e.cur \in Leaves(p),
         e.events \in Seq(Signals), NEW g,
         (\E f \in Int : g = NavigateFragment(p, e, f)) \/ (\E by \in {-1, 1} : g = StepFragment(p, e, by))
  PROVE  g.events = FragmentEvents(e.events, e.vis[e.cur], g.vis[e.cur])
<1> DEFINE all == SortFragments(e, e.cur, DOMAIN e.attr[e.cur])
           seen == SortFragments(all, e.cur, all.vis[e.cur])
<1>1. CASE ~HasFragments(p, e)
  <2>1. g = e
    BY <1>1 DEF NavigateFragment, StepFragment
  <2> QED BY <2>1, NoFragmentEvents
<1>2. CASE HasFragments(p, e)
  <2>1. /\ SamePlace(e, all) /\ all.attr = e.attr /\ all.vis = e.vis /\ all.mark = e.mark
        /\ SamePlace(e, seen) /\ seen.attr = e.attr /\ seen.vis = e.vis /\ seen.mark = e.mark
    BY SortKeepsNumbers
  <2>2. all.events = e.events
    BY SortSilent
  <2>3. HasFields(all) /\ all.cur = e.cur
    BY <2>1 DEF SamePlace
  <2>4. seen.events = e.events
    <3> HIDE DEF all
    <3> QED BY <2>2, <2>3, SortSilent
  <2>5. \E s, k : g = ShowUpTo(s, k) /\ (s = all \/ s = seen)
    <3>1. \A f : NavigateFragment(p, e, f) = ShowUpTo(all, f)
      BY <1>2 DEF NavigateFragment
    <3>2. \A by : StepFragment(p, e, by) = ShowUpTo(seen, LastVisible(seen) + by)
      BY <1>2, <2>3 DEF StepFragment
    <3> HIDE DEF all, seen
    <3> QED BY <3>1, <3>2
  <2> HIDE DEF all, seen
  <2>6. PICK s, k : g = ShowUpTo(s, k) /\ (s = all \/ s = seen)
    BY <2>5
  <2>7. HasFields(s) /\ Fragmented(p, s) /\ s.cur = e.cur /\ s.events = e.events /\ s.vis = e.vis
    BY <2>1, <2>2, <2>4, <2>6, SameFragmented DEF SamePlace
  <2>8. g.events = FragmentEvents(s.events, s.vis[s.cur], g.vis[s.cur])
    BY <2>6, <2>7, ShowEvents
  <2> QED BY <2>7, <2>8
<1> QED BY <1>1, <1>2

(* previousFragment() undoes a nextFragment() that did something.           *)
LEMMA StepBack ==
  ASSUME NEW p, NEW e, HasFields(e), Fragmented(p, e), e.cur \in Leaves(p),
         FragmentMoved(e, StepFragment(p, e, 1))
  PROVE  LET g == StepFragment(p, e, 1)
             b == StepFragment(p, g, -1)
         IN b.cur = e.cur /\ b.vis[e.cur] = e.vis[e.cur] /\ FragmentMoved(g, b)
<1> DEFINE g == StepFragment(p, e, 1)
           b == StepFragment(p, g, -1)
           a == e.attr[e.cur]
<1>1. /\ FragmentStep(p, e, g) /\ HasFragments(p, e) /\ g.vis[e.cur] # e.vis[e.cur]
      /\ e.vis[e.cur] # DOMAIN a
  BY StepEffect
<1>2. a \in Seq(Int)
  BY DEF Fragmented
<1>3. PICK m \in Nat : Range(a) = 0 .. m - 1 /\ \E w \in 0 .. m : e.vis[e.cur] = UpTo(a, w)
  BY DEF Fragmented, Staged
<1>4. PICK w \in 0 .. m : e.vis[e.cur] = UpTo(a, w)
  BY <1>3
<1>5. g.vis[e.cur] = UpTo(a, w + 1)
  BY <1>1, <1>3, <1>4, StepStage
<1>6. w + 1 \in 0 .. m
  <2> HIDE DEF a
  <2>1. UpTo(a, w) # DOMAIN a
    BY <1>1, <1>4
  <2>2. w # m
    BY <1>2, <1>3, <2>1, StagesDiffer
  <2> QED BY <2>2
<1> HIDE DEF g
<1>7. /\ HasFields(g) /\ Fragmented(p, g) /\ g.cur = e.cur /\ g.attr = e.attr
      /\ HasFragments(p, g)
  BY <1>1 DEF FragmentStep, SamePlace, HasFragments
<1>8. FragmentStep(p, g, b) /\ b.vis[g.cur] = UpTo(a, (w + 1) + -1)
  <2> DEFINE k == w + 1
  <2>1. k \in 0 .. m /\ g.vis[g.cur] = UpTo(a, k) /\ a = g.attr[g.cur] /\ Range(g.attr[g.cur]) = 0 .. m - 1
    BY <1>3, <1>5, <1>6, <1>7
  <2> HIDE DEF k
  <2> QED BY <1>7, <2>1, StepStage DEF k
<1>9. (w + 1) + -1 = w
  OBVIOUS
<1>10. b.vis[e.cur] = e.vis[e.cur] /\ b.cur = e.cur
  BY <1>4, <1>7, <1>8, <1>9 DEF FragmentStep, SamePlace
<1> QED BY <1>1, <1>10 DEF FragmentMoved, g

LEMMA SortAt ==
  ASSUME NEW e, HasFields(e), NEW l \in DOMAIN e.attr, NEW S, S = DOMAIN e.attr[l]
  PROVE  SortFragments(e, l, S).attr[l] = [i \in S |-> NumberIn(e.attr[l], S, i)]
<1> DEFINE a == e.attr[l]
           k == [i \in DOMAIN a |-> IF i \in S THEN NumberIn(a, S, i) ELSE a[i]]
<1>1. SortFragments(e, l, S).attr = [e.attr EXCEPT ![l] = k]
  BY SortFields
<1>2. k = [i \in S |-> NumberIn(a, S, i)]
  OBVIOUS
<1> HIDE DEF k
<1>3. SortFragments(e, l, S).attr[l] = k
  BY <1>1
<1> QED BY <1>2, <1>3

LEMMA HiddenStaged ==
  ASSUME NEW a \in Seq(Int), Numbered(a)
  PROVE  Staged(a, {})
<1>1. PICK m \in Nat : Range(a) = 0 .. m - 1
  BY DEF Numbered
<1>2. \A i \in DOMAIN a : a[i] \in 0 .. m - 1
  BY <1>1 DEF Range
<1>3. UpTo(a, 0) = {} /\ 0 \in 0 .. m
  BY <1>2 DEF UpTo
<1> QED BY <1>1, <1>3 DEF Staged

(* sync() numbers the fragments of every slide afresh: of a page that was   *)
(* just opened, whatever its markup says; of any other it changes nothing.  *)
LEMMA SortAllFresh ==
  ASSUME NEW p, IsPresentation(p), NEW e, HasFields(e), e.attr = p.frags,
         e.vis = [l \in Leaves(p) |-> {}], e.mark = [l \in Leaves(p) |-> {}]
  PROVE  LET g == SortAllFragments(p, e)
         IN SamePlace(e, g) /\ Fragmented(p, g) /\ g.vis = e.vis
<1> DEFINE g == SortAllFragments(p, e)
           b(l) == [i \in DOMAIN p.frags[l] |-> NumberIn(p.frags[l], DOMAIN p.frags[l], i)]
<1>1. SamePlace(e, g) /\ g.vis = e.vis /\ g.mark = e.mark
  BY DEF SortAllFragments, HasFields, Fields, SamePlace
<1>2. p.frags \in [Leaves(p) -> Seq(Nat \cup {Undef})]
  BY DEF IsPresentation
<1>3. ASSUME NEW l \in Leaves(p)
      PROVE  SortFragments(e, l, DOMAIN e.attr[l]).attr[l] = b(l)
  <2>1. l \in DOMAIN e.attr /\ e.attr[l] = p.frags[l]
    BY <1>2
  <2> DEFINE S == DOMAIN e.attr[l]
  <2>2. SortFragments(e, l, S).attr[l] = [i \in S |-> NumberIn(e.attr[l], S, i)]
    <3> HIDE DEF S
    <3>1. S = DOMAIN e.attr[l]
      BY DEF S
    <3> QED BY <2>1, <3>1, SortAt
  <2> QED BY <2>1, <2>2
<1>4. DOMAIN g.attr = Leaves(p) /\ \A l \in Leaves(p) : g.attr[l] = b(l)
  <2>1. g.attr = [l \in Leaves(p) |-> SortFragments(e, l, DOMAIN e.attr[l]).attr[l]]
    BY DEF SortAllFragments, HasFields, Fields
  <2> QED BY <1>3, <2>1
<1>5. ASSUME NEW l \in Leaves(p)
      PROVE  b(l) \in Seq(Nat) /\ DOMAIN b(l) = DOMAIN p.frags[l] /\ Numbered(b(l))
  <2>1. p.frags[l] \in Seq(Nat \cup {Undef})
    BY <1>2
  <2> QED BY <2>1, SortNumbers
<1> HIDE DEF b, g
<1>6. \A l \in Leaves(p) : b(l) \in Seq(Int)
  BY <1>5
<1>7. g.attr \in [Leaves(p) -> Seq(Int)]
  <2>1. g.attr = [l \in Leaves(p) |-> g.attr[l]]
    BY <1>4 DEF g, SortAllFragments, HasFields, Fields
  <2> QED BY <1>4, <1>6, <2>1
<1>8. ASSUME NEW l \in Leaves(p) PROVE Staged(b(l), {})
  BY <1>5, <1>6, HiddenStaged
<1>9. Fragmented(p, g)
  BY <1>1, <1>4, <1>5, <1>7, <1>8 DEF Fragmented
<1> QED BY <1>1, <1>9 DEF g

LEMMA SortAllAgain ==
  ASSUME NEW p, NEW e, HasFields(e), Fragmented(p, e)
  PROVE  LET g == SortAllFragments(p, e)
         IN SamePlace(e, g) /\ Fragmented(p, g) /\ g.vis = e.vis /\ g.attr = e.attr
<1> DEFINE g == SortAllFragments(p, e)
<1>1. SamePlace(e, g) /\ g.vis = e.vis /\ g.mark = e.mark
  BY DEF SortAllFragments, HasFields, Fields, SamePlace
<1>2. g.attr = [l \in Leaves(p) |-> SortFragments(e, l, DOMAIN e.attr[l]).attr[l]]
  BY DEF SortAllFragments, HasFields, Fields
<1>3. \A l \in Leaves(p) : SortFragments(e, l, DOMAIN e.attr[l]).attr = e.attr
  BY SortKeepsNumbers
<1>4. g.attr = e.attr
  <2>1. g.attr = [l \in Leaves(p) |-> e.attr[l]]
    BY <1>2, <1>3
  <2>2. e.attr = [l \in Leaves(p) |-> e.attr[l]]
    BY DEF Fragmented
  <2> QED BY <2>1, <2>2
<1> HIDE DEF g
<1> QED BY <1>1, <1>4, SameFragmented DEF g

-----------------------------------------------------------------------------
(* The classes of a section, and the ones a turn gives it.                  *)
Words == {"none", "past", "present", "future"}

Relative(i, at, reverse) ==
  IF i = at THEN "present" ELSE IF (i < at) = reverse THEN "future" ELSE "past"

LEMMA RelativeWord ==
  ASSUME NEW i \in Int, NEW at \in Int, NEW reverse \in BOOLEAN
  PROVE  /\ Relative(i, at, reverse) \in Words
         /\ Relative(i, at, reverse) = "present" <=> i = at
         /\ i < at /\ ~reverse => Relative(i, at, reverse) = "past"
<1>1. Relative(i, at, reverse) \in Words
  BY DEF Relative, Words
<1>2. Relative(i, at, reverse) = "present" <=> i = at
  BY DEF Relative
<1>3. i < at /\ ~reverse => Relative(i, at, reverse) = "past"
  BY DEF Relative
<1> QED BY <1>1, <1>2, <1>3

LEMMA FullStaged ==
  ASSUME NEW a \in Seq(Int), Numbered(a)
  PROVE  Staged(a, DOMAIN a)
<1>1. PICK m \in Nat : Range(a) = 0 .. m - 1
  BY DEF Numbered
<1>2. \A i \in DOMAIN a : a[i] \in 0 .. m - 1
  BY <1>1 DEF Range
<1>3. \A i \in DOMAIN a : a[i] \in Int /\ 0 <= a[i] /\ a[i] < m
  BY <1>2
<1>4. UpTo(a, m) = DOMAIN a
  BY <1>3 DEF UpTo
<1>5. m \in 0 .. m
  OBVIOUS
<1> QED BY <1>1, <1>4, <1>5 DEF Staged

LEMMA StagedNumbered == ASSUME NEW a, NEW V, Staged(a, V) PROVE Numbered(a)
BY DEF Staged, Numbered

(* Showing or hiding whole slides keeps the fragments staged.               *)
LEMMA TurnFragmented ==
  ASSUME NEW p, NEW e, Fragmented(p, e), NEW g, g.attr = e.attr,
         DOMAIN g.vis = Leaves(p), g.vis = [l \in Leaves(p) |-> g.vis[l]],
         g.mark = [l \in Leaves(p) |-> g.mark[l]],
         \A l \in Leaves(p) : \/ g.vis[l] = e.vis[l] /\ g.mark[l] = e.mark[l]
                              \/ g.vis[l] \in {DOMAIN e.attr[l], {}} /\ g.mark[l] = {}
  PROVE  Fragmented(p, g)
<1>1. ASSUME NEW l \in Leaves(p)
      PROVE  /\ g.vis[l] \in SUBSET Nat /\ g.mark[l] \subseteq g.vis[l]
             /\ Staged(g.attr[l], g.vis[l])
             /\ DOMAIN g.attr[l] = DOMAIN p.frags[l]
  <2>1. /\ e.attr[l] \in Seq(Int) /\ Staged(e.attr[l], e.vis[l]) /\ e.vis[l] \in SUBSET Nat
        /\ e.mark[l] \subseteq e.vis[l] /\ DOMAIN e.attr[l] = DOMAIN p.frags[l]
    BY DEF Fragmented
  <2>2. CASE g.vis[l] = e.vis[l] /\ g.mark[l] = e.mark[l]
    BY <2>1, <2>2
  <2>3. CASE g.vis[l] \in {DOMAIN e.attr[l], {}} /\ g.mark[l] = {}
    <3>1. Numbered(e.attr[l])
      BY <2>1, StagedNumbered
    <3>2. Staged(e.attr[l], DOMAIN e.attr[l]) /\ Staged(e.attr[l], {})
      BY <2>1, <3>1, FullStaged, HiddenStaged
    <3>3. DOMAIN e.attr[l] \in SUBSET Nat
      BY <2>1
    <3> QED BY <2>1, <2>3, <3>2, <3>3
  <2> QED BY <2>2, <2>3
<1>2. \A l \in Leaves(p) : g.mark[l] \in SUBSET Nat
  BY <1>1
<1> QED BY <1>1, <1>2 DEF Fragmented

(* What a turn of updateSlides() leaves alone.                              *)
SameIndices(e, g) ==
  /\ HasFields(g)
  /\ g.h = e.h /\ g.v = e.v /\ g.cur = e.cur /\ g.prev = e.prev /\ g.mem = e.mem
  /\ g.attr = e.attr /\ g.shown = e.shown /\ g.home = e.home /\ g.overview = e.overview
  /\ g.events = e.events

LEMMA UpdateFields ==
  ASSUME NEW p, NEW e, HasFields(e), NEW dim, NEW row, NEW at
  PROVE  SameIndices(e, UpdateSlides(p, e, dim, row, at))
BY DEF UpdateSlides, HasFields, Fields, SameIndices

LEMMA UpdateAcross ==
  ASSUME NEW p, IsPresentation(p), NEW e, HasFields(e), Fragmented(p, e),
         e.cls \in [Sections(p) -> Words], NEW row, NEW x \in Int
  PROVE  LET g == UpdateSlides(p, e, 1, row, x)
         IN /\ Fragmented(p, g) /\ g.cls \in [Sections(p) -> Words]
            /\ \A s \in Sections(p) :
                 g.cls[s] = IF IsVerticalSlide(s) THEN e.cls[s] ELSE Relative(s[1], x, p.rtl)
            /\ \A l \in Leaves(p) :
                 g.vis[l] = IF l[1] = x THEN e.vis[l]
                            ELSE IF l[1] < x THEN DOMAIN e.attr[l] ELSE {}
<1> DEFINE g == UpdateSlides(p, e, 1, row, x)
           Away(l) == l[1] # x
<1>1. g.cls = [s \in DOMAIN e.cls |-> IF s \in Tops(p) THEN Relative(s[1], x, p.rtl) ELSE e.cls[s]]
  BY DEF UpdateSlides, HasFields, Fields, Relative, IsPresentation
<1>2. g.vis = [l \in DOMAIN e.vis |-> IF ~Away(l) THEN e.vis[l]
                                      ELSE IF l[1] < x THEN DOMAIN e.attr[l] ELSE {}]
  BY DEF UpdateSlides, HasFields, Fields
<1>3. g.mark = [l \in DOMAIN e.mark |-> IF Away(l) THEN {} ELSE e.mark[l]]
  BY DEF UpdateSlides, HasFields, Fields
<1>4. g.attr = e.attr
  BY UpdateFields DEF SameIndices
<1> HIDE DEF g
<1>5. DOMAIN e.cls = Sections(p) /\ DOMAIN e.vis = Leaves(p) /\ DOMAIN e.mark = Leaves(p)
  BY DEF Fragmented
<1>6. \A s \in Sections(p) : s \in Tops(p) <=> ~IsVerticalSlide(s)
  BY SectionParts
<1>7. \A s \in Sections(p) :
        g.cls[s] = IF IsVerticalSlide(s) THEN e.cls[s] ELSE Relative(s[1], x, p.rtl)
  BY <1>1, <1>5, <1>6
<1>8. g.cls \in [Sections(p) -> Words]
  <2>1. ASSUME NEW s \in Sections(p) PROVE g.cls[s] \in Words
    <3>1. s[1] \in Int /\ s[2] \in Int /\ p.rtl \in BOOLEAN /\ e.cls[s] \in Words
      BY SectionParts DEF IsPresentation
    <3> QED BY <1>7, <3>1, RelativeWord
  <2> QED BY <1>1, <1>5, <2>1
<1>9. Fragmented(p, g)
  <2>1. \A l \in Leaves(p) : \/ g.vis[l] = e.vis[l] /\ g.mark[l] = e.mark[l]
                             \/ g.vis[l] \in {DOMAIN e.attr[l], {}} /\ g.mark[l] = {}
    BY <1>2, <1>3, <1>5
  <2>2. /\ DOMAIN g.vis = Leaves(p) /\ g.vis = [l \in Leaves(p) |-> g.vis[l]]
        /\ g.mark = [l \in Leaves(p) |-> g.mark[l]]
    BY <1>2, <1>3, <1>5
  <2> QED BY <1>4, <2>1, <2>2, TurnFragmented
<1> QED BY <1>2, <1>5, <1>7, <1>8, <1>9 DEF g

TurnedDown(p, e, g, x, y) ==
  /\ Fragmented(p, g) /\ g.cls \in [Sections(p) -> Words]
  /\ \A s \in Sections(p) :
       g.cls[s] = IF IsVerticalSlide(s) /\ s[1] = x THEN Relative(s[2], y, FALSE)
                  ELSE e.cls[s]
  /\ \A l \in Leaves(p) :
       g.vis[l] = IF l[1] = x /\ IsVerticalSlide(l) /\ l[2] # y
                  THEN IF l[2] < y THEN DOMAIN e.attr[l] ELSE {}
                  ELSE e.vis[l]

LEMMA UpdateDown ==
  ASSUME NEW p, IsPresentation(p), NEW e, HasFields(e), Fragmented(p, e),
         e.cls \in [Sections(p) -> Words], NEW x \in 0 .. p.n - 1, NEW y \in Int
  PROVE  TurnedDown(p, e, UpdateSlides(p, e, 2, x, y), x, y)
<1> DEFINE g == UpdateSlides(p, e, 2, x, y)
           Away(l) == l[1] = x /\ IsVerticalSlide(l) /\ l[2] # y
<1>1. g.cls = [s \in DOMAIN e.cls |-> IF s \in Children(p, x) THEN Relative(s[2], y, FALSE)
                                      ELSE e.cls[s]]
  BY DEF UpdateSlides, HasFields, Fields, Relative
<1>2. g.vis = [l \in DOMAIN e.vis |-> IF ~Away(l) THEN e.vis[l]
                                      ELSE IF l[2] < y THEN DOMAIN e.attr[l] ELSE {}]
  BY DEF UpdateSlides, HasFields, Fields
<1>3. g.mark = [l \in DOMAIN e.mark |-> IF Away(l) THEN {} ELSE e.mark[l]]
  BY DEF UpdateSlides, HasFields, Fields
<1>4. g.attr = e.attr
  BY UpdateFields DEF SameIndices
<1> HIDE DEF g
<1>5. DOMAIN e.cls = Sections(p) /\ DOMAIN e.vis = Leaves(p) /\ DOMAIN e.mark = Leaves(p)
  BY DEF Fragmented
<1>6. \A s \in Sections(p) : s \in Children(p, x) <=> IsVerticalSlide(s) /\ s[1] = x
  BY SectionParts
<1>7. \A s \in Sections(p) :
        g.cls[s] = IF IsVerticalSlide(s) /\ s[1] = x THEN Relative(s[2], y, FALSE) ELSE e.cls[s]
  BY <1>1, <1>5, <1>6
<1>8. g.cls \in [Sections(p) -> Words]
  <2>1. ASSUME NEW s \in Sections(p) PROVE g.cls[s] \in Words
    <3>1. s[1] \in Int /\ s[2] \in Int /\ p.rtl \in BOOLEAN /\ e.cls[s] \in Words
      BY SectionParts DEF IsPresentation
    <3> QED BY <1>7, <3>1, RelativeWord
  <2> QED BY <1>1, <1>5, <2>1
<1>9. Fragmented(p, g)
  <2>1. \A l \in Leaves(p) : \/ g.vis[l] = e.vis[l] /\ g.mark[l] = e.mark[l]
                             \/ g.vis[l] \in {DOMAIN e.attr[l], {}} /\ g.mark[l] = {}
    <3> HIDE DEF Away
    <3> QED BY <1>2, <1>3, <1>5
  <2>2. /\ DOMAIN g.vis = Leaves(p) /\ g.vis = [l \in Leaves(p) |-> g.vis[l]]
        /\ g.mark = [l \in Leaves(p) |-> g.mark[l]]
    BY <1>2, <1>3, <1>5
  <2> QED BY <1>4, <2>1, <2>2, TurnFragmented
<1>10. \A l \in Leaves(p) : g.vis[l] = IF Away(l) THEN IF l[2] < y THEN DOMAIN e.attr[l] ELSE {}
                                       ELSE e.vis[l]
  <2> HIDE DEF Away
  <2> QED BY <1>2, <1>5
<1> QED BY <1>7, <1>8, <1>9, <1>10 DEF g, TurnedDown

-----------------------------------------------------------------------------
(* A deck on which slide() can be called: the page as it was opened, with   *)
(* no current slide, or one where the indices name the current slide; no    *)
(* other nested section is present.                                         *)
Base(p, e) ==
  /\ HasFields(e) /\ Fragmented(p, e)
  /\ e.h \in 0 .. p.n - 1 /\ e.v \in Nat
  /\ e.cls \in [Sections(p) -> Words] /\ e.mem \in [0 .. p.n - 1 -> Nat]
  /\ e.cur = None \/ (Placed(p, e.h, e.v) /\ e.cur = SlideAt(p, e.h, e.v))
  /\ \A s \in Sections(p) : IsVerticalSlide(s) /\ e.cls[s] = "present" => s = e.cur

(* What slide() makes of it: the classes and the fragments of the deck      *)
(* follow the current slide, which is not the previous one.                 *)
Sound(p, e) ==
  /\ Base(p, e)
  /\ Placed(p, e.h, e.v) /\ e.cur = SlideAt(p, e.h, e.v)
  /\ e.prev \in Leaves(p) \cup {None} /\ e.prev # e.cur
  /\ \A x \in 0 .. p.n - 1 : e.cls[<<x, Whole>>] = Relative(x, e.h, p.rtl)
  /\ e.cls[e.cur] = "present"
  /\ \A l \in Leaves(p) : /\ Precedes(l, e.cur) => e.vis[l] = DOMAIN e.attr[l]
                          /\ Precedes(e.cur, l) => e.vis[l] = {}
  /\ e.cur \in e.shown

LEMMA SoundPlace ==
  ASSUME NEW p, IsPresentation(p), NEW e, Sound(p, e)
  PROVE  /\ HasFields(e) /\ Fragmented(p, e) /\ Base(p, e)
         /\ e.cur \in Leaves(p) /\ e.cur # None /\ e.cur[1] = e.h
         /\ e.h \in 0 .. p.n - 1 /\ e.v \in Nat /\ p.verticals[e.h] \in Nat
         /\ Placed(p, e.h, e.v)
         /\ p.verticals[e.h] = 0 => e.v = 0
         /\ p.verticals[e.h] > 0 => e.v \in 0 .. p.verticals[e.h] - 1 /\ e.cur[2] = e.v
         /\ IsVerticalSlide(e.cur) <=> p.verticals[e.h] > 0
         /\ e.cls[e.cur] = "present" /\ e.cur \in e.shown
BY SlideAtLeaf DEF Sound, Base, Placed

LEMMA RememberedType ==
  ASSUME NEW p, IsPresentation(p), NEW e, Base(p, e), NEW h
  PROVE  Remembered(p, e, h) \in Nat /\ (e.cur = None => Remembered(p, e, h) = 0)
BY DEF Remembered, IsPresentation, Base, IsStack

(* The current slide is always within reach of updateSlidesVisibility().    *)
LEMMA CurrentShown ==
  ASSUME NEW p, IsPresentation(p), NEW e, Placed(p, e.h, e.v), e.cur = SlideAt(p, e.h, e.v)
  PROVE  e.cur \in Shown(p, e)
<1> DEFINE reach == IF e.overview THEN 10 ELSE p.viewDistance
           period == Distance(p.n, reach)
           far(x) == IF period = 0 THEN 0 ELSE Distance(e.h, x) % period
           deep(s) == Distance(IF s[1] = e.h THEN e.v ELSE Remembered(p, e, s[1]), s[2])
<1>1. reach \in Nat /\ p.n \in Nat
  BY DEF IsPresentation
<1>2. /\ e.cur \in Sections(p) /\ e.cur[1] = e.h /\ e.h \in Int /\ e.v \in Nat
      /\ IsVerticalSlide(e.cur) => e.cur[2] = e.v
  BY SlideAtLeaf, LeafParts DEF Placed
<1>3. period \in Nat
  <2> HIDE DEF reach
  <2> QED BY <1>1 DEF Distance
<1>4. far(e.cur[1]) = 0
  <2> HIDE DEF period
  <2>1. Distance(e.h, e.cur[1]) = 0
    BY <1>2 DEF Distance
  <2>2. CASE period = 0
    BY <2>2
  <2>3. CASE period # 0
    <3>1. 0 % period = 0
      <4>1. 0 \in 0 .. period - 1 /\ 0 \in Int /\ period > 0
        BY <1>3, <2>3
      <4> QED BY <1>3, <4>1, ModInRange
    <3> QED BY <2>1, <2>3, <3>1
  <2> QED BY <2>2, <2>3
<1>5. IsVerticalSlide(e.cur) => deep(e.cur) = 0
  BY <1>2 DEF Distance
<1> HIDE DEF far, deep, reach
<1>6. far(e.cur[1]) + (IF IsVerticalSlide(e.cur) THEN deep(e.cur) ELSE 0) <= reach
  BY <1>1, <1>4, <1>5
<1>7. Shown(p, e) = {s \in Sections(p) :
                       far(s[1]) + (IF IsVerticalSlide(s) THEN deep(s) ELSE 0) <= reach}
  BY DEF Shown, far, deep, reach
<1> QED BY <1>2, <1>6, <1>7

LEMMA LeaveFields ==
  ASSUME NEW e, HasFields(e), NEW from, NEW changed \in BOOLEAN
  PROVE  LET g == Leave(from, e, changed)
         IN /\ HasFields(g)
            /\ g.h = e.h /\ g.v = e.v /\ g.cur = e.cur /\ g.mem = e.mem /\ g.attr = e.attr
            /\ g.vis = e.vis /\ g.mark = e.mark /\ g.shown = e.shown /\ g.overview = e.overview
            /\ g.prev = IF changed THEN from ELSE None
            /\ g.cls = [s \in DOMAIN e.cls |->
                          IF changed /\ s = from /\ e.cls[s] = "present" THEN "none" ELSE e.cls[s]]
BY DEF Leave, HasFields, Fields

(* The two turns of slide(): every slide before <<x, y>> is past and shows  *)
(* its fragments, every slide after it is future and shows none.            *)
TurnedTo(p, e, g, x, y) ==
  /\ SameIndices(e, g) /\ Fragmented(p, g) /\ g.cls \in [Sections(p) -> Words]
  /\ \A s \in Sections(p) :
       g.cls[s] = IF ~IsVerticalSlide(s) THEN Relative(s[1], x, p.rtl)
                  ELSE IF s[1] = x THEN Relative(s[2], y, FALSE) ELSE e.cls[s]
  /\ \A l \in Leaves(p) :
       g.vis[l] = IF Precedes(l, SlideAt(p, x, y)) THEN DOMAIN e.attr[l]
                  ELSE IF Precedes(SlideAt(p, x, y), l) THEN {} ELSE e.vis[l]

LEMMA Turns ==
  ASSUME NEW p, IsPresentation(p), NEW e, HasFields(e), Fragmented(p, e),
         e.cls \in [Sections(p) -> Words], NEW x, NEW y, Placed(p, x, y)
  PROVE  TurnedTo(p, e, UpdateSlides(p, UpdateSlides(p, e, 1, x, x), 2, x, y), x, y)
<1> DEFINE a == UpdateSlides(p, e, 1, x, x)
           g == UpdateSlides(p, a, 2, x, y)
           m == SlideAt(p, x, y)
<1>1. x \in Int /\ x \in 0 .. p.n - 1 /\ y \in Int
  BY DEF Placed
<1>2. SameIndices(e, a)
  BY UpdateFields
<1>3. /\ Fragmented(p, a) /\ a.cls \in [Sections(p) -> Words]
      /\ \A s \in Sections(p) :
           a.cls[s] = IF IsVerticalSlide(s) THEN e.cls[s] ELSE Relative(s[1], x, p.rtl)
      /\ \A l \in Leaves(p) : a.vis[l] = IF l[1] = x THEN e.vis[l]
                                         ELSE IF l[1] < x THEN DOMAIN e.attr[l] ELSE {}
  BY <1>1, UpdateAcross
<1> HIDE DEF a
<1>4. HasFields(a) /\ a.attr = e.attr
  BY <1>2 DEF SameIndices
<1>5. SameIndices(a, g)
  BY <1>4, UpdateFields
<1>6. TurnedDown(p, a, g, x, y)
  BY <1>1, <1>3, <1>4, UpdateDown
<1> HIDE DEF g
<1>7. SameIndices(e, g)
  BY <1>2, <1>5 DEF SameIndices
<1>8. ASSUME NEW s \in Sections(p)
      PROVE  g.cls[s] = IF ~IsVerticalSlide(s) THEN Relative(s[1], x, p.rtl)
                        ELSE IF s[1] = x THEN Relative(s[2], y, FALSE) ELSE e.cls[s]
  BY <1>3, <1>6 DEF TurnedDown
<1>9. ASSUME NEW l \in Leaves(p)
      PROVE  g.vis[l] = IF Precedes(l, m) THEN DOMAIN e.attr[l]
                        ELSE IF Precedes(m, l) THEN {} ELSE e.vis[l]
  <2>1. /\ m \in Leaves(p) /\ m[1] = x
        /\ p.verticals[x] > 0 => m[2] = y
        /\ IsVerticalSlide(m) <=> p.verticals[x] > 0
    BY SlideAtLeaf
  <2>2. /\ l[1] \in Int /\ l[2] \in Int
        /\ IsVerticalSlide(l) <=> p.verticals[l[1]] > 0
    BY LeafParts
  <2> HIDE DEF m
  <2>3. /\ Precedes(l, m) <=> l[1] < x \/ (l[1] = x /\ IsVerticalSlide(l) /\ l[2] < m[2])
        /\ Precedes(m, l) <=> x < l[1] \/ (l[1] = x /\ IsVerticalSlide(m) /\ m[2] < l[2])
    BY <2>1, Precedence
  <2>4. CASE l[1] # x
    <3>1. g.vis[l] = a.vis[l] /\ a.vis[l] = IF l[1] < x THEN DOMAIN e.attr[l] ELSE {}
      BY <1>3, <1>6, <2>4 DEF TurnedDown
    <3> QED BY <1>1, <2>2, <2>3, <2>4, <3>1
  <2>5. CASE l[1] = x
    <3>1. a.vis[l] = e.vis[l] /\ a.attr[l] = e.attr[l]
      BY <1>3, <1>4, <2>5
    <3>2. IsVerticalSlide(l) => m[2] = y
      BY <2>1, <2>2, <2>5
    <3>3. g.vis[l] = IF IsVerticalSlide(l) /\ l[2] # y
                     THEN IF l[2] < y THEN DOMAIN e.attr[l] ELSE {}
                     ELSE e.vis[l]
      BY <1>6, <2>5, <3>1 DEF TurnedDown
    <3> QED BY <1>1, <2>1, <2>2, <2>3, <2>5, <3>2, <3>3
  <2> QED BY <2>4, <2>5
<1> QED BY <1>6, <1>7, <1>8, <1>9 DEF TurnedDown, TurnedTo, g, a, m

(* Where slide(h, v) goes from e.                                           *)
Goal(p, e, h, v) == IF v = Undef THEN Remembered(p, e, h) ELSE v
GoalH(p, h) == Bounded(p, h, p.n)
GoalV(p, e, h, v) == Bounded(p, Goal(p, e, h, v), p.verticals[GoalH(p, h)])

LEMMA GoalPlaced ==
  ASSUME NEW p, IsPresentation(p), NEW e, Base(p, e), NEW h \in Int, NEW v \in Int
  PROVE  Placed(p, GoalH(p, h), GoalV(p, e, h, v))
<1> DEFINE k == Goal(p, e, h, v)
<1>1. k \in Int
  BY RememberedType DEF Goal
<1> HIDE DEF k
<1>2. Placed(p, Bounded(p, h, p.n), Bounded(p, k, p.verticals[Bounded(p, h, p.n)]))
  BY <1>1, Lands
<1> QED BY <1>2 DEF k, GoalH, GoalV

(* slide() up to its last part: g is turned to <<x, y>>, not left yet.      *)
Turned(p, e, g, x, y) ==
  /\ HasFields(g) /\ Fragmented(p, g)
  /\ g.h = x /\ g.v = y /\ g.cur = SlideAt(p, x, y)
  /\ g.attr = e.attr /\ g.overview = e.overview
  /\ g.mem \in [0 .. p.n - 1 -> Nat] /\ g.cls \in [Sections(p) -> Words]
  /\ \A s \in Sections(p) :
       g.cls[s] = IF ~IsVerticalSlide(s) THEN Relative(s[1], x, p.rtl)
                  ELSE IF s[1] = x THEN Relative(s[2], y, FALSE) ELSE e.cls[s]
  /\ \A l \in Leaves(p) : /\ Precedes(l, g.cur) => g.vis[l] = DOMAIN e.attr[l]
                          /\ Precedes(g.cur, l) => g.vis[l] = {}
  /\ g.cur \in g.shown

LEMMA TurnedFragment ==
  ASSUME NEW p, IsPresentation(p), NEW e, NEW g, NEW x, NEW y, Turned(p, e, g, x, y),
         Placed(p, x, y), NEW f \in Int
  PROVE  Turned(p, e, NavigateFragment(p, g, f), x, y)
<1> DEFINE k == NavigateFragment(p, g, f)
<1>1. g.cur \in Leaves(p)
  BY SlideAtLeaf DEF Turned
<1>2. FragmentStep(p, g, k)
  BY <1>1, NavigateFragmentEffect DEF Turned
<1> HIDE DEF k
<1>3. \A l \in Leaves(p) : /\ Precedes(l, k.cur) => k.vis[l] = DOMAIN e.attr[l]
                           /\ Precedes(k.cur, l) => k.vis[l] = {}
  <2>1. k.cur = g.cur
    BY <1>2 DEF FragmentStep, SamePlace
  <2>2. \A l \in Leaves(p) : Precedes(l, g.cur) \/ Precedes(g.cur, l) => k.vis[l] = g.vis[l]
    BY <1>1, <1>2, Precedence DEF FragmentStep
  <2> QED BY <2>1, <2>2 DEF Turned
<1>4. /\ HasFields(k) /\ Fragmented(p, k) /\ k.attr = g.attr
      /\ k.h = g.h /\ k.v = g.v /\ k.cur = g.cur /\ k.cls = g.cls /\ k.mem = g.mem
      /\ k.shown = g.shown /\ k.overview = g.overview
  BY <1>2 DEF FragmentStep, SamePlace
<1>5. Turned(p, e, k, x, y)
  BY <1>3, <1>4 DEF Turned
<1> QED BY <1>5 DEF k

TurnsInto(p, e, h, v, f, g) ==
  /\ Turned(p, e, g, GoalH(p, h), GoalV(p, e, h, v))
  /\ f = Undef => g.vis[g.cur] = e.vis[g.cur]
  /\ f # Undef /\ p.fragments /\ e.attr[g.cur] # <<>> =>
       g.vis[g.cur] = UpTo(e.attr[g.cur], f + 1)
  /\ e.events \in Seq(Signals) => g.events = FragmentEvents(e.events, e.vis[g.cur], g.vis[g.cur])
  /\ Slide(p, e, h, v, f) = Leave(e.cur, g, GoalH(p, h) # e.h \/ GoalV(p, e, h, v) # e.v)

LEMMA SlideTurns ==
  ASSUME NEW p, IsPresentation(p), NEW e, Base(p, e), NEW h \in Int, NEW v \in Int, NEW f \in Int
  PROVE  \E g : TurnsInto(p, e, h, v, f, g)
<1> DEFINE x == GoalH(p, h)
           y == GoalV(p, e, h, v)
           kept == IF e.cur # None /\ IsVerticalSlide(e.cur)
                   THEN [e EXCEPT !.mem[e.cur[1]] = e.v] ELSE e
           turned == UpdateSlides(p, UpdateSlides(p, kept, 1, x, x), 2, x, y)
           there == [turned EXCEPT !.h = x, !.v = y, !.cur = SlideAt(p, x, y)]
           seen == [there EXCEPT !.shown = Shown(p, there)]
           done == IF f = Undef THEN seen ELSE NavigateFragment(p, seen, f)
<1>1. Placed(p, x, y)
  BY GoalPlaced
<1>2. Slide(p, e, h, v, f) = Leave(e.cur, done, x # e.h \/ y # e.v)
  BY DEF Slide, Goal, GoalH, GoalV
<1>3. /\ HasFields(kept) /\ kept.cls = e.cls /\ kept.overview = e.overview
      /\ kept.attr = e.attr /\ kept.vis = e.vis /\ kept.mark = e.mark /\ kept.events = e.events
      /\ kept.mem \in [0 .. p.n - 1 -> Nat]
  BY DEF Base, HasFields, Fields
<1>4. Fragmented(p, kept) /\ kept.cls \in [Sections(p) -> Words]
  <2> HIDE DEF kept
  <2> QED BY <1>3, SameFragmented DEF Base
<1> HIDE DEF kept, x, y
<1>5. TurnedTo(p, kept, turned, x, y)
  BY <1>1, <1>3, <1>4, Turns
<1> HIDE DEF turned
<1>6. /\ HasFields(seen) /\ seen.h = x /\ seen.v = y /\ seen.cur = SlideAt(p, x, y)
      /\ seen.attr = turned.attr /\ seen.vis = turned.vis /\ seen.mark = turned.mark
      /\ seen.cls = turned.cls /\ seen.mem = turned.mem /\ seen.overview = turned.overview
      /\ seen.shown = Shown(p, there) /\ seen.events = turned.events
      /\ there.h = x /\ there.v = y /\ there.cur = SlideAt(p, x, y)
  BY <1>5 DEF TurnedTo, SameIndices, HasFields, Fields
<1>7. there.cur \in Shown(p, there)
  <2> HIDE DEF there
  <2> QED BY <1>1, <1>6, CurrentShown
<1> HIDE DEF seen, there
<1>8. Fragmented(p, seen)
  BY <1>5, <1>6, SameFragmented DEF TurnedTo
<1>9. SlideAt(p, x, y) \in Leaves(p)
  BY <1>1, SlideAtLeaf
<1>10. ASSUME NEW l \in Leaves(p)
       PROVE  /\ Precedes(l, seen.cur) => seen.vis[l] = DOMAIN e.attr[l]
              /\ Precedes(seen.cur, l) => seen.vis[l] = {}
              /\ l = seen.cur => seen.vis[l] = e.vis[l]
  BY <1>3, <1>5, <1>6, <1>9, Precedence DEF TurnedTo
<1>11. Turned(p, e, seen, x, y) /\ seen.vis[seen.cur] = e.vis[seen.cur]
  <2>1. /\ seen.attr = e.attr /\ seen.overview = e.overview /\ seen.cur \in seen.shown
        /\ seen.mem \in [0 .. p.n - 1 -> Nat] /\ seen.cls \in [Sections(p) -> Words]
    BY <1>3, <1>5, <1>6, <1>7 DEF TurnedTo, SameIndices
  <2>2. \A s \in Sections(p) :
          seen.cls[s] = IF ~IsVerticalSlide(s) THEN Relative(s[1], x, p.rtl)
                        ELSE IF s[1] = x THEN Relative(s[2], y, FALSE) ELSE e.cls[s]
    BY <1>3, <1>5, <1>6 DEF TurnedTo
  <2>3. seen.vis[seen.cur] = e.vis[seen.cur]
    BY <1>6, <1>9, <1>10
  <2> QED BY <1>6, <1>8, <1>10, <2>1, <2>2, <2>3 DEF Turned
<1>12. Turned(p, e, done, x, y) /\ (f = Undef => done.vis[done.cur] = e.vis[done.cur])
  BY <1>1, <1>11, TurnedFragment
<1>13. seen.cur \in Leaves(p) /\ seen.events = e.events /\ seen.vis[seen.cur] = e.vis[seen.cur]
  BY <1>3, <1>5, <1>6, <1>9, <1>11 DEF TurnedTo, SameIndices
<1>14. ASSUME e.events \in Seq(Signals)
       PROVE  done.events = FragmentEvents(e.events, e.vis[done.cur], done.vis[done.cur])
  <2>1. CASE f = Undef
    BY <1>11, <1>13, <1>14, <2>1, NoFragmentEvents
  <2>2. CASE f # Undef
    <3>1. done = NavigateFragment(p, seen, f) /\ done.cur = seen.cur
      BY <1>6, <1>12, <2>2 DEF Turned
    <3> HIDE DEF done
    <3>2. done.events = FragmentEvents(seen.events, seen.vis[seen.cur], done.vis[seen.cur])
      BY <1>6, <1>8, <1>13, <1>14, <3>1, FragmentsSay
    <3> QED BY <1>13, <3>1, <3>2
  <2> QED BY <2>1, <2>2
<1>15. ASSUME f # Undef, p.fragments, e.attr[done.cur] # <<>>
       PROVE  done.vis[done.cur] = UpTo(e.attr[done.cur], f + 1)
  <2>1. done = NavigateFragment(p, seen, f) /\ done.cur = seen.cur
    BY <1>6, <1>12, <1>15 DEF Turned
  <2> HIDE DEF done
  <2>2. seen.attr = e.attr /\ seen.cur # None
    BY <1>9, <1>11, <1>6, LeafParts DEF Turned
  <2>3. HasFragments(p, seen)
    BY <1>15, <2>1, <2>2 DEF HasFragments
  <2>4. NavigateFragment(p, seen, f).vis[seen.cur] = UpTo(seen.attr[seen.cur], f + 1)
    BY <1>6, <1>8, <1>13, <2>3, FragmentShows
  <2> QED BY <2>1, <2>2, <2>4
<1> HIDE DEF done
<1>16. TurnsInto(p, e, h, v, f, done)
  BY <1>2, <1>12, <1>14, <1>15 DEF x, y, TurnsInto
<1> QED BY <1>16

(* What slide() makes of e when it goes to <<x, y>>.                        *)
Arrived(p, e, g, x, y) ==
  /\ Sound(p, g) /\ g.h = x /\ g.v = y /\ g.cur = SlideAt(p, x, y)
  /\ g.attr = e.attr /\ g.overview = e.overview

LEMMA LeaveSound ==
  ASSUME NEW p, IsPresentation(p), NEW e, Base(p, e), NEW x, NEW y, Placed(p, x, y),
         NEW t, Turned(p, e, t, x, y)
  PROVE  LET g == Leave(e.cur, t, x # e.h \/ y # e.v)
         IN Arrived(p, e, g, x, y) /\ g.vis = t.vis
<1> DEFINE changed == x # e.h \/ y # e.v
           g == Leave(e.cur, t, changed)
           cur == SlideAt(p, x, y)
<1>1. /\ HasFields(g)
      /\ g.h = t.h /\ g.v = t.v /\ g.cur = t.cur /\ g.mem = t.mem /\ g.attr = t.attr
      /\ g.vis = t.vis /\ g.mark = t.mark /\ g.shown = t.shown /\ g.overview = t.overview
      /\ g.prev = IF changed THEN e.cur ELSE None
      /\ g.cls = [s \in DOMAIN t.cls |->
                    IF changed /\ s = e.cur /\ t.cls[s] = "present" THEN "none" ELSE t.cls[s]]
  <2>1. HasFields(t) /\ changed \in BOOLEAN
    BY DEF Turned
  <2> HIDE DEF changed
  <2> QED BY <2>1, LeaveFields
<1> HIDE DEF g
<1>2. Fragmented(p, g)
  BY <1>1, SameFragmented DEF Turned
<1>3. /\ cur \in Leaves(p) /\ cur \in Sections(p) /\ cur # None /\ cur[1] = x
      /\ IsVerticalSlide(cur) => cur[2] = y
      /\ x \in 0 .. p.n - 1 /\ x \in Int /\ y \in Nat /\ p.verticals[x] \in Nat
      /\ p.verticals[x] > 0 => cur = <<x, y>>
  BY SlideAtLeaf, LeafParts DEF Placed
<1>4. e.cur # None => e.cur \in Leaves(p) /\ e.cur[1] = e.h /\ (e.cur = cur => ~changed)
  BY SlideAtLeaf, SlideAtInjective DEF Base
<1>5. changed => e.cur # cur
  BY <1>3, <1>4
<1>6. \A s \in Sections(p) :
        g.cls[s] = IF changed /\ s = e.cur /\ t.cls[s] = "present" THEN "none" ELSE t.cls[s]
  BY <1>1 DEF Turned
<1>7. g.cls \in [Sections(p) -> Words]
  BY <1>1 DEF Turned, Words
<1>8. ASSUME NEW i \in 0 .. p.n - 1
      PROVE  g.cls[<<i, Whole>>] = Relative(i, x, p.rtl)
  <2>1. <<i, Whole>> \in Sections(p) /\ ~IsVerticalSlide(<<i, Whole>>)
    BY TopIsSection DEF IsVerticalSlide
  <2>2. t.cls[<<i, Whole>>] = Relative(i, x, p.rtl)
    BY <2>1 DEF Turned
  <2>3. ~(changed /\ <<i, Whole>> = e.cur /\ t.cls[<<i, Whole>>] = "present")
    <3>1. SUFFICES ASSUME changed, <<i, Whole>> = e.cur, t.cls[<<i, Whole>>] = "present"
                   PROVE  FALSE
      OBVIOUS
    <3>2. i = x
      BY <1>3, <2>2, <3>1 DEF Relative
    <3>3. e.cur # None /\ e.cur \in Leaves(p) /\ p.verticals[x] = 0
      <4>1. i # Whole
        BY DEF Whole
      <4>2. e.cur # None
        BY <3>1, <4>1 DEF None
      <4>3. e.cur[1] = x /\ ~IsVerticalSlide(e.cur)
        BY <2>1, <3>1, <3>2
      <4> QED BY <1>3, <1>4, <4>2, <4>3, LeafParts
    <3>4. cur = <<x, Whole>>
      BY <3>3 DEF SlideAt
    <3> QED BY <1>5, <3>1, <3>2, <3>4
  <2> QED BY <1>6, <2>1, <2>2, <2>3
<1>9. g.cls[cur] = "present"
  <2>1. t.cls[cur] = "present"
    BY <1>3 DEF Turned, Relative
  <2> QED BY <1>3, <1>5, <1>6, <2>1
<1>10. ASSUME NEW s \in Sections(p), IsVerticalSlide(s), g.cls[s] = "present"
       PROVE  s = cur
  <2>1. t.cls[s] = "present" /\ ~(changed /\ s = e.cur)
    BY <1>6, <1>10
  <2>2. s = <<s[1], s[2]>> /\ s[2] \in 0 .. p.verticals[s[1]] - 1
    BY <1>10, SectionParts
  <2>3. CASE s[1] = x
    <3>1. s[2] = y
      BY <1>10, <2>1, <2>3 DEF Turned, Relative
    <3> QED BY <1>3, <2>2, <2>3, <3>1
  <2>4. CASE s[1] # x
    <3>1. e.cls[s] = "present"
      BY <1>10, <2>1, <2>4 DEF Turned
    <3>2. s = e.cur
      BY <1>10, <3>1 DEF Base
    <3>3. e.cur # None
      BY <1>10, <3>2 DEF None, IsVerticalSlide
    <3> QED BY <1>4, <2>1, <2>4, <3>2, <3>3
  <2> QED BY <2>3, <2>4
<1>11. g.prev \in Leaves(p) \cup {None} /\ g.prev # g.cur
  BY <1>1, <1>3, <1>4, <1>5 DEF Turned
<1>12. Base(p, g)
  BY <1>1, <1>2, <1>3, <1>7, <1>10 DEF Base, Turned
<1>13. Sound(p, g)
  BY <1>1, <1>8, <1>9, <1>11, <1>12 DEF Sound, Turned
<1> QED BY <1>1, <1>13 DEF Arrived, Turned, g

(* slide() makes any deck sound, and lands where it was told to.            *)
LEMMA SlideArrives ==
  ASSUME NEW p, IsPresentation(p), NEW e, Base(p, e), NEW h \in Int, NEW v \in Int, NEW f \in Int
  PROVE  LET g == Slide(p, e, h, v, f)
         IN /\ Arrived(p, e, g, GoalH(p, h), GoalV(p, e, h, v))
            /\ Placed(p, GoalH(p, h), GoalV(p, e, h, v))
            /\ f = Undef => g.vis[g.cur] = e.vis[g.cur]
<1> DEFINE x == GoalH(p, h)
           y == GoalV(p, e, h, v)
           changed == x # e.h \/ y # e.v
<1>0. PICK t : TurnsInto(p, e, h, v, f, t)
  BY SlideTurns
<1>1. /\ Turned(p, e, t, x, y)
      /\ f = Undef => t.vis[t.cur] = e.vis[t.cur]
      /\ Slide(p, e, h, v, f) = Leave(e.cur, t, changed)
  BY <1>0 DEF TurnsInto
<1>2. Placed(p, x, y)
  BY GoalPlaced
<1> HIDE DEF x, y
<1>3. Arrived(p, e, Leave(e.cur, t, changed), x, y) /\ Leave(e.cur, t, changed).vis = t.vis
  BY <1>1, <1>2, LeaveSound
<1>4. t.cur = SlideAt(p, x, y)
  BY <1>1 DEF Turned
<1> QED BY <1>1, <1>2, <1>3, <1>4 DEF x, y, Arrived

-----------------------------------------------------------------------------
(* Everything else that is done to a sound deck leaves it sound.            *)
LEMMA StepSound ==
  ASSUME NEW p, IsPresentation(p), NEW e, Sound(p, e), NEW g, FragmentStep(p, e, g)
  PROVE  Sound(p, g) /\ g.h = e.h /\ g.v = e.v /\ g.cur = e.cur /\ g.overview = e.overview
<1>1. /\ HasFields(g) /\ Fragmented(p, g) /\ g.attr = e.attr
      /\ g.h = e.h /\ g.v = e.v /\ g.cur = e.cur /\ g.prev = e.prev /\ g.cls = e.cls
      /\ g.mem = e.mem /\ g.shown = e.shown /\ g.overview = e.overview
  BY DEF FragmentStep, SamePlace
<1>2. Base(p, g)
  BY <1>1 DEF Sound, Base
<1>3. ASSUME NEW l \in Leaves(p)
      PROVE  /\ Precedes(l, g.cur) => g.vis[l] = DOMAIN g.attr[l]
             /\ Precedes(g.cur, l) => g.vis[l] = {}
  <2>1. e.cur \in Leaves(p)
    BY SoundPlace
  <2>2. Precedes(l, e.cur) \/ Precedes(e.cur, l) => l # e.cur
    BY <2>1, Precedence
  <2>3. l # e.cur => g.vis[l] = e.vis[l]
    BY DEF FragmentStep
  <2> QED BY <1>1, <2>2, <2>3 DEF Sound
<1> QED BY <1>1, <1>2, <1>3 DEF Sound

LEMMA TryStep ==
  ASSUME NEW p, IsPresentation(p), NEW e, Sound(p, e), NEW by \in {-1, 1}
  PROVE  FragmentStep(p, e, StepFragment(p, e, by)) /\ FragmentStep(p, e, Try(p, e, by))
<1>1. FragmentStep(p, e, StepFragment(p, e, by))
  BY SoundPlace, StepEffect
<1>2. FragmentStep(p, e, e)
  BY SoundPlace DEF FragmentStep, SamePlace
<1> QED BY <1>1, <1>2 DEF Try

(* g is what navigating makes of a sound deck.                              *)
Onward(p, e, g) == Sound(p, g) /\ g.overview = e.overview

LEMMA SlideSound ==
  ASSUME NEW p, IsPresentation(p), NEW e, Sound(p, e), NEW h \in Int, NEW v \in Int, NEW f \in Int
  PROVE  Onward(p, e, Slide(p, e, h, v, f))
<1>1. Base(p, e)
  BY DEF Sound
<1> QED BY <1>1, SlideArrives DEF Arrived, Onward

(* An arrow: a fragment, or else slide() from there, or else nothing.       *)
LEMMA TrySlide ==
  ASSUME NEW p, IsPresentation(p), NEW e, Sound(p, e), NEW g, FragmentStep(p, e, g),
         NEW h \in Int, NEW v \in Int
  PROVE  Onward(p, e, g) /\ Onward(p, e, Slide(p, g, h, v, Undef))
<1>1. Onward(p, e, g)
  BY StepSound DEF Onward
<1>2. Undef \in Int
  BY DEF Undef
<1>3. Onward(p, g, Slide(p, g, h, v, Undef))
  BY <1>1, <1>2, SlideSound DEF Onward
<1> QED BY <1>1, <1>3 DEF Onward

LEMMA SidewaysSound ==
  ASSUME NEW p, IsPresentation(p), NEW e, Sound(p, e)
  PROVE  Onward(p, e, NavigateLeft(p, e)) /\ Onward(p, e, NavigateRight(p, e))
<1> DEFINE Side(by, route) ==
             LET g == Try(p, e, by)
             IN IF ~FragmentMoved(e, g) /\ route THEN Slide(p, g, e.h + by, Undef, Undef) ELSE g
<1>1. ASSUME NEW by \in {-1, 1}, NEW route PROVE Onward(p, e, Side(by, route))
  <2> DEFINE g == Try(p, e, by)
             k == e.h + by
  <2>1. FragmentStep(p, e, g) /\ k \in Int /\ Undef \in Int
    BY TryStep, SoundPlace DEF Undef
  <2> HIDE DEF g, k
  <2>2. Onward(p, e, g) /\ Onward(p, e, Slide(p, g, k, Undef, Undef))
    BY <2>1, TrySlide
  <2> QED BY <2>2 DEF g, k
<1>2. NavigateLeft(p, e) = Side(IF p.rtl THEN 1 ELSE -1, AvailableRoutes(p, e).left)
  BY DEF NavigateLeft
<1>3. NavigateRight(p, e) = Side(IF p.rtl THEN -1 ELSE 1, AvailableRoutes(p, e).right)
  BY DEF NavigateRight
<1>4. (IF p.rtl THEN 1 ELSE -1) \in {-1, 1} /\ (IF p.rtl THEN -1 ELSE 1) \in {-1, 1}
  OBVIOUS
<1> HIDE DEF Side
<1> QED BY <1>1, <1>2, <1>3, <1>4

LEMMA UpDownSound ==
  ASSUME NEW p, IsPresentation(p), NEW e, Sound(p, e)
  PROVE  Onward(p, e, NavigateUp(p, e)) /\ Onward(p, e, NavigateDown(p, e))
<1> DEFINE g(by) == Try(p, e, by)
           k(by) == e.v + by
<1>1. ASSUME NEW by \in {-1, 1}
      PROVE  Onward(p, e, g(by)) /\ Onward(p, e, Slide(p, g(by), e.h, k(by), Undef))
  <2>1. FragmentStep(p, e, g(by)) /\ k(by) \in Int /\ e.h \in Int
    BY TryStep, SoundPlace
  <2> HIDE DEF g, k
  <2> QED BY <2>1, TrySlide
<1>2. NavigateUp(p, e) \in {g(-1), Slide(p, g(-1), e.h, k(-1), Undef)}
  BY SoundPlace DEF NavigateUp
<1>3. NavigateDown(p, e) \in {g(1), Slide(p, g(1), e.h, k(1), Undef)}
  BY DEF NavigateDown
<1> HIDE DEF g, k
<1> QED BY <1>1, <1>2, <1>3

LEMMA OnwardOn ==
  ASSUME NEW p, NEW e, NEW g, Onward(p, e, g), NEW k, Onward(p, g, k)
  PROVE  Onward(p, e, k)
BY DEF Onward

LEMMA NavigateNextSound ==
  ASSUME NEW p, IsPresentation(p), NEW e, Sound(p, e)
  PROVE  Onward(p, e, NavigateNext(p, e))
<1> DEFINE g == StepFragment(p, e, 1)
<1>1. Onward(p, e, g)
  BY TryStep, StepSound DEF Onward
<1>2. NavigateNext(p, e) \in {g, NavigateDown(p, g), NavigateRight(p, g)}
  BY DEF NavigateNext
<1> HIDE DEF g
<1>3. Onward(p, g, NavigateDown(p, g)) /\ Onward(p, g, NavigateRight(p, g))
  BY <1>1, SidewaysSound, UpDownSound DEF Onward
<1> QED BY <1>1, <1>2, <1>3, OnwardOn

LEMMA NavigatePrevSound ==
  ASSUME NEW p, IsPresentation(p), NEW e, Sound(p, e)
  PROVE  Onward(p, e, NavigatePrev(p, e))
<1> DEFINE g == StepFragment(p, e, -1)
           last == p.verticals[e.h - 1] - 1
           y == IF last = 0 THEN Undef ELSE last
           k == e.h - 1
<1>1. Onward(p, e, g) /\ FragmentStep(p, e, g)
  BY TryStep, StepSound DEF Onward
<1>2. NavigatePrev(p, e) \in {g, NavigateUp(p, g)} \/
        (e.h > 0 /\ NavigatePrev(p, e) = Slide(p, g, k, y, Undef))
  BY DEF NavigatePrev
<1>3. k \in Int /\ (e.h > 0 => y \in Int)
  <2>1. e.h \in 0 .. p.n - 1
    BY SoundPlace
  <2>2. e.h > 0 => p.verticals[e.h - 1] \in Nat
    <3>1. e.h > 0 => e.h - 1 \in 0 .. p.n - 1
      BY <2>1, PresentationTypes
    <3> QED BY <3>1, PresentationTypes
  <2> QED BY <2>1, <2>2 DEF Undef
<1> HIDE DEF g, y, k
<1>4. e.h > 0 => Onward(p, e, Slide(p, g, k, y, Undef))
  BY <1>1, <1>3, TrySlide
<1>5. Onward(p, g, NavigateUp(p, g))
  BY <1>1, UpDownSound DEF Onward
<1> QED BY <1>1, <1>2, <1>4, <1>5, OnwardOn

LEMMA PressSound ==
  ASSUME NEW p, IsPresentation(p), NEW e, Sound(p, e), NEW dir \in Directions
  PROVE  Onward(p, e, Press(p, e, dir))
<1>1. CASE dir = "left"   BY <1>1, SidewaysSound DEF Press
<1>2. CASE dir = "right"  BY <1>2, SidewaysSound DEF Press
<1>3. CASE dir = "up"     BY <1>3, UpDownSound DEF Press
<1>4. CASE dir = "down"   BY <1>4, UpDownSound DEF Press
<1>5. CASE dir = "prev"   BY <1>5, NavigatePrevSound DEF Press
<1>6. CASE dir = "next"   BY <1>6, NavigateNextSound DEF Press
<1> QED BY <1>1, <1>2, <1>3, <1>4, <1>5, <1>6 DEF Directions

(* readURL() slides unless the address says where we are; it always slides  *)
(* on a page that was just opened.                                          *)
LEMMA ReadURLSound ==
  ASSUME NEW p, IsPresentation(p), NEW e, Base(p, e), e.cur = None \/ Sound(p, e),
         NEW url, url.h \in Int, url.v \in Int
  PROVE  Onward(p, e, ReadURL(p, e, url))
<1>1. Undef \in Int /\ e.h \in Int /\ e.v \in Int
  BY DEF Undef, Base
<1>2. ASSUME NEW h \in Int, NEW v \in Int PROVE Onward(p, e, Slide(p, e, h, v, Undef))
  BY <1>1, SlideArrives DEF Arrived, Onward
<1> DEFINE isName == url.name # NoName /\ (url.name \in DOMAIN p.number => p.number[url.name] = Undef)
           h == IF url.name = NoName THEN url.h ELSE p.number[url.name]
           s == p.ids[url.name]
           v == IF IsVerticalSlide(s) THEN s[2] ELSE IF e.cur # None THEN e.v ELSE Undef
<1>3. CASE isName /\ url.name \in DOMAIN p.ids
  <2>0. s \in Sections(p)
    BY <1>3 DEF IsPresentation
  <2>1. s[1] \in Int /\ s[2] \in Int
    <3> HIDE DEF s
    <3> QED BY <2>0, SectionParts
  <2>2. ReadURL(p, e, url) = Slide(p, e, s[1], v, Undef)
    BY <1>3 DEF ReadURL
  <2> DEFINE k == s[1]
  <2>3. k \in Int /\ v \in Int
    BY <1>1, <2>1
  <2> HIDE DEF k, v
  <2>4. Onward(p, e, Slide(p, e, k, v, Undef))
    BY <1>2, <2>3
  <2> QED BY <2>2, <2>4 DEF k
<1>4. CASE isName /\ url.name \notin DOMAIN p.ids
  BY <1>1, <1>2, <1>4 DEF ReadURL
<1>5. CASE ~isName
  <2>1. h \in Int
    BY <1>5 DEF IsPresentation
  <2>2. \/ ReadURL(p, e, url) = Slide(p, e, h, url.v, Undef)
        \/ ReadURL(p, e, url) = e /\ e.cur # None
    BY <1>5 DEF ReadURL
  <2> HIDE DEF h
  <2>3. Onward(p, e, Slide(p, e, h, url.v, Undef))
    BY <1>2, <2>1
  <2> QED BY <2>2, <2>3 DEF Onward
<1> QED BY <1>3, <1>4, <1>5

(* What handlers change beside: the events, the overview, what is on        *)
(* display, the indices remembered.                                         *)
LEMMA SoundAlike ==
  ASSUME NEW p, NEW e, Sound(p, e), NEW g, HasFields(g),
         g.h = e.h, g.v = e.v, g.cur = e.cur, g.prev = e.prev, g.cls = e.cls,
         g.vis = e.vis, g.mark = e.mark, g.attr = e.attr,
         g.mem \in [0 .. p.n - 1 -> Nat], g.cur \in g.shown
  PROVE  Sound(p, g)
<1>1. Fragmented(p, g)
  BY SameFragmented DEF Sound, Base
<1>2. Base(p, g)
  BY <1>1 DEF Sound, Base
<1> QED BY <1>2 DEF Sound

LEMMA EventsSound ==
  ASSUME NEW p, NEW e, Sound(p, e)
  PROVE  LET g == [e EXCEPT !.events = <<>>]
         IN Sound(p, g) /\ g.overview = e.overview /\ g.cur = e.cur /\ g.h = e.h /\ g.v = e.v
            /\ g.events = <<>>
<1> DEFINE g == [e EXCEPT !.events = <<>>]
<1>1. /\ HasFields(g)
      /\ g.h = e.h /\ g.v = e.v /\ g.cur = e.cur /\ g.prev = e.prev /\ g.cls = e.cls
      /\ g.vis = e.vis /\ g.mark = e.mark /\ g.attr = e.attr /\ g.overview = e.overview
      /\ g.mem \in [0 .. p.n - 1 -> Nat] /\ g.cur \in g.shown /\ g.events = <<>>
  BY DEF Sound, Base, HasFields, Fields
<1> HIDE DEF g
<1>2. Sound(p, g)
  BY <1>1, SoundAlike
<1> QED BY <1>1, <1>2 DEF g

LEMMA OverviewSound ==
  ASSUME NEW p, NEW e, Sound(p, e), NEW on
  PROVE  LET g == [e EXCEPT !.overview = on]
         IN Sound(p, g) /\ g.overview = on /\ g.cur = e.cur /\ g.h = e.h /\ g.v = e.v
            /\ g.events = e.events
<1> DEFINE g == [e EXCEPT !.overview = on]
<1>1. /\ HasFields(g)
      /\ g.h = e.h /\ g.v = e.v /\ g.cur = e.cur /\ g.prev = e.prev /\ g.cls = e.cls
      /\ g.vis = e.vis /\ g.mark = e.mark /\ g.attr = e.attr /\ g.overview = on
      /\ g.mem \in [0 .. p.n - 1 -> Nat] /\ g.cur \in g.shown /\ g.events = e.events
  BY DEF Sound, Base, HasFields, Fields
<1> HIDE DEF g
<1>2. Sound(p, g)
  BY <1>1, SoundAlike
<1> QED BY <1>1, <1>2 DEF g

LEMMA ShownSound ==
  ASSUME NEW p, IsPresentation(p), NEW e, Sound(p, e)
  PROVE  LET g == [e EXCEPT !.shown = Shown(p, e)]
         IN Sound(p, g) /\ g.overview = e.overview /\ g.cur = e.cur /\ g.h = e.h /\ g.v = e.v
            /\ g.events = e.events
<1> DEFINE g == [e EXCEPT !.shown = Shown(p, e)]
<1>1. e.cur \in Shown(p, e)
  BY CurrentShown DEF Sound
<1>2. /\ HasFields(g)
      /\ g.h = e.h /\ g.v = e.v /\ g.cur = e.cur /\ g.prev = e.prev /\ g.cls = e.cls
      /\ g.vis = e.vis /\ g.mark = e.mark /\ g.attr = e.attr /\ g.overview = e.overview
      /\ g.mem \in [0 .. p.n - 1 -> Nat] /\ g.cur \in g.shown /\ g.events = e.events
  BY <1>1 DEF Sound, Base, HasFields, Fields
<1> HIDE DEF g
<1>3. Sound(p, g)
  BY <1>2, SoundAlike
<1> QED BY <1>2, <1>3 DEF g

LEMMA ResetSound ==
  ASSUME NEW p, NEW e, Sound(p, e)
  PROVE  LET g == ResetStacks(p, e)
         IN Sound(p, g) /\ g.overview = e.overview /\ g.cur = e.cur /\ g.h = e.h /\ g.v = e.v
            /\ g.events = e.events
<1> DEFINE g == ResetStacks(p, e)
<1>1. /\ HasFields(g)
      /\ g.h = e.h /\ g.v = e.v /\ g.cur = e.cur /\ g.prev = e.prev /\ g.cls = e.cls
      /\ g.vis = e.vis /\ g.mark = e.mark /\ g.attr = e.attr /\ g.overview = e.overview
      /\ g.mem \in [0 .. p.n - 1 -> Nat] /\ g.cur \in g.shown /\ g.events = e.events
  BY DEF Sound, Base, HasFields, Fields, ResetStacks
<1> HIDE DEF g
<1>2. Sound(p, g)
  BY <1>1, SoundAlike
<1> QED BY <1>1, <1>2 DEF g

LEMMA SortAllSound ==
  ASSUME NEW p, IsPresentation(p), NEW e, Sound(p, e)
  PROVE  LET g == SortAllFragments(p, e)
         IN Sound(p, g) /\ g.overview = e.overview /\ g.cur = e.cur /\ g.h = e.h /\ g.v = e.v
            /\ g.events = e.events
<1> DEFINE g == SortAllFragments(p, e)
<1>1. SamePlace(e, g) /\ Fragmented(p, g) /\ g.vis = e.vis /\ g.attr = e.attr
  BY SoundPlace, SortAllAgain
<1>2. g.events = e.events
  BY DEF SortAllFragments, Sound, Base, HasFields, Fields
<1> HIDE DEF g
<1>3. FragmentStep(p, e, g)
  BY <1>1 DEF FragmentStep
<1> QED BY <1>1, <1>2, <1>3, StepSound DEF SamePlace, g

(* The page that was just opened, its fragments numbered.                   *)
LEMMA FreshBase ==
  ASSUME NEW p, IsPresentation(p)
  PROVE  LET g == SortAllFragments(p, FreshDeck(p))
         IN Base(p, g) /\ g.cur = None /\ g.overview = FALSE
<1> DEFINE e == FreshDeck(p)
           g == SortAllFragments(p, e)
<1>1. /\ HasFields(e) /\ e.attr = p.frags
      /\ e.vis = [l \in Leaves(p) |-> {}] /\ e.mark = [l \in Leaves(p) |-> {}]
      /\ e.h = 0 /\ e.v = 0 /\ e.cur = None /\ e.overview = FALSE
      /\ e.cls = [s \in Sections(p) |-> IF s[2] > 0 THEN "future" ELSE "none"]
      /\ e.mem = [x \in 0 .. p.n - 1 |-> 0]
  BY DEF FreshDeck, HasFields, Fields
<1> HIDE DEF e
<1>2. SamePlace(e, g) /\ Fragmented(p, g)
  BY <1>1, SortAllFresh
<1> HIDE DEF g
<1>3. /\ HasFields(g) /\ g.h = 0 /\ g.v = 0 /\ g.cur = None /\ g.overview = FALSE
      /\ g.cls = e.cls /\ g.mem = e.mem
  BY <1>1, <1>2 DEF SamePlace
<1>4. g.cls \in [Sections(p) -> Words] /\ \A s \in Sections(p) : g.cls[s] # "present"
  BY <1>1, <1>3 DEF Words
<1>5. 0 \in 0 .. p.n - 1 /\ g.mem \in [0 .. p.n - 1 -> Nat]
  BY <1>1, <1>3 DEF IsPresentation
<1> QED BY <1>2, <1>3, <1>4, <1>5 DEF Base, e, g

(* configure() changes nothing that a sound deck depends on.                *)
Alike(p, q) ==
  /\ q.n = p.n /\ q.verticals = p.verticals /\ q.startv = p.startv /\ q.frags = p.frags
  /\ q.ids = p.ids /\ q.number = p.number /\ q.viewDistance = p.viewDistance
  /\ q.rtl = p.rtl /\ q.fragments = p.fragments

LEMMA AlikeSame ==
  ASSUME NEW p, NEW q, Alike(p, q)
  PROVE  /\ Sections(q) = Sections(p) /\ Leaves(q) = Leaves(p)
         /\ \A x, y : Placed(q, x, y) <=> Placed(p, x, y)
         /\ \A x, y : SlideAt(q, x, y) = SlideAt(p, x, y)
<1>1. Tops(q) = Tops(p) /\ \A x : Children(q, x) = Children(p, x)
  BY DEF Alike, Tops, Children
<1>2. Sections(q) = Sections(p)
  BY <1>1 DEF Alike, Sections
<1>3. \A x : IsStack(q, x) = IsStack(p, x)
  BY DEF Alike, IsStack
<1> QED BY <1>2, <1>3 DEF Alike, Leaves, Placed, SlideAt

LEMMA AlikeSound ==
  ASSUME NEW p, NEW q, Alike(p, q), q.loop \in BOOLEAN, IsPresentation(p), NEW e, Sound(p, e)
  PROVE  IsPresentation(q) /\ Sound(q, e)
<1>1. IsPresentation(q)
  BY AlikeSame DEF Alike, IsPresentation
<1>2. Fragmented(q, e)
  BY AlikeSame DEF Sound, Base, Fragmented, Alike
<1>3. Base(q, e)
  BY <1>2, AlikeSame DEF Sound, Base, Alike
<1>4. Sound(q, e)
  BY <1>3, AlikeSame DEF Sound, Alike
<1> QED BY <1>1, <1>4

-----------------------------------------------------------------------------
(* What a sound deck shows.                                                 *)
LEMMA SoundTypes ==
  ASSUME NEW p, IsPresentation(p), NEW e, Sound(p, e)
  PROVE  /\ e.cls \in [Sections(p) -> Words] /\ e.prev \in Leaves(p) \cup {None}
         /\ e.prev # e.cur /\ e.cur = SlideAt(p, e.h, e.v)
         /\ \A l \in Leaves(p) : e.mark[l] \subseteq e.vis[l] /\ e.vis[l] \subseteq DOMAIN p.frags[l]
<1>1. ASSUME NEW l \in Leaves(p)
      PROVE  e.mark[l] \subseteq e.vis[l] /\ e.vis[l] \subseteq DOMAIN p.frags[l]
  BY DEF Sound, Base, Fragmented, Staged, UpTo
<1> QED BY <1>1 DEF Sound, Base

(* The sections that are present are the current slide and its stack.       *)
LEMMA PresentSections ==
  ASSUME NEW p, IsPresentation(p), NEW e, Sound(p, e), NEW s \in Sections(p)
  PROVE  e.cls[s] = "present" <=> s = e.cur \/ s = <<e.h, Whole>>
<1>1. /\ e.h \in 0 .. p.n - 1 /\ e.cls[e.cur] = "present"
      /\ s = <<s[1], s[2]>> /\ s[1] \in 0 .. p.n - 1
  BY SoundPlace, SectionParts
<1>2. CASE IsVerticalSlide(s)
  <2>1. e.cls[s] = "present" => s = e.cur
    BY <1>2 DEF Sound, Base
  <2>2. s # <<e.h, Whole>>
    BY <1>2 DEF IsVerticalSlide
  <2> QED BY <1>1, <2>1, <2>2
<1>3. CASE ~IsVerticalSlide(s)
  <2>1. s = <<s[1], Whole>>
    BY <1>1, <1>3 DEF IsVerticalSlide
  <2> DEFINE i == s[1]
  <2>2. e.cls[<<i, Whole>>] = Relative(i, e.h, p.rtl)
    BY <1>1 DEF Sound
  <2> HIDE DEF i
  <2>3. e.cls[s] = "present" <=> i = e.h
    BY <2>1, <2>2 DEF Relative, i
  <2>4. s = e.cur => i = e.h
    BY SoundPlace DEF i
  <2> QED BY <2>1, <2>3, <2>4 DEF i
<1> QED BY <1>2, <1>3

LEMMA SoundProgress ==
  ASSUME NEW p, IsPresentation(p), NEW e, Sound(p, e)
  PROVE  /\ {l \in Leaves(p) : e.cls[l] = "present"} = {e.cur}
         /\ PastCount(p, e) = Cardinality({l \in Leaves(p) : Precedes(l, e.cur)})
<1>1. /\ e.cur \in Leaves(p) /\ e.h \in 0 .. p.n - 1 /\ e.cur[1] = e.h
      /\ \A l \in Leaves(p) : l \in Sections(p)
  BY SoundPlace, LeafParts
<1>2. \A l \in Leaves(p) : l = <<e.h, Whole>> => l = e.cur
  <2>1. <<e.h, Whole>> \in Leaves(p) => p.verticals[e.h] = 0
    BY LeafParts DEF Whole
  <2>2. p.verticals[e.h] = 0 => e.cur = <<e.h, Whole>>
    BY DEF Sound, SlideAt
  <2> QED BY <2>1, <2>2
<1>3. {l \in Leaves(p) : e.cls[l] = "present"} = {e.cur}
  BY <1>1, <1>2, PresentSections
<1> DEFINE present == {s \in Sections(p) : e.cls[s] = "present"}
<1>4. ASSUME NEW l \in Leaves(p)
      PROVE  (\A s \in present : Precedes(l, s)) <=> Precedes(l, e.cur)
  <2>1. e.cur \in present /\ \A s \in present : s = e.cur \/ s = <<e.h, Whole>>
    BY <1>1, PresentSections
  <2>2. Precedes(l, e.cur) => Precedes(l, <<e.h, Whole>>)
    <3>1. SUFFICES ASSUME Precedes(l, e.cur) PROVE Precedes(l, <<e.h, Whole>>)
      OBVIOUS
    <3>2. l[1] < e.h \/ (l[1] = e.h /\ IsVerticalSlide(l))
      BY <1>1, <3>1, Precedence
    <3>3. IsVerticalSlide(l) => l # <<e.h, Whole>>
      BY DEF IsVerticalSlide
    <3> QED BY <3>2, <3>3 DEF Precedes
  <2> HIDE DEF present
  <2> QED BY <2>1, <2>2
<1>5. {l \in Leaves(p) : \A s \in present : Precedes(l, s)} = {l \in Leaves(p) : Precedes(l, e.cur)}
  <2> HIDE DEF present
  <2> QED BY <1>4
<1> QED BY <1>3, <1>5 DEF PastCount

LEMMA SoundFragments ==
  ASSUME NEW p, IsPresentation(p), NEW e, Sound(p, e), NEW l \in Leaves(p)
  PROVE  /\ Precedes(l, e.cur) => e.vis[l] = DOMAIN p.frags[l]
         /\ Precedes(e.cur, l) => e.vis[l] = {}
         /\ Range(e.attr[l]) = 0 .. Cardinality(Range(e.attr[l])) - 1
         /\ \A i \in e.vis[l], j \in DOMAIN p.frags[l] \ e.vis[l] : e.attr[l][i] < e.attr[l][j]
<1> DEFINE a == e.attr[l]
<1>1. /\ DOMAIN a = DOMAIN p.frags[l] /\ Staged(a, e.vis[l]) /\ a \in Seq(Int)
      /\ Precedes(l, e.cur) => e.vis[l] = DOMAIN a
      /\ Precedes(e.cur, l) => e.vis[l] = {}
  BY DEF Sound, Base, Fragmented
<1>2. PICK m \in Nat : Range(a) = 0 .. m - 1 /\ \E w \in 0 .. m : e.vis[l] = UpTo(a, w)
  BY <1>1 DEF Staged
<1>3. PICK w \in 0 .. m : e.vis[l] = UpTo(a, w)
  BY <1>2
<1>4. Cardinality(Range(a)) = m
  BY <1>2, CountTo
<1>5. ASSUME NEW i \in e.vis[l], NEW j \in DOMAIN a \ e.vis[l] PROVE a[i] < a[j]
  <2>1. i \in DOMAIN a /\ a[i] < w /\ ~(a[j] < w)
    BY <1>3 DEF UpTo
  <2>2. a[i] \in Int /\ a[j] \in Int
    BY <1>1, <2>1
  <2> QED BY <2>1, <2>2
<1> QED BY <1>1, <1>2, <1>4, <1>5

-----------------------------------------------------------------------------
(* Arrows that do something.                                                *)
Differs(e, g) == g.cur # e.cur \/ g.vis # e.vis

(* The slide is the same and so is every fragment of the deck.              *)
StillHere(p, e, g) == FragmentStep(p, e, g) /\ g.vis = e.vis

LEMMA Unmoved ==
  ASSUME NEW p, NEW e, NEW g, FragmentStep(p, e, g), ~FragmentMoved(e, g)
  PROVE  StillHere(p, e, g)
BY DEF FragmentMoved, StillHere

LEMMA StillThere ==
  ASSUME NEW p, NEW e, NEW g, NEW k, StillHere(p, e, g), StillHere(p, g, k)
  PROVE  StillHere(p, e, k)
BY SamePlaceTransitive DEF StillHere, FragmentStep

(* slide() to other indices leads to another slide.                         *)
LEMMA SlideElsewhere ==
  ASSUME NEW p, IsPresentation(p), NEW e, Sound(p, e), NEW g, FragmentStep(p, e, g),
         NEW h \in Int, NEW v \in Int, GoalH(p, h) # e.h \/ GoalV(p, g, h, v) # e.v
  PROVE  Differs(e, Slide(p, g, h, v, Undef))
<1> DEFINE k == Slide(p, g, h, v, Undef)
<1>1. Base(p, g) /\ Undef \in Int
  BY StepSound DEF Sound, Undef
<1>2. /\ k.cur = SlideAt(p, GoalH(p, h), GoalV(p, g, h, v))
      /\ Placed(p, GoalH(p, h), GoalV(p, g, h, v))
  BY <1>1, SlideArrives DEF Arrived
<1>3. e.cur = SlideAt(p, e.h, e.v) /\ Placed(p, e.h, e.v)
  BY DEF Sound
<1> HIDE DEF k
<1>4. k.cur # e.cur
  BY <1>2, <1>3, SlideAtInjective
<1> QED BY <1>4 DEF Differs, k

LEMMA SidewaysWork ==
  ASSUME NEW p, IsPresentation(p), NEW e, Sound(p, e), ~e.overview, ~p.rtl, p.loop => p.n > 1
  PROVE  /\ AvailableRoutes(p, e).left => Differs(e, NavigateLeft(p, e))
         /\ AvailableRoutes(p, e).right => Differs(e, NavigateRight(p, e))
<1>1. /\ e.h \in 0 .. p.n - 1 /\ p.n \in Nat /\ p.loop \in BOOLEAN /\ Undef \in Int
      /\ e.h - 1 \in Int /\ e.h + 1 \in Int
  <2>1. e.h \in 0 .. p.n - 1
    BY SoundPlace
  <2>2. p.n \in Nat /\ p.loop \in BOOLEAN /\ Undef \in Int
    BY PresentationTypes DEF Undef
  <2> QED BY <2>1, <2>2
<1>2. /\ e.h > 0 \/ p.loop => Bounded(p, e.h - 1, p.n) # e.h
      /\ e.h < p.n - 1 \/ p.loop => Bounded(p, e.h + 1, p.n) # e.h
  BY <1>1, BoundedNeighbour
<1>3. ASSUME AvailableRoutes(p, e).left PROVE Differs(e, NavigateLeft(p, e))
  <2> DEFINE g == Try(p, e, -1)
             k == e.h - 1
  <2>1. FragmentStep(p, e, g)
    BY TryStep
  <2>2. GoalH(p, k) # e.h
    BY <1>2, <1>3 DEF AvailableRoutes, GoalH
  <2>3. NavigateLeft(p, e) = IF ~FragmentMoved(e, g) THEN Slide(p, g, k, Undef, Undef) ELSE g
    BY <1>3 DEF NavigateLeft
  <2>4. k \in Int
    BY <1>1
  <2> HIDE DEF g, k
  <2>5. Differs(e, Slide(p, g, k, Undef, Undef))
    BY <1>1, <2>1, <2>2, <2>4, SlideElsewhere
  <2> QED BY <2>3, <2>5 DEF Differs, FragmentMoved
<1>4. ASSUME AvailableRoutes(p, e).right PROVE Differs(e, NavigateRight(p, e))
  <2> DEFINE g == Try(p, e, 1)
             k == e.h + 1
  <2>1. FragmentStep(p, e, g)
    BY TryStep
  <2>2. GoalH(p, k) # e.h
    BY <1>2, <1>4 DEF AvailableRoutes, GoalH
  <2>3. NavigateRight(p, e) = IF ~FragmentMoved(e, g) THEN Slide(p, g, k, Undef, Undef) ELSE g
    BY <1>4 DEF NavigateRight
  <2>4. k \in Int
    BY <1>1
  <2> HIDE DEF g, k
  <2>5. Differs(e, Slide(p, g, k, Undef, Undef))
    BY <1>1, <2>1, <2>2, <2>4, SlideElsewhere
  <2> QED BY <2>3, <2>5 DEF Differs, FragmentMoved
<1> QED BY <1>3, <1>4

LEMMA Routes ==
  ASSUME NEW p, NEW e
  PROVE  /\ AvailableRoutes(p, e).up <=> e.v > 0
         /\ AvailableRoutes(p, e).down <=> e.v < p.verticals[e.h] - 1
BY Zenon DEF AvailableRoutes

LEMMA UpDownWork ==
  ASSUME NEW p, IsPresentation(p), NEW e, Sound(p, e), ~e.overview
  PROVE  /\ AvailableRoutes(p, e).up => Differs(e, NavigateUp(p, e))
         /\ AvailableRoutes(p, e).down => Differs(e, NavigateDown(p, e))
<1>1. /\ e.h \in Int /\ e.v \in Nat /\ p.verticals[e.h] \in Nat /\ Placed(p, e.h, e.v)
      /\ p.loop \in BOOLEAN
  BY SoundPlace, PresentationTypes
<1>2. GoalH(p, e.h) = e.h
  BY <1>1, LandsHere DEF GoalH
<1>3. ASSUME NEW g, NEW k \in 0 .. p.verticals[e.h] - 1 PROVE GoalV(p, g, e.h, k) = k
  <2>1. k # Undef /\ k \in Int
    BY <1>1 DEF Undef
  <2>2. Bounded(p, k, p.verticals[e.h]) = k
    BY <1>1, <2>1, BoundedInRange
  <2> QED BY <1>2, <2>1, <2>2 DEF GoalV, Goal
<1>4. ASSUME NEW g, FragmentStep(p, e, g), NEW k \in 0 .. p.verticals[e.h] - 1, k # e.v
      PROVE  Differs(e, Slide(p, g, e.h, k, Undef))
  <2>1. k \in Int /\ GoalV(p, g, e.h, k) # e.v
    BY <1>3, <1>4
  <2> QED BY <1>1, <1>4, <2>1, SlideElsewhere
<1>5. ASSUME AvailableRoutes(p, e).up PROVE Differs(e, NavigateUp(p, e))
  <2> DEFINE g == Try(p, e, -1)
             k == e.v - 1
  <2>1. FragmentStep(p, e, g)
    BY TryStep
  <2>2. e.v > 0
    BY <1>5 DEF AvailableRoutes
  <2>3. k \in 0 .. p.verticals[e.h] - 1 /\ k # e.v
    <3>1. e.v < p.verticals[e.h]
      BY <1>1, <2>2 DEF Placed
    <3> QED BY <1>1, <2>2, <3>1
  <2>4. NavigateUp(p, e) = IF ~FragmentMoved(e, g) THEN Slide(p, g, e.h, k, Undef) ELSE g
    BY <1>5 DEF NavigateUp
  <2> HIDE DEF g, k
  <2>5. Differs(e, Slide(p, g, e.h, k, Undef))
    BY <1>4, <2>1, <2>3
  <2> QED BY <2>4, <2>5 DEF Differs, FragmentMoved
<1>6. ASSUME AvailableRoutes(p, e).down PROVE Differs(e, NavigateDown(p, e))
  <2> DEFINE g == Try(p, e, 1)
             k == e.v + 1
  <2>1. FragmentStep(p, e, g)
    BY TryStep
  <2>2. e.v < p.verticals[e.h] - 1
    BY <1>6 DEF AvailableRoutes
  <2>3. k \in 0 .. p.verticals[e.h] - 1 /\ k # e.v
    BY <1>1, <2>2
  <2>4. NavigateDown(p, e) = IF ~FragmentMoved(e, g) THEN Slide(p, g, e.h, k, Undef) ELSE g
    BY <1>6 DEF NavigateDown
  <2> HIDE DEF g, k
  <2>5. Differs(e, Slide(p, g, e.h, k, Undef))
    BY <1>4, <2>1, <2>3
  <2> QED BY <2>4, <2>5 DEF Differs, FragmentMoved
<1> QED BY <1>5, <1>6

(* A deck that differs from g, which is still where e is, differs from e.   *)
LEMMA DiffersOn ==
  ASSUME NEW p, NEW e, NEW g, StillHere(p, e, g), NEW k, Differs(g, k)
  PROVE  Differs(e, k)
BY DEF StillHere, FragmentStep, SamePlace, Differs

LEMMA StillRoutes ==
  ASSUME NEW p, IsPresentation(p), NEW e, Sound(p, e), NEW g, StillHere(p, e, g)
  PROVE  /\ AvailableRoutes(p, g) = AvailableRoutes(p, e)
         /\ Sound(p, g) /\ g.h = e.h /\ g.v = e.v /\ g.cur = e.cur /\ g.overview = e.overview
         /\ g.cls = e.cls /\ g.vis = e.vis /\ g.attr = e.attr
BY StepSound DEF StillHere, FragmentStep, SamePlace, AvailableRoutes

(* The fragments of updateControls() are those an arrow would step.         *)
LEMMA FragmentsWork ==
  ASSUME NEW p, IsPresentation(p), NEW e, Sound(p, e)
  PROVE  /\ AvailableFragments(p, e).prev <=> FragmentMoved(e, StepFragment(p, e, -1))
         /\ AvailableFragments(p, e).next <=> FragmentMoved(e, StepFragment(p, e, 1))
<1>1. HasFields(e) /\ Fragmented(p, e) /\ e.cur \in Leaves(p)
  BY SoundPlace
<1>2. /\ FragmentMoved(e, StepFragment(p, e, -1)) <=> HasFragments(p, e) /\ e.vis[e.cur] # {}
      /\ FragmentMoved(e, StepFragment(p, e, 1)) <=>
           HasFragments(p, e) /\ e.vis[e.cur] # DOMAIN e.attr[e.cur]
  BY <1>1, StepEffect
<1> QED BY <1>2 DEF AvailableFragments

LEMMA FragmentArrow ==
  ASSUME NEW p, NEW e, ~e.overview, NEW by \in {-1, 1},
         FragmentMoved(e, StepFragment(p, e, by))
  PROVE  /\ by = -1 => Differs(e, NavigateUp(p, e)) /\ Differs(e, NavigatePrev(p, e))
         /\ by = 1 => Differs(e, NavigateDown(p, e)) /\ Differs(e, NavigateNext(p, e))
         /\ by = -1 /\ ~p.rtl => Differs(e, NavigateLeft(p, e))
         /\ by = 1 /\ ~p.rtl => Differs(e, NavigateRight(p, e))
<1>1. Try(p, e, by) = StepFragment(p, e, by) /\ Differs(e, StepFragment(p, e, by))
  BY DEF Try, FragmentMoved, Differs
<1>2. by = -1 => /\ NavigateUp(p, e) = StepFragment(p, e, by)
                 /\ NavigatePrev(p, e) = StepFragment(p, e, by)
                 /\ ~p.rtl => NavigateLeft(p, e) = StepFragment(p, e, by)
  BY <1>1 DEF NavigateUp, NavigatePrev, NavigateLeft
<1>3. by = 1 => /\ NavigateDown(p, e) = StepFragment(p, e, by)
                /\ NavigateNext(p, e) = StepFragment(p, e, by)
                /\ ~p.rtl => NavigateRight(p, e) = StepFragment(p, e, by)
  BY <1>1 DEF NavigateDown, NavigateNext, NavigateRight
<1> QED BY <1>1, <1>2, <1>3

(* updateControls() promises nothing that pressing the arrow does not do.   *)
LEMMA NextWorks ==
  ASSUME NEW p, IsPresentation(p), NEW e, Sound(p, e), ~e.overview, ~p.rtl, p.loop => p.n > 1,
         LET r == AvailableRoutes(p, e)
         IN r.right \/ r.down \/ AvailableFragments(p, e).next
  PROVE  Differs(e, NavigateNext(p, e))
<1> DEFINE g == StepFragment(p, e, 1)
<1>1. CASE FragmentMoved(e, g)
  BY <1>1, FragmentArrow
<1>2. CASE ~FragmentMoved(e, g)
  <2>1. StillHere(p, e, g) /\ ~AvailableFragments(p, e).next
    BY <1>2, TryStep, Unmoved, FragmentsWork
  <2>2. NavigateNext(p, e) = IF AvailableRoutes(p, e).down THEN NavigateDown(p, g)
                             ELSE NavigateRight(p, g)
    BY <1>2 DEF NavigateNext
  <2> HIDE DEF g
  <2>3. Sound(p, g) /\ ~g.overview /\ AvailableRoutes(p, g) = AvailableRoutes(p, e)
    BY <2>1, StillRoutes
  <2>4. Differs(g, NavigateNext(p, e))
    BY <2>1, <2>2, <2>3, UpDownWork, SidewaysWork
  <2> QED BY <2>1, <2>4, DiffersOn
<1> QED BY <1>1, <1>2

LEMMA PrevWorks ==
  ASSUME NEW p, IsPresentation(p), NEW e, Sound(p, e), ~e.overview, ~p.rtl, ~p.loop,
         LET r == AvailableRoutes(p, e)
         IN r.left \/ r.up \/ AvailableFragments(p, e).prev
  PROVE  Differs(e, NavigatePrev(p, e))
<1> DEFINE g == StepFragment(p, e, -1)
           last == p.verticals[e.h - 1] - 1
           y == IF last = 0 THEN Undef ELSE last
           k == e.h - 1
<1>1. CASE FragmentMoved(e, g)
  BY <1>1, FragmentArrow
<1>2. CASE ~FragmentMoved(e, g)
  <2>1. StillHere(p, e, g) /\ ~AvailableFragments(p, e).prev /\ FragmentStep(p, e, g)
    BY <1>2, TryStep, Unmoved, FragmentsWork
  <2>2. CASE AvailableRoutes(p, e).up
    <3>1. NavigatePrev(p, e) = NavigateUp(p, g)
      BY <1>2, <2>2 DEF NavigatePrev
    <3> HIDE DEF g
    <3>2. Sound(p, g) /\ ~g.overview /\ AvailableRoutes(p, g) = AvailableRoutes(p, e)
      BY <2>1, StillRoutes
    <3>3. Differs(g, NavigateUp(p, g))
      BY <2>2, <3>2, UpDownWork
    <3> QED BY <2>1, <3>1, <3>3, DiffersOn
  <2>3. CASE ~AvailableRoutes(p, e).up
    <3>1. e.h > 0
      BY <2>1, <2>3 DEF AvailableRoutes
    <3>2. e.h \in 0 .. p.n - 1 /\ k \in 0 .. p.n - 1 /\ k \in Int /\ k # e.h
      BY <3>1, SoundPlace, PresentationTypes
    <3>3. e.cls[<<k, Whole>>] = "past"
      <4>1. e.cls[<<k, Whole>>] = Relative(k, e.h, p.rtl)
        BY <3>2 DEF Sound
      <4>2. k \in Int /\ e.h \in Int /\ k < e.h /\ p.rtl \in BOOLEAN
        BY <3>1, <3>2, PresentationTypes
      <4> HIDE DEF k
      <4>3. Relative(k, e.h, p.rtl) = "past"
        BY <4>2, RelativeWord
      <4> QED BY <4>1, <4>3
    <3>4. NavigatePrev(p, e) = Slide(p, g, k, y, Undef)
      BY <1>2, <2>3, <3>1, <3>3 DEF NavigatePrev
    <3>5. y \in Int
      <4>1. p.verticals[k] \in Nat
        BY <3>2, PresentationTypes
      <4> QED BY <4>1 DEF Undef
    <3>6. GoalH(p, k) # e.h
      <4> HIDE DEF k
      <4>1. Bounded(p, k, p.n) = k
        BY <3>2, PresentationTypes, BoundedInRange
      <4> QED BY <3>2, <4>1 DEF GoalH
    <3> HIDE DEF g, k, y
    <3> QED BY <2>1, <3>2, <3>4, <3>5, <3>6, SlideElsewhere
  <2> QED BY <2>2, <2>3
<1> QED BY <1>1, <1>2

LEMMA ControlsWork ==
  ASSUME NEW p, IsPresentation(p), NEW e, Sound(p, e), ~e.overview, ~p.rtl, p.loop => p.n > 1,
         NEW dir \in Controls(p, e) \ (IF p.loop THEN {"prev"} ELSE {})
  PROVE  Differs(e, Press(p, e, dir))
<1> DEFINE r == AvailableRoutes(p, e)
           f == AvailableFragments(p, e)
<1>1. /\ f.prev => /\ Differs(e, NavigateLeft(p, e)) /\ Differs(e, NavigateUp(p, e))
      /\ f.next => /\ Differs(e, NavigateRight(p, e)) /\ Differs(e, NavigateDown(p, e))
  BY FragmentsWork, FragmentArrow
<1>2. /\ r.left => Differs(e, NavigateLeft(p, e))
      /\ r.right => Differs(e, NavigateRight(p, e))
      /\ r.up => Differs(e, NavigateUp(p, e))
      /\ r.down => Differs(e, NavigateDown(p, e))
  BY SidewaysWork, UpDownWork
<1>3. /\ dir \in Directions
      /\ dir = "left" => r.left \/ f.prev
      /\ dir = "right" => r.right \/ f.next
      /\ dir = "up" => r.up \/ f.prev
      /\ dir = "down" => r.down \/ f.next
      /\ dir = "prev" => ~p.loop /\ (r.left \/ r.up \/ f.prev)
      /\ dir = "next" => r.right \/ r.down \/ f.next
  BY DEF Controls, Directions
<1>4. dir = "prev" => Differs(e, NavigatePrev(p, e))
  BY <1>3, PrevWorks
<1>5. dir = "next" => Differs(e, NavigateNext(p, e))
  BY <1>3, NextWorks
<1> HIDE DEF r, f
<1> QED BY <1>1, <1>2, <1>3, <1>4, <1>5 DEF Press, Directions

-----------------------------------------------------------------------------
(* Back again.                                                              *)
LEMMA StepsNoFurther ==
  ASSUME NEW p, IsPresentation(p), NEW e, Sound(p, e), NEW by \in {-1, 1},
         e.vis[e.cur] = IF by = 1 THEN DOMAIN e.attr[e.cur] ELSE {}
  PROVE  /\ ~FragmentMoved(e, StepFragment(p, e, by)) /\ StillHere(p, e, StepFragment(p, e, by))
         /\ ~FragmentMoved(e, Try(p, e, by)) /\ StillHere(p, e, Try(p, e, by))
<1>1. HasFields(e) /\ Fragmented(p, e) /\ e.cur \in Leaves(p)
  BY SoundPlace
<1>2. ~FragmentMoved(e, StepFragment(p, e, by))
  BY <1>1, StepEffect
<1>3. ~FragmentMoved(e, Try(p, e, by))
  BY <1>2 DEF Try, FragmentMoved
<1> QED BY <1>2, <1>3, TryStep, Unmoved

LEMMA Exhausted ==
  ASSUME NEW p, IsPresentation(p), NEW e, Sound(p, e), p.fragments,
         ~FragmentMoved(e, StepFragment(p, e, 1))
  PROVE  e.vis[e.cur] = DOMAIN e.attr[e.cur]
<1>1. HasFields(e) /\ Fragmented(p, e) /\ e.cur \in Leaves(p) /\ e.cur # None
  BY SoundPlace
<1>2. HasFragments(p, e) => e.vis[e.cur] = DOMAIN e.attr[e.cur]
  BY <1>1, StepEffect
<1>3. e.attr[e.cur] # <<>> => HasFragments(p, e)
  BY <1>1 DEF HasFragments
<1>4. e.vis[e.cur] \subseteq DOMAIN e.attr[e.cur]
  BY <1>1 DEF Fragmented, Staged, UpTo
<1>5. e.attr[e.cur] = <<>> => DOMAIN e.attr[e.cur] = {}
  OBVIOUS
<1> QED BY <1>2, <1>3, <1>4, <1>5

(* slide() from where e still is.                                           *)
Reached(p, e, k, x, y) ==
  /\ Sound(p, k) /\ k.h = x /\ k.v = y /\ k.cur = SlideAt(p, x, y)
  /\ k.overview = e.overview /\ k.attr = e.attr /\ k.vis[k.cur] = e.vis[k.cur]

LEMMA ArriveFrom ==
  ASSUME NEW p, IsPresentation(p), NEW e, Sound(p, e), NEW g, StillHere(p, e, g),
         NEW h \in Int, NEW v \in Int, NEW x, NEW y, Placed(p, x, y), GoalH(p, h) = x, GoalV(p, g, h, v) = y
  PROVE  Reached(p, e, Slide(p, g, h, v, Undef), x, y)
<1>1. /\ Base(p, g) /\ Undef \in Int
      /\ g.overview = e.overview /\ g.attr = e.attr /\ g.vis = e.vis
  BY StillRoutes DEF Sound, Undef
<1>2. /\ Arrived(p, g, Slide(p, g, h, v, Undef), x, y)
      /\ Slide(p, g, h, v, Undef).vis[Slide(p, g, h, v, Undef).cur]
           = g.vis[Slide(p, g, h, v, Undef).cur]
  BY <1>1, SlideArrives
<1> QED BY <1>1, <1>2 DEF Arrived, Reached

(* From a later slide g, "previous" first finds no fragment to hide.        *)
LEMMA Backwards ==
  ASSUME NEW p, IsPresentation(p), NEW e, Sound(p, e), NEW g, NEW x, NEW y, Placed(p, x, y),
         Reached(p, e, g, x, y), Precedes(e.cur, g.cur)
  PROVE  LET u == StepFragment(p, g, -1)
         IN /\ ~FragmentMoved(g, u) /\ StillHere(p, g, u)
            /\ ~FragmentMoved(u, Try(p, u, -1)) /\ StillHere(p, g, Try(p, u, -1))
            /\ g.vis[e.cur] = DOMAIN e.attr[e.cur]
<1> DEFINE u == StepFragment(p, g, -1)
<1>1. e.cur \in Leaves(p) /\ g.cur \in Leaves(p) /\ Sound(p, g) /\ g.attr = e.attr
  BY SoundPlace DEF Reached
<1>2. g.vis[g.cur] = {}
  BY <1>1 DEF Reached, Sound
<1>3. g.vis[e.cur] = DOMAIN e.attr[e.cur]
  BY <1>1 DEF Sound
<1>4. ~FragmentMoved(g, u) /\ StillHere(p, g, u)
  BY <1>1, <1>2, StepsNoFurther
<1> HIDE DEF u
<1>5. Sound(p, u) /\ u.vis[u.cur] = {}
  BY <1>1, <1>2, <1>4, StillRoutes
<1>6. ~FragmentMoved(u, Try(p, u, -1)) /\ StillHere(p, u, Try(p, u, -1))
  BY <1>5, StepsNoFurther
<1> QED BY <1>3, <1>4, <1>6, StillThere DEF u

LEMMA DownAndUp ==
  ASSUME NEW p, IsPresentation(p), NEW e, Sound(p, e), NEW t, StillHere(p, e, t),
         e.vis[e.cur] = DOMAIN e.attr[e.cur], AvailableRoutes(p, e).down
  PROVE  LET b == NavigatePrev(p, Slide(p, t, e.h, e.v + 1, Undef))
         IN b.cur = e.cur /\ b.vis[e.cur] = e.vis[e.cur]
<1> DEFINE y == e.v + 1
           g == Slide(p, t, e.h, y, Undef)
           u == StepFragment(p, g, -1)
           w == Try(p, u, -1)
<1>1. /\ e.h \in 0 .. p.n - 1 /\ e.h \in Int /\ e.v \in Nat /\ e.v < p.verticals[e.h] - 1
      /\ p.verticals[e.h] \in Nat /\ Placed(p, e.h, e.v) /\ e.cur = SlideAt(p, e.h, e.v)
      /\ e.cur \in Leaves(p)
  <2>1. /\ e.h \in 0 .. p.n - 1 /\ e.v \in Nat /\ p.verticals[e.h] \in Nat
        /\ Placed(p, e.h, e.v) /\ e.cur \in Leaves(p)
    BY SoundPlace
  <2>2. e.cur = SlideAt(p, e.h, e.v)
    BY DEF Sound
  <2> QED BY <2>1, <2>2, Routes
<1>2. /\ y \in Nat /\ y \in Int /\ y # Undef /\ Placed(p, e.h, y) /\ y > 0 /\ y - 1 = e.v
      /\ e.v \in Int /\ e.v # Undef /\ e.v < y /\ p.verticals[e.h] > 0
  BY <1>1 DEF Placed, Undef
<1> HIDE DEF y
<1>3. GoalH(p, e.h) = e.h /\ GoalV(p, t, e.h, y) = y /\ GoalV(p, w, e.h, e.v) = e.v
  BY <1>1, <1>2, LandsHere DEF GoalH, GoalV, Goal
<1>4. Reached(p, e, g, e.h, y)
  BY <1>1, <1>2, <1>3, ArriveFrom
<1> HIDE DEF g
<1>5. /\ Sound(p, g) /\ g.h = e.h /\ g.v = y /\ g.cur = SlideAt(p, e.h, y)
      /\ g.cur \in Leaves(p)
  BY <1>4, SoundPlace DEF Reached
<1>6. Precedes(e.cur, g.cur)
  BY <1>1, <1>2, <1>5, SlideAtLeaf, Precedence
<1>7. /\ ~FragmentMoved(g, u) /\ StillHere(p, g, u) /\ ~FragmentMoved(u, w) /\ StillHere(p, g, w)
      /\ g.vis[e.cur] = DOMAIN e.attr[e.cur]
  BY <1>2, <1>4, <1>6, Backwards
<1> HIDE DEF u, w
<1>8. u.h = e.h /\ u.v = y /\ AvailableRoutes(p, u) = AvailableRoutes(p, g)
  BY <1>5, <1>7, StillRoutes
<1>9. AvailableRoutes(p, g).up
  BY <1>2, <1>5 DEF AvailableRoutes
<1>10. NavigatePrev(p, g) = NavigateUp(p, u)
  BY <1>7, <1>9 DEF NavigatePrev, u
<1>11. NavigateUp(p, u) = Slide(p, w, e.h, e.v, Undef)
  BY <1>2, <1>7, <1>8, <1>9 DEF NavigateUp, w
<1>12. Reached(p, g, Slide(p, w, e.h, e.v, Undef), e.h, e.v)
  BY <1>1, <1>2, <1>3, <1>5, <1>7, ArriveFrom
<1> QED BY <1>1, <1>7, <1>10, <1>11, <1>12 DEF Reached, g, y

LEMMA RightAndBack ==
  ASSUME NEW p, IsPresentation(p), NEW e, Sound(p, e), NEW t, StillHere(p, e, t),
         e.vis[e.cur] = DOMAIN e.attr[e.cur], ~AvailableRoutes(p, e).down,
         ~p.rtl, e.h < p.n - 1, Slide(p, t, e.h + 1, Undef, Undef).v = 0
  PROVE  LET b == NavigatePrev(p, Slide(p, t, e.h + 1, Undef, Undef))
         IN b.cur = e.cur /\ b.vis[e.cur] = e.vis[e.cur]
<1> DEFINE x == e.h + 1
           g == Slide(p, t, x, Undef, Undef)
           y == GoalV(p, t, x, Undef)
           u == StepFragment(p, g, -1)
           last == p.verticals[e.h] - 1
           z == IF last = 0 THEN Undef ELSE last
<1>1. /\ e.h \in 0 .. p.n - 1 /\ e.h \in Int /\ e.v \in Nat /\ ~(e.v < p.verticals[e.h] - 1)
      /\ p.verticals[e.h] \in Nat /\ Placed(p, e.h, e.v) /\ e.cur = SlideAt(p, e.h, e.v)
      /\ e.cur \in Leaves(p)
  <2>1. /\ e.h \in 0 .. p.n - 1 /\ e.v \in Nat /\ p.verticals[e.h] \in Nat
        /\ Placed(p, e.h, e.v) /\ e.cur \in Leaves(p)
    BY SoundPlace
  <2>2. e.cur = SlideAt(p, e.h, e.v)
    BY DEF Sound
  <2> QED BY <2>1, <2>2, Routes
<1>2. x \in 0 .. p.n - 1 /\ x \in Int /\ x > 0 /\ e.h < x /\ x - 1 = e.h /\ Undef \in Int
  BY <1>1, PresentationTypes DEF Undef
<1>3. Base(p, t)
  BY StillRoutes DEF Sound
<1> HIDE DEF x
<1>4. GoalH(p, x) = x
  BY <1>2, PresentationTypes, BoundedInRange DEF GoalH
<1>5. Placed(p, x, y)
  BY <1>2, <1>3, <1>4, GoalPlaced
<1> HIDE DEF y
<1>6. Reached(p, e, g, x, y)
  BY <1>2, <1>4, <1>5, ArriveFrom DEF y
<1>7. g.v = 0
  BY DEF x
<1> HIDE DEF g
<1>8. /\ Sound(p, g) /\ g.h = x /\ g.cur = SlideAt(p, x, y) /\ g.cur \in Leaves(p)
  BY <1>6, SoundPlace DEF Reached
<1>9. Precedes(e.cur, g.cur)
  BY <1>1, <1>2, <1>5, <1>8, SlideAtLeaf, Precedence
<1>10. /\ ~FragmentMoved(g, u) /\ StillHere(p, g, u)
       /\ g.vis[e.cur] = DOMAIN e.attr[e.cur]
  BY <1>5, <1>6, <1>9, Backwards
<1> HIDE DEF u
<1>11. ~AvailableRoutes(p, g).up
  <2>1. ~(g.v > 0)
    BY <1>7
  <2> QED BY <2>1, Routes
<1>12. g.cls[<<e.h, Whole>>] = "past"
  <2>1. g.cls[<<e.h, Whole>>] = Relative(e.h, x, p.rtl)
    BY <1>1, <1>8 DEF Sound
  <2>2. Relative(e.h, x, p.rtl) = "past"
    BY <1>1, <1>2, PresentationTypes, RelativeWord
  <2> QED BY <2>1, <2>2
<1>13. NavigatePrev(p, g) = Slide(p, u, e.h, z, Undef)
  BY <1>2, <1>8, <1>10, <1>11, <1>12 DEF NavigatePrev, u
<1>14. z \in Int /\ GoalH(p, e.h) = e.h
  BY <1>1, LandsHere DEF GoalH, Undef
<1>15. GoalV(p, u, e.h, z) = e.v
  <2> DEFINE k == Goal(p, u, e.h, z)
             m == p.verticals[e.h]
  <2>1. k \in Int /\ (m > 1 => k = m - 1)
    <3>1. Base(p, u)
      BY <1>8, <1>10, StillRoutes DEF Sound
    <3>2. Remembered(p, u, e.h) \in Nat
      BY <3>1, RememberedType
    <3> QED BY <1>1, <1>14, <3>2 DEF Goal, Undef
  <2>2. m \in Nat /\ p.loop \in BOOLEAN
    BY <1>1, PresentationTypes
  <2>3. /\ m = 0 => e.v = 0
        /\ m = 1 => e.v = 0
        /\ m > 1 => e.v = m - 1
    BY <1>1 DEF Placed
  <2>4. GoalV(p, u, e.h, z) = Bounded(p, k, m)
    BY <1>14 DEF GoalV
  <2> HIDE DEF k, m
  <2>5. CASE m = 0
    BY <2>1, <2>2, <2>3, <2>4, <2>5, BoundedInRange
  <2>6. CASE m = 1
    <3>1. Bounded(p, k, m) \in 0 .. 0
      BY <2>1, <2>2, <2>6, BoundedInRange
    <3> QED BY <2>3, <2>4, <2>6, <3>1
  <2>7. CASE m > 1
    <3>1. k \in 0 .. m - 1
      BY <2>1, <2>2, <2>7
    <3>2. Bounded(p, k, m) = k
      BY <2>2, <3>1, <2>1, BoundedInRange
    <3> QED BY <2>1, <2>3, <2>4, <2>7, <3>2
  <2> QED BY <2>2, <2>5, <2>6, <2>7
<1> HIDE DEF z
<1>16. Reached(p, g, Slide(p, u, e.h, z, Undef), e.h, e.v)
  BY <1>1, <1>8, <1>10, <1>14, <1>15, ArriveFrom
<1> QED BY <1>1, <1>10, <1>13, <1>16 DEF Reached, g, x

(* "previous" undoes what "next" did.                                       *)
LEMMA PrevUndoes ==
  ASSUME NEW p, IsPresentation(p), NEW e, Sound(p, e), ~p.rtl, ~p.loop, p.fragments,
         NEW g, g = NavigateNext(p, e), Differs(e, g), g.h = e.h \/ g.v = 0
  PROVE  LET b == NavigatePrev(p, g)
         IN b.cur = e.cur /\ b.vis[e.cur] = e.vis[e.cur]
<1> DEFINE s == StepFragment(p, e, 1)
<1>1. CASE FragmentMoved(e, s)
  <2>1. g = s
    BY <1>1 DEF NavigateNext
  <2>2. LET b == StepFragment(p, s, -1)
        IN b.cur = e.cur /\ b.vis[e.cur] = e.vis[e.cur] /\ FragmentMoved(s, b)
    BY <1>1, SoundPlace, StepBack
  <2> HIDE DEF s
  <2> QED BY <2>1, <2>2 DEF NavigatePrev
<1>2. CASE ~FragmentMoved(e, s)
  <2> DEFINE t == Try(p, s, 1)
  <2>1. StillHere(p, e, s) /\ e.vis[e.cur] = DOMAIN e.attr[e.cur]
    BY <1>2, TryStep, Unmoved, Exhausted
  <2>2. g = IF AvailableRoutes(p, e).down THEN NavigateDown(p, s) ELSE NavigateRight(p, s)
    BY <1>2 DEF NavigateNext
  <2> HIDE DEF s
  <2>3. /\ Sound(p, s) /\ s.h = e.h /\ s.v = e.v /\ s.cur = e.cur
        /\ s.vis = e.vis /\ s.attr = e.attr /\ AvailableRoutes(p, s) = AvailableRoutes(p, e)
    BY <2>1, StillRoutes
  <2>4. ~FragmentMoved(s, t) /\ StillHere(p, s, t)
    BY <2>1, <2>3, StepsNoFurther
  <2>5. StillHere(p, e, t)
    BY <2>1, <2>4, StillThere
  <2> HIDE DEF t
  <2>6. CASE AvailableRoutes(p, e).down
    <3>1. g = Slide(p, t, e.h, e.v + 1, Undef)
      BY <2>2, <2>3, <2>4, <2>6 DEF NavigateDown, t
    <3> QED BY <2>1, <2>5, <2>6, <3>1, DownAndUp
  <2>7. CASE ~AvailableRoutes(p, e).down
    <3>1. ~Differs(e, t)
      BY <2>5 DEF StillHere, FragmentStep, SamePlace, Differs
    <3>2. g = IF s.h < p.n - 1 THEN Slide(p, t, s.h + 1, Undef, Undef) ELSE t
      BY <2>2, <2>4, <2>7 DEF NavigateRight, AvailableRoutes, t
    <3>3. e.h < p.n - 1 /\ g = Slide(p, t, e.h + 1, Undef, Undef)
      BY <2>3, <3>1, <3>2
    <3> DEFINE x == e.h + 1
    <3>4. g.h = x
      <4>1. e.h \in 0 .. p.n - 1 /\ p.n \in Nat /\ p.loop \in BOOLEAN
        BY SoundPlace, PresentationTypes
      <4>2. x \in Int /\ x \in 0 .. p.n - 1 /\ Undef \in Int
        BY <3>3, <4>1 DEF Undef
      <4>3. Base(p, t)
        BY <2>5, StillRoutes DEF Sound
      <4> HIDE DEF x
      <4>4. GoalH(p, x) = x
        BY <4>1, <4>2, BoundedInRange DEF GoalH
      <4>5. Slide(p, t, x, Undef, Undef).h = GoalH(p, x)
        BY <4>2, <4>3, SlideArrives DEF Arrived
      <4> QED BY <3>3, <4>4, <4>5 DEF x
    <3>5. g.v = 0
      <4>1. e.h \in Int
        BY SoundPlace
      <4> QED BY <3>4, <4>1
    <3> QED BY <2>1, <2>5, <2>7, <3>3, <3>5, RightAndBack
  <2> QED BY <2>6, <2>7
<1> QED BY <1>1, <1>2

-----------------------------------------------------------------------------
(* The address.  What readURL() makes of one.                               *)
IsName(p, url) ==
  url.name # NoName /\ (url.name \in DOMAIN p.number => p.number[url.name] = Undef)
HashH(p, url) == IF url.name = NoName THEN url.h ELSE p.number[url.name]

(* The address says where e is: as writeURL() would, or as the user did.    *)
Addresses(p, e, url) ==
  \/ url = UrlOf(p, e)
  \/ ~IsName(p, url) /\ HashH(p, url) = e.h /\ url.v = e.v

LEMMA AddressFinds ==
  ASSUME NEW p, IsPresentation(p), NamesAreNames(p), NEW e, Sound(p, e),
         NEW url, Addresses(p, e, url), NEW g, Base(p, g), g.cur = None
  PROVE  ReadURL(p, g, url).cur = e.cur
<1>1. /\ e.h \in Int /\ e.v \in Int /\ e.v # Undef /\ Placed(p, e.h, e.v) /\ Undef \in Int
      /\ e.cur = SlideAt(p, e.h, e.v) /\ e.cur[1] = e.h /\ p.verticals[e.h] \in Nat
      /\ p.verticals[e.h] = 0 => e.v = 0
      /\ IsVerticalSlide(e.cur) => e.cur[2] = e.v
      /\ ~IsVerticalSlide(e.cur) => p.verticals[e.h] = 0
  BY SoundPlace DEF Sound, Undef
<1>2. GoalH(p, e.h) = e.h /\ GoalV(p, g, e.h, e.v) = e.v
  BY <1>1, LandsHere DEF GoalH, GoalV, Goal
<1>3. Slide(p, g, e.h, e.v, Undef).cur = e.cur
  BY <1>1, <1>2, SlideArrives DEF Arrived
<1>4. CASE ~IsName(p, url) /\ HashH(p, url) = e.h /\ url.v = e.v
  <2>1. ReadURL(p, g, url) = Slide(p, g, e.h, e.v, Undef)
    BY <1>4 DEF ReadURL, IsName, HashH
  <2> QED BY <1>3, <2>1
<1>5. CASE url = UrlOf(p, e)
  <2> DEFINE named == {id \in DOMAIN p.ids : p.ids[id] = e.cur}
  <2>1. CASE named = {}
    <3>1. url = HashAt(e.h, e.v)
      BY <1>5, <2>1 DEF UrlOf
    <3>2. url.name = NoName /\ url.h = e.h /\ url.v = e.v
      BY <3>1 DEF HashAt
    <3>3. ReadURL(p, g, url) = Slide(p, g, e.h, e.v, Undef)
      BY <3>2 DEF ReadURL
    <3> QED BY <1>3, <3>3
  <2>2. CASE named # {}
    <3> DEFINE id == CHOOSE i \in named : TRUE
    <3>1. id \in named
      BY <2>2
    <3>2. url = HashNamed(id)
      BY <1>5, <2>2 DEF UrlOf
    <3>3. id \in DOMAIN p.ids /\ p.ids[id] = e.cur
      BY <3>1
    <3> HIDE DEF named, id
    <3>4. url.name = id
      BY <3>2 DEF HashNamed
    <3>5. id # NoName /\ (id \in DOMAIN p.number => p.number[id] = Undef)
      BY <3>3 DEF IsPresentation, NamesAreNames
    <3> DEFINE v == IF IsVerticalSlide(e.cur) THEN e.v ELSE Undef
    <3>6. ReadURL(p, g, url) = Slide(p, g, e.h, v, Undef)
      BY <1>1, <3>3, <3>4, <3>5 DEF ReadURL
    <3>7. CASE IsVerticalSlide(e.cur)
      BY <1>3, <3>6, <3>7
    <3>8. CASE ~IsVerticalSlide(e.cur)
      <4>1. v = Undef /\ p.verticals[e.h] = 0 /\ e.v = 0
        BY <1>1, <3>8
      <4>2. GoalV(p, g, e.h, Undef) = 0
        BY <1>2, <4>1 DEF GoalV, Bounded
      <4>3. Slide(p, g, e.h, Undef, Undef).cur = e.cur
        BY <1>1, <1>2, <4>1, <4>2, SlideArrives DEF Arrived
      <4> QED BY <3>6, <4>1, <4>3
    <3> QED BY <3>7, <3>8
  <2> QED BY <2>1, <2>2
<1> QED BY <1>4, <1>5 DEF Addresses

(* The same slide has the same address.                                     *)
LEMMA AddressSame ==
  ASSUME NEW p, IsPresentation(p), NEW q, Alike(p, q), NEW e, Sound(p, e), NEW g, Sound(p, g),
         g.cur = e.cur, NEW url, Addresses(p, e, url)
  PROVE  Addresses(q, g, url)
<1>1. Placed(p, e.h, e.v) /\ Placed(p, g.h, g.v) /\ SlideAt(p, g.h, g.v) = SlideAt(p, e.h, e.v)
  BY DEF Sound
<1>2. g.h = e.h /\ g.v = e.v
  BY <1>1, SlideAtInjective
<1>3. UrlOf(q, g) = UrlOf(p, e)
  BY <1>2 DEF UrlOf, Alike
<1> QED BY <1>2, <1>3 DEF Addresses, Alike, IsName, HashH

(* readURL() does nothing only where the address says we are.               *)
LEMMA AddressStays ==
  ASSUME NEW p, NEW e, NEW url, e.cur # None,
         \A h, v : ReadURL(p, e, url) # Slide(p, e, h, v, Undef)
  PROVE  ReadURL(p, e, url) = e /\ Addresses(p, e, url)
<1>1. ~IsName(p, url)
  BY DEF ReadURL, IsName
<1>2. HashH(p, url) = e.h /\ url.v = e.v /\ ReadURL(p, e, url) = e
  BY <1>1 DEF ReadURL, IsName, HashH
<1> QED BY <1>1, <1>2 DEF Addresses
=============================================================================
