--------------------------- MODULE MultiplexProofs ---------------------------
(***************************************************************************)
(* Proofs about pages that follow each other: for every presentation, any  *)
(* number of pages and any traffic between them.  A page that is told      *)
(* where to be depends on little of what it was: a place says everything   *)
(* about the slide it names, a single step of the fragments only what      *)
(* changes.  The invariant says of what is on its way where it leads.      *)
(***************************************************************************)
EXTENDS Multiplex, SlidesProofs, SequenceTheorems

-----------------------------------------------------------------------------
(* What a deck that rests looks like.                                       *)

(* The numbers sync() gives to the fragments, which nothing changes later.  *)
Numbers(p) == SortAllFragments(p, FreshDeck(p)).attr

Idle(p, e) == Sound(p, e) /\ e.events = <<>> /\ e.attr = Numbers(p)

(* The slides before the current one show all, the slides after it nothing: *)
(* where we are and what is visible there says it all.                      *)
LEMMA Determined ==
  ASSUME NEW p, IsPresentation(p), NEW e, Sound(p, e), NEW g, Sound(p, g),
         g.attr = e.attr, g.cur = e.cur, g.vis[e.cur] = e.vis[e.cur]
  PROVE  Same(e, g)
<1>1. e.cur \in Leaves(p)
  BY SoundPlace
<1>2. ASSUME NEW l \in Leaves(p) PROVE e.vis[l] = g.vis[l]
  <2>1. CASE l = e.cur
    BY <2>1
  <2>2. CASE Precedes(l, e.cur)
    BY <2>2 DEF Sound
  <2>3. CASE Precedes(e.cur, l)
    BY <2>3 DEF Sound
  <2> QED BY <1>1, <2>1, <2>2, <2>3, Precedence
<1>3. e.vis \in [Leaves(p) -> SUBSET Nat] /\ g.vis \in [Leaves(p) -> SUBSET Nat]
  BY DEF Sound, Base, Fragmented
<1>4. e.vis = g.vis
  BY <1>2, <1>3
<1> QED BY <1>4 DEF Same

LEMMA SameEquivalence ==
  ASSUME NEW e, NEW g, NEW k
  PROVE  Same(e, e) /\ (Same(e, g) => Same(g, e)) /\ (Same(e, g) /\ Same(g, k) => Same(e, k))
BY DEF Same

-----------------------------------------------------------------------------
(* Every arrow is one thing: nothing, a step of fragments, or a slide, done *)
(* to a deck s where the attempts before it changed nothing.                *)
Still(p, e, s) == Sound(p, s) /\ StillHere(p, e, s) /\ s.events = <<>>

Stepped(p, e, g) == \E by \in {-1, 1} : g = StepFragment(p, e, by) /\ FragmentMoved(e, g)
Slid(p, e, g) == \E h \in Int, v \in Int : g = Slide(p, e, h, v, Undef)

Moved(p, e, g) == \E s : Still(p, e, s) /\ (g = s \/ Stepped(p, s, g) \/ Slid(p, s, g))

LEMMA StillSelf ==
  ASSUME NEW p, IsPresentation(p), NEW e, Sound(p, e), e.events = <<>>
  PROVE  Still(p, e, e)
BY SoundPlace DEF Still, StillHere, FragmentStep, SamePlace

LEMMA StillMoved ==
  ASSUME NEW p, NEW e, NEW s, Still(p, e, s), NEW g, Moved(p, s, g)
  PROVE  Moved(p, e, g)
<1>1. PICK t : Still(p, s, t) /\ (g = t \/ Stepped(p, t, g) \/ Slid(p, t, g))
  BY DEF Moved
<1>2. Still(p, e, t)
  BY <1>1, StillThere DEF Still
<1> QED BY <1>1, <1>2 DEF Moved

LEMMA StepTried ==
  ASSUME NEW p, IsPresentation(p), NEW e, Sound(p, e), e.events = <<>>, NEW by \in {-1, 1},
         NEW g, g = StepFragment(p, e, by) \/ g = Try(p, e, by)
  PROVE  /\ FragmentMoved(e, g) => Stepped(p, e, g)
         /\ ~FragmentMoved(e, g) => Still(p, e, g)
<1>1. Still(p, e, e) /\ ~FragmentMoved(e, e)
  BY StillSelf DEF FragmentMoved
<1>2. g = StepFragment(p, e, by) \/ g = e
  BY DEF Try
<1>3. CASE g = e
  BY <1>1, <1>3
<1>4. CASE g = StepFragment(p, e, by)
  <2>1. FragmentMoved(e, g) => Stepped(p, e, g)
    BY <1>4 DEF Stepped
  <2>2. ASSUME ~FragmentMoved(e, g) PROVE Still(p, e, g)
    <3>1. FragmentStep(p, e, g) /\ StillHere(p, e, g)
      BY <1>4, <2>2, TryStep, Unmoved
    <3>2. Sound(p, g)
      BY <3>1, StepSound
    <3>3. e.events \in Seq(Signals)
      OBVIOUS
    <3>4. g.events = FragmentEvents(e.events, e.vis[e.cur], g.vis[e.cur])
      BY <1>4, <3>3, SoundPlace, FragmentsSay
    <3>5. g.events = <<>>
      BY <3>1, <3>3, <3>4, NoFragmentEvents DEF StillHere
    <3> QED BY <3>1, <3>2, <3>5 DEF Still
  <2> QED BY <2>1, <2>2
<1> QED BY <1>2, <1>3, <1>4

LEMMA ArrowMoves ==
  ASSUME NEW p, IsPresentation(p), NEW e, Sound(p, e), e.events = <<>>, NEW by \in {-1, 1},
         NEW g, g = Try(p, e, by), NEW open, NEW h \in Int, NEW v \in Int, NEW k,
         k = IF ~FragmentMoved(e, g) /\ open THEN Slide(p, g, h, v, Undef) ELSE g
  PROVE  Moved(p, e, k)
<1>1. Still(p, e, e)
  BY StillSelf
<1>2. CASE FragmentMoved(e, g)
  <2>1. Stepped(p, e, g)
    BY <1>2, StepTried
  <2> QED BY <1>1, <1>2, <2>1 DEF Moved
<1>3. CASE ~FragmentMoved(e, g)
  <2>1. Still(p, e, g)
    BY <1>3, StepTried
  <2>2. k = g \/ Slid(p, g, k)
    BY DEF Slid
  <2> QED BY <2>1, <2>2 DEF Moved
<1> QED BY <1>2, <1>3

LEMMA ArrowsMove ==
  ASSUME NEW p, IsPresentation(p), NEW e, Sound(p, e), e.events = <<>>
  PROVE  /\ Moved(p, e, NavigateLeft(p, e)) /\ Moved(p, e, NavigateRight(p, e))
         /\ Moved(p, e, NavigateUp(p, e)) /\ Moved(p, e, NavigateDown(p, e))
<1>1. e.h \in Int /\ e.v \in Int /\ Undef \in Int
  BY SoundPlace DEF Undef
<1>2. ASSUME NEW by \in {-1, 1} PROVE e.h + by \in Int /\ e.v + by \in Int
  BY <1>1
<1>3. Moved(p, e, NavigateLeft(p, e))
  <2> DEFINE by == IF p.rtl THEN 1 ELSE -1
             h == e.h + by
             g == Try(p, e, by)
             open == AvailableRoutes(p, e).left
  <2>1. NavigateLeft(p, e) = IF ~FragmentMoved(e, g) /\ open THEN Slide(p, g, h, Undef, Undef) ELSE g
    BY DEF NavigateLeft
  <2>2. by \in {-1, 1} /\ h \in Int
    BY <1>2
  <2> HIDE DEF by, h, g, open
  <2>3. g = Try(p, e, by)
    BY DEF g
  <2> QED BY <1>1, <2>1, <2>2, <2>3, ArrowMoves
<1>4. Moved(p, e, NavigateRight(p, e))
  <2> DEFINE by == IF p.rtl THEN -1 ELSE 1
             h == e.h + by
             g == Try(p, e, by)
             open == AvailableRoutes(p, e).right
  <2>1. NavigateRight(p, e) = IF ~FragmentMoved(e, g) /\ open THEN Slide(p, g, h, Undef, Undef) ELSE g
    BY DEF NavigateRight
  <2>2. by \in {-1, 1} /\ h \in Int
    BY <1>2
  <2> HIDE DEF by, h, g, open
  <2>3. g = Try(p, e, by)
    BY DEF g
  <2> QED BY <1>1, <2>1, <2>2, <2>3, ArrowMoves
<1>5. Moved(p, e, NavigateUp(p, e))
  <2> DEFINE v == e.v - 1
             g == Try(p, e, -1)
             open == AvailableRoutes(p, e).up
  <2>1. NavigateUp(p, e) = IF ~FragmentMoved(e, g) /\ open THEN Slide(p, g, e.h, v, Undef) ELSE g
    BY DEF NavigateUp
  <2>2. v \in Int /\ -1 \in {-1, 1}
    BY <1>1
  <2> HIDE DEF v, g, open
  <2>3. g = Try(p, e, -1)
    BY DEF g
  <2> QED BY <1>1, <2>1, <2>2, <2>3, ArrowMoves
<1>6. Moved(p, e, NavigateDown(p, e))
  <2> DEFINE v == e.v + 1
             g == Try(p, e, 1)
             open == AvailableRoutes(p, e).down
  <2>1. NavigateDown(p, e) = IF ~FragmentMoved(e, g) /\ open THEN Slide(p, g, e.h, v, Undef) ELSE g
    BY DEF NavigateDown
  <2>2. v \in Int /\ 1 \in {-1, 1}
    BY <1>1
  <2> HIDE DEF v, g, open
  <2>3. g = Try(p, e, 1)
    BY DEF g
  <2> QED BY <1>1, <2>1, <2>2, <2>3, ArrowMoves
<1> QED BY <1>3, <1>4, <1>5, <1>6

LEMMA PressMoves ==
  ASSUME NEW p, IsPresentation(p), NEW e, Sound(p, e), e.events = <<>>, NEW dir \in Arrows
  PROVE  Moved(p, e, Press(p, e, dir))
<1>1. ASSUME NEW by \in {-1, 1}, NEW g, g = StepFragment(p, e, by)
      PROVE  /\ FragmentMoved(e, g) => Moved(p, e, g)
             /\ ~FragmentMoved(e, g) => Still(p, e, g) /\ Moved(p, e, g)
  <2>1. Still(p, e, e)
    BY StillSelf
  <2>2. FragmentMoved(e, g) => Stepped(p, e, g)
    BY <1>1, StepTried
  <2>3. ~FragmentMoved(e, g) => Still(p, e, g)
    BY <1>1, StepTried
  <2> QED BY <2>1, <2>2, <2>3 DEF Moved
<1>2. ASSUME NEW g, Still(p, e, g)
      PROVE  /\ Moved(p, e, NavigateUp(p, g)) /\ Moved(p, e, NavigateDown(p, g))
             /\ Moved(p, e, NavigateRight(p, g))
  <2>1. Sound(p, g) /\ g.events = <<>>
    BY <1>2 DEF Still
  <2>2. /\ Moved(p, g, NavigateUp(p, g)) /\ Moved(p, g, NavigateDown(p, g))
        /\ Moved(p, g, NavigateRight(p, g))
    BY <2>1, ArrowsMove
  <2> QED BY <1>2, <2>2, StillMoved
<1>3. Moved(p, e, NavigateNext(p, e))
  <2> DEFINE g == StepFragment(p, e, 1)
  <2>1. /\ FragmentMoved(e, g) => Moved(p, e, g)
        /\ ~FragmentMoved(e, g) => Still(p, e, g)
    BY <1>1
  <2>2. NavigateNext(p, e) = IF FragmentMoved(e, g) THEN g
                             ELSE IF AvailableRoutes(p, e).down THEN NavigateDown(p, g)
                             ELSE NavigateRight(p, g)
    BY DEF NavigateNext
  <2> HIDE DEF g
  <2> QED BY <1>2, <2>1, <2>2
<1>4. Moved(p, e, NavigatePrev(p, e))
  <2> DEFINE g == StepFragment(p, e, -1)
             last == p.verticals[e.h - 1] - 1
             back == e.h > 0 /\ e.cls[<<e.h - 1, Whole>>] = "past"
             v == IF last = 0 THEN Undef ELSE last
             h == e.h - 1
  <2>1. /\ FragmentMoved(e, g) => Moved(p, e, g)
        /\ ~FragmentMoved(e, g) => Still(p, e, g) /\ Moved(p, e, g)
    BY <1>1
  <2>2. NavigatePrev(p, e) = IF FragmentMoved(e, g) THEN g
                             ELSE IF AvailableRoutes(p, e).up THEN NavigateUp(p, g)
                             ELSE IF back THEN Slide(p, g, h, v, Undef) ELSE g
    BY DEF NavigatePrev
  <2>3. back => h \in Int /\ v \in Int
    <3>1. e.h \in 0 .. p.n - 1 /\ p.n \in Nat
      BY SoundPlace, PresentationTypes
    <3>2. ASSUME e.h > 0 PROVE e.h - 1 \in 0 .. p.n - 1
      BY <3>1, <3>2
    <3>3. ASSUME e.h > 0 PROVE p.verticals[e.h - 1] \in Nat
      BY <3>2, <3>3, PresentationTypes
    <3> QED BY <3>1, <3>3 DEF Undef
  <2> HIDE DEF g, back, v, h
  <2>4. ASSUME ~FragmentMoved(e, g), back PROVE Moved(p, e, Slide(p, g, h, v, Undef))
    <3>1. Slid(p, g, Slide(p, g, h, v, Undef))
      BY <2>3, <2>4 DEF Slid
    <3> QED BY <2>1, <2>4, <3>1 DEF Moved
  <2> QED BY <1>2, <2>1, <2>2, <2>4
<1>5. /\ Press(p, e, "left") = NavigateLeft(p, e) /\ Press(p, e, "right") = NavigateRight(p, e)
      /\ Press(p, e, "down") = NavigateDown(p, e) /\ Press(p, e, "prev") = NavigatePrev(p, e)
      /\ Press(p, e, "next") = NavigateNext(p, e)
  BY DEF Press
<1>6. dir = "left" \/ dir = "right" \/ dir = "down" \/ dir = "prev" \/ dir = "next"
  BY DEF Arrows
<1> QED BY <1>3, <1>4, <1>5, <1>6, ArrowsMove

-----------------------------------------------------------------------------
(* Two decks that show the same do the same when they are told the same.    *)

(* m takes every idle deck that shows what s shows to what t shows.         *)
Leads(p, s, m, t) == \A e : Idle(p, e) /\ Same(e, s) => Same(Follow(p, e, m), t)

LEMMA StepAlike ==
  ASSUME NEW p, IsPresentation(p), NEW e, Sound(p, e), NEW g, Sound(p, g),
         g.attr = e.attr, Same(e, g), NEW by \in {-1, 1}
  PROVE  Same(StepFragment(p, e, by), StepFragment(p, g, by))
<1> DEFINE k == StepFragment(p, e, by)
           j == StepFragment(p, g, by)
<1>1. FragmentStep(p, e, k) /\ FragmentStep(p, g, j)
  BY TryStep
<1>2. /\ HasFields(e) /\ Fragmented(p, e) /\ e.cur \in Leaves(p) /\ e.cur # None
      /\ HasFields(g) /\ Fragmented(p, g) /\ g.cur = e.cur /\ g.vis = e.vis
  BY SoundPlace DEF Same
<1>3. HasFragments(p, g) <=> HasFragments(p, e)
  BY <1>2 DEF HasFragments
<1>4. /\ Sound(p, k) /\ k.cur = e.cur /\ k.attr = e.attr
      /\ Sound(p, j) /\ j.cur = e.cur /\ j.attr = e.attr
  BY <1>1, <1>2, StepSound DEF FragmentStep
<1>5. CASE HasFragments(p, e)
  <2>1. Staged(e.attr[e.cur], e.vis[e.cur])
    BY <1>2 DEF Fragmented
  <2>2. PICK m \in Nat : /\ Range(e.attr[e.cur]) = 0 .. m - 1
                         /\ \E w \in 0 .. m : e.vis[e.cur] = UpTo(e.attr[e.cur], w)
    BY <2>1 DEF Staged
  <2>3. PICK w \in 0 .. m : e.vis[e.cur] = UpTo(e.attr[e.cur], w)
    BY <2>2
  <2>4. k.vis[e.cur] = UpTo(e.attr[e.cur], w + by)
    BY <1>2, <1>5, <2>2, <2>3, StepStage
  <2>5. j.vis[g.cur] = UpTo(g.attr[g.cur], w + by)
    <3>1. /\ HasFragments(p, g) /\ g.cur \in Leaves(p)
          /\ Range(g.attr[g.cur]) = 0 .. m - 1 /\ g.vis[g.cur] = UpTo(g.attr[g.cur], w)
      BY <1>2, <1>3, <1>5, <2>2, <2>3
    <3> QED BY <1>2, <3>1, StepStage
  <2> HIDE DEF k, j
  <2>6. k.vis[k.cur] = j.vis[k.cur] /\ j.cur = k.cur /\ j.attr = k.attr
    BY <1>2, <1>4, <2>4, <2>5
  <2>7. Same(k, j)
    BY <1>4, <2>6, Determined
  <2> QED BY <2>7 DEF k, j
<1>6. CASE ~HasFragments(p, e)
  <2>1. k = e /\ j = g
    BY <1>3, <1>6 DEF StepFragment
  <2> QED BY <2>1
<1> QED BY <1>5, <1>6

(* A slide that is named, without a fragment.                               *)
LEMMA SlideThere ==
  ASSUME NEW p, IsPresentation(p), NEW e, Sound(p, e), NEW x, NEW y, Placed(p, x, y), NEW f \in Int
  PROVE  LET g == Slide(p, e, x, y, f)
         IN /\ Sound(p, g) /\ g.cur = SlideAt(p, x, y) /\ g.h = x /\ g.v = y /\ g.attr = e.attr
            /\ f = Undef => g.vis[g.cur] = e.vis[g.cur]
<1>1. x \in Int /\ y \in Int /\ y # Undef
  BY DEF Placed, Undef
<1>2. Base(p, e)
  BY SoundPlace
<1>3. GoalH(p, x) = x /\ GoalV(p, e, x, y) = y
  BY <1>1, LandsHere DEF GoalH, GoalV, Goal
<1> DEFINE g == Slide(p, e, x, y, f)
<1>4. /\ Arrived(p, e, g, GoalH(p, x), GoalV(p, e, x, y))
      /\ f = Undef => g.vis[g.cur] = e.vis[g.cur]
  BY <1>1, <1>2, SlideArrives
<1> HIDE DEF g
<1>5. /\ Sound(p, g) /\ g.cur = SlideAt(p, x, y) /\ g.h = x /\ g.v = y /\ g.attr = e.attr
      /\ f = Undef => g.vis[g.cur] = e.vis[g.cur]
  BY <1>3, <1>4 DEF Arrived
<1> QED BY <1>5 DEF g

LEMMA StepLeads ==
  ASSUME NEW p, IsPresentation(p), NEW s, Sound(p, s), s.attr = Numbers(p), NEW by \in {-1, 1}
  PROVE  Leads(p, s, Step(by), StepFragment(p, s, by))
<1>1. SUFFICES ASSUME NEW e, Idle(p, e), Same(e, s)
               PROVE  Same(Follow(p, e, Step(by)), StepFragment(p, s, by))
  BY DEF Leads
<1>2. Step(by).by = by /\ by # 0
  BY DEF Step
<1>3. Follow(p, e, Step(by)) = StepFragment(p, e, by)
  BY <1>2 DEF Follow
<1>4. Sound(p, e) /\ s.attr = e.attr
  BY <1>1 DEF Idle
<1> QED BY <1>1, <1>3, <1>4, StepAlike

LEMMA PlaceIs ==
  ASSUME NEW e, NEW f
  PROVE  Place(e, f).by = 0 /\ Place(e, f).h = e.h /\ Place(e, f).v = e.v /\ Place(e, f).f = f
BY DEF Place

LEMMA SlideLeads ==
  ASSUME NEW p, IsPresentation(p), NEW s, Sound(p, s), s.attr = Numbers(p),
         NEW g, Sound(p, g), g.attr = s.attr, g.vis[g.cur] = s.vis[g.cur]
  PROVE  Leads(p, s, Place(g, Undef), g)
<1>1. SUFFICES ASSUME NEW e, Idle(p, e), Same(e, s)
               PROVE  Same(Follow(p, e, Place(g, Undef)), g)
  BY DEF Leads
<1> DEFINE k == Slide(p, e, g.h, g.v, Undef)
<1>2. Follow(p, e, Place(g, Undef)) = k
  BY PlaceIs DEF Follow
<1>3. Placed(p, g.h, g.v) /\ g.cur = SlideAt(p, g.h, g.v)
  BY SoundPlace DEF Sound
<1>4. Sound(p, e) /\ e.attr = s.attr /\ e.vis = s.vis
  BY <1>1 DEF Idle, Same
<1>5. /\ Sound(p, k) /\ k.cur = SlideAt(p, g.h, g.v) /\ k.attr = e.attr
      /\ k.vis[k.cur] = e.vis[k.cur]
  <2>1. Undef \in Int
    BY DEF Undef
  <2> QED BY <1>3, <1>4, <2>1, SlideThere
<1> HIDE DEF k
<1>6. Same(k, g)
  BY <1>3, <1>4, <1>5, Determined
<1> QED BY <1>2, <1>6

-----------------------------------------------------------------------------
(* What the plugins hear: the events of a deck but the change of its URL.   *)
LEMMA Silent ==
  ASSUME NEW e, e.events \in Seq(Signals), Heard(e) = {}, NEW i \in DOMAIN e.events
  PROVE  e.events[i] = "url"
BY DEF Heard

LEMMA OneMore ==
  ASSUME NEW S, NEW s \in Seq(S), NEW w \in S
  PROVE  /\ <<>> \in Seq(S) /\ <<w>> \in Seq(S) /\ <<w>>[1] = w /\ DOMAIN <<w>> = {1}
         /\ <<>> \o s = s /\ s \o <<>> = s /\ s \o <<w>> \in Seq(S)
         /\ DOMAIN (s \o <<w>>) = 1 .. Len(s) + 1 /\ (s \o <<w>>)[Len(s) + 1] = w
         /\ \A i \in DOMAIN s : i \in DOMAIN (s \o <<w>>) /\ (s \o <<w>>)[i] = s[i]
<1>1. <<w>> \in Seq(S)
  OBVIOUS
<1>2. <<w>>[1] = w /\ Len(<<w>>) = 1 /\ DOMAIN <<w>> = {1}
  OBVIOUS
<1>3. /\ s \o <<w>> \in Seq(S) /\ Len(s \o <<w>>) = Len(s) + 1
      /\ \A i \in 1 .. Len(s) + 1 : (s \o <<w>>)[i] = IF i <= Len(s) THEN s[i] ELSE <<w>>[i - Len(s)]
  BY <1>1, <1>2, ConcatProperties
<1>4. Len(s) \in Nat /\ DOMAIN s = 1 .. Len(s) /\ DOMAIN (s \o <<w>>) = 1 .. Len(s) + 1
  BY <1>3, LenProperties
<1> QED BY <1>1, <1>2, <1>3, <1>4, ConcatEmptySeq

LEMMA SignalWords ==
  /\ "fragmenthidden" \in Signals /\ "fragmentshown" \in Signals
  /\ "slidechanged" \in Signals /\ "url" \in Signals
BY DEF Signals

LEMMA AndShown ==
  ASSUME NEW hidden \in Seq(Signals)
  PROVE  /\ hidden \o <<"fragmentshown">> \in Seq(Signals)
         /\ DOMAIN (hidden \o <<"fragmentshown">>) = 1 .. Len(hidden) + 1
         /\ \A i \in DOMAIN hidden : (hidden \o <<"fragmentshown">>)[i] = hidden[i]
<1>1. "fragmentshown" \in Signals
  BY SignalWords
<1> QED BY <1>1, OneMore

LEMMA FragmentWords ==
  ASSUME NEW V, NEW W, NEW s, s = FragmentEvents(<<>>, V, W)
  PROVE  /\ s \in Seq(Signals)
         /\ V = W => s = <<>>
         /\ V # W => 1 \in DOMAIN s /\ s[1] \in {"fragmenthidden", "fragmentshown"}
         /\ V \subseteq W /\ V # W => s = <<"fragmentshown">>
         /\ W \subseteq V /\ V # W => s = <<"fragmenthidden">>
<1> DEFINE hidden == IF V \ W # {} THEN <<"fragmenthidden">> ELSE <<>>
           shown == IF W \ V # {} THEN <<"fragmentshown">> ELSE <<>>
<1>1. s = <<>> \o hidden \o shown
  BY DEF FragmentEvents
<1>2. /\ V \subseteq W => hidden = <<>>
      /\ ~(V \subseteq W) => hidden = <<"fragmenthidden">>
      /\ W \subseteq V => shown = <<>>
      /\ ~(W \subseteq V) => shown = <<"fragmentshown">>
  OBVIOUS
<1> HIDE DEF hidden, shown
<1>3. hidden \in Seq(Signals) /\ <<>> \o hidden = hidden /\ hidden \o <<>> = hidden
  <2>1. hidden = <<>> \/ hidden = <<"fragmenthidden">>
    BY <1>2
  <2>2. hidden \in Seq(Signals)
    <3>1. <<>> \in Seq(Signals)
      OBVIOUS
    <3>2. <<"fragmenthidden">> \in Seq(Signals)
      BY <3>1, SignalWords, OneMore
    <3> QED BY <2>1, <3>1, <3>2
  <2> QED BY <2>2, SignalWords, OneMore
<1>4. s = hidden \o shown
  BY <1>1, <1>3
<1>5. CASE W \subseteq V
  <2>1. s = hidden
    BY <1>2, <1>3, <1>4, <1>5
  <2>2. V # W => hidden = <<"fragmenthidden">> /\ ~(V \subseteq W)
    BY <1>2, <1>5
  <2>3. V = W => hidden = <<>>
    BY <1>2
  <2>4. 1 \in DOMAIN <<"fragmenthidden">> /\ <<"fragmenthidden">>[1] = "fragmenthidden"
    OBVIOUS
  <2> QED BY <1>3, <2>1, <2>2, <2>3, <2>4
<1>6. CASE ~(W \subseteq V)
  <2>1. s = hidden \o <<"fragmentshown">> /\ V # W
    BY <1>2, <1>4, <1>6
  <2>2. /\ s \in Seq(Signals) /\ DOMAIN s = 1 .. Len(hidden) + 1
        /\ \A i \in DOMAIN hidden : s[i] = hidden[i]
    <3>1. hidden \in Seq(Signals)
      BY <1>3
    <3> QED BY <2>1, <3>1, AndShown
  <2>3. 1 \in DOMAIN s
    BY <1>3, <2>2, LenProperties
  <2>4. CASE V \subseteq W
    <3>1. hidden = <<>>
      BY <1>2, <2>4
    <3>2. <<>> \o <<"fragmentshown">> = <<"fragmentshown">>
      <4>1. <<>> \in Seq(Signals)
        OBVIOUS
      <4>2. <<"fragmentshown">> \in Seq(Signals)
        BY <4>1, SignalWords, OneMore
      <4> QED BY <4>2, SignalWords, OneMore
    <3>3. s = <<"fragmentshown">>
      BY <2>1, <3>1, <3>2
    <3>4. <<"fragmentshown">>[1] = "fragmentshown"
      OBVIOUS
    <3> QED BY <1>6, <2>1, <2>2, <2>3, <2>4, <3>3, <3>4
  <2>5. CASE ~(V \subseteq W)
    <3>1. hidden = <<"fragmenthidden">>
      BY <1>2, <2>5
    <3>2. 1 \in DOMAIN hidden /\ hidden[1] = "fragmenthidden"
      BY <3>1
    <3>3. s[1] = "fragmenthidden"
      BY <2>2, <3>2
    <3> QED BY <1>6, <2>1, <2>2, <2>3, <2>5, <3>3
  <2> QED BY <2>4, <2>5
<1> QED BY <1>5, <1>6

(* The only thing heard is w.                                               *)
HeardOnly(e, w) == Heard(e) = {1} /\ e.events[1] = w

LEMMA LeaveEvents ==
  ASSUME NEW e, HasFields(e), NEW from, NEW changed \in BOOLEAN
  PROVE  /\ Leave(from, e, changed).events =
              e.events \o (IF changed THEN <<"slidechanged">> ELSE <<>>) \o <<"url">>
         /\ Leave(from, e, changed).cur = e.cur /\ Leave(from, e, changed).vis = e.vis
BY DEF Leave, HasFields, Fields

(* After the events s of fragments, the slide's own and the URL.            *)
LEMMA LeaveSays ==
  ASSUME NEW s \in Seq(Signals), NEW changed \in BOOLEAN, NEW g,
         g.events = s \o (IF changed THEN <<"slidechanged">> ELSE <<>>) \o <<"url">>
  PROVE  /\ g.events \in Seq(Signals)
         /\ 1 \in DOMAIN s /\ s[1] # "url" => Heard(g) # {}
         /\ changed => Heard(g) # {}
         /\ s = <<>> => IF changed THEN HeardOnly(g, "slidechanged") ELSE Heard(g) = {}
<1> DEFINE slide == IF changed THEN <<"slidechanged">> ELSE <<>>
           t == s \o slide
<1>1. t \in Seq(Signals) /\ \A i \in DOMAIN s : i \in DOMAIN t /\ t[i] = s[i]
  <2>1. CASE changed
    <3>1. t = s \o <<"slidechanged">>
      BY <2>1
    <3> QED BY <3>1, SignalWords, OneMore
  <2>2. CASE ~changed
    <3>1. t = s \o <<>>
      BY <2>2
    <3>2. t = s
      BY <3>1, SignalWords, OneMore
    <3> QED BY <3>2
  <2> QED BY <2>1, <2>2
<1>2. changed => Len(s) + 1 \in DOMAIN t /\ t[Len(s) + 1] = "slidechanged"
  <2>1. SUFFICES ASSUME changed
                 PROVE  Len(s) + 1 \in DOMAIN t /\ t[Len(s) + 1] = "slidechanged"
    OBVIOUS
  <2>2. t = s \o <<"slidechanged">>
    BY <2>1
  <2>3. Len(s) + 1 \in 1 .. Len(s) + 1
    OBVIOUS
  <2> QED BY <2>2, <2>3, SignalWords, OneMore
<1>3. s = <<>> => t = IF changed THEN <<"slidechanged">> ELSE <<>>
  <2>1. SUFFICES ASSUME s = <<>> PROVE t = slide
    OBVIOUS
  <2>2. slide \in Seq(Signals)
    <3>1. <<>> \in Seq(Signals)
      OBVIOUS
    <3>2. <<"slidechanged">> \in Seq(Signals)
      BY <3>1, SignalWords, OneMore
    <3> QED BY <3>1, <3>2
  <2> HIDE DEF slide
  <2> QED BY <2>1, <2>2, SignalWords, OneMore
<1>4. g.events = t \o <<"url">>
  OBVIOUS
<1> HIDE DEF t
<1>5. /\ g.events \in Seq(Signals) /\ DOMAIN g.events = 1 .. Len(t) + 1
      /\ g.events[Len(t) + 1] = "url"
      /\ \A i \in DOMAIN t : i \in DOMAIN g.events /\ g.events[i] = t[i]
  <2> DEFINE u == t \o <<"url">>
  <2>1. /\ u \in Seq(Signals) /\ DOMAIN u = 1 .. Len(t) + 1 /\ u[Len(t) + 1] = "url"
        /\ \A i \in DOMAIN t : i \in DOMAIN u /\ u[i] = t[i]
    BY <1>1, SignalWords, OneMore
  <2>2. g.events = u
    BY <1>4
  <2> HIDE DEF u
  <2> QED BY <2>1, <2>2
<1>6. 1 \in DOMAIN s /\ s[1] # "url" => Heard(g) # {}
  BY <1>1, <1>5 DEF Heard
<1>7. changed => Heard(g) # {}
  BY <1>2, <1>5 DEF Heard
<1>8. ASSUME s = <<>>
      PROVE  IF changed THEN HeardOnly(g, "slidechanged") ELSE Heard(g) = {}
  <2>1. CASE changed
    <3>1. Len(t) = 1 /\ DOMAIN t = {1} /\ t[1] = "slidechanged"
      <4>1. t = <<"slidechanged">>
        BY <1>3, <1>8, <2>1
      <4> QED BY <4>1
    <3>2. DOMAIN g.events = 1 .. 2 /\ g.events[1] = "slidechanged" /\ g.events[2] = "url"
      BY <1>5, <3>1
    <3> QED BY <2>1, <3>2 DEF Heard, HeardOnly
  <2>2. CASE ~changed
    <3>1. Len(t) = 0
      BY <1>3, <1>8, <2>2
    <3>2. DOMAIN g.events = 1 .. 1 /\ g.events[1] = "url"
      BY <1>5, <3>1
    <3> QED BY <2>2, <3>2 DEF Heard
  <2> QED BY <2>1, <2>2
<1> QED BY <1>5, <1>6, <1>7, <1>8

(* The events of slide(): none that is heard when nothing changed.          *)
LEMMA SlideSays ==
  ASSUME NEW p, IsPresentation(p), NEW e, Sound(p, e), e.events = <<>>,
         NEW h \in Int, NEW v \in Int, NEW f \in Int, NEW g, g = Slide(p, e, h, v, f)
  PROVE  /\ g.events \in Seq(Signals)
         /\ Heard(g) = {} => Same(e, g)
         /\ f = Undef => Heard(g) = {} \/ HeardOnly(g, "slidechanged")
<1> DEFINE x == GoalH(p, h)
           y == GoalV(p, e, h, v)
           changed == x # e.h \/ y # e.v
<1>1. Base(p, e) /\ e.events \in Seq(Signals)
  BY SoundPlace
<1>2. PICK t : TurnsInto(p, e, h, v, f, t)
  BY <1>1, SlideTurns
<1>3. Arrived(p, e, g, x, y)
  BY <1>1, SlideArrives
<1>4. e.cur = SlideAt(p, e.h, e.v) /\ changed \in BOOLEAN
  BY DEF Sound
<1>5. ~changed => x = e.h /\ y = e.v
  OBVIOUS
<1> DEFINE V == e.vis[t.cur]
           W == t.vis[t.cur]
<1>6. t.events = FragmentEvents(<<>>, V, W) /\ t.cur = SlideAt(p, x, y) /\ (f = Undef => V = W)
  BY <1>1, <1>2 DEF TurnsInto, Turned
<1>6a. HasFields(t)
  BY <1>2 DEF TurnsInto, Turned
<1>6b. g = Leave(e.cur, t, changed)
  BY <1>2 DEF TurnsInto
<1> HIDE DEF x, y, changed
<1>7. /\ g.cur = t.cur /\ g.vis = t.vis
      /\ g.events = t.events \o (IF changed THEN <<"slidechanged">> ELSE <<>>) \o <<"url">>
  <2> DEFINE k == Leave(e.cur, t, changed)
  <2>1. k.cur = t.cur /\ k.vis = t.vis
    BY <1>4, <1>6a, LeaveEvents
  <2>2. k.events = t.events \o (IF changed THEN <<"slidechanged">> ELSE <<>>) \o <<"url">>
    BY <1>4, <1>6a, LeaveEvents
  <2> HIDE DEF k
  <2>3. g = k
    BY <1>6b DEF k
  <2> QED BY <2>1, <2>2, <2>3
<1>8. /\ t.events \in Seq(Signals)
      /\ V = W => t.events = <<>>
      /\ V # W => 1 \in DOMAIN t.events /\ t.events[1] \in {"fragmenthidden", "fragmentshown"}
  <2> HIDE DEF V, W
  <2> QED BY <1>6, FragmentWords
<1>9. /\ g.events \in Seq(Signals)
      /\ 1 \in DOMAIN t.events /\ t.events[1] # "url" => Heard(g) # {}
      /\ changed => Heard(g) # {}
      /\ t.events = <<>> => IF changed THEN HeardOnly(g, "slidechanged") ELSE Heard(g) = {}
  BY <1>4, <1>7, <1>8, LeaveSays
<1>10. ASSUME f = Undef PROVE Heard(g) = {} \/ HeardOnly(g, "slidechanged")
  <2>1. V = W
    BY <1>6, <1>10
  <2> QED BY <1>8, <1>9, <2>1
<1>11. ASSUME Heard(g) = {} PROVE Same(e, g)
  <2>1. V = W /\ ~changed
    BY <1>8, <1>9, <1>11
  <2>2. g.cur = e.cur /\ Sound(p, g) /\ g.attr = e.attr
    BY <1>3, <1>4, <1>5, <2>1 DEF Arrived
  <2>3. g.vis[e.cur] = e.vis[e.cur]
    BY <1>7, <2>1, <2>2
  <2> QED BY <2>2, <2>3, Determined
<1> QED BY <1>9, <1>10, <1>11

(* The events of a step.                                                    *)
LEMMA StepSays ==
  ASSUME NEW p, IsPresentation(p), NEW e, Sound(p, e), e.events = <<>>, NEW by \in {-1, 1},
         NEW g, g = StepFragment(p, e, by)
  PROVE  /\ g.events \in Seq(Signals)
         /\ Heard(g) = {} => Same(e, g)
         /\ FragmentMoved(e, g) =>
              HeardOnly(g, IF by = 1 THEN "fragmentshown" ELSE "fragmenthidden")
<1> DEFINE V == e.vis[e.cur]
           W == g.vis[e.cur]
<1>1. HasFields(e) /\ Fragmented(p, e) /\ e.cur \in Leaves(p) /\ e.events \in Seq(Signals)
  BY SoundPlace
<1>2. FragmentStep(p, e, g)
  BY TryStep
<1>3. Sound(p, g) /\ g.cur = e.cur /\ g.attr = e.attr
  BY <1>2, StepSound DEF FragmentStep
<1>4. g.events = FragmentEvents(<<>>, V, W)
  BY <1>1, FragmentsSay
<1>5. /\ g.events \in Seq(Signals)
      /\ V = W => g.events = <<>>
      /\ V # W => 1 \in DOMAIN g.events /\ g.events[1] \in {"fragmenthidden", "fragmentshown"}
      /\ V \subseteq W /\ V # W => g.events = <<"fragmentshown">>
      /\ W \subseteq V /\ V # W => g.events = <<"fragmenthidden">>
  <2> HIDE DEF V, W
  <2> QED BY <1>4, FragmentWords
<1>6. ASSUME Heard(g) = {} PROVE Same(e, g)
  <2>1. V = W
    BY <1>5, <1>6 DEF Heard
  <2> QED BY <1>3, <2>1, Determined
<1>7. ASSUME FragmentMoved(e, g)
      PROVE  V # W /\ (by = 1 => V \subseteq W) /\ (by = -1 => W \subseteq V)
  <2>1. V # W /\ HasFragments(p, e)
    BY <1>1, <1>7, StepEffect
  <2>2. Staged(e.attr[e.cur], V)
    BY <1>1 DEF Fragmented
  <2>3. PICK m \in Nat : Range(e.attr[e.cur]) = 0 .. m - 1 /\ \E w \in 0 .. m : V = UpTo(e.attr[e.cur], w)
    BY <2>2 DEF Staged
  <2>4. PICK w \in 0 .. m : V = UpTo(e.attr[e.cur], w)
    BY <2>3
  <2>5. W = UpTo(e.attr[e.cur], w + by)
    BY <1>1, <2>1, <2>3, <2>4, StepStage
  <2>6. \A i \in DOMAIN e.attr[e.cur] : e.attr[e.cur][i] \in Int
    BY <1>1 DEF Fragmented
  <2> HIDE DEF V, W
  <2>7. by = 1 => V \subseteq W
    BY <2>4, <2>5, <2>6 DEF UpTo
  <2>8. by = -1 => W \subseteq V
    BY <2>4, <2>5, <2>6 DEF UpTo
  <2> QED BY <2>1, <2>7, <2>8
<1> HIDE DEF V, W
<1>8. ASSUME NEW w, g.events = <<w>>, w # "url" PROVE HeardOnly(g, w)
  <2>1. DOMAIN <<w>> = {1} /\ <<w>>[1] = w
    OBVIOUS
  <2> QED BY <1>8, <2>1 DEF Heard, HeardOnly
<1>9. ASSUME FragmentMoved(e, g)
      PROVE  HeardOnly(g, IF by = 1 THEN "fragmentshown" ELSE "fragmenthidden")
  <2>1. CASE by = 1
    <3>1. g.events = <<"fragmentshown">>
      BY <1>5, <1>7, <1>9, <2>1
    <3> QED BY <1>8, <2>1, <3>1
  <2>2. CASE by = -1
    <3>1. g.events = <<"fragmenthidden">>
      BY <1>5, <1>7, <1>9, <2>2
    <3> QED BY <1>8, <2>2, <3>1
  <2> QED BY <2>1, <2>2
<1> QED BY <1>5, <1>6, <1>9

-----------------------------------------------------------------------------
(* What an arrow does, and what a listener that repeats it has to be told.  *)
Told(p, e, g) ==
  \/ Heard(g) = {} /\ Same(e, g)
  \/ HeardOnly(g, "fragmentshown") /\ Leads(p, e, Step(1), g)
  \/ HeardOnly(g, "fragmenthidden") /\ Leads(p, e, Step(-1), g)
  \/ HeardOnly(g, "slidechanged") /\ Leads(p, e, Place(g, Undef), g)

Pressed(p, e, g) ==
  /\ Sound(p, g) /\ g.attr = e.attr /\ g.events \in Seq(Signals)
  /\ Told(p, e, g) /\ (Heard(g) = {} => Same(e, g))

LEMMA NothingHeard ==
  ASSUME NEW e, e.events = <<>>
  PROVE  Heard(e) = {} /\ e.events \in Seq(Signals)
<1>1. Heard(e) = {}
  BY DEF Heard
<1>2. e.events \in Seq(Signals)
  OBVIOUS
<1> QED BY <1>1, <1>2

LEMMA StillSame ==
  ASSUME NEW p, NEW e, NEW s, Still(p, e, s)
  PROVE  Same(e, s) /\ s.attr = e.attr
BY DEF Still, StillHere, FragmentStep, SamePlace, Same

LEMMA SlideBare ==
  ASSUME NEW p, IsPresentation(p), NEW e, Base(p, e), NEW h \in Int, NEW v \in Int
  PROVE  LET g == Slide(p, e, h, v, Undef)
         IN Arrived(p, e, g, GoalH(p, h), GoalV(p, e, h, v)) /\ g.vis[g.cur] = e.vis[g.cur]
<1>1. Undef \in Int
  BY DEF Undef
<1> QED BY <1>1, SlideArrives

LEMMA MovedPressed ==
  ASSUME NEW p, IsPresentation(p), NEW e, Idle(p, e), NEW g, Moved(p, e, g)
  PROVE  Pressed(p, e, g)
<1>1. PICK s : Still(p, e, s) /\ (g = s \/ Stepped(p, s, g) \/ Slid(p, s, g))
  BY DEF Moved
<1>2. Same(e, s) /\ s.attr = e.attr /\ Sound(p, s) /\ s.events = <<>> /\ s.attr = Numbers(p)
  BY <1>1, StillSame DEF Still, Idle
<1>3. ASSUME NEW m, Leads(p, s, m, g) PROVE Leads(p, e, m, g)
  BY <1>2, <1>3, SameEquivalence DEF Leads
<1>4. Same(s, g) => Same(e, g)
  BY <1>2, SameEquivalence
<1>5. CASE g = s
  <2>1. Heard(g) = {} /\ Same(e, g) /\ g.events \in Seq(Signals)
    BY <1>2, <1>5, NothingHeard
  <2> QED BY <1>2, <1>5, <2>1 DEF Pressed, Told
<1>6. CASE Stepped(p, s, g)
  <2>1. PICK by \in {-1, 1} : g = StepFragment(p, s, by) /\ FragmentMoved(s, g)
    BY <1>6 DEF Stepped
  <2>2. /\ g.events \in Seq(Signals) /\ (Heard(g) = {} => Same(s, g))
        /\ HeardOnly(g, IF by = 1 THEN "fragmentshown" ELSE "fragmenthidden")
    BY <1>2, <2>1, StepSays
  <2>3. FragmentStep(p, s, g)
    BY <1>2, <2>1, TryStep
  <2>4. Sound(p, g) /\ g.attr = e.attr
    BY <1>2, <2>3, StepSound DEF FragmentStep
  <2>5. Leads(p, e, Step(by), g)
    BY <1>2, <1>3, <2>1, StepLeads
  <2>6. Told(p, e, g)
    <3>1. CASE by = 1
      BY <2>2, <2>5, <3>1 DEF Told
    <3>2. CASE by = -1
      BY <2>2, <2>5, <3>2 DEF Told
    <3> QED BY <3>1, <3>2
  <2> QED BY <1>4, <2>2, <2>4, <2>6 DEF Pressed
<1>7. CASE Slid(p, s, g)
  <2>1. PICK h \in Int, v \in Int : g = Slide(p, s, h, v, Undef)
    BY <1>7 DEF Slid
  <2>2. Undef \in Int
    BY DEF Undef
  <2>3. /\ g.events \in Seq(Signals)
        /\ Heard(g) = {} => Same(s, g)
        /\ Heard(g) = {} \/ HeardOnly(g, "slidechanged")
    BY <1>2, <2>1, <2>2, SlideSays
  <2>4. Sound(p, g) /\ g.attr = s.attr /\ g.vis[g.cur] = s.vis[g.cur]
    <3> DEFINE k == Slide(p, s, h, v, Undef)
    <3>1. Base(p, s)
      BY <1>2, SoundPlace
    <3>2. Arrived(p, s, k, GoalH(p, h), GoalV(p, s, h, v)) /\ k.vis[k.cur] = s.vis[k.cur]
      BY <2>2, <3>1, SlideBare
    <3> HIDE DEF k
    <3>3. Sound(p, k) /\ k.attr = s.attr /\ k.vis[k.cur] = s.vis[k.cur]
      BY <3>2 DEF Arrived
    <3> QED BY <2>1, <3>3 DEF k
  <2>5. Leads(p, e, Place(g, Undef), g)
    BY <1>2, <1>3, <2>4, SlideLeads
  <2>6. Told(p, e, g)
    BY <1>4, <2>3, <2>5 DEF Told
  <2> QED BY <1>2, <1>4, <2>3, <2>4, <2>6 DEF Pressed
<1> QED BY <1>1, <1>5, <1>6, <1>7

LEMMA PressTold ==
  ASSUME NEW p, IsPresentation(p), NEW e, Idle(p, e), NEW dir \in Arrows
  PROVE  Pressed(p, e, Press(p, e, dir))
<1>1. Moved(p, e, Press(p, e, dir))
  BY PressMoves DEF Idle
<1> QED BY <1>1, MovedPressed

(* The presenter says one thing for the one event it hears.                 *)
Saying(e, w) == CASE w = "fragmentshown"  -> Step(1)
                  [] w = "fragmenthidden" -> Step(-1)
                  [] w = "slidechanged"   -> Place(e, Undef)

LEMMA PresenterSaysOne ==
  ASSUME NEW e, NEW w, HeardOnly(e, w)
  PROVE  PresenterSays(e) = <<Saying(e, w)>>
<1> DEFINE nth(k) == CHOOSE i \in Heard(e) : Cardinality({j \in Heard(e) : j <= i}) = k
<1>1. Heard(e) = {1} /\ Cardinality(Heard(e)) = 1 /\ e.events[1] = w
  BY FS_Singleton DEF HeardOnly
<1>2. nth(1) = 1
  <2>1. {j \in Heard(e) : j <= 1} = {1}
    BY <1>1
  <2>2. Cardinality({j \in Heard(e) : j <= 1}) = 1
    BY <2>1, FS_Singleton
  <2>3. \E i \in Heard(e) : Cardinality({j \in Heard(e) : j <= i}) = 1
    BY <1>1, <2>2
  <2>4. nth(1) \in Heard(e)
    BY <2>3
  <2> HIDE DEF nth
  <2> QED BY <1>1, <2>4
<1>3. PresenterSays(e) = [k \in 1 .. 1 |-> Saying(e, e.events[nth(k)])]
  BY <1>1 DEF PresenterSays, Saying
<1> HIDE DEF nth
<1>4. [k \in 1 .. 1 |-> Saying(e, e.events[nth(k)])] = [k \in 1 .. 1 |-> Saying(e, w)]
  BY <1>1, <1>2
<1>5. [k \in 1 .. 1 |-> Saying(e, w)] = <<Saying(e, w)>>
  OBVIOUS
<1> QED BY <1>3, <1>4, <1>5

LEMMA PresenterSaysNone ==
  ASSUME NEW e, Heard(e) = {}
  PROVE  PresenterSays(e) = <<>>
<1>1. Cardinality(Heard(e)) = 0
  BY FS_EmptySet
<1>2. 1 .. 0 = {}
  OBVIOUS
<1> DEFINE nth(k) == CHOOSE i \in Heard(e) : Cardinality({j \in Heard(e) : j <= i}) = k
<1>3. PresenterSays(e) = [k \in 1 .. 0 |-> Saying(e, e.events[nth(k)])]
  BY <1>1 DEF PresenterSays, Saying
<1> HIDE DEF nth
<1> QED BY <1>2, <1>3

-----------------------------------------------------------------------------
(* The index that is sent counts the fragments that are visible: it says    *)
(* how far to go on a deck that is Ungrouped, where each has a number of    *)
(* its own.                                                                 *)
OneEach(a) == \A i, j \in DOMAIN a : a[i] = a[j] => i = j

LEMMA DistinctRanks ==
  ASSUME NEW S \in SUBSET Int, IsFiniteSet(S), NEW i \in S, NEW k \in S, Rank(S, i) = Rank(S, k)
  PROVE  i = k
<1>1. i \in Int /\ k \in Int /\ (i < k \/ k < i \/ i = k)
  OBVIOUS
<1>2. i < k => Rank(S, i) < Rank(S, k)
  BY RankMonotone
<1>3. k < i => Rank(S, k) < Rank(S, i)
  BY RankMonotone
<1>4. Rank(S, i) \in Int /\ Rank(S, k) \in Int
  BY RankMonotone
<1> QED BY <1>1, <1>2, <1>3, <1>4

LEMMA NumbersDistinct ==
  ASSUME NEW a \in Seq(Nat \cup {Undef}),
         \A i, j \in DOMAIN a : a[i] = a[j] /\ a[i] # Undef => i = j
  PROVE  \A i, j \in DOMAIN a : NumberIn(a, DOMAIN a, i) = NumberIn(a, DOMAIN a, j) => i = j
<1> DEFINE N == DOMAIN a
           O == {a[k] : k \in N} \ {Undef}
           U == {i \in N : a[i] = Undef}
           q == Cardinality(O)
<1>1. IsFiniteSet(N) /\ N \subseteq Int /\ \A i \in N : a[i] \in Nat \cup {Undef}
  <2>1. N = 1 .. Len(a) /\ Len(a) \in Nat
    OBVIOUS
  <2>2. IsFiniteSet(1 .. Len(a))
    BY <2>1, FS_Interval
  <2> QED BY <2>1, <2>2
<1>2. IsFiniteSet(O) /\ O \in SUBSET Int
  <2>1. O \subseteq {a[k] : k \in N} /\ O \subseteq Int
    BY <1>1
  <2>2. IsFiniteSet({a[k] : k \in N})
    <3> DEFINE R == {a[k] : k \in N}
    <3>1. [k \in N |-> a[k]] \in Surjection(N, R)
      BY DEF Surjection
    <3> HIDE DEF R
    <3>2. IsFiniteSet(R)
      BY <1>1, <3>1, FS_Surjection
    <3> QED BY <3>2 DEF R
  <2> QED BY <2>1, <2>2, Fewer
<1>3. IsFiniteSet(U) /\ U \in SUBSET Int
  <2>1. U \subseteq N /\ U \subseteq Int
    BY <1>1
  <2> QED BY <1>1, <2>1, Fewer
<1>4. \A i \in N : NumberIn(a, N, i) = IF a[i] # Undef THEN Rank(O, a[i]) ELSE q + Rank(U, i)
  <2>1. ASSUME NEW i \in N PROVE {j \in N : j < i /\ a[j] = Undef} = {j \in U : j < i}
    OBVIOUS
  <2> QED BY <2>1 DEF NumberIn, Rank
<1>5. /\ \A i \in N : a[i] # Undef => a[i] \in O
      /\ \A i \in N : a[i] = Undef => i \in U
      /\ q \in Nat
  BY <1>2, FS_CardinalityType
<1> HIDE DEF O, U, q
<1>6. \A k \in O : Rank(O, k) \in 0 .. q - 1
  BY <1>2, RankMonotone DEF q
<1>7. \A k \in U : Rank(U, k) \in Nat
  <2>1. Cardinality(U) \in Nat
    BY <1>3, FS_CardinalityType
  <2> QED BY <1>3, <2>1, RankMonotone
<1>8. SUFFICES ASSUME NEW i \in N, NEW j \in N, NumberIn(a, N, i) = NumberIn(a, N, j)
               PROVE  i = j
  OBVIOUS
<1>9. CASE a[i] # Undef /\ a[j] # Undef
  <2>1. Rank(O, a[i]) = Rank(O, a[j]) /\ a[i] \in O /\ a[j] \in O
    BY <1>4, <1>5, <1>8, <1>9
  <2>2. a[i] = a[j]
    <3> DEFINE x == a[i]
               y == a[j]
    <3>1. x \in O /\ y \in O /\ Rank(O, x) = Rank(O, y)
      BY <2>1
    <3> HIDE DEF x, y
    <3>2. x = y
      BY <1>2, <3>1, DistinctRanks
    <3> QED BY <3>2 DEF x, y
  <2> QED BY <1>9, <2>2
<1>10. CASE a[i] = Undef /\ a[j] = Undef
  <2>1. q + Rank(U, i) = q + Rank(U, j) /\ i \in U /\ j \in U
    BY <1>4, <1>5, <1>8, <1>10
  <2>2. Rank(U, i) = Rank(U, j)
    BY <1>5, <1>7, <2>1
  <2> QED BY <1>3, <2>1, <2>2, DistinctRanks
<1>11. CASE a[i] # Undef /\ a[j] = Undef
  <2>1. Rank(O, a[i]) = q + Rank(U, j) /\ a[i] \in O /\ j \in U
    BY <1>4, <1>5, <1>8, <1>11
  <2> QED BY <1>5, <1>6, <1>7, <2>1
<1>12. CASE a[i] = Undef /\ a[j] # Undef
  <2>1. q + Rank(U, i) = Rank(O, a[j]) /\ a[j] \in O /\ i \in U
    BY <1>4, <1>5, <1>8, <1>12
  <2> QED BY <1>5, <1>6, <1>7, <2>1
<1> QED BY <1>9, <1>10, <1>11, <1>12

LEMMA NumbersAre ==
  ASSUME NEW p, IsPresentation(p), NEW l \in Leaves(p)
  PROVE  /\ p.frags[l] \in Seq(Nat \cup {Undef})
         /\ Numbers(p)[l] =
              [i \in DOMAIN p.frags[l] |-> NumberIn(p.frags[l], DOMAIN p.frags[l], i)]
<1> DEFINE e == FreshDeck(p)
<1>1. HasFields(e) /\ e.attr = p.frags
  BY DEF FreshDeck, HasFields, Fields
<1>2. p.frags \in [Leaves(p) -> Seq(Nat \cup {Undef})]
  BY DEF IsPresentation
<1>3. Numbers(p) = [x \in Leaves(p) |-> SortFragments(e, x, DOMAIN e.attr[x]).attr[x]]
  <2> HIDE DEF e
  <2>1. SortAllFragments(p, e).attr = [x \in Leaves(p) |-> SortFragments(e, x, DOMAIN e.attr[x]).attr[x]]
    BY <1>1 DEF SortAllFragments, HasFields, Fields
  <2> QED BY <2>1 DEF Numbers, e
<1> HIDE DEF e
<1> DEFINE S == DOMAIN p.frags[l]
<1>4. SortFragments(e, l, S).attr[l] = [i \in S |-> NumberIn(e.attr[l], S, i)]
  <2>1. l \in DOMAIN e.attr /\ S = DOMAIN e.attr[l]
    BY <1>1, <1>2
  <2> HIDE DEF S
  <2> QED BY <1>1, <2>1, SortAt
<1> QED BY <1>1, <1>2, <1>3, <1>4

LEMMA NumbersOneEach ==
  ASSUME NEW p, IsPresentation(p), Ungrouped(p), NEW l \in Leaves(p)
  PROVE  OneEach(Numbers(p)[l])
<1> DEFINE a == p.frags[l]
<1>1. /\ a \in Seq(Nat \cup {Undef})
      /\ Numbers(p)[l] = [i \in DOMAIN a |-> NumberIn(a, DOMAIN a, i)]
  BY NumbersAre
<1>2. \A i, j \in DOMAIN a : a[i] = a[j] /\ a[i] # Undef => i = j
  BY DEF Ungrouped
<1> HIDE DEF a
<1>3. \A i, j \in DOMAIN a : NumberIn(a, DOMAIN a, i) = NumberIn(a, DOMAIN a, j) => i = j
  BY <1>1, <1>2, NumbersDistinct
<1> QED BY <1>1, <1>3 DEF OneEach

LEMMA CountVisible ==
  ASSUME NEW a \in Seq(Int), OneEach(a), NEW m \in Nat, Range(a) = 0 .. m - 1, NEW w \in 0 .. m
  PROVE  Cardinality(UpTo(a, w)) = w
<1> DEFINE S == UpTo(a, w)
           T == 0 .. w - 1
           f == [i \in S |-> a[i]]
<1>1. {a[i] : i \in S} = T
  BY VisibleNumbers
<1>2. S \subseteq DOMAIN a
  BY DEF UpTo
<1>3. \A i, j \in S : a[i] = a[j] => i = j
  BY <1>2 DEF OneEach
<1>4. w \in Nat /\ IsFiniteSet(T) /\ Cardinality(T) = w
  <2>1. w \in Nat
    OBVIOUS
  <2> QED BY <2>1, CountTo
<1> HIDE DEF S, T
<1>5. f \in [S -> T] /\ (\A i, j \in S : f[i] = f[j] => i = j) /\ \A t \in T : \E i \in S : f[i] = t
  BY <1>1, <1>3
<1>6. f \in Injection(S, T) /\ f \in Surjection(S, T)
  BY <1>5 DEF Injection, Surjection, IsInjective
<1> HIDE DEF f
<1>7. Cardinality(S) = Cardinality(T)
  BY <1>4, <1>6, FS_Injection
<1> QED BY <1>4, <1>7 DEF S

(* m takes every idle deck to what t shows, wherever it was.                *)
Arrives(p, m, t) == \A e : Idle(p, e) => Same(Follow(p, e, m), t)

LEMMA ArrivesAlike ==
  ASSUME NEW p, NEW m, NEW t, Arrives(p, m, t), NEW s, Same(t, s)
  PROVE  Arrives(p, m, s)
BY SameEquivalence DEF Arrives

LEMMA VisibleStage ==
  ASSUME NEW p, IsPresentation(p), NEW e, Sound(p, e)
  PROVE  /\ e.attr[e.cur] \in Seq(Int)
         /\ \E m \in Nat : /\ Range(e.attr[e.cur]) = 0 .. m - 1
                           /\ \E w \in 0 .. m : e.vis[e.cur] = UpTo(e.attr[e.cur], w)
<1>1. e.cur \in Leaves(p) /\ Fragmented(p, e)
  BY SoundPlace
<1>2. e.attr[e.cur] \in Seq(Int) /\ Staged(e.attr[e.cur], e.vis[e.cur])
  BY <1>1 DEF Fragmented
<1> QED BY <1>2 DEF Staged

LEMMA SlideShows ==
  ASSUME NEW p, IsPresentation(p), NEW e, Sound(p, e), NEW x, NEW y, Placed(p, x, y),
         NEW f \in Int, f # Undef, p.fragments, NEW l, l = SlideAt(p, x, y), e.attr[l] # <<>>
  PROVE  Slide(p, e, x, y, f).vis[l] = UpTo(e.attr[l], f + 1)
<1> DEFINE g == Slide(p, e, x, y, f)
<1>1. x \in Int /\ y \in Int /\ y # Undef
  BY DEF Placed, Undef
<1>2. Base(p, e)
  BY SoundPlace
<1>3. GoalH(p, x) = x /\ GoalV(p, e, x, y) = y
  BY <1>1, LandsHere DEF GoalH, GoalV, Goal
<1>4. PICK t : TurnsInto(p, e, x, y, f, t)
  BY <1>1, <1>2, SlideTurns
<1>5. t.cur = l /\ HasFields(t)
  BY <1>3, <1>4 DEF TurnsInto, Turned
<1>6. t.vis[l] = UpTo(e.attr[l], f + 1)
  BY <1>4, <1>5 DEF TurnsInto
<1>7. g = Leave(e.cur, t, x # e.h \/ y # e.v)
  BY <1>3, <1>4 DEF TurnsInto
<1> DEFINE changed == x # e.h \/ y # e.v
<1>8. changed \in BOOLEAN
  OBVIOUS
<1> HIDE DEF changed, g
<1>9. Leave(e.cur, t, changed).vis = t.vis
  BY <1>5, <1>8, LeaveEvents
<1> QED BY <1>6, <1>7, <1>9 DEF changed, g

(* What is sent for the index of the fragments.                             *)
SentIndex(e, f) == f = Indices(e).f \/ (Indices(e).f = Undef /\ f = 0)

LEMMA IndexSent ==
  ASSUME NEW p, IsPresentation(p), Ungrouped(p), NEW e, Sound(p, e), e.attr = Numbers(p),
         NEW f, SentIndex(e, f)
  PROVE  /\ f \in Int
         /\ e.attr[e.cur] = <<>> => e.vis[e.cur] = {}
         /\ e.attr[e.cur] # <<>> => f # Undef /\ e.vis[e.cur] = UpTo(e.attr[e.cur], f + 1)
<1> DEFINE a == e.attr[e.cur]
           V == e.vis[e.cur]
<1>1. /\ a \in Seq(Int)
      /\ \E m \in Nat : Range(a) = 0 .. m - 1 /\ \E w \in 0 .. m : V = UpTo(a, w)
  BY VisibleStage
<1>2. e.cur \in Leaves(p) /\ OneEach(a)
  BY SoundPlace, NumbersOneEach
<1>3. Indices(e).f = IF a = <<>> THEN Undef ELSE Cardinality(V) - 1
  BY DEF Indices
<1> HIDE DEF a, V
<1>4. PICK m \in Nat : Range(a) = 0 .. m - 1 /\ \E w \in 0 .. m : V = UpTo(a, w)
  BY <1>1
<1>5. PICK w \in 0 .. m : V = UpTo(a, w)
  BY <1>4
<1>6. Cardinality(V) = w
  BY <1>1, <1>2, <1>4, <1>5, CountVisible
<1>7. CASE a = <<>>
  <2>1. DOMAIN a = {}
    BY <1>7
  <2>2. V = {}
    BY <1>5, <2>1 DEF UpTo
  <2>3. f \in Int
    BY <1>3, <1>7 DEF SentIndex, Undef
  <2> QED BY <1>7, <2>2, <2>3 DEF a, V
<1>8. CASE a # <<>>
  <2>1. Indices(e).f = w - 1 /\ w - 1 \in Int /\ w - 1 # Undef /\ (w - 1) + 1 = w
    BY <1>3, <1>6, <1>8 DEF Undef
  <2>2. f = w - 1
    BY <2>1 DEF SentIndex
  <2> QED BY <1>5, <1>8, <2>1, <2>2 DEF a, V
<1> QED BY <1>7, <1>8

LEMMA PlaceArrives ==
  ASSUME NEW p, IsPresentation(p), Ungrouped(p), p.fragments,
         NEW g, Sound(p, g), g.attr = Numbers(p), NEW f, SentIndex(g, f)
  PROVE  Arrives(p, Place(g, f), g)
<1>1. SUFFICES ASSUME NEW e, Idle(p, e)
               PROVE  Same(Follow(p, e, Place(g, f)), g)
  BY DEF Arrives
<1> DEFINE k == Slide(p, e, g.h, g.v, f)
<1>2. Follow(p, e, Place(g, f)) = k
  BY PlaceIs DEF Follow
<1>3. /\ f \in Int
      /\ g.attr[g.cur] = <<>> => g.vis[g.cur] = {}
      /\ g.attr[g.cur] # <<>> => f # Undef /\ g.vis[g.cur] = UpTo(g.attr[g.cur], f + 1)
  BY IndexSent
<1>4. Placed(p, g.h, g.v) /\ g.cur = SlideAt(p, g.h, g.v)
  BY SoundPlace DEF Sound
<1>5. Sound(p, e) /\ e.attr = g.attr
  BY <1>1 DEF Idle
<1>6. Sound(p, k) /\ k.cur = g.cur /\ k.attr = g.attr
  BY <1>3, <1>4, <1>5, SlideThere
<1>7. CASE g.attr[g.cur] = <<>>
  <2>1. SentIndex(k, Indices(k).f) /\ k.attr = Numbers(p)
    BY <1>6 DEF SentIndex
  <2> HIDE DEF k
  <2>2. k.attr[k.cur] = <<>> => k.vis[k.cur] = {}
    BY <1>6, <2>1, IndexSent
  <2>3. Same(g, k)
    BY <1>3, <1>6, <1>7, <2>2, Determined
  <2> QED BY <1>2, <2>3, SameEquivalence DEF k
<1>8. CASE g.attr[g.cur] # <<>>
  <2>1. k.vis[g.cur] = UpTo(e.attr[g.cur], f + 1)
    BY <1>3, <1>4, <1>5, <1>8, SlideShows
  <2> HIDE DEF k
  <2>2. k.vis[g.cur] = g.vis[g.cur]
    BY <1>3, <1>5, <1>8, <2>1
  <2>3. Same(g, k)
    BY <1>6, <2>2, Determined
  <2> QED BY <1>2, <2>3, SameEquivalence DEF k
<1> QED BY <1>7, <1>8

-----------------------------------------------------------------------------
(* What is sent, and what becomes of a page that is told.                   *)
Message(p) == {m \in [by : {-1, 0, 1}, h : Int, v : Int, f : Int] : m.by = 0 => Placed(p, m.h, m.v)}

LEMMA MessageParts ==
  ASSUME NEW p, NEW m \in Message(p)
  PROVE  /\ m.by \in {-1, 0, 1} /\ m.h \in Int /\ m.v \in Int /\ m.f \in Int
         /\ m.by = 0 => Placed(p, m.h, m.v)
BY DEF Message

LEMMA StepMessage ==
  ASSUME NEW p, NEW by \in {-1, 1}
  PROVE  Step(by) \in Message(p)
BY DEF Step, Message, Undef

LEMMA PlaceMessage ==
  ASSUME NEW p, IsPresentation(p), NEW e, Sound(p, e), NEW f \in Int
  PROVE  Place(e, f) \in Message(p)
<1>1. Placed(p, e.h, e.v) /\ e.h \in Int /\ e.v \in Int
  BY SoundPlace
<1> QED BY <1>1 DEF Place, Message

LEMMA QuietIdle ==
  ASSUME NEW p, NEW e, Sound(p, e), e.attr = Numbers(p)
  PROVE  Idle(p, Quiet(e)) /\ Same(Quiet(e), e)
<1> DEFINE g == [e EXCEPT !.events = <<>>]
<1>1. Sound(p, g) /\ g.events = <<>>
  BY EventsSound
<1>2. g.attr = e.attr /\ g.cur = e.cur /\ g.vis = e.vis
  BY DEF Sound, Base, HasFields, Fields
<1>3. Quiet(e) = g
  BY DEF Quiet
<1> HIDE DEF g
<1> QED BY <1>1, <1>2, <1>3 DEF Idle, Same

LEMMA ResetIdle ==
  ASSUME NEW p, NEW e, Idle(p, e)
  PROVE  Idle(p, ResetStacks(p, e)) /\ Same(ResetStacks(p, e), e)
<1> DEFINE g == ResetStacks(p, e)
<1>1. Sound(p, g) /\ g.events = e.events
  BY ResetSound DEF Idle
<1>2. g.attr = e.attr /\ g.cur = e.cur /\ g.vis = e.vis
  BY DEF Idle, Sound, Base, HasFields, Fields, ResetStacks
<1> HIDE DEF g
<1>3. Idle(p, g) /\ Same(g, e)
  BY <1>1, <1>2 DEF Idle, Same
<1> QED BY <1>3 DEF g

(* A deck that listened: it can be made quiet, and what it says is known.   *)
Spoke(p, g) == Sound(p, g) /\ g.attr = Numbers(p) /\ g.events \in Seq(Signals)

LEMMA SlideSpoke ==
  ASSUME NEW p, IsPresentation(p), NEW e, Idle(p, e), NEW x, NEW y, Placed(p, x, y), NEW f \in Int,
         NEW g, g = Slide(p, e, x, y, f)
  PROVE  Spoke(p, g) /\ (Heard(g) = {} => Same(e, g))
<1>1. Sound(p, e) /\ e.attr = Numbers(p) /\ e.events = <<>> /\ x \in Int /\ y \in Int
  BY DEF Idle, Placed
<1>2. Sound(p, g) /\ g.attr = e.attr
  BY <1>1, SlideThere
<1>3. g.events \in Seq(Signals) /\ (Heard(g) = {} => Same(e, g))
  BY <1>1, SlideSays
<1> QED BY <1>1, <1>2, <1>3 DEF Spoke

LEMMA FollowSpoke ==
  ASSUME NEW p, IsPresentation(p), NEW e, Idle(p, e), NEW m \in Message(p)
  PROVE  Spoke(p, Follow(p, e, m))
<1>1. Sound(p, e) /\ e.attr = Numbers(p) /\ e.events = <<>>
  BY DEF Idle
<1>2. CASE m.by = 0
  <2>1. Placed(p, m.h, m.v) /\ m.f \in Int
    BY <1>2, MessageParts
  <2>2. Follow(p, e, m) = Slide(p, e, m.h, m.v, m.f)
    BY <1>2 DEF Follow
  <2> QED BY <2>1, <2>2, SlideSpoke
<1>3. CASE m.by # 0
  <2>1. m.by \in {-1, 1}
    BY <1>3, MessageParts
  <2> DEFINE by == m.by
             g == StepFragment(p, e, by)
  <2>2. by \in {-1, 1}
    BY <2>1
  <2>3. Follow(p, e, m) = g
    BY <1>3 DEF Follow
  <2> HIDE DEF by
  <2>4. FragmentStep(p, e, g)
    BY <1>1, <2>2, TryStep
  <2>5. g.events \in Seq(Signals)
    BY <1>1, <2>2, StepSays
  <2> HIDE DEF g
  <2>6. Sound(p, g) /\ g.attr = Numbers(p)
    BY <1>1, <2>4, StepSound DEF FragmentStep
  <2> QED BY <2>3, <2>5, <2>6 DEF Spoke
<1> QED BY <1>2, <1>3

LEMMA PressedSpoke ==
  ASSUME NEW p, NEW e, Idle(p, e), NEW g, Pressed(p, e, g)
  PROVE  Spoke(p, g) /\ (Heard(g) = {} => Same(e, g))
BY DEF Pressed, Spoke, Idle

(* The last of a sequence is what counts of it.                             *)
LEMMA Repeated ==
  ASSUME NEW S, NEW n \in Nat, NEW x \in S, NEW s, s = [i \in 1 .. n |-> x]
  PROVE  s \in Seq(S) /\ (n = 0 => s = <<>>) /\ (n > 0 => s # <<>> /\ s[Len(s)] = x)
<1>1. s \in [1 .. n -> S]
  OBVIOUS
<1>2. s \in Seq(S) /\ Len(s) = n
  BY <1>1
<1>3. n = 0 => s = <<>>
  BY <1>2
<1>4. n > 0 => s # <<>> /\ s[n] = x
  BY <1>2
<1> QED BY <1>2, <1>3, <1>4

LEMMA HeardCount ==
  ASSUME NEW e, e.events \in Seq(Signals), NEW S \in SUBSET Heard(e)
  PROVE  Cardinality(S) \in Nat /\ (Cardinality(S) = 0 <=> S = {})
<1>1. DOMAIN e.events = 1 .. Len(e.events) /\ Len(e.events) \in Nat
  OBVIOUS
<1>2. IsFiniteSet(1 .. Len(e.events))
  BY <1>1, FS_Interval
<1>3. S \subseteq 1 .. Len(e.events)
  BY <1>1 DEF Heard
<1>4. IsFiniteSet(S)
  BY <1>2, <1>3, Fewer
<1> QED BY <1>4, FS_CardinalityType, FS_EmptySet

LEMMA IndexType ==
  ASSUME NEW p, IsPresentation(p), NEW e, Sound(p, e)
  PROVE  Indices(e).f \in Int
<1> DEFINE a == e.attr[e.cur]
           V == e.vis[e.cur]
<1>1. Indices(e).f = IF a = <<>> THEN Undef ELSE Cardinality(V) - 1
  BY DEF Indices
<1>2. a \in Seq(Int) /\ V \subseteq DOMAIN a
  <2>1. \E m \in Nat : Range(a) = 0 .. m - 1 /\ \E w \in 0 .. m : V = UpTo(a, w)
    BY VisibleStage
  <2>2. a \in Seq(Int)
    BY VisibleStage
  <2> QED BY <2>1, <2>2 DEF UpTo
<1> HIDE DEF a, V
<1>3. IsFiniteSet(DOMAIN a)
  <2>1. DOMAIN a = 1 .. Len(a) /\ Len(a) \in Nat
    BY <1>2
  <2>2. IsFiniteSet(1 .. Len(a))
    BY <2>1, FS_Interval
  <2> QED BY <2>1, <2>2
<1>4. Cardinality(V) \in Nat
  BY <1>2, <1>3, Fewer
<1> QED BY <1>1, <1>4 DEF Undef

(* What the plugins send is a sequence of messages; the last of them is the *)
(* place of the deck, and there is one if an event was heard.               *)
Ends(p, g, s) ==
  /\ s \in Seq(Message(p)) /\ (Heard(g) = {} => s = <<>>)
  /\ Heard(g) # {} => s # <<>> /\ \E f : SentIndex(g, f) /\ s[Len(s)] = Place(g, f)

LEMMA NoticesEnd ==
  ASSUME NEW p, IsPresentation(p), NEW g, Spoke(p, g), NEW origin
  PROVE  /\ Notices(g, origin) \in Seq(Message(p))
         /\ origin = "user" => Ends(p, g, Notices(g, origin))
<1> DEFINE f == Indices(g).f
           i == IF f = Undef THEN 0 ELSE f
           told == {k \in Heard(g) : g.events[k] = "slidechanged" => origin = "user"}
           n == Cardinality(told)
           x == Place(g, i)
           s == [k \in 1 .. n |-> x]
<1>1. Notices(g, origin) = s
  BY DEF Notices
<1>2. i \in Int /\ SentIndex(g, i)
  BY IndexType DEF Spoke, SentIndex
<1>3. x \in Message(p)
  <2> HIDE DEF i
  <2> QED BY <1>2, PlaceMessage DEF Spoke
<1>4. told \in SUBSET Heard(g) /\ (origin = "user" => told = Heard(g))
  OBVIOUS
<1> HIDE DEF told
<1>5. n \in Nat /\ (n = 0 <=> told = {})
  BY <1>4, HeardCount DEF Spoke
<1> HIDE DEF n, x, i
<1>6. s \in Seq(Message(p)) /\ (n = 0 => s = <<>>) /\ (n > 0 => s # <<>> /\ s[Len(s)] = x)
  BY <1>3, <1>5, Repeated
<1> HIDE DEF s
<1>7. ASSUME origin = "user" PROVE Ends(p, g, s)
  <2>1. Heard(g) = {} => n = 0
    BY <1>4, <1>5, <1>7
  <2>2. Heard(g) # {} => n > 0
    BY <1>4, <1>5, <1>7
  <2>3. x = Place(g, i)
    BY DEF x
  <2> QED BY <1>2, <1>6, <2>1, <2>2, <2>3 DEF Ends
<1> QED BY <1>1, <1>6, <1>7

LEMMA PostEnd ==
  ASSUME NEW p, IsPresentation(p), NEW g, Spoke(p, g)
  PROVE  Ends(p, g, Post(g))
<1> DEFINE i == Indices(g).f
           told == Heard(g)
           n == Cardinality(told)
           x == Place(g, i)
           s == [k \in 1 .. n |-> x]
<1>1. Post(g) = s
  BY DEF Post
<1>2. i \in Int /\ SentIndex(g, i)
  BY IndexType DEF Spoke, SentIndex
<1>3. x \in Message(p)
  <2> HIDE DEF i
  <2> QED BY <1>2, PlaceMessage DEF Spoke
<1>4. told \in SUBSET Heard(g)
  OBVIOUS
<1> HIDE DEF told
<1>5. n \in Nat /\ (n = 0 <=> told = {})
  BY <1>4, HeardCount DEF Spoke
<1> HIDE DEF n, x, i
<1>6. s \in Seq(Message(p)) /\ (n = 0 => s = <<>>) /\ (n > 0 => s # <<>> /\ s[Len(s)] = x)
  BY <1>3, <1>5, Repeated
<1> HIDE DEF s
<1>7. x = Place(g, i) /\ told = Heard(g)
  BY DEF x, told
<1>8. Ends(p, g, s)
  BY <1>2, <1>5, <1>6, <1>7 DEF Ends
<1> QED BY <1>1, <1>8

LEMMA PresenterEnd ==
  ASSUME NEW p, IsPresentation(p), NEW e, Idle(p, e), NEW g, Pressed(p, e, g)
  PROVE  \/ PresenterSays(g) = <<>> /\ Same(e, g)
         \/ \E m \in Message(p) : PresenterSays(g) = <<m>> /\ Leads(p, e, m, g)
<1>1. Told(p, e, g) /\ Sound(p, g)
  BY DEF Pressed
<1>2. CASE Heard(g) = {} /\ Same(e, g)
  BY <1>2, PresenterSaysNone
<1>3. CASE HeardOnly(g, "fragmentshown") /\ Leads(p, e, Step(1), g)
  <2>1. PresenterSays(g) = <<Step(1)>>
    BY <1>3, PresenterSaysOne DEF Saying
  <2> QED BY <1>3, <2>1, StepMessage
<1>4. CASE HeardOnly(g, "fragmenthidden") /\ Leads(p, e, Step(-1), g)
  <2>1. PresenterSays(g) = <<Step(-1)>>
    BY <1>4, PresenterSaysOne DEF Saying
  <2> QED BY <1>4, <2>1, StepMessage
<1>5. CASE HeardOnly(g, "slidechanged") /\ Leads(p, e, Place(g, Undef), g)
  <2>1. PresenterSays(g) = <<Place(g, Undef)>>
    BY <1>5, PresenterSaysOne DEF Saying
  <2>2. Place(g, Undef) \in Message(p)
    BY <1>1, PlaceMessage DEF Undef
  <2> QED BY <1>5, <2>1, <2>2
<1> QED BY <1>1, <1>2, <1>3, <1>4, <1>5 DEF Told

-----------------------------------------------------------------------------
(* Where the messages on their way lead.                                    *)

(* The messages Q take a deck that shows what a shows to what b shows, one  *)
(* after the other.                                                         *)
Trail(p, Q, a, b, t) ==
  /\ Same(a, t[0]) /\ Same(t[Len(Q)], b)
  /\ \A i \in 1 .. Len(Q) : Leads(p, t[i - 1], Q[i], t[i])

Chain(p, Q, a, b) == \E t : Trail(p, Q, a, b, t)

LEMMA LeadsAlike ==
  ASSUME NEW p, NEW s, NEW m, NEW t, Leads(p, s, m, t), NEW k, Same(k, s)
  PROVE  Leads(p, k, m, t)
BY SameEquivalence DEF Leads

LEMMA ChainNone ==
  ASSUME NEW p, NEW a, NEW b
  PROVE  Chain(p, <<>>, a, b) <=> Same(a, b)
<1>1. Len(<<>>) = 0 /\ 1 .. 0 = {}
  OBVIOUS
<1>2. ASSUME NEW t, Trail(p, <<>>, a, b, t) PROVE Same(a, b)
  <2>1. Same(a, t[0]) /\ Same(t[0], b)
    BY <1>1, <1>2 DEF Trail
  <2> QED BY <2>1, SameEquivalence
<1>3. ASSUME Same(a, b) PROVE Trail(p, <<>>, a, b, [i \in {0} |-> a])
  <2> DEFINE t == [i \in {0} |-> a]
  <2>1. t[0] = a
    OBVIOUS
  <2> HIDE DEF t
  <2>2. Trail(p, <<>>, a, b, t)
    BY <1>1, <1>3, <2>1, SameEquivalence DEF Trail
  <2> QED BY <2>2 DEF t
<1> QED BY <1>2, <1>3 DEF Chain

LEMMA ChainAlike ==
  ASSUME NEW p, NEW Q, NEW a, NEW b, Chain(p, Q, a, b), NEW k, Same(k, a), NEW l, Same(b, l)
  PROVE  Chain(p, Q, k, l)
<1>1. PICK t : Trail(p, Q, a, b, t)
  BY DEF Chain
<1>2. Trail(p, Q, k, l, t)
  <2>1. Same(a, t[0]) /\ Same(t[Len(Q)], b)
    BY <1>1 DEF Trail
  <2>2. Same(k, t[0])
    BY <2>1, SameEquivalence
  <2>3. Same(t[Len(Q)], l)
    BY <2>1, SameEquivalence
  <2> QED BY <1>1, <2>2, <2>3 DEF Trail
<1> QED BY <1>2 DEF Chain

LEMMA ChainOn ==
  ASSUME NEW p, NEW M, NEW Q \in Seq(M), NEW a, NEW b, Chain(p, Q, a, b),
         NEW m \in M, NEW g, Leads(p, b, m, g)
  PROVE  Chain(p, Append(Q, m), a, g)
<1>1. PICK t : Trail(p, Q, a, b, t)
  BY DEF Chain
<1> DEFINE n == Len(Q)
           R == Append(Q, m)
           u == [i \in 0 .. n + 1 |-> IF i <= n THEN t[i] ELSE g]
<1>2. n \in Nat /\ Len(R) = n + 1 /\ R[n + 1] = m /\ \A i \in 1 .. n : R[i] = Q[i]
  BY AppendProperties
<1>3. \A i \in 0 .. n : u[i] = t[i]
  BY <1>2
<1>4. u[n + 1] = g
  BY <1>2
<1>5. /\ Same(a, t[0]) /\ Same(t[n], b)
      /\ \A i \in 1 .. n : Leads(p, t[i - 1], Q[i], t[i])
  BY <1>1 DEF Trail
<1> HIDE DEF n, R, u
<1>6. Same(a, u[0]) /\ Same(u[Len(R)], g)
  BY <1>2, <1>3, <1>4, <1>5, SameEquivalence
<1>7. ASSUME NEW i \in 1 .. Len(R) PROVE Leads(p, u[i - 1], R[i], u[i])
  <2>1. CASE i <= n
    <3>1. i \in 1 .. n /\ i \in 0 .. n /\ i - 1 \in 0 .. n
      BY <1>2, <2>1
    <3>2. u[i] = t[i] /\ u[i - 1] = t[i - 1] /\ R[i] = Q[i]
      BY <1>2, <1>3, <3>1
    <3> QED BY <1>5, <3>1, <3>2
  <2>2. CASE i = n + 1
    <3>1. n \in 0 .. n /\ i - 1 = n
      BY <1>2, <2>2
    <3>2. u[i - 1] = t[n] /\ u[i] = g /\ R[i] = m
      BY <1>2, <1>3, <1>4, <2>2, <3>1
    <3>3. Leads(p, t[n], m, g)
      BY <1>5, LeadsAlike
    <3> QED BY <3>2, <3>3
  <2> QED BY <1>2, <2>1, <2>2
<1>8. Trail(p, R, a, g, u)
  BY <1>6, <1>7 DEF Trail
<1> QED BY <1>8 DEF Chain, R

LEMMA ChainNext ==
  ASSUME NEW p, NEW M, NEW Q \in Seq(M), Q # <<>>, NEW a, Idle(p, a), NEW b, Chain(p, Q, a, b)
  PROVE  Chain(p, Tail(Q), Follow(p, a, Head(Q)), b)
<1>1. PICK t : Trail(p, Q, a, b, t)
  BY DEF Chain
<1> DEFINE n == Len(Q)
           R == Tail(Q)
           u == [i \in 0 .. n - 1 |-> t[i + 1]]
<1>2. n \in Nat \ {0} /\ Len(R) = n - 1 /\ (\A i \in 1 .. n - 1 : R[i] = Q[i + 1]) /\ Head(Q) = Q[1]
  BY HeadTailProperties, EmptySeq
<1>3. \A i \in 0 .. n - 1 : u[i] = t[i + 1]
  OBVIOUS
<1>4. /\ Same(a, t[0]) /\ Same(t[n], b)
      /\ \A i \in 1 .. n : Leads(p, t[i - 1], Q[i], t[i])
  BY <1>1 DEF Trail
<1> HIDE DEF n, R, u
<1>5. Same(Follow(p, a, Head(Q)), u[0])
  <2>1. 1 \in 1 .. n /\ 0 \in 0 .. n - 1 /\ 1 - 1 = 0 /\ 0 + 1 = 1
    BY <1>2
  <2>2. Leads(p, t[0], Q[1], t[1])
    BY <1>4, <2>1
  <2>3. Same(Follow(p, a, Q[1]), t[1])
    BY <1>4, <2>2 DEF Leads
  <2> QED BY <1>2, <1>3, <2>1, <2>3
<1>6. Same(u[Len(R)], b)
  <2>1. n - 1 \in 0 .. n - 1 /\ (n - 1) + 1 = n
    BY <1>2
  <2> QED BY <1>2, <1>3, <1>4, <2>1
<1>7. ASSUME NEW i \in 1 .. Len(R) PROVE Leads(p, u[i - 1], R[i], u[i])
  <2>1. i \in 1 .. n - 1 /\ i \in 0 .. n - 1 /\ i - 1 \in 0 .. n - 1 /\ i + 1 \in 1 .. n
        /\ (i - 1) + 1 = i /\ (i + 1) - 1 = i
    BY <1>2
  <2>2. u[i - 1] = t[i] /\ u[i] = t[i + 1] /\ R[i] = Q[i + 1]
    BY <1>2, <1>3, <2>1
  <2>3. Leads(p, t[i], Q[i + 1], t[i + 1])
    BY <1>4, <2>1
  <2> QED BY <2>2, <2>3
<1>8. Trail(p, R, Follow(p, a, Head(Q)), b, u)
  BY <1>5, <1>6, <1>7 DEF Trail
<1> QED BY <1>8 DEF Chain, R

(* Q brings a deck a to what b shows.  The notes repeat every step; the     *)
(* others go where the last message says.  lost: a was moved by someone     *)
(* else, and goes nowhere while nothing is on its way.                      *)
Behind(p, how, Q, a, b, lost) ==
  IF how = "notes" THEN Chain(p, Q, a, b)
  ELSE IF Q = <<>> THEN lost \/ Same(a, b)
  ELSE Arrives(p, Q[Len(Q)], b)

LEMMA BehindAlike ==
  ASSUME NEW p, NEW how, NEW Q, NEW a, NEW b, NEW lost, Behind(p, how, Q, a, b, lost),
         NEW k, Same(k, a), NEW l, Same(b, l)
  PROVE  Behind(p, how, Q, k, l, lost)
<1>1. CASE how = "notes"
  BY <1>1, ChainAlike DEF Behind
<1>2. CASE how # "notes" /\ Q = <<>>
  <2>1. Same(a, b) => Same(k, l)
    BY SameEquivalence
  <2> QED BY <1>2, <2>1 DEF Behind
<1>3. CASE how # "notes" /\ Q # <<>>
  BY <1>3, ArrivesAlike DEF Behind
<1> QED BY <1>1, <1>2, <1>3

(* The page is told the next message.                                       *)
LEMMA BehindNext ==
  ASSUME NEW p, NEW how, NEW M, NEW Q \in Seq(M), Q # <<>>, NEW a, Idle(p, a), NEW b, NEW lost,
         Behind(p, how, Q, a, b, lost), NEW k, Same(k, Follow(p, a, Head(Q)))
  PROVE  Behind(p, how, Tail(Q), k, b, FALSE)
<1>1. CASE how = "notes"
  <2>1. Chain(p, Tail(Q), Follow(p, a, Head(Q)), b)
    BY <1>1, ChainNext DEF Behind
  <2>2. Chain(p, Tail(Q), k, b)
    BY <2>1, ChainAlike, SameEquivalence
  <2> QED BY <1>1, <2>2 DEF Behind
<1>2. CASE how # "notes"
  <2>1. Arrives(p, Q[Len(Q)], b)
    BY <1>2 DEF Behind
  <2>2. /\ Len(Q) \in Nat \ {0} /\ Head(Q) = Q[1] /\ Tail(Q) \in Seq(M) /\ Len(Tail(Q)) = Len(Q) - 1
        /\ \A i \in 1 .. Len(Q) - 1 : Tail(Q)[i] = Q[i + 1]
    BY HeadTailProperties, EmptySeq
  <2>3. CASE Tail(Q) = <<>>
    <3>1. Len(Tail(Q)) = 0
      BY <2>2, <2>3, EmptySeq
    <3>2. Len(Q) \in Nat /\ Len(Q) - 1 = 0
      BY <2>2, <3>1
    <3>3. Len(Q) = 1
      BY <3>2
    <3>4. Q[Len(Q)] = Head(Q)
      BY <2>2, <3>3
    <3>5. Arrives(p, Head(Q), b)
      BY <2>1, <3>4
    <3>6. Same(Follow(p, a, Head(Q)), b)
      BY <3>5 DEF Arrives
    <3> QED BY <1>2, <2>3, <3>6, SameEquivalence DEF Behind
  <2>4. CASE Tail(Q) # <<>>
    <3>1. Len(Tail(Q)) # 0
      BY <2>2, <2>4, EmptySeq
    <3>2. Tail(Q)[Len(Tail(Q))] = Q[Len(Q)]
      BY <2>2, <3>1
    <3> QED BY <1>2, <2>1, <2>4, <3>2 DEF Behind
  <2> QED BY <2>3, <2>4
<1> QED BY <1>1, <1>2

(* Connected anew: what was sent to the page is gone, what is still to be   *)
(* relayed is not.                                                          *)
LEMMA BehindReload ==
  ASSUME NEW p, NEW how, how # "notes", NEW M, NEW d \in Seq(M), NEW u \in Seq(M), NEW a, NEW b,
         NEW lost, Behind(p, how, d \o u, a, b, lost), NEW k
  PROVE  Behind(p, how, <<>> \o u, k, b, TRUE)
<1> DEFINE Q == d \o u
<1>1. <<>> \o u = u
  BY ConcatEmptySeq
<1>2. CASE u = <<>>
  BY <1>1, <1>2 DEF Behind
<1>3. CASE u # <<>>
  <2>1. /\ Len(Q) = Len(d) + Len(u) /\ Len(d) \in Nat /\ Len(u) \in Nat \ {0}
        /\ \A i \in 1 .. Len(d) + Len(u) : Q[i] = IF i <= Len(d) THEN d[i] ELSE u[i - Len(d)]
    BY <1>3, ConcatProperties, EmptySeq, LenProperties
  <2> HIDE DEF Q
  <2>2. Q[Len(Q)] = u[Len(u)] /\ Q # <<>>
    BY <2>1
  <2>3. Arrives(p, u[Len(u)], b)
    BY <2>2 DEF Behind, Q
  <2> QED BY <1>1, <1>3, <2>3 DEF Behind
<1> QED BY <1>2, <1>3

(* More is on its way.                                                      *)
LEMMA BehindMore ==
  ASSUME NEW p, IsPresentation(p), Ungrouped(p), p.fragments, NEW how, how # "notes",
         NEW M, NEW Q \in Seq(M), NEW s \in Seq(M), s # <<>>, NEW a, NEW lost,
         NEW g, Spoke(p, g), NEW f, SentIndex(g, f), s[Len(s)] = Place(g, f), NEW b, Same(g, b)
  PROVE  Behind(p, how, Q \o s, a, b, lost)
<1> DEFINE R == Q \o s
<1>1. /\ Len(R) = Len(Q) + Len(s) /\ Len(Q) \in Nat /\ Len(s) \in Nat \ {0}
      /\ \A i \in 1 .. Len(Q) + Len(s) : R[i] = IF i <= Len(Q) THEN Q[i] ELSE s[i - Len(Q)]
  BY ConcatProperties, EmptySeq, LenProperties
<1> HIDE DEF R
<1>2. R[Len(R)] = s[Len(s)] /\ R # <<>>
  BY <1>1
<1>3. Arrives(p, s[Len(s)], b)
  BY PlaceArrives, ArrivesAlike DEF Spoke
<1> QED BY <1>2, <1>3 DEF Behind, R

(* Another message follows: sent for a step that was made alone.            *)
LEMMA BehindSaid ==
  ASSUME NEW p, IsPresentation(p), NEW how, how = "notes", NEW Q \in Seq(Message(p)), NEW a,
         NEW b, Idle(p, b), NEW lost, Behind(p, how, Q, a, b, lost), NEW g, Pressed(p, b, g)
  PROVE  /\ PresenterSays(g) \in Seq(Message(p))
         /\ Behind(p, how, Q \o PresenterSays(g), a, g, lost)
<1>0. Chain(p, Q, a, b)
  BY DEF Behind
<1>1. CASE PresenterSays(g) = <<>> /\ Same(b, g)
  <2>1. Q \o <<>> = Q
    BY ConcatEmptySeq
  <2>2. Chain(p, Q, a, g)
    BY <1>0, <1>1, ChainAlike, SameEquivalence
  <2>3. <<>> \in Seq(Message(p))
    BY EmptySeq
  <2> QED BY <1>1, <2>1, <2>2, <2>3 DEF Behind
<1>2. ASSUME NEW m \in Message(p), PresenterSays(g) = <<m>>, Leads(p, b, m, g)
      PROVE  /\ PresenterSays(g) \in Seq(Message(p))
             /\ Behind(p, how, Q \o PresenterSays(g), a, g, lost)
  <2>1. Chain(p, Append(Q, m), a, g)
    BY <1>0, <1>2, ChainOn
  <2>2. Append(Q, m) = Q \o <<m>>
    BY AppendIsConcat
  <2>3. <<m>> \in Seq(Message(p))
    OBVIOUS
  <2> QED BY <1>2, <2>1, <2>2, <2>3 DEF Behind
<1> QED BY <1>1, <1>2, PresenterEnd

(* Somebody else moves the page.                                            *)
LEMMA BehindStray ==
  ASSUME NEW p, NEW how, how # "notes", NEW Q, NEW a, NEW b, NEW lost,
         Behind(p, how, Q, a, b, lost), NEW k
  PROVE  Behind(p, how, Q, k, b, TRUE)
BY DEF Behind

(* The page as it is opened.                                                *)
LEMMA FreshIdle ==
  ASSUME NEW p, IsPresentation(p)
  PROVE  Idle(p, FreshPage(p))
<1> DEFINE e == SortAllFragments(p, FreshDeck(p))
           g == ReadURL(p, e, HashAt(0, 0))
<1>1. Base(p, e) /\ e.cur = None /\ e.attr = Numbers(p)
  BY FreshBase DEF Numbers
<1>2. FreshPage(p) = Quiet(g)
  BY DEF FreshPage, Quiet
<1> HIDE DEF e
<1>3. g = Slide(p, e, 0, 0, Undef)
  BY <1>1 DEF ReadURL, HashAt
<1>4. 0 \in Int /\ Undef \in Int
  BY DEF Undef
<1>5. Sound(p, g) /\ g.attr = e.attr
  BY <1>1, <1>3, <1>4, SlideArrives DEF Arrived
<1> HIDE DEF g
<1>6. Idle(p, Quiet(g))
  BY <1>1, <1>5, QuietIdle
<1> QED BY <1>2, <1>6

(* What is sent of a deck that moved, and what its last message makes of a  *)
(* page that was behind it, or that was there already.                      *)
LEMMA BehindEnds ==
  ASSUME NEW p, IsPresentation(p), Ungrouped(p), p.fragments, NEW how, how # "notes",
         NEW Q \in Seq(Message(p)), NEW a, NEW b, NEW lost, Behind(p, how, Q, a, b, lost),
         NEW g, Spoke(p, g), Heard(g) = {} => Same(b, g), NEW s, Ends(p, g, s)
  PROVE  /\ Behind(p, how, Q \o s, a, g, lost)
         /\ \A k : Same(k, g) => Behind(p, how, Q \o s, k, g, lost)
<1>1. Same(g, g)
  BY SameEquivalence
<1>2. CASE Heard(g) = {}
  <2>1. s = <<>> /\ Same(b, g)
    BY <1>2 DEF Ends
  <2>2. Q \o s = Q
    BY <2>1, ConcatEmptySeq
  <2>3. Behind(p, how, Q, a, g, lost)
    BY <1>1, <2>1, BehindAlike, SameEquivalence
  <2>4. ASSUME NEW k, Same(k, g) PROVE Behind(p, how, Q, k, g, lost)
    BY <2>3, <2>4 DEF Behind
  <2> QED BY <2>2, <2>3, <2>4
<1>3. CASE Heard(g) # {}
  <2>1. s \in Seq(Message(p)) /\ s # <<>>
    BY <1>3 DEF Ends
  <2>2. PICK f : SentIndex(g, f) /\ s[Len(s)] = Place(g, f)
    BY <1>3 DEF Ends
  <2>3. ASSUME NEW k PROVE Behind(p, how, Q \o s, k, g, lost)
    BY <1>1, <2>1, <2>2, BehindMore
  <2> QED BY <2>3
<1> QED BY <1>2, <1>3

-----------------------------------------------------------------------------
(* What a page says.                                                        *)

LEMMA SaysUser ==
  ASSUME IsSetup(setup), NEW q, NEW e, Idle(setup.c, e), NEW g, Pressed(setup.c, e, g)
  PROVE  /\ Says(q, g, "user") \in Seq(Message(setup.c))
         /\ q \notin setup.masters => Says(q, g, "user") = <<>>
<1> DEFINE c == setup.c
<1>1. IsPresentation(c) /\ setup.how \in {"multiplex", "notes", "popup"}
  BY DEF IsSetup
<1> HIDE DEF c
<1>2. Spoke(c, g)
  BY PressedSpoke DEF c
<1>3. CASE q \notin setup.masters
  <2>1. Says(q, g, "user") = <<>>
    BY <1>3 DEF Says
  <2> QED BY <1>3, <2>1, EmptySeq
<1>4. CASE q \in setup.masters /\ setup.how = "multiplex"
  <2>1. Notices(g, "user") \in Seq(Message(c))
    BY <1>1, <1>2, NoticesEnd
  <2> QED BY <1>4, <2>1 DEF Says, c
<1>5. CASE q \in setup.masters /\ setup.how = "notes"
  <2>1. \/ PresenterSays(g) = <<>>
        \/ \E m \in Message(c) : PresenterSays(g) = <<m>>
    BY <1>1, PresenterEnd DEF c
  <2>2. ASSUME NEW x \in Message(c) PROVE <<x>> \in Seq(Message(c))
    OBVIOUS
  <2>3. <<>> \in Seq(Message(c))
    BY EmptySeq
  <2>4. PresenterSays(g) \in Seq(Message(c))
    BY <2>1, <2>2, <2>3
  <2> QED BY <1>5, <2>4 DEF Says, c
<1>6. CASE q \in setup.masters /\ setup.how = "popup"
  <2>1. Post(g) \in Seq(Message(c))
    BY <1>1, <1>2, PostEnd DEF Ends
  <2> QED BY <1>6, <2>1 DEF Says, c
<1> QED BY <1>1, <1>3, <1>4, <1>5, <1>6

LEMMA SaysRemote ==
  ASSUME IsSetup(setup), NEW q \in setup.clients, NEW g, Spoke(setup.c, g)
  PROVE  /\ Says(q, g, "remote") \in Seq(Message(setup.c))
         /\ q \notin setup.masters => Says(q, g, "remote") = <<>>
<1>1. CASE q \notin setup.masters
  <2>1. Says(q, g, "remote") = <<>>
    BY <1>1 DEF Says
  <2> QED BY <1>1, <2>1, EmptySeq
<1>2. CASE q \in setup.masters
  <2>1. setup.how = "multiplex" /\ IsPresentation(setup.c)
    BY <1>2 DEF IsSetup
  <2>2. Notices(g, "remote") \in Seq(Message(setup.c))
    BY <2>1, NoticesEnd
  <2> QED BY <1>2, <2>1, <2>2 DEF Says
<1> QED BY <1>1, <1>2

(* What the speaker says of an arrow keeps everybody behind it.             *)
LEMMA BehindSpeaker ==
  ASSUME IsSetup(setup), Steady(setup), NEW m \in setup.masters,
         NEW b, Idle(setup.c, b), NEW g, Pressed(setup.c, b, g),
         NEW Q \in Seq(Message(setup.c)), NEW a, NEW lost,
         Behind(setup.c, setup.how, Q, a, b, lost)
  PROVE  Behind(setup.c, setup.how, Q \o Says(m, g, "user"), a, g, lost)
<1> DEFINE c == setup.c
           how == setup.how
<1>1. IsPresentation(c) /\ how \in {"multiplex", "notes", "popup"}
  BY DEF IsSetup
<1>2. how # "notes" => c.fragments /\ Ungrouped(c)
  BY DEF Steady
<1>3. Spoke(c, g) /\ (Heard(g) = {} => Same(b, g))
  BY PressedSpoke
<1>4. Behind(c, how, Q, a, b, lost) /\ Q \in Seq(Message(c)) /\ Idle(c, b) /\ Pressed(c, b, g)
  OBVIOUS
<1>5. /\ how = "multiplex" => Says(m, g, "user") = Notices(g, "user")
      /\ how = "notes" => Says(m, g, "user") = PresenterSays(g)
      /\ how = "popup" => Says(m, g, "user") = Post(g)
  BY DEF Says
<1> HIDE DEF c, how
<1>6. CASE how = "notes"
  BY <1>1, <1>4, <1>5, <1>6, BehindSaid DEF c, how
<1>7. CASE how = "multiplex"
  <2> DEFINE s == Notices(g, "user")
  <2>1. Ends(c, g, s)
    BY <1>1, <1>3, NoticesEnd
  <2> HIDE DEF s
  <2>2. Behind(c, how, Q \o s, a, g, lost)
    BY <1>1, <1>2, <1>3, <1>4, <1>7, <2>1, BehindEnds
  <2> QED BY <1>5, <1>7, <2>2 DEF s, c, how
<1>8. CASE how = "popup"
  <2> DEFINE s == Post(g)
  <2>1. Ends(c, g, s)
    BY <1>1, <1>3, PostEnd
  <2> HIDE DEF s
  <2>2. Behind(c, how, Q \o s, a, g, lost)
    BY <1>1, <1>2, <1>3, <1>4, <1>8, <2>1, BehindEnds
  <2> QED BY <1>5, <1>8, <2>2 DEF s, c, how
<1> QED BY <1>1, <1>6, <1>7, <1>8

-----------------------------------------------------------------------------
(* The first invariant: every page rests, and only those send and are told  *)
(* whose place it is.                                                       *)
Queues ==
  /\ setup \in Setups /\ moves \in 0 .. MaxMoves /\ strayed \subseteq setup.clients
  /\ DOMAIN deck = Page
  /\ up \in [Page -> Seq(Message(setup.c))] /\ down \in [Page -> Seq(Message(setup.c))]
  /\ \A q \in Page : /\ Idle(setup.c, deck[q])
                     /\ up[q] # <<>> => q \in setup.masters
                     /\ down[q] # <<>> => q \in setup.clients

LEMMA QueuesStart ==
  ASSUME Init
  PROVE  Queues
<1> DEFINE c == setup.c
<1>1. IsPresentation(c) /\ setup \in Setups
  BY SetupsAssumption DEF IsSetup, Init
<1> HIDE DEF c
<1>2. Idle(c, FreshPage(c))
  BY <1>1, FreshIdle
<1>3. deck = [q \in Page |-> FreshPage(c)]
  BY DEF Init, c
<1>4. DOMAIN deck = Page /\ \A q \in Page : Idle(c, deck[q])
  BY <1>2, <1>3
<1>5. <<>> \in Seq(Message(c))
  BY EmptySeq
<1>6. /\ up \in [Page -> Seq(Message(c))] /\ down \in [Page -> Seq(Message(c))]
      /\ \A q \in Page : up[q] = <<>> /\ down[q] = <<>>
  BY <1>5 DEF Init
<1>7. moves \in 0 .. MaxMoves /\ strayed \subseteq setup.clients
  BY MaxMovesAssumption DEF Init
<1> QED BY <1>1, <1>4, <1>6, <1>7 DEF Queues, c

(* One queue gets longer.                                                   *)
LEMMA Sent ==
  ASSUME NEW M, NEW u \in [Page -> Seq(M)], NEW q \in Page, NEW s \in Seq(M),
         NEW w, w = [u EXCEPT ![q] = @ \o s]
  PROVE  /\ w \in [Page -> Seq(M)] /\ w[q] = u[q] \o s
         /\ \A k \in Page \ {q} : w[k] = u[k]
         /\ w[q] # <<>> => u[q] # <<>> \/ s # <<>>
<1>1. u[q] \o s \in Seq(M)
  BY ConcatProperties
<1>2. w[q] = u[q] \o s /\ \A k \in Page \ {q} : w[k] = u[k]
  OBVIOUS
<1>3. w \in [Page -> Seq(M)]
  BY <1>1, <1>2
<1>4. u[q] = <<>> /\ s = <<>> => u[q] \o s = <<>>
  BY ConcatEmptySeq
<1> QED BY <1>2, <1>3, <1>4

(* One queue gets shorter.                                                  *)
LEMMA Taken ==
  ASSUME NEW M, NEW u \in [Page -> Seq(M)], NEW q \in Page, u[q] # <<>>,
         NEW w, w = [u EXCEPT ![q] = Tail(@)]
  PROVE  /\ w \in [Page -> Seq(M)] /\ w[q] = Tail(u[q])
         /\ \A k \in Page \ {q} : w[k] = u[k]
         /\ Head(u[q]) \in M
<1>1. Tail(u[q]) \in Seq(M) /\ Head(u[q]) \in M
  BY HeadTailProperties
<1>2. w[q] = Tail(u[q]) /\ \A k \in Page \ {q} : w[k] = u[k]
  OBVIOUS
<1>3. w \in [Page -> Seq(M)]
  BY <1>1, <1>2
<1> QED BY <1>1, <1>2, <1>3

(* What an arrow makes of a page, and what it says of it.                   *)
LEMMA ArrowSays ==
  ASSUME IsSetup(setup), Queues, NEW q \in Page, NEW dir \in Arrows
  PROVE  LET e == Press(setup.c, deck[q], dir)
         IN /\ Pressed(setup.c, deck[q], e)
            /\ Idle(setup.c, Quiet(e)) /\ Same(Quiet(e), e)
            /\ Says(q, e, "user") \in Seq(Message(setup.c))
            /\ q \notin setup.masters => Says(q, e, "user") = <<>>
<1> DEFINE e == Press(setup.c, deck[q], dir)
<1>1. IsPresentation(setup.c) /\ Idle(setup.c, deck[q])
  BY DEF IsSetup, Queues
<1>2. Pressed(setup.c, deck[q], e)
  BY <1>1, PressTold
<1> HIDE DEF e
<1>3. Spoke(setup.c, e)
  BY <1>1, <1>2, PressedSpoke
<1>4. Idle(setup.c, Quiet(e)) /\ Same(Quiet(e), e)
  BY <1>3, QuietIdle DEF Spoke
<1>5. /\ Says(q, e, "user") \in Seq(Message(setup.c))
      /\ q \notin setup.masters => Says(q, e, "user") = <<>>
  BY <1>1, <1>2, SaysUser
<1> QED BY <1>2, <1>4, <1>5 DEF e

LEMMA NavigateQueues ==
  ASSUME IsSetup(setup), Queues, NEW q \in Page, NEW dir \in Arrows, Navigate(q, dir)
  PROVE  Queues'
<1> DEFINE c == setup.c
           e == Press(c, deck[q], dir)
           s == Says(q, e, "user")
<1>1. /\ Idle(c, Quiet(e)) /\ s \in Seq(Message(c))
      /\ q \notin setup.masters => s = <<>>
  BY ArrowSays
<1>2. /\ setup' = setup /\ down' = down /\ moves' = moves + 1 /\ moves < MaxMoves
      /\ strayed' = strayed \cup ({q} \cap setup.clients)
      /\ deck' = [deck EXCEPT ![q] = Quiet(e)] /\ up' = [up EXCEPT ![q] = @ \o s]
  BY DEF Navigate
<1> HIDE DEF e, s
<1>3. /\ setup.c' = c /\ setup \in Setups /\ moves \in 0 .. MaxMoves /\ strayed \subseteq setup.clients
      /\ DOMAIN deck = Page /\ up \in [Page -> Seq(Message(c))] /\ down \in [Page -> Seq(Message(c))]
      /\ \A k \in Page : /\ Idle(c, deck[k])
                         /\ up[k] # <<>> => k \in setup.masters
                         /\ down[k] # <<>> => k \in setup.clients
  BY <1>2 DEF Queues
<1> HIDE DEF c
<1>4. /\ up' \in [Page -> Seq(Message(c))]
      /\ \A k \in Page \ {q} : up'[k] = up[k]
      /\ up'[q] # <<>> => up[q] # <<>> \/ s # <<>>
  BY <1>1, <1>2, <1>3, Sent
<1>5. DOMAIN deck' = Page /\ \A k \in Page : Idle(c, deck'[k])
  BY <1>1, <1>2, <1>3
<1>6. \A k \in Page : up'[k] # <<>> => k \in setup'.masters
  BY <1>1, <1>2, <1>3, <1>4
<1>7. moves' \in 0 .. MaxMoves /\ strayed' \subseteq setup'.clients
  BY <1>2, <1>3, MaxMovesAssumption
<1> QED BY <1>2, <1>3, <1>4, <1>5, <1>6, <1>7 DEF Queues, c

(* Where a popup that moved to e puts its opener d.                         *)
Opener(c, d, e) ==
  IF Heard(e) = {} THEN d ELSE Slide(c, d, Indices(e).h, Indices(e).v, Indices(e).f)

LEMMA OpenerSpoke ==
  ASSUME NEW c, IsPresentation(c), NEW d, Idle(c, d), NEW e, Spoke(c, e)
  PROVE  LET o == Opener(c, d, e)
         IN /\ Spoke(c, o) /\ (Heard(o) = {} => Same(d, o))
            /\ Heard(e) = {} => o = d
            /\ Heard(e) # {} /\ c.fragments /\ Ungrouped(c) => Same(e, o)
<1> DEFINE i == Indices(e)
           o == Opener(c, d, e)
<1>1. i.h = e.h /\ i.v = e.v
  BY DEF Indices
<1>2. i.f \in Int
  BY IndexType DEF Spoke
<1>3. Placed(c, e.h, e.v)
  BY DEF Spoke, Sound
<1> DEFINE f == i.f
           x == e.h
           y == e.v
<1>4. o = IF Heard(e) = {} THEN d ELSE Slide(c, d, x, y, f)
  BY <1>1 DEF Opener
<1>5. f = Indices(e).f
  OBVIOUS
<1>6. f \in Int /\ Placed(c, x, y)
  BY <1>2, <1>3
<1> HIDE DEF i, f, o
<1>7. CASE Heard(e) = {}
  <2>1. o = d
    BY <1>4, <1>7
  <2>2. Spoke(c, d)
    <3>1. <<>> \in Seq(Signals)
      BY EmptySeq
    <3> QED BY <3>1 DEF Idle, Spoke
  <2> QED BY <1>7, <2>1, <2>2, SameEquivalence DEF o
<1>8. CASE Heard(e) # {}
  <2>1. o = Slide(c, d, x, y, f)
    BY <1>4, <1>8
  <2>2. Spoke(c, o) /\ (Heard(o) = {} => Same(d, o))
    BY <1>6, <2>1, SlideSpoke
  <2>3. ASSUME c.fragments, Ungrouped(c) PROVE Same(e, o)
    <3>1. SentIndex(e, f)
      BY <1>5 DEF SentIndex
    <3>2. Arrives(c, Place(e, f), e)
      BY <2>3, <3>1, PlaceArrives DEF Spoke
    <3> DEFINE m == Place(e, f)
    <3>3. m.by = 0 /\ m.h = x /\ m.v = y /\ m.f = f
      BY DEF Place
    <3> HIDE DEF m, x, y
    <3>4. Follow(c, d, m) = o
      BY <2>1, <3>3 DEF Follow
    <3>5. Same(Follow(c, d, m), e)
      BY <3>2 DEF Arrives, m
    <3> QED BY <3>4, <3>5, SameEquivalence
  <2> QED BY <1>8, <2>2, <2>3 DEF o
<1> QED BY <1>7, <1>8

LEMMA PopupSays ==
  ASSUME IsSetup(setup), Queues, NEW q \in Page, NEW k \in Page, NEW dir \in Arrows,
         NavigatePopup(q, k, dir)
  PROVE  \E e, o :
           /\ Spoke(setup.c, e) /\ (Heard(e) = {} => Same(deck[q], e))
           /\ o = Opener(setup.c, deck[k], e)
           /\ Idle(setup.c, Quiet(e)) /\ Same(Quiet(e), e)
           /\ Idle(setup.c, Quiet(o)) /\ Same(Quiet(o), o)
           /\ Ends(setup.c, o, Post(o))
           /\ deck' = [deck EXCEPT ![q] = Quiet(e), ![k] = Quiet(o)]
           /\ up' = [up EXCEPT ![k] = @ \o Post(o)]
<1> DEFINE c == setup.c
           e == Press(c, deck[q], dir)
           o == Opener(c, deck[k], e)
<1>1. IsPresentation(c) /\ Idle(c, deck[q]) /\ Idle(c, deck[k])
  BY DEF IsSetup, Queues
<1>2. /\ deck' = [deck EXCEPT ![q] = Quiet(e), ![k] = Quiet(o)]
      /\ up' = [up EXCEPT ![k] = @ \o Post(o)]
  BY DEF NavigatePopup, Opener
<1>3. Pressed(c, deck[q], e) /\ Idle(c, Quiet(e)) /\ Same(Quiet(e), e)
  BY ArrowSays
<1> HIDE DEF c, e
<1>4. Spoke(c, e) /\ (Heard(e) = {} => Same(deck[q], e))
  BY <1>1, <1>3, PressedSpoke
<1>5. Spoke(c, o)
  BY <1>1, <1>4, OpenerSpoke
<1>6. o = Opener(c, deck[k], e)
  OBVIOUS
<1> HIDE DEF o
<1>7. Idle(c, Quiet(o)) /\ Same(Quiet(o), o)
  BY <1>5, QuietIdle DEF Spoke
<1>8. Ends(c, o, Post(o))
  BY <1>1, <1>5, PostEnd
<1> QED BY <1>2, <1>3, <1>4, <1>6, <1>7, <1>8 DEF c

LEMMA PopupQueues ==
  ASSUME IsSetup(setup), Queues, NEW q \in Page, NEW k \in Page, NEW dir \in Arrows,
         NavigatePopup(q, k, dir)
  PROVE  Queues'
<1> DEFINE c == setup.c
<1>1. PICK e, o :
        /\ Idle(c, Quiet(e)) /\ Idle(c, Quiet(o)) /\ Ends(c, o, Post(o))
        /\ deck' = [deck EXCEPT ![q] = Quiet(e), ![k] = Quiet(o)]
        /\ up' = [up EXCEPT ![k] = @ \o Post(o)]
  BY PopupSays
<1> DEFINE s == Post(o)
<1>2. /\ setup' = setup /\ down' = down /\ moves' = moves + 1 /\ moves < MaxMoves
      /\ strayed' = strayed /\ k \in setup.masters
  BY DEF NavigatePopup
<1>3. /\ setup.c' = c /\ setup \in Setups /\ moves \in 0 .. MaxMoves /\ strayed \subseteq setup.clients
      /\ DOMAIN deck = Page /\ up \in [Page -> Seq(Message(c))] /\ down \in [Page -> Seq(Message(c))]
      /\ \A r \in Page : /\ Idle(c, deck[r])
                         /\ up[r] # <<>> => r \in setup.masters
                         /\ down[r] # <<>> => r \in setup.clients
  BY <1>2 DEF Queues
<1> HIDE DEF c
<1>4. s \in Seq(Message(c)) /\ up' = [up EXCEPT ![k] = @ \o s]
  BY <1>1 DEF Ends
<1> HIDE DEF s
<1>5. up' \in [Page -> Seq(Message(c))] /\ \A r \in Page \ {k} : up'[r] = up[r]
  BY <1>3, <1>4, Sent
<1>6. DOMAIN deck' = Page /\ \A r \in Page : Idle(c, deck'[r])
  BY <1>1, <1>3
<1>7. \A r \in Page : up'[r] # <<>> => r \in setup'.masters
  BY <1>2, <1>3, <1>5
<1>8. moves' \in 0 .. MaxMoves /\ strayed' \subseteq setup'.clients
  BY <1>2, <1>3, MaxMovesAssumption
<1> QED BY <1>2, <1>3, <1>5, <1>6, <1>7, <1>8 DEF Queues, c

(* What the server passes on.                                               *)
LEMMA Relayed ==
  ASSUME IsSetup(setup), Queues, NEW q \in Page, Relay(q)
  PROVE  /\ up' \in [Page -> Seq(Message(setup.c))] /\ down' \in [Page -> Seq(Message(setup.c))]
         /\ up'[q] = Tail(up[q]) /\ \A r \in Page \ {q} : up'[r] = up[r]
         /\ \A r \in Page : down'[r] = IF r \in setup.clients \ {q} /\ q \in setup.trusted
                                       THEN Append(down[r], Head(up[q])) ELSE down[r]
<1> DEFINE M == Message(setup.c)
           told(r) == r \in setup.clients \ {q} /\ q \in setup.trusted
<1>1. /\ up[q] # <<>> /\ up' = [up EXCEPT ![q] = Tail(@)]
      /\ down' = [r \in Page |-> IF told(r) THEN Append(down[r], Head(up[q])) ELSE down[r]]
  BY DEF Relay
<1>2. up \in [Page -> Seq(M)] /\ down \in [Page -> Seq(M)]
  BY DEF Queues
<1> HIDE DEF M, told
<1>3. /\ up' \in [Page -> Seq(M)] /\ Head(up[q]) \in M
      /\ up'[q] = Tail(up[q]) /\ \A r \in Page \ {q} : up'[r] = up[r]
  BY <1>1, <1>2, Taken
<1>4. \A r \in Page : down'[r] = IF told(r) THEN Append(down[r], Head(up[q])) ELSE down[r]
  BY <1>1
<1> DEFINE x == Head(up[q])
<1>5. x \in M
  BY <1>3
<1>6. down' = [r \in Page |-> IF told(r) THEN Append(down[r], x) ELSE down[r]]
  BY <1>1
<1> HIDE DEF x
<1>7. \A r \in Page : Append(down[r], x) \in Seq(M)
  BY <1>2, <1>5, AppendProperties
<1>8. down' \in [Page -> Seq(M)]
  BY <1>2, <1>6, <1>7
<1> QED BY <1>3, <1>4, <1>8 DEF M, told

LEMMA RelayQueues ==
  ASSUME IsSetup(setup), Queues, NEW q \in Page, Relay(q)
  PROVE  Queues'
<1> DEFINE c == setup.c
<1>1. /\ setup' = setup /\ deck' = deck /\ moves' = moves /\ strayed' = strayed /\ up[q] # <<>>
  BY DEF Relay
<1>2. /\ setup.c' = c /\ setup \in Setups /\ moves \in 0 .. MaxMoves /\ strayed \subseteq setup.clients
      /\ DOMAIN deck = Page
      /\ \A r \in Page : /\ Idle(c, deck[r])
                         /\ up[r] # <<>> => r \in setup.masters
                         /\ down[r] # <<>> => r \in setup.clients
  BY <1>1 DEF Queues
<1>3. /\ up' \in [Page -> Seq(Message(c))] /\ down' \in [Page -> Seq(Message(c))]
      /\ \A r \in Page \ {q} : up'[r] = up[r]
      /\ \A r \in Page : r \in setup.clients \/ down'[r] = down[r]
  BY Relayed
<1> HIDE DEF c
<1>4. \A r \in Page : /\ up'[r] # <<>> => r \in setup'.masters
                      /\ down'[r] # <<>> => r \in setup'.clients
  BY <1>1, <1>2, <1>3
<1> QED BY <1>1, <1>2, <1>3, <1>4 DEF Queues, c

(* What a page makes of a message.                                          *)
LEMMA Delivered ==
  ASSUME IsSetup(setup), Queues, NEW q \in Page, Deliver(q)
  PROVE  \E e, s :
           /\ q \in setup.clients /\ Same(e, Follow(setup.c, deck[q], Head(down[q])))
           /\ Idle(setup.c, e) /\ deck' = [deck EXCEPT ![q] = e]
           /\ s \in Seq(Message(setup.c)) /\ (q \notin setup.masters => s = <<>>)
           /\ up' = [up EXCEPT ![q] = @ \o s]
           /\ down' \in [Page -> Seq(Message(setup.c))]
           /\ down'[q] = Tail(down[q]) /\ \A r \in Page \ {q} : down'[r] = down[r]
<1> DEFINE c == setup.c
           M == Message(c)
           e == Follow(c, deck[q], Head(down[q]))
           s == Says(q, e, "remote")
<1>1. /\ down[q] # <<>> /\ down' = [down EXCEPT ![q] = Tail(@)]
      /\ deck' = [deck EXCEPT ![q] = Quiet(e)] /\ up' = [up EXCEPT ![q] = @ \o s]
  BY DEF Deliver
<1>2. IsPresentation(c) /\ Idle(c, deck[q]) /\ down \in [Page -> Seq(M)] /\ q \in setup.clients
  BY <1>1 DEF IsSetup, Queues
<1>3. /\ down' \in [Page -> Seq(M)] /\ Head(down[q]) \in M
      /\ down'[q] = Tail(down[q]) /\ \A r \in Page \ {q} : down'[r] = down[r]
  <2> HIDE DEF M
  <2> QED BY <1>1, <1>2, Taken
<1> DEFINE x == Head(down[q])
<1>4. x \in M /\ e = Follow(c, deck[q], x)
  BY <1>3
<1> HIDE DEF x, e, c
<1>5. Spoke(c, e)
  BY <1>2, <1>4, FollowSpoke
<1>6. Idle(c, Quiet(e)) /\ Same(Quiet(e), e)
  BY <1>5, QuietIdle DEF Spoke
<1>7. s \in Seq(M) /\ (q \notin setup.masters => s = <<>>)
  BY <1>2, <1>5, SaysRemote DEF c
<1>8. Same(Quiet(e), Follow(c, deck[q], Head(down[q])))
  BY <1>6 DEF e
<1> QED BY <1>1, <1>2, <1>3, <1>6, <1>7, <1>8 DEF c

LEMMA DeliverQueues ==
  ASSUME IsSetup(setup), Queues, NEW q \in Page, Deliver(q)
  PROVE  Queues'
<1> DEFINE c == setup.c
<1>1. PICK e, s :
        /\ q \in setup.clients
        /\ Idle(c, e) /\ deck' = [deck EXCEPT ![q] = e]
        /\ s \in Seq(Message(c)) /\ (q \notin setup.masters => s = <<>>)
        /\ up' = [up EXCEPT ![q] = @ \o s]
        /\ down' \in [Page -> Seq(Message(c))]
        /\ \A r \in Page \ {q} : down'[r] = down[r]
  BY Delivered
<1>2. setup' = setup /\ moves' = moves /\ strayed' = strayed \ {q}
  BY DEF Deliver
<1>3. /\ setup.c' = c /\ setup \in Setups /\ moves \in 0 .. MaxMoves /\ strayed \subseteq setup.clients
      /\ DOMAIN deck = Page /\ up \in [Page -> Seq(Message(c))]
      /\ \A r \in Page : /\ Idle(c, deck[r])
                         /\ up[r] # <<>> => r \in setup.masters
                         /\ down[r] # <<>> => r \in setup.clients
  BY <1>2 DEF Queues
<1> HIDE DEF c
<1>4. /\ up' \in [Page -> Seq(Message(c))]
      /\ \A r \in Page \ {q} : up'[r] = up[r]
      /\ up'[q] # <<>> => up[q] # <<>> \/ s # <<>>
  BY <1>1, <1>3, Sent
<1>5. DOMAIN deck' = Page /\ \A r \in Page : Idle(c, deck'[r])
  BY <1>1, <1>3
<1>6. \A r \in Page : /\ up'[r] # <<>> => r \in setup'.masters
                      /\ down'[r] # <<>> => r \in setup'.clients
  BY <1>1, <1>2, <1>3, <1>4
<1>7. strayed' \subseteq setup'.clients
  BY <1>2, <1>3
<1> QED BY <1>1, <1>2, <1>3, <1>4, <1>5, <1>6, <1>7 DEF Queues, c

LEMMA ReloadQueues ==
  ASSUME IsSetup(setup), Queues, NEW q \in Page, Reload(q)
  PROVE  Queues'
<1> DEFINE c == setup.c
           e == FreshPage(c)
<1>1. /\ setup' = setup /\ up' = up /\ q \in setup.clients /\ strayed' = strayed \cup {q}
      /\ moves < MaxMoves /\ moves' = moves + 1
      /\ deck' = [deck EXCEPT ![q] = e] /\ down' = [down EXCEPT ![q] = <<>>]
  BY DEF Reload
<1>2. Idle(c, e)
  BY FreshIdle DEF IsSetup
<1>3. /\ setup.c' = c /\ setup \in Setups /\ moves \in 0 .. MaxMoves /\ strayed \subseteq setup.clients
      /\ DOMAIN deck = Page /\ up \in [Page -> Seq(Message(c))] /\ down \in [Page -> Seq(Message(c))]
      /\ \A r \in Page : /\ Idle(c, deck[r])
                         /\ up[r] # <<>> => r \in setup.masters
                         /\ down[r] # <<>> => r \in setup.clients
  BY <1>1 DEF Queues
<1> HIDE DEF c, e
<1>4. <<>> \in Seq(Message(c))
  BY EmptySeq
<1>5. down' \in [Page -> Seq(Message(c))] /\ \A r \in Page : r = q \/ down'[r] = down[r]
  BY <1>1, <1>3, <1>4
<1>6. DOMAIN deck' = Page /\ \A r \in Page : Idle(c, deck'[r])
  BY <1>1, <1>2, <1>3
<1>7. moves' \in 0 .. MaxMoves /\ strayed' \subseteq setup'.clients
  BY <1>1, <1>3, MaxMovesAssumption
<1> QED BY <1>1, <1>3, <1>5, <1>6, <1>7 DEF Queues, c

LEMMA TimerQueues ==
  ASSUME IsSetup(setup), Queues, NEW q \in Page, HomeTimer(q)
  PROVE  Queues'
<1> DEFINE c == setup.c
           e == ResetStacks(c, deck[q])
<1>1. /\ setup' = setup /\ up' = up /\ down' = down /\ strayed' = strayed /\ moves' = moves
      /\ deck' = [deck EXCEPT ![q] = e]
  BY DEF HomeTimer
<1>2. Idle(c, e)
  BY ResetIdle DEF Queues
<1>3. /\ setup.c' = c /\ DOMAIN deck = Page /\ \A r \in Page : Idle(c, deck[r])
  BY <1>1 DEF Queues
<1> HIDE DEF c, e
<1>4. DOMAIN deck' = Page /\ \A r \in Page : Idle(c, deck'[r])
  BY <1>1, <1>2, <1>3
<1>5. /\ setup' \in Setups /\ moves' \in 0 .. MaxMoves /\ strayed' \subseteq setup'.clients
      /\ up' \in [Page -> Seq(Message(setup'.c))] /\ down' \in [Page -> Seq(Message(setup'.c))]
      /\ \A r \in Page : /\ up'[r] # <<>> => r \in setup'.masters
                         /\ down'[r] # <<>> => r \in setup'.clients
  BY <1>1 DEF Queues
<1> QED BY <1>1, <1>3, <1>4, <1>5 DEF Queues, c

(* Every step leaves the pages at rest and the queues in order.             *)
LEMMA QueuesStep ==
  ASSUME IsSetup(setup), Queues, [Next]_vars
  PROVE  Queues'
<1>1. CASE Next
  <2>1. ASSUME NEW q \in Page, Relay(q) \/ Deliver(q) \/ HomeTimer(q) PROVE Queues'
    BY <2>1, RelayQueues, DeliverQueues, TimerQueues
  <2>2. ASSUME NEW q \in Page, NEW dir \in Arrows, Navigate(q, dir) PROVE Queues'
    BY <2>2, NavigateQueues
  <2>3. ASSUME NEW q \in Page, NEW k \in Page, NEW dir \in Arrows, NavigatePopup(q, k, dir)
        PROVE Queues'
    BY <2>3, PopupQueues
  <2>4. ASSUME NEW q \in Page, Reload(q) PROVE Queues'
    BY <2>4, ReloadQueues
  <2> QED BY <1>1, <2>1, <2>2, <2>3, <2>4 DEF Next, Network, User
<1>2. CASE UNCHANGED vars
  BY <1>2 DEF vars, Queues
<1> QED BY <1>1, <1>2

(* The setup is never changed, and is one of the setups.                    *)
THEOREM QueuesAlways == Spec => []Queues
<1>1. Init => Queues
  BY QueuesStart
<1>2. Queues => IsSetup(setup)
  BY SetupsAssumption DEF Queues
<1>3. Queues /\ [Next]_vars => Queues'
  BY <1>2, QueuesStep
<1> QED BY <1>1, <1>3, PTL DEF Spec

(* The type invariant of the pages and the queues: whatever is on its way   *)
(* names a place of the deck, for any presentation and any number of pages. *)
THEOREM TypeCorrect == Spec => []TypeOK
<1>1. Queues => TypeOK
  <2> SUFFICES ASSUME Queues PROVE TypeOK
    OBVIOUS
  <2> DEFINE c == setup.c
  <2>1. IsPresentation(c) /\ setup \in Setups
    BY SetupsAssumption DEF Queues, IsSetup
  <2>2. ASSUME NEW q \in Page
        PROVE  /\ deck[q].cur \in Leaves(c)
               /\ \A i \in DOMAIN up[q] : up[q][i] \in Message(c)
    <3>1. Idle(c, deck[q]) /\ up[q] \in Seq(Message(c))
      BY DEF Queues
    <3> HIDE DEF c
    <3> QED BY <2>1, <3>1, SoundPlace DEF Idle
  <2>3. ASSUME NEW m \in Message(c)
        PROVE  \/ m.by \in {-1, 1}
               \/ m.h \in 0 .. c.n - 1 /\ SlideAt(c, m.h, m.v) \in Leaves(c)
    <3> HIDE DEF c
    <3>1. m.by \in {-1, 1} \/ Placed(c, m.h, m.v)
      BY MessageParts
    <3>2. Placed(c, m.h, m.v) => m.h \in 0 .. c.n - 1 /\ SlideAt(c, m.h, m.v) \in Leaves(c)
      BY <2>1, SlideAtLeaf DEF Placed
    <3> QED BY <3>1, <3>2
  <2> HIDE DEF c
  <2>4. /\ setup \in Setups /\ moves \in 0 .. MaxMoves /\ strayed \subseteq setup.clients
    BY DEF Queues
  <2>5. \A q \in Page :
          /\ deck[q].cur \in Leaves(c)
          /\ \A i \in DOMAIN up[q] :
               \/ up[q][i].by \in {-1, 1}
               \/ up[q][i].h \in 0 .. c.n - 1 /\ SlideAt(c, up[q][i].h, up[q][i].v) \in Leaves(c)
    BY <2>2, <2>3
  <2> QED BY <2>4, <2>5 DEF TypeOK, c
<1> QED BY <1>1, QueuesAlways, PTL

-----------------------------------------------------------------------------
(* The second invariant.  What the server still holds of the one speaker,   *)
(* after what is already sent to a page, brings that page to the speaker.   *)
Trails(m, r) ==
  Behind(setup.c, setup.how, down[r] \o up[m], deck[r], deck[m], r \in strayed)

Following ==
  \A m \in Page : Speakers = {m} =>
    down[m] = <<>> /\ \A r \in setup.clients \ {m} : Trails(m, r)

LEMMA FollowingStart ==
  ASSUME Init
  PROVE  Following
<1>1. IsSetup(setup)
  BY SetupsAssumption DEF Init
<1>2. ASSUME NEW m \in Page, NEW r \in Page
      PROVE  down[m] = <<>> /\ down[r] \o up[m] = <<>> /\ deck[r] = deck[m]
  <2>1. down[m] = <<>> /\ down[r] = <<>> /\ up[m] = <<>> /\ deck[r] = deck[m]
    BY DEF Init
  <2>2. <<>> \o <<>> = <<>>
    OBVIOUS
  <2> QED BY <2>1, <2>2
<1>3. ASSUME NEW m \in Page, NEW r \in Page PROVE Trails(m, r)
  <2>1. down[r] \o up[m] = <<>> /\ Same(deck[r], deck[m])
    BY <1>2, SameEquivalence
  <2> QED BY <2>1, ChainNone DEF Trails, Behind
<1> QED BY <1>1, <1>2, <1>3 DEF Following, IsSetup

(* A step that leaves the speaker, the page and the queues between them.    *)
LEMMA TrailsKept ==
  ASSUME NEW m, NEW r, Trails(m, r), setup' = setup, up'[m] = up[m], down'[r] = down[r],
         Same(deck[r], deck'[r]), Same(deck[m], deck'[m]), r \in strayed' <=> r \in strayed
  PROVE  Trails(m, r)'
<1> DEFINE c == setup.c
           how == setup.how
           Q == down[r] \o up[m]
           a == deck[r]
           b == deck[m]
           k == deck'[r]
           l == deck'[m]
           lost == r \in strayed
<1>1. Behind(c, how, Q, a, b, lost) /\ Same(k, a) /\ Same(b, l)
  BY SameEquivalence DEF Trails
<1>2. Trails(m, r)' <=> Behind(c, how, Q, k, l, r \in strayed')
  BY DEF Trails
<1>3. (r \in strayed') = lost
  OBVIOUS
<1> HIDE DEF c, how, Q, a, b, k, l, lost
<1>4. Behind(c, how, Q, k, l, lost)
  BY <1>1, BehindAlike
<1> QED BY <1>2, <1>3, <1>4

(* What is sent last is read last.                                          *)
LEMMA SentLast ==
  ASSUME NEW M, NEW d \in Seq(M), NEW u \in Seq(M), NEW s \in Seq(M)
  PROVE  d \o u \in Seq(M) /\ d \o (u \o s) = (d \o u) \o s
BY ConcatProperties, ConcatAssociative

(* What is relayed first is read first.                                     *)
LEMMA RelayedFirst ==
  ASSUME NEW M, NEW d \in Seq(M), NEW u \in Seq(M), u # <<>>
  PROVE  Append(d, Head(u)) \o Tail(u) = d \o u
<1> DEFINE x == Head(u)
           t == Tail(u)
<1>1. x \in M /\ t \in Seq(M)
  BY HeadTailProperties
<1>0. u = <<x>> \o t
  <2>1. Len(u) \in Nat \ {0}
    BY EmptySeq
  <2>2. 1 \in 1 .. Len(u) /\ Len(u) \in 1 .. Len(u)
    BY <2>1
  <2>3. SubSeq(u, 1, Len(u)) = <<u[1]>> \o SubSeq(u, 1 + 1, Len(u))
    BY <2>2, SubSeqRecursiveFirst
  <2>4. SubSeq(u, 1, Len(u)) = u
    BY SubSeqFull
  <2>5. x = u[1] /\ t = SubSeq(u, 2, Len(u))
    BY TailIsSubSeq
  <2> QED BY <2>3, <2>4, <2>5
<1> HIDE DEF x, t
<1>2. <<x>> \in Seq(M)
  BY <1>1
<1>3. Append(d, x) = d \o <<x>>
  BY <1>1, AppendIsConcat
<1> DEFINE w == <<x>>
<1>4. w \in Seq(M)
  BY <1>2
<1> HIDE DEF w
<1>5. d \o w \in Seq(M) /\ d \o (w \o t) = (d \o w) \o t
  BY <1>1, <1>4, SentLast
<1>6. u = w \o t /\ Append(d, x) = d \o w
  BY <1>0, <1>3 DEF w
<1>7. Append(d, x) \o t = d \o u
  BY <1>5, <1>6
<1> QED BY <1>7 DEF x, t

(* What was sent first is read first.                                       *)
LEMMA ReadFirst ==
  ASSUME NEW M, NEW d \in Seq(M), d # <<>>, NEW u \in Seq(M)
  PROVE  /\ d \o u \in Seq(M) /\ d \o u # <<>>
         /\ Head(d \o u) = Head(d) /\ Tail(d \o u) = Tail(d) \o u
<1>1. d \o u \in Seq(M) /\ d \o u # <<>>
  BY ConcatProperties, ConcatEqualIffEmpty
<1> DEFINE s == d \o u
           t == Tail(s)
           w == Tail(d) \o u
<1>2. /\ Len(d) \in Nat \ {0} /\ Len(u) \in Nat
      /\ Tail(d) \in Seq(M) /\ Len(Tail(d)) = Len(d) - 1
      /\ \A i \in 1 .. Len(d) - 1 : Tail(d)[i] = d[i + 1]
  BY HeadTailProperties, EmptySeq
<1>3. /\ Len(s) = Len(d) + Len(u)
      /\ \A i \in 1 .. Len(d) + Len(u) : s[i] = IF i <= Len(d) THEN d[i] ELSE u[i - Len(d)]
  BY ConcatProperties
<1>4. /\ w \in Seq(M) /\ Len(w) = Len(d) - 1 + Len(u)
      /\ \A i \in 1 .. Len(d) - 1 + Len(u) :
           w[i] = IF i <= Len(d) - 1 THEN Tail(d)[i] ELSE u[i - (Len(d) - 1)]
  BY <1>2, ConcatProperties
<1> HIDE DEF s
<1>5. s \in Seq(M) /\ s # <<>>
  BY <1>1 DEF s
<1>6. /\ t \in Seq(M) /\ Len(t) = Len(s) - 1
      /\ \A i \in 1 .. Len(s) - 1 : t[i] = s[i + 1]
  BY <1>5, HeadTailProperties
<1>7. Head(s) = s[1] /\ Head(d) = d[1]
  BY <1>5
<1> HIDE DEF t, w
<1>8. s[1] = d[1]
  BY <1>2, <1>3
<1>9. Len(t) = Len(w) /\ Len(t) \in Nat
  BY <1>2, <1>3, <1>4, <1>6
<1>10. ASSUME NEW i \in 1 .. Len(t) PROVE t[i] = w[i]
  <2>1. t[i] = s[i + 1] /\ i + 1 \in 1 .. Len(d) + Len(u) /\ i \in 1 .. Len(d) - 1 + Len(u)
    BY <1>2, <1>3, <1>6
  <2>2. CASE i <= Len(d) - 1
    <3>1. s[i + 1] = d[i + 1] /\ w[i] = Tail(d)[i] /\ i \in 1 .. Len(d) - 1
      BY <1>2, <1>3, <1>4, <2>1, <2>2
    <3> QED BY <1>2, <2>1, <3>1
  <2>3. CASE ~(i <= Len(d) - 1)
    <3>1. s[i + 1] = u[i + 1 - Len(d)] /\ w[i] = u[i - (Len(d) - 1)]
      BY <1>2, <1>3, <1>4, <2>1, <2>3
    <3>2. i + 1 - Len(d) = i - (Len(d) - 1)
      BY <1>2
    <3> QED BY <2>1, <3>1, <3>2
  <2> QED BY <2>2, <2>3
<1>11. t = w
  BY <1>4, <1>6, <1>9, <1>10
<1> QED BY <1>5, <1>7, <1>8, <1>11 DEF s, t, w

LEMMA NavigateFollows ==
  ASSUME IsSetup(setup), Steady(setup), Queues, Following, NEW q \in Page, NEW dir \in Arrows,
         Navigate(q, dir)
  PROVE  Following'
<1> DEFINE c == setup.c
           e == Press(c, deck[q], dir)
           s == Says(q, e, "user")
           M == Message(c)
<1>1. /\ Idle(c, deck[q]) /\ Pressed(c, deck[q], e) /\ Same(Quiet(e), e) /\ s \in Seq(M)
      /\ up \in [Page -> Seq(M)] /\ down \in [Page -> Seq(M)] /\ DOMAIN deck = Page
      /\ setup.clients \subseteq Page
  BY ArrowSays DEF Queues, IsSetup
<1>2. /\ setup' = setup /\ down' = down /\ strayed' = strayed \cup ({q} \cap setup.clients)
      /\ deck' = [deck EXCEPT ![q] = Quiet(e)] /\ up' = [up EXCEPT ![q] = @ \o s]
      /\ q \in setup.masters \/ (setup.how = "multiplex" /\ q \in setup.clients)
  BY DEF Navigate
<1> HIDE DEF e, s, M
<1>3. /\ deck'[q] = Quiet(e) /\ \A k \in Page \ {q} : deck'[k] = deck[k]
      /\ up'[q] = up[q] \o s /\ \A k \in Page \ {q} : up'[k] = up[k]
  BY <1>1, <1>2
<1>4. ASSUME NEW m \in Page, Speakers = {m}
      PROVE  /\ down[m] = <<>> /\ m \in setup.masters
             /\ \A r \in setup.clients \ {m} : Trails(m, r)
  BY <1>4 DEF Following, Speakers
<1>5. ASSUME NEW m \in Page, Speakers = {m}, NEW r \in setup.clients \ {m}
      PROVE  Trails(m, r)'
  <2>1. Trails(m, r) /\ r \in Page /\ m \in setup.masters /\ r # m
    BY <1>1, <1>4, <1>5
  <2>2. CASE q = m
    <3> DEFINE Q == down[r] \o up[m]
               lost == r \in strayed
    <3> DEFINE d == down[r]
               u == up[m]
    <3>0. d \in Seq(M) /\ u \in Seq(M) /\ s \in Seq(M)
      BY <1>1, <2>1
    <3>1. Q \in Seq(M) /\ down[r] \o (up[m] \o s) = Q \o s
      <4> HIDE DEF d, u
      <4>1. d \o u \in Seq(M) /\ d \o (u \o s) = (d \o u) \o s
        BY <3>0, SentLast
      <4> QED BY <4>1 DEF d, u
    <3>2. Behind(c, setup.how, Q, deck[r], deck[m], lost)
      BY <2>1 DEF Trails
    <3>3. /\ deck'[r] = deck[r] /\ deck'[m] = Quiet(e) /\ down'[r] \o up'[m] = Q \o s
          /\ r \in strayed' <=> lost
      <4>1. deck'[r] = deck[r] /\ deck'[m] = Quiet(e)
        BY <1>3, <2>1, <2>2
      <4>2. down'[r] = down[r] /\ up'[m] = up[m] \o s
        BY <1>2, <1>3, <2>2
      <4>3. r \in strayed' <=> r \in strayed
        BY <1>2, <2>1, <2>2
      <4> QED BY <3>1, <4>1, <4>2, <4>3
    <3> HIDE DEF Q, lost
    <3>4. Behind(c, setup.how, Q \o s, deck[r], e, lost)
      BY <1>1, <2>1, <2>2, <3>1, <3>2, BehindSpeaker DEF M, s
    <3> DEFINE R == Q \o s
               l == Quiet(e)
    <3>5. Same(e, l)
      BY <1>1, SameEquivalence
    <3>6. Behind(c, setup.how, R, deck[r], e, lost)
      BY <3>4
    <3> HIDE DEF R, l
    <3>7. Behind(c, setup.how, R, deck[r], l, lost)
      BY <3>5, <3>6, BehindAlike, SameEquivalence
    <3> QED BY <1>2, <3>3, <3>7 DEF Trails, R, l
  <2>3. CASE q = r
    <3>1. setup.how = "multiplex" /\ q \in setup.clients
      BY <1>2, <2>3 DEF IsSetup
    <3>2. r \in strayed' /\ up'[m] = up[m] /\ deck'[m] = deck[m]
      BY <1>2, <1>3, <2>1, <2>3, <3>1
    <3> DEFINE k == deck'[r]
               Q == down[r] \o up[m]
               lost == r \in strayed
    <3>3. Behind(c, setup.how, Q, deck[r], deck[m], lost)
      BY <2>1 DEF Trails
    <3>4. Trails(m, r)' <=> Behind(c, setup.how, Q, k, deck[m], TRUE)
      BY <1>2, <3>2 DEF Trails
    <3> HIDE DEF k, Q, lost
    <3>5. Behind(c, setup.how, Q, k, deck[m], TRUE)
      BY <3>1, <3>3, BehindStray
    <3> QED BY <3>4, <3>5
  <2>4. CASE q # m /\ q # r
    <3>1. /\ up'[m] = up[m] /\ deck'[m] = deck[m] /\ deck'[r] = deck[r] /\ down'[r] = down[r]
          /\ r \in strayed' <=> r \in strayed
      BY <1>2, <1>3, <2>1, <2>4
    <3>2. Same(deck[r], deck'[r]) /\ Same(deck[m], deck'[m])
      BY <3>1, SameEquivalence
    <3> QED BY <1>2, <2>1, <3>1, <3>2, TrailsKept
  <2> QED BY <2>2, <2>3, <2>4
<1>6. Speakers' = Speakers /\ setup'.clients = setup.clients
  BY <1>2 DEF Speakers
<1> QED BY <1>2, <1>4, <1>5, <1>6 DEF Following

LEMMA PopupFollows ==
  ASSUME IsSetup(setup), Steady(setup), Queues, Following, NEW q \in Page, NEW k \in Page,
         NEW dir \in Arrows, NavigatePopup(q, k, dir)
  PROVE  Following'
<1> DEFINE c == setup.c
           how == setup.how
           M == Message(c)
<1>1. PICK e, o :
        /\ Spoke(c, e) /\ (Heard(e) = {} => Same(deck[q], e))
        /\ o = Opener(c, deck[k], e)
        /\ Same(Quiet(e), e) /\ Same(Quiet(o), o)
        /\ Ends(c, o, Post(o))
        /\ deck' = [deck EXCEPT ![q] = Quiet(e), ![k] = Quiet(o)]
        /\ up' = [up EXCEPT ![k] = @ \o Post(o)]
  BY PopupSays
<1> DEFINE s == Post(o)
<1>2. /\ setup' = setup /\ down' = down /\ strayed' = strayed
      /\ how = "popup" /\ q \in setup.clients /\ k \in setup.masters
  BY DEF NavigatePopup
<1>3. q # k /\ setup.clients \subseteq Page /\ IsPresentation(c) /\ c.fragments /\ Ungrouped(c)
  BY <1>2 DEF IsSetup, Steady
<1>4. /\ up \in [Page -> Seq(M)] /\ down \in [Page -> Seq(M)] /\ DOMAIN deck = Page
      /\ Idle(c, deck[k])
  BY DEF Queues
<1>5. Ends(c, o, s) /\ s \in Seq(M)
  BY <1>1 DEF Ends
<1>6. up' = [up EXCEPT ![k] = @ \o s]
  BY <1>1
<1>7. /\ Spoke(c, o) /\ (Heard(o) = {} => Same(deck[k], o))
      /\ Heard(e) = {} => o = deck[k]
      /\ Heard(e) # {} => Same(e, o)
  BY <1>1, <1>3, <1>4, OpenerSpoke
<1> HIDE DEF s, c, how, M
<1>8. /\ deck'[q] = Quiet(e) /\ deck'[k] = Quiet(o) /\ \A r \in Page \ {q, k} : deck'[r] = deck[r]
      /\ up'[k] = up[k] \o s
  BY <1>1, <1>3, <1>4, <1>6
<1>9. ASSUME NEW m \in Page, Speakers = {m}
      PROVE  m = k /\ down[m] = <<>> /\ \A r \in setup.clients \ {m} : Trails(m, r)
  <2>1. m = k
    BY <1>2, <1>9 DEF Steady, Speakers, how
  <2> QED BY <1>9, <2>1 DEF Following
<1>10. ASSUME NEW m \in Page, Speakers = {m}, NEW r \in setup.clients \ {m}
       PROVE  Trails(m, r)'
  <2> DEFINE Q == down[r] \o up[m]
             lost == r \in strayed
  <2>1. Trails(m, r) /\ r \in Page /\ m = k /\ r # m
    BY <1>3, <1>9, <1>10
  <2>2. down[r] \in Seq(M) /\ up[m] \in Seq(M) /\ s \in Seq(M)
    BY <1>4, <1>5, <2>1
  <2>3. Q \in Seq(M) /\ down[r] \o (up[m] \o s) = Q \o s
    <3> DEFINE d == down[r]
               u == up[m]
    <3>1. d \in Seq(M) /\ u \in Seq(M) /\ s \in Seq(M)
      BY <2>2
    <3> HIDE DEF d, u
    <3>2. d \o u \in Seq(M) /\ d \o (u \o s) = (d \o u) \o s
      BY <3>1, SentLast
    <3> QED BY <3>2 DEF d, u
  <2>4. Behind(c, how, Q, deck[r], deck[k], lost)
    BY <2>1 DEF Trails, c, how
  <2>5. down'[r] \o up'[m] = Q \o s
    BY <1>2, <1>8, <2>1, <2>3
  <2>6. Trails(m, r)' <=> Behind(c, how, Q \o s, deck'[r], deck'[k], lost)
    BY <1>2, <2>1, <2>5 DEF Trails, c, how
  <2> HIDE DEF Q, lost
  <2>7. /\ Behind(c, how, Q \o s, deck[r], o, lost)
        /\ \A x : Same(x, o) => Behind(c, how, Q \o s, x, o, lost)
    <3>1. how # "notes" /\ Q \in Seq(Message(c))
      BY <1>2, <2>3 DEF M
    <3> DEFINE b == deck[k]
               a == deck[r]
    <3>2. Behind(c, how, Q, a, b, lost) /\ (Heard(o) = {} => Same(b, o))
      BY <1>7, <2>4
    <3> HIDE DEF a, b
    <3>3. /\ Behind(c, how, Q \o s, a, o, lost)
          /\ \A x : Same(x, o) => Behind(c, how, Q \o s, x, o, lost)
      BY <1>3, <1>5, <1>7, <3>1, <3>2, BehindEnds
    <3> QED BY <3>3 DEF a
  <2> DEFINE R == Q \o s
             l == deck'[k]
             x == deck'[r]
  <2>8. Same(o, l)
    BY <1>1, <1>8, SameEquivalence
  <2>9. Behind(c, how, R, x, o, lost)
    <3>1. CASE r # q
      <4>1. x = deck[r]
        BY <1>8, <2>1, <3>1
      <4> QED BY <2>7, <4>1
    <3>2. CASE r = q /\ Heard(e) # {}
      <4>1. Same(x, o)
        BY <1>1, <1>7, <1>8, <3>2, SameEquivalence
      <4> QED BY <2>7, <4>1
    <3>3. CASE r = q /\ Heard(e) = {}
      <4>1. Same(x, deck[r])
        BY <1>1, <1>8, <3>3, SameEquivalence
      <4> DEFINE a == deck[r]
      <4>2. Same(x, a) /\ Behind(c, how, R, a, o, lost)
        BY <2>7, <4>1
      <4> HIDE DEF a, R, x
      <4> QED BY <4>2, BehindAlike, SameEquivalence
    <3> QED BY <3>1, <3>2, <3>3
  <2> HIDE DEF R, l, x
  <2>10. Behind(c, how, R, x, l, lost)
    BY <2>8, <2>9, BehindAlike, SameEquivalence
  <2> QED BY <2>6, <2>10 DEF R, l, x
<1>11. Speakers' = Speakers /\ setup'.clients = setup.clients /\ down' = down
  BY <1>2 DEF Speakers
<1> QED BY <1>9, <1>10, <1>11 DEF Following

LEMMA RelayFollows ==
  ASSUME IsSetup(setup), Queues, Following, NEW q \in Page, Relay(q)
  PROVE  Following'
<1> DEFINE c == setup.c
           M == Message(c)
<1>1. /\ setup' = setup /\ deck' = deck /\ strayed' = strayed /\ up[q] # <<>>
  BY DEF Relay
<1>2. /\ up \in [Page -> Seq(M)] /\ down \in [Page -> Seq(M)] /\ q \in setup.masters
      /\ setup.clients \subseteq Page
  BY <1>1 DEF Queues, IsSetup
<1>3. /\ up'[q] = Tail(up[q]) /\ \A r \in Page \ {q} : up'[r] = up[r]
      /\ \A r \in Page : down'[r] = IF r \in setup.clients \ {q} /\ q \in setup.trusted
                                    THEN Append(down[r], Head(up[q])) ELSE down[r]
  BY Relayed
<1> HIDE DEF c, M
<1>4. ASSUME NEW m \in Page, Speakers = {m}
      PROVE  /\ down[m] = <<>> /\ \A r \in setup.clients \ {m} : Trails(m, r)
             /\ q \in setup.trusted <=> q = m
  BY <1>2, <1>4 DEF Following, Speakers
<1>5. ASSUME NEW m \in Page, Speakers = {m} PROVE down'[m] = <<>>
  <2>1. m \notin setup.clients \ {q} \/ q \notin setup.trusted
    BY <1>4, <1>5
  <2> QED BY <1>3, <1>4, <1>5, <2>1
<1>6. ASSUME NEW m \in Page, Speakers = {m}, NEW r \in setup.clients \ {m}
      PROVE  Trails(m, r)'
  <2>1. Trails(m, r) /\ r \in Page /\ r # m
    BY <1>2, <1>4, <1>6
  <2>2. CASE q = m
    <3>1. down'[r] = Append(down[r], Head(up[m])) /\ up'[m] = Tail(up[m])
      BY <1>3, <1>4, <1>6, <2>1, <2>2
    <3> DEFINE d == down[r]
               u == up[m]
    <3>2. d \in Seq(M) /\ u \in Seq(M) /\ u # <<>>
      BY <1>1, <1>2, <2>1, <2>2
    <3>3. down'[r] \o up'[m] = Append(d, Head(u)) \o Tail(u)
      BY <3>1
    <3> HIDE DEF d, u
    <3>4. Append(d, Head(u)) \o Tail(u) = d \o u
      BY <3>2, RelayedFirst
    <3>5. down'[r] \o up'[m] = down[r] \o up[m]
      BY <3>3, <3>4 DEF d, u
    <3> QED BY <1>1, <2>1, <3>5 DEF Trails
  <2>3. CASE q # m
    <3>1. /\ up'[m] = up[m] /\ down'[r] = down[r] /\ deck'[r] = deck[r] /\ deck'[m] = deck[m]
          /\ r \in strayed' <=> r \in strayed
      BY <1>1, <1>3, <1>4, <1>6, <2>1, <2>3
    <3>2. Same(deck[r], deck'[r]) /\ Same(deck[m], deck'[m])
      BY <3>1, SameEquivalence
    <3> QED BY <1>1, <2>1, <3>1, <3>2, TrailsKept
  <2> QED BY <2>2, <2>3
<1>7. Speakers' = Speakers /\ setup'.clients = setup.clients
  BY <1>1 DEF Speakers
<1> QED BY <1>5, <1>6, <1>7 DEF Following

LEMMA DeliverFollows ==
  ASSUME IsSetup(setup), Queues, Following, NEW q \in Page, Deliver(q)
  PROVE  Following'
<1> DEFINE c == setup.c
           how == setup.how
           M == Message(c)
<1>1. PICK e, s :
        /\ Same(e, Follow(c, deck[q], Head(down[q])))
        /\ deck' = [deck EXCEPT ![q] = e] /\ up' = [up EXCEPT ![q] = @ \o s]
        /\ down'[q] = Tail(down[q]) /\ \A r \in Page \ {q} : down'[r] = down[r]
  BY Delivered
<1>2. setup' = setup /\ strayed' = strayed \ {q} /\ down[q] # <<>>
  BY DEF Deliver
<1>3. /\ up \in [Page -> Seq(M)] /\ down \in [Page -> Seq(M)] /\ DOMAIN deck = Page
      /\ setup.clients \subseteq Page /\ Idle(c, deck[q])
  BY DEF Queues, IsSetup
<1> HIDE DEF c, how, M
<1>4. /\ deck'[q] = e /\ \A k \in Page \ {q} : deck'[k] = deck[k] /\ up'[k] = up[k]
  BY <1>1, <1>3
<1>5. ASSUME NEW m \in Page, Speakers = {m}
      PROVE  /\ down[m] = <<>> /\ \A r \in setup.clients \ {m} : Trails(m, r)
             /\ q # m /\ down'[m] = <<>>
  <2>1. down[m] = <<>> /\ \A r \in setup.clients \ {m} : Trails(m, r)
    BY <1>5 DEF Following
  <2>2. q # m
    BY <1>2, <2>1
  <2> QED BY <1>1, <2>1, <2>2
<1>6. ASSUME NEW m \in Page, Speakers = {m}, NEW r \in setup.clients \ {m}
      PROVE  Trails(m, r)'
  <2>1. Trails(m, r) /\ r \in Page /\ r # m /\ q # m
    BY <1>3, <1>5, <1>6
  <2>2. CASE q = r
    <3> DEFINE d == down[r]
               u == up[m]
               a == deck[r]
               b == deck[m]
               k == deck'[r]
               lost == r \in strayed
    <3>1. d \in Seq(M) /\ u \in Seq(M) /\ d # <<>> /\ Idle(c, a)
      BY <1>2, <1>3, <2>1, <2>2
    <3>2. Behind(c, how, d \o u, a, b, lost)
      BY <2>1 DEF Trails, c, how
    <3>3. Same(k, Follow(c, a, Head(d)))
      BY <1>1, <1>4, <2>2
    <3>4. /\ down'[r] = Tail(d) /\ up'[m] = u /\ deck'[m] = b /\ r \notin strayed'
      BY <1>1, <1>2, <1>4, <2>1, <2>2
    <3>5. (r \in strayed') = FALSE
      BY <3>4
    <3>6. Trails(m, r)' <=> Behind(c, how, Tail(d) \o u, k, b, FALSE)
      BY <1>2, <3>4, <3>5 DEF Trails, c, how
    <3> HIDE DEF d, u, a, b, k, lost
    <3>7. Behind(c, how, Tail(d) \o u, k, b, FALSE)
      <4> DEFINE Q == d \o u
      <4>1. Q \in Seq(M) /\ Q # <<>> /\ Head(Q) = Head(d) /\ Tail(Q) = Tail(d) \o u
        BY <3>1, ReadFirst
      <4>2. Behind(c, how, Q, a, b, lost)
        BY <3>2
      <4> HIDE DEF Q
      <4>3. Same(k, Follow(c, a, Head(Q)))
        BY <3>3, <4>1
      <4>4. Behind(c, how, Tail(Q), k, b, FALSE)
        BY <3>1, <4>1, <4>2, <4>3, BehindNext
      <4> QED BY <4>1, <4>4
    <3> QED BY <3>6, <3>7
  <2>3. CASE q # r
    <3>1. /\ up'[m] = up[m] /\ down'[r] = down[r] /\ deck'[r] = deck[r] /\ deck'[m] = deck[m]
          /\ r \in strayed' <=> r \in strayed
      BY <1>1, <1>2, <1>4, <2>1, <2>3
    <3>2. Same(deck[r], deck'[r]) /\ Same(deck[m], deck'[m])
      BY <3>1, SameEquivalence
    <3> QED BY <1>2, <2>1, <3>1, <3>2, TrailsKept
  <2> QED BY <2>2, <2>3
<1>7. Speakers' = Speakers /\ setup'.clients = setup.clients
  BY <1>2 DEF Speakers
<1> QED BY <1>5, <1>6, <1>7 DEF Following

LEMMA ReloadFollows ==
  ASSUME IsSetup(setup), Queues, Following, NEW q \in Page, Reload(q)
  PROVE  Following'
<1> DEFINE c == setup.c
           how == setup.how
           M == Message(c)
<1>1. /\ setup' = setup /\ up' = up /\ strayed' = strayed \cup {q} /\ how = "multiplex"
      /\ q \notin setup.masters
      /\ deck' = [deck EXCEPT ![q] = FreshPage(c)] /\ down' = [down EXCEPT ![q] = <<>>]
  BY DEF Reload
<1>2. /\ up \in [Page -> Seq(M)] /\ down \in [Page -> Seq(M)] /\ DOMAIN deck = Page
      /\ setup.clients \subseteq Page
  BY DEF Queues, IsSetup
<1> HIDE DEF c, how, M
<1>3. /\ down'[q] = <<>> /\ \A k \in Page \ {q} : deck'[k] = deck[k] /\ down'[k] = down[k]
  BY <1>1, <1>2
<1>4. ASSUME NEW m \in Page, Speakers = {m}
      PROVE  /\ \A r \in setup.clients \ {m} : Trails(m, r)
             /\ q # m /\ down'[m] = <<>>
  <2>1. down[m] = <<>> /\ \A r \in setup.clients \ {m} : Trails(m, r)
    BY <1>4 DEF Following
  <2>2. q # m
    BY <1>1, <1>4 DEF Speakers
  <2> QED BY <1>3, <2>1, <2>2
<1>5. ASSUME NEW m \in Page, Speakers = {m}, NEW r \in setup.clients \ {m}
      PROVE  Trails(m, r)'
  <2>1. Trails(m, r) /\ r \in Page /\ r # m /\ q # m
    BY <1>2, <1>4, <1>5
  <2>2. CASE q = r
    <3> DEFINE d == down[r]
               u == up[m]
               a == deck[r]
               b == deck[m]
               k == deck'[r]
               lost == r \in strayed
    <3>1. d \in Seq(M) /\ u \in Seq(M)
      BY <1>2, <2>1
    <3>2. Behind(c, how, d \o u, a, b, lost)
      BY <2>1 DEF Trails, c, how
    <3>3. /\ down'[r] = <<>> /\ up'[m] = u /\ deck'[m] = b /\ r \in strayed'
      BY <1>1, <1>3, <2>1, <2>2
    <3>4. (r \in strayed') = TRUE
      BY <3>3
    <3>5. Trails(m, r)' <=> Behind(c, how, <<>> \o u, k, b, TRUE)
      BY <1>1, <3>3, <3>4 DEF Trails, c, how
    <3> HIDE DEF d, u, a, b, k, lost
    <3>6. how # "notes"
      BY <1>1
    <3>7. Behind(c, how, <<>> \o u, k, b, TRUE)
      BY <3>1, <3>2, <3>6, BehindReload
    <3> QED BY <3>5, <3>7
  <2>3. CASE q # r
    <3>1. /\ up'[m] = up[m] /\ down'[r] = down[r] /\ deck'[r] = deck[r] /\ deck'[m] = deck[m]
          /\ r \in strayed' <=> r \in strayed
      BY <1>1, <1>3, <2>1, <2>3
    <3>2. Same(deck[r], deck'[r]) /\ Same(deck[m], deck'[m])
      BY <3>1, SameEquivalence
    <3> QED BY <1>1, <2>1, <3>1, <3>2, TrailsKept
  <2> QED BY <2>2, <2>3
<1>6. Speakers' = Speakers /\ setup'.clients = setup.clients
  BY <1>1 DEF Speakers
<1> QED BY <1>4, <1>5, <1>6 DEF Following

LEMMA TimerFollows ==
  ASSUME IsSetup(setup), Queues, Following, NEW q \in Page, HomeTimer(q)
  PROVE  Following'
<1> DEFINE e == ResetStacks(setup.c, deck[q])
<1>1. /\ setup' = setup /\ up' = up /\ down' = down /\ strayed' = strayed
      /\ deck' = [deck EXCEPT ![q] = e]
  BY DEF HomeTimer
<1>2. /\ DOMAIN deck = Page /\ setup.clients \subseteq Page /\ Same(e, deck[q])
  BY ResetIdle DEF Queues, IsSetup
<1> HIDE DEF e
<1>3. ASSUME NEW k \in Page PROVE Same(deck[k], deck'[k])
  BY <1>1, <1>2, SameEquivalence
<1>4. ASSUME NEW m \in Page, NEW r \in setup.clients, Trails(m, r) PROVE Trails(m, r)'
  <2>1. /\ up'[m] = up[m] /\ down'[r] = down[r] /\ r \in Page
        /\ r \in strayed' <=> r \in strayed
    BY <1>1, <1>2
  <2>2. Same(deck[r], deck'[r]) /\ Same(deck[m], deck'[m])
    BY <1>3, <2>1
  <2> QED BY <1>1, <1>4, <2>1, <2>2, TrailsKept
<1>5. Speakers' = Speakers /\ setup'.clients = setup.clients
  BY <1>1 DEF Speakers
<1> QED BY <1>1, <1>4, <1>5 DEF Following

(* No step of any page leaves another one behind.                           *)
LEMMA FollowingStep ==
  ASSUME IsSetup(setup), Steady(setup), Queues, Following, [Next]_vars
  PROVE  Following'
<1>1. CASE Next
  <2>1. ASSUME NEW q \in Page, Relay(q) \/ Deliver(q) \/ HomeTimer(q) PROVE Following'
    BY <2>1, RelayFollows, DeliverFollows, TimerFollows
  <2>2. ASSUME NEW q \in Page, NEW dir \in Arrows, Navigate(q, dir) PROVE Following'
    BY <2>2, NavigateFollows
  <2>3. ASSUME NEW q \in Page, NEW k \in Page, NEW dir \in Arrows, NavigatePopup(q, k, dir)
        PROVE Following'
    BY <2>3, PopupFollows
  <2>4. ASSUME NEW q \in Page, Reload(q) PROVE Following'
    BY <2>4, ReloadFollows
  <2> QED BY <1>1, <2>1, <2>2, <2>3, <2>4 DEF Next, Network, User
<1>2. CASE UNCHANGED vars
  <2>1. ASSUME NEW m, NEW r PROVE Trails(m, r)' <=> Trails(m, r)
    BY <1>2 DEF vars, Trails
  <2>2. Speakers' = Speakers /\ setup'.clients = setup.clients /\ down' = down
    BY <1>2 DEF vars, Speakers
  <2> QED BY <2>1, <2>2 DEF Following
<1> QED BY <1>1, <1>2

(* "As the master presentation navigates the slides, all client             *)
(* presentations will update": whatever the pages and the network do, a     *)
(* page that has read what one master sent shows the slide and the          *)
(* fragments of that one, if none of its fragments share an index (the      *)
(* notes, which are sent single steps, follow those as well).               *)
THEOREM FollowersFollow ==
  ASSUME \A s \in Setups : Steady(s)
  PROVE  Spec => []FollowersShowMaster
<1>1. Spec => []Queues
  BY QueuesAlways
<1>2. Init => Following
  BY FollowingStart
<1>3. Queues => IsSetup(setup) /\ Steady(setup)
  BY SetupsAssumption DEF Queues
<1>4. Queues /\ Following /\ [Next]_vars => Following'
  BY <1>3, FollowingStep
<1>5. Queues /\ Following => FollowersShowMaster
  <2> SUFFICES ASSUME Queues, Following,
                      NEW m \in Speakers, NEW q \in setup.clients \ Speakers,
                      Speakers = {m}, q \notin strayed, ~OnTheWay(q)
               PROVE  Same(deck[q], deck[m])
    BY DEF FollowersShowMaster
  <2>1. m \in Page /\ q \in setup.clients \ {m}
    BY <1>3 DEF Speakers, IsSetup
  <2>2. Trails(m, q)
    BY <2>1 DEF Following
  <2>3. down[q] = <<>> /\ up[m] = <<>>
    BY DEF OnTheWay
  <2>4. down[q] \o up[m] = <<>>
    BY <2>3
  <2> DEFINE a == deck[q]
             b == deck[m]
  <2>5. Behind(setup.c, setup.how, <<>>, a, b, q \in strayed)
    BY <2>2, <2>4 DEF Trails
  <2> HIDE DEF a, b
  <2>6. Same(a, b)
    BY <2>5, ChainNone DEF Behind
  <2> QED BY <2>6 DEF a, b
<1> QED BY <1>1, <1>2, <1>4, <1>5, PTL DEF Spec

-----------------------------------------------------------------------------
(* The traffic of one speaker runs down.                                    *)

(* One place fewer is on its way, where a place the speaker m still has to  *)
(* say weighs more than any that are said, and those more than what the     *)
(* server will drop; or a page that had to reset its stacks has done so.    *)
Nearer(m) ==
  \/ up[m] # <<>> /\ up'[m] = Tail(up[m])
  \/ /\ up'[m] = up[m]
     /\ \E q \in Page : /\ down[q] # <<>> /\ down'[q] = Tail(down[q])
                        /\ \A r \in Page \ {q} : down'[r] = down[r]
  \/ /\ up'[m] = up[m] /\ down' = down
     /\ \E q \in Page : /\ up[q] # <<>> /\ up'[q] = Tail(up[q])
                        /\ \A r \in Page \ {q} : up'[r] = up[r]
  \/ /\ up' = up /\ down' = down
     /\ \E q \in Page : /\ deck[q].home /\ ~deck'[q].home
                        /\ \A r \in Page \ {q} : deck'[r] = deck[r]

SilenceStep == \A m \in Page : Speakers = {m} /\ Network => Nearer(m)

(* A page whose secret nobody else has is told nothing.                     *)
Unheard == \A m \in Page : Speakers = {m} => down[m] = <<>>

LEMMA RelayHeard ==
  ASSUME IsSetup(setup), Queues, NEW m \in Page, Speakers = {m}, NEW q \in Page, q # m, Relay(q)
  PROVE  \A r \in Page : down'[r] = down[r]
<1>1. up[q] # <<>> /\ (up[q] # <<>> => q \in setup.masters)
  BY DEF Relay, Queues
<1>2. q \notin setup.trusted
  BY <1>1 DEF Speakers
<1> QED BY <1>2, Relayed

LEMMA UnheardStep ==
  ASSUME IsSetup(setup), Queues, Unheard, [Next]_vars
  PROVE  Unheard'
<1> SUFFICES ASSUME NEW m \in Page, Speakers' = {m}
             PROVE  down'[m] = <<>>
  BY DEF Unheard
<1>1. setup' = setup
  BY DEF Next, Network, User, Navigate, NavigatePopup, Relay, Deliver, Reload, HomeTimer, vars
<1>2. Speakers = {m} /\ down[m] = <<>>
  BY <1>1 DEF Unheard, Speakers
<1>3. ASSUME NEW q \in Page, Relay(q) PROVE down'[m] = <<>>
  <2>1. CASE q = m
    BY <1>2, <1>3, <2>1, Relayed
  <2>2. CASE q # m
    BY <1>2, <1>3, <2>2, RelayHeard
  <2> QED BY <2>1, <2>2
<1>4. ASSUME NEW q \in Page, Deliver(q) PROVE down'[m] = <<>>
  <2>1. q # m
    BY <1>2, <1>4 DEF Deliver
  <2> QED BY <1>2, <1>4, <2>1, Delivered
<1>5. ASSUME NEW q \in Page, Reload(q) PROVE down'[m] = <<>>
  BY <1>2, <1>5 DEF Reload, Queues
<1>6. CASE UNCHANGED down
  BY <1>2, <1>6
<1> QED
  BY <1>3, <1>4, <1>5, <1>6 DEF Next, Network, User, Navigate, NavigatePopup, HomeTimer, vars

LEMMA SilenceNears ==
  ASSUME IsSetup(setup), Queues, Unheard, Network
  PROVE  SilenceStep
<1> SUFFICES ASSUME NEW m \in Page, Speakers = {m}
             PROVE  Nearer(m)
  BY DEF SilenceStep
<1>1. ASSUME NEW q \in Page, Relay(q) PROVE Nearer(m)
  <2>1. up[q] # <<>> /\ up'[q] = Tail(up[q]) /\ \A r \in Page \ {q} : up'[r] = up[r]
    BY <1>1, Relayed DEF Relay
  <2>2. CASE q = m
    BY <2>1, <2>2 DEF Nearer
  <2>3. CASE q # m
    <3>1. \A r \in Page : down'[r] = down[r]
      BY <1>1, <2>3, RelayHeard
    <3>2. /\ down \in [Page -> Seq(Message(setup.c))]
          /\ down' \in [Page -> Seq(Message(setup.c))]
      BY <1>1, Relayed DEF Queues
    <3>3. down' = down
      BY <3>1, <3>2
    <3> QED BY <2>1, <2>3, <3>3 DEF Nearer
  <2> QED BY <2>2, <2>3
<1>2. ASSUME NEW q \in Page, Deliver(q) PROVE Nearer(m)
  <2>1. down[q] # <<>> /\ q # m
    BY <1>2 DEF Deliver, Unheard
  <2>2. PICK s : up' = [up EXCEPT ![q] = @ \o s]
    BY <1>2 DEF Deliver
  <2>3. up'[m] = up[m]
    BY <2>1, <2>2 DEF Queues
  <2>4. down'[q] = Tail(down[q]) /\ \A r \in Page \ {q} : down'[r] = down[r]
    BY <1>2, Delivered
  <2> QED BY <2>1, <2>3, <2>4 DEF Nearer
<1>3. ASSUME NEW q \in Page, HomeTimer(q) PROVE Nearer(m)
  <2>1. /\ deck[q].home /\ up' = up /\ down' = down
        /\ deck' = [deck EXCEPT ![q] = ResetStacks(setup.c, deck[q])]
    BY <1>3 DEF HomeTimer
  <2>2. DOMAIN deck = Page /\ HasFields(deck[q])
    BY DEF Queues, Idle, Sound, Base
  <2>3. ~ResetStacks(setup.c, deck[q]).home
    BY <2>2 DEF ResetStacks, HasFields, Fields
  <2>4. ~deck'[q].home /\ \A r \in Page \ {q} : deck'[r] = deck[r]
    BY <2>1, <2>2, <2>3
  <2> QED BY <2>1, <2>4 DEF Nearer
<1> QED BY <1>1, <1>2, <1>3 DEF Network

(* With one page that has the secret, every step of the network, in any     *)
(* order and to any number of pages, brings it nearer to silence: what a    *)
(* page says because it was told either ends at the server or never reaches *)
(* the one that speaks.                                                     *)
THEOREM TrafficRunsDown == Spec => [][SilenceStep]_vars
<1>1. Init => Unheard
  BY DEF Init, Unheard
<1>2. Queues => IsSetup(setup)
  BY SetupsAssumption DEF Queues
<1>3. Queues /\ Unheard /\ [Next]_vars => Unheard'
  BY <1>2, UnheardStep
<1>4. Queues /\ Unheard /\ [Next]_vars => [SilenceStep]_vars
  <2>1. ~Network => SilenceStep
    BY DEF SilenceStep
  <2> QED BY <1>2, <2>1, SilenceNears
<1> QED BY <1>1, <1>3, <1>4, QueuesAlways, PTL DEF Spec
=============================================================================
