---------------------------- MODULE RevealProofs ----------------------------
(***************************************************************************)
(* Theorems about Reveal, for any set of presentations: every invariant    *)
(* of the page.  First the timeouts (Inv): whatever is asked for, either   *)
(* slide() ran to its end, or we are where we were.  Then the deck itself   *)
(* (Page): every handler leaves it Sound, and an address that has been     *)
(* handled names the slide we are on; what the deck then shows, and what   *)
(* its arrows do, is in SlidesProofs.                                      *)
(***************************************************************************)
EXTENDS Reveal, SlidesProofs

Events == {"url", "slidechanged", "fragmentshown", "fragmenthidden"}

IsDeck(e) == Fields \subseteq DOMAIN e /\ e.events \in Seq(Events)

(* g is what a handler makes of deck e.                                     *)
Follows(e, g) ==
  /\ IsDeck(g)
  /\ g.overview = e.overview
  /\ Slid(g) \/ g.cur = e.cur

-----------------------------------------------------------------------------
(* The events of a deck stay a sequence, however many are added.            *)
LEMMA OneOrNone ==
  ASSUME NEW S, NEW test, NEW event \in S
  PROVE  (IF test THEN <<event>> ELSE <<>>) \in Seq(S)
<1>1. CASE test   BY <1>1
<1>2. CASE ~test  BY <1>2
<1> QED BY <1>1, <1>2

LEMMA OneMore ==
  ASSUME NEW S, NEW s \in Seq(S), NEW event \in S
  PROVE  /\ s \o <<event>> \in Seq(S)
         /\ \E i \in DOMAIN (s \o <<event>>) : (s \o <<event>>)[i] = event
<1>1. /\ s \o <<event>> \in Seq(S)
      /\ Len(s) + 1 \in DOMAIN (s \o <<event>>)
      /\ (s \o <<event>>)[Len(s) + 1] = event
  OBVIOUS
<1> QED BY <1>1

LEMMA Longer ==
  ASSUME NEW S, NEW s \in Seq(S), NEW t \in Seq(S)
  PROVE  s \o t \in Seq(S)
OBVIOUS

(* The fragments of a slide do not move us.                                 *)
LEMMA SortKeeps ==
  ASSUME NEW e, IsDeck(e), NEW l, NEW S
  PROVE  LET g == SortFragments(e, l, S)
         IN IsDeck(g) /\ g.overview = e.overview /\ g.cur = e.cur /\ g.events = e.events
BY DEF SortFragments, IsDeck, Fields

LEMMA ShowKeeps ==
  ASSUME NEW e, IsDeck(e), NEW index
  PROVE  LET g == ShowUpTo(e, index)
         IN IsDeck(g) /\ g.overview = e.overview /\ g.cur = e.cur
<1> DEFINE l == e.cur
           on == {i \in DOMAIN e.attr[l] : e.attr[l][i] <= index}
           off == IF e.vis[l] \ on # {} THEN <<"fragmenthidden">> ELSE <<>>
           new == IF on \ e.vis[l] # {} THEN <<"fragmentshown">> ELSE <<>>
           marked == {i \in on : e.attr[l][i] = index}
           seen == [[e EXCEPT !.vis[l] = on] EXCEPT !.mark[l] = marked]
<1>1. off \in Seq(Events) /\ new \in Seq(Events)
  <2>1. "fragmenthidden" \in Events /\ "fragmentshown" \in Events
    BY DEF Events
  <2> QED BY <2>1, OneOrNone
<1>2. ShowUpTo(e, index) = [seen EXCEPT !.events = @ \o off \o new]
  BY DEF ShowUpTo
<1> HIDE DEF on, off, new, marked
<1>3. IsDeck(seen) /\ seen.overview = e.overview /\ seen.cur = e.cur
  BY DEF IsDeck, Fields
<1> HIDE DEF seen
<1>4. seen.events \o off \o new \in Seq(Events)
  <2>1. seen.events \in Seq(Events)
    BY <1>3 DEF IsDeck
  <2> QED BY <1>1, <2>1, Longer
<1> QED BY <1>2, <1>3, <1>4 DEF IsDeck, Fields

LEMMA StepKeeps ==
  ASSUME NEW p, NEW e, IsDeck(e), NEW by
  PROVE  LET g == StepFragment(p, e, by)
         IN IsDeck(g) /\ g.overview = e.overview /\ g.cur = e.cur
BY SortKeeps, ShowKeeps DEF StepFragment

LEMMA NavigateFragmentKeeps ==
  ASSUME NEW p, NEW e, IsDeck(e), NEW index
  PROVE  LET g == NavigateFragment(p, e, index)
         IN IsDeck(g) /\ g.overview = e.overview /\ g.cur = e.cur
BY SortKeeps, ShowKeeps DEF NavigateFragment

LEMMA UpdateKeeps ==
  ASSUME NEW p, NEW e, IsDeck(e), NEW dim, NEW row, NEW at
  PROVE  LET g == UpdateSlides(p, e, dim, row, at)
         IN IsDeck(g) /\ g.overview = e.overview
BY DEF UpdateSlides, IsDeck, Fields

LEMMA LeaveSlides ==
  ASSUME NEW e, IsDeck(e), NEW from, NEW changed \in BOOLEAN
  PROVE  LET g == Leave(from, e, changed)
         IN IsDeck(g) /\ g.overview = e.overview /\ Slid(g)
<1> DEFINE one == IF changed THEN <<"slidechanged">> ELSE <<>>
           told == e.events \o one
           home == e.home \/ (changed /\ from # None /\ e.h = 0)
           classes == [s \in DOMAIN e.cls |-> IF changed /\ s = from /\ e.cls[s] = "present"
                                              THEN "none" ELSE e.cls[s]]
           seen == [[[e EXCEPT !.prev = IF changed THEN from ELSE None]
                        EXCEPT !.cls = classes] EXCEPT !.home = home]
<1>1. told \in Seq(Events)
  <2>1. "slidechanged" \in Events
    BY DEF Events
  <2>2. one \in Seq(Events)
    BY <2>1, OneOrNone
  <2>3. e.events \in Seq(Events)
    BY DEF IsDeck
  <2> HIDE DEF one
  <2> QED BY <2>2, <2>3, Longer
<1>2. /\ told \o <<"url">> \in Seq(Events)
      /\ \E i \in DOMAIN (told \o <<"url">>) : (told \o <<"url">>)[i] = "url"
  <2> HIDE DEF told
  <2>1. "url" \in Events
    BY DEF Events
  <2> QED BY <1>1, <2>1, OneMore
<1>3. Leave(from, e, changed) = [seen EXCEPT !.events = told \o <<"url">>]
  BY DEF Leave, IsDeck, Fields
<1> HIDE DEF classes, home, told
<1>4. IsDeck(seen) /\ seen.overview = e.overview
  BY DEF IsDeck, Fields
<1> HIDE DEF seen
<1> QED BY <1>2, <1>3, <1>4 DEF IsDeck, Fields, Slid

(* slide() always comes to its end.                                         *)
LEMMA SlideFollows ==
  ASSUME NEW p, NEW e, IsDeck(e), NEW h, NEW v, NEW f
  PROVE  Follows(e, Slide(p, e, h, v, f)) /\ Slid(Slide(p, e, h, v, f))
<1> DEFINE goal == IF v = Undef THEN Remembered(p, e, h) ELSE v
           kept == IF e.cur # None /\ IsVerticalSlide(e.cur)
                   THEN [e EXCEPT !.mem[e.cur[1]] = e.v] ELSE e
           x == Bounded(p, h, p.n)
           y == Bounded(p, goal, p.verticals[x])
           across == UpdateSlides(p, kept, 1, x, x)
           turned == UpdateSlides(p, across, 2, x, y)
           there == [turned EXCEPT !.h = x, !.v = y, !.cur = SlideAt(p, x, y)]
           seen == [there EXCEPT !.shown = Shown(p, there)]
           done == IF f = Undef THEN seen ELSE NavigateFragment(p, seen, f)
<1>1. IsDeck(kept) /\ kept.overview = e.overview
  BY DEF IsDeck, Fields
<1>2. IsDeck(turned) /\ turned.overview = e.overview
  <2> HIDE DEF kept, x, y
  <2> QED BY <1>1, UpdateKeeps
<1>3. IsDeck(seen) /\ seen.overview = e.overview
  <2> HIDE DEF turned, x, y
  <2>1. IsDeck(there) /\ there.overview = e.overview
    BY <1>2 DEF IsDeck, Fields
  <2> HIDE DEF there
  <2> QED BY <2>1 DEF IsDeck, Fields
<1>4. IsDeck(done) /\ done.overview = e.overview
  <2> HIDE DEF seen
  <2> QED BY <1>3, NavigateFragmentKeeps
<1>5. Slide(p, e, h, v, f) = Leave(e.cur, done, x # e.h \/ y # e.v)
  BY DEF Slide
<1> HIDE DEF done, x, y
<1> QED BY <1>4, <1>5, LeaveSlides DEF Follows

-----------------------------------------------------------------------------
(* Where the handlers go.  A step that ends in slide() follows, and so does *)
(* one that only tries a fragment.                                          *)
LEMMA TryFollows ==
  ASSUME NEW p, NEW e, IsDeck(e), NEW by
  PROVE  /\ IsDeck(Try(p, e, by)) /\ Try(p, e, by).overview = e.overview
         /\ Try(p, e, by).cur = e.cur
BY StepKeeps DEF Try

LEMMA SlideAfter ==
  ASSUME NEW p, NEW e, NEW g, IsDeck(g), g.overview = e.overview, NEW h, NEW v, NEW f
  PROVE  Follows(e, Slide(p, g, h, v, f))
BY SlideFollows DEF Follows

LEMMA SidewaysFollows ==
  ASSUME NEW p, NEW e, IsDeck(e)
  PROVE  Follows(e, NavigateLeft(p, e)) /\ Follows(e, NavigateRight(p, e))
<1> DEFINE Side(by, route) ==
             LET g == Try(p, e, by)
             IN IF ~FragmentMoved(e, g) /\ route THEN Slide(p, g, e.h + by, Undef, Undef) ELSE g
<1>1. ASSUME NEW by, NEW route PROVE Follows(e, Side(by, route))
  BY TryFollows, SlideAfter DEF Follows
<1>2. NavigateLeft(p, e) = Side(IF p.rtl THEN 1 ELSE -1, AvailableRoutes(p, e).left)
  BY DEF NavigateLeft
<1>3. NavigateRight(p, e) = Side(IF p.rtl THEN -1 ELSE 1, AvailableRoutes(p, e).right)
  BY DEF NavigateRight
<1> HIDE DEF Side
<1> QED BY <1>1, <1>2, <1>3

LEMMA UpDownFollows ==
  ASSUME NEW p, NEW e, IsDeck(e)
  PROVE  Follows(e, NavigateUp(p, e)) /\ Follows(e, NavigateDown(p, e))
<1>1. Follows(e, NavigateUp(p, e))
  BY TryFollows, SlideAfter DEF Follows, NavigateUp
<1>2. Follows(e, NavigateDown(p, e))
  BY TryFollows, SlideAfter DEF Follows, NavigateDown
<1> QED BY <1>1, <1>2

(* Following what only moved fragments is following from where we were.     *)
LEMMA FollowsOn ==
  ASSUME NEW e, NEW g, g.overview = e.overview, g.cur = e.cur, NEW k, Follows(g, k)
  PROVE  Follows(e, k)
BY DEF Follows

LEMMA NavigateNextFollows ==
  ASSUME NEW p, NEW e, IsDeck(e)
  PROVE  Follows(e, NavigateNext(p, e))
<1> DEFINE g == StepFragment(p, e, 1)
<1>1. IsDeck(g) /\ g.overview = e.overview /\ g.cur = e.cur
  BY StepKeeps
<1>2. NavigateNext(p, e) \in {g, NavigateDown(p, g), NavigateRight(p, g)}
  BY DEF NavigateNext
<1> HIDE DEF g
<1>3. Follows(g, NavigateDown(p, g)) /\ Follows(g, NavigateRight(p, g)) /\ Follows(g, g)
  BY <1>1, SidewaysFollows, UpDownFollows DEF Follows
<1> QED BY <1>1, <1>2, <1>3, FollowsOn

LEMMA NavigatePrevFollows ==
  ASSUME NEW p, NEW e, IsDeck(e)
  PROVE  Follows(e, NavigatePrev(p, e))
<1> DEFINE g == StepFragment(p, e, -1)
           last == p.verticals[e.h - 1] - 1
           back == Slide(p, g, e.h - 1, IF last = 0 THEN Undef ELSE last, Undef)
<1>1. IsDeck(g) /\ g.overview = e.overview /\ g.cur = e.cur
  BY StepKeeps
<1>2. NavigatePrev(p, e) \in {g, NavigateUp(p, g), back}
  BY DEF NavigatePrev
<1>3. Follows(e, back)
  <2> HIDE DEF g, last
  <2> QED BY <1>1, SlideAfter
<1> HIDE DEF g, back
<1>4. Follows(g, NavigateUp(p, g)) /\ Follows(g, g)
  BY <1>1, UpDownFollows DEF Follows
<1> QED BY <1>1, <1>2, <1>3, <1>4, FollowsOn

LEMMA PressFollows ==
  ASSUME NEW p, NEW e, IsDeck(e), NEW dir \in Directions
  PROVE  Follows(e, Press(p, e, dir))
<1>1. CASE dir = "left"   BY <1>1, SidewaysFollows DEF Press
<1>2. CASE dir = "right"  BY <1>2, SidewaysFollows DEF Press
<1>3. CASE dir = "up"     BY <1>3, UpDownFollows DEF Press
<1>4. CASE dir = "down"   BY <1>4, UpDownFollows DEF Press
<1>5. CASE dir = "prev"   BY <1>5, NavigatePrevFollows DEF Press
<1>6. CASE dir = "next"   BY <1>6, NavigateNextFollows DEF Press
<1> QED BY <1>1, <1>2, <1>3, <1>4, <1>5, <1>6 DEF Directions

LEMMA ReadURLFollows ==
  ASSUME NEW p, NEW e, IsDeck(e), NEW url
  PROVE  Follows(e, ReadURL(p, e, url))
<1>1. Follows(e, e)
  BY DEF Follows
<1>2. \A h, v, f : Follows(e, Slide(p, e, h, v, f))
  BY SlideFollows
<1> QED BY <1>1, <1>2 DEF ReadURL

(* sync() and the task of the home slide do not move us either.             *)
LEMMA SortAllKeeps ==
  ASSUME NEW p, NEW e, IsDeck(e)
  PROVE  LET g == SortAllFragments(p, e)
         IN IsDeck(g) /\ g.overview = e.overview /\ g.cur = e.cur
BY DEF SortAllFragments, IsDeck, Fields

LEMMA ResetKeeps ==
  ASSUME NEW p, NEW e, IsDeck(e)
  PROVE  LET g == ResetStacks(p, e)
         IN IsDeck(g) /\ g.overview = e.overview /\ g.cur = e.cur
BY DEF ResetStacks, IsDeck, Fields

LEMMA ForgetEvents ==
  ASSUME NEW e, IsDeck(e)
  PROVE  LET g == [e EXCEPT !.events = <<>>]
         IN IsDeck(g) /\ g.overview = e.overview /\ g.cur = e.cur
BY DEF IsDeck, Fields

LEMMA OverviewSet ==
  ASSUME NEW e, IsDeck(e), NEW on
  PROVE  LET g == [e EXCEPT !.overview = on]
         IN IsDeck(g) /\ g.overview = on /\ g.cur = e.cur
BY DEF IsDeck, Fields

-----------------------------------------------------------------------------
(* Whether to cue depends on where we are and on the overview alone.        *)
LEMMA ReadySame ==
  ASSUME NEW p, NEW e, NEW g, g.cur = e.cur, g.overview = e.overview,
         NEW isPaused, NEW isStopped
  PROVE  Ready(p, g, isPaused, isStopped) = Ready(p, e, isPaused, isStopped)
BY DEF Ready, AutoSlideOf, IsLastSlide

Inv ==
  /\ IsDeck(d)
  /\ paused \in BOOLEAN /\ armed \in BOOLEAN /\ stopped \in BOOLEAN
  /\ zoomable \in BOOLEAN /\ clickable \in BOOLEAN
  /\ AutoSlideExact
  /\ OverviewLeavesNothing

(* What the auto-slide half of the invariant says.                          *)
Exact ==
  /\ IsDeck(d)
  /\ paused \in BOOLEAN /\ armed \in BOOLEAN /\ stopped \in BOOLEAN
  /\ AutoSlideExact
Tidy == zoomable \in BOOLEAN /\ clickable \in BOOLEAN /\ OverviewLeavesNothing

(* cueAutoSlide() makes the timeout what it should be.                      *)
LEMMA CueExact ==
  ASSUME NEW p, NEW e, NEW g, IsDeck(g), g.cur = e.cur, g.overview = e.overview,
         d' = g, c' = p, paused' \in BOOLEAN, stopped' \in BOOLEAN,
         CueAutoSlide(p, e, paused', stopped')
  PROVE  Exact'
<1>1. Ready(c', d', paused', stopped') = Ready(p, e, paused', stopped')
  BY ReadySame
<1>2. Ready(p, e, paused', stopped') \in BOOLEAN
  BY DEF Ready
<1>3. armed' = Ready(p, e, paused', stopped') /\ (armed' => player' # "idle")
  BY DEF CueAutoSlide
<1> QED BY <1>1, <1>2, <1>3 DEF Exact, AutoSlideExact

(* Settle() keeps it exact: a handler that does not cue has not moved, and  *)
(* has stopped the timeout if it stops the auto-slide.                      *)
LEMMA SettleExact ==
  ASSUME Exact, NEW g, IsDeck(g), NEW user \in BOOLEAN, NEW cue \in BOOLEAN,
         Slid(g) \/ cue \/ (g.cur = d.cur /\ g.overview = d.overview),
         Settle(g, user, cue), UNCHANGED <<c, paused>>
  PROVE  Exact' /\ d'.overview = g.overview
<1> DEFINE stops == user /\ c.stoppable
           e == [g EXCEPT !.events = <<>>]
<1>1. d' = e /\ IsDeck(e) /\ e.overview = g.overview /\ e.cur = g.cur
  BY ForgetEvents DEF Settle
<1>2. stopped' = (stopped \/ stops) /\ stopped' \in BOOLEAN /\ paused' \in BOOLEAN
  BY DEF Settle, Exact
<1>3. CASE Slid(g) \/ cue
  <2>1. CueAutoSlide(c, g, paused', stopped')
    BY <1>2, <1>3 DEF Settle
  <2> HIDE DEF e
  <2> QED BY <1>1, <1>2, <2>1, CueExact
<1>4. CASE ~(Slid(g) \/ cue)
  <2>1. /\ armed' = (armed /\ ~stops)
        /\ player' = IF stops /\ player = "playing" THEN "idle" ELSE player
    BY <1>4 DEF Settle
  <2>2. g.cur = d.cur /\ g.overview = d.overview
    BY <1>4
  <2> HIDE DEF e
  <2>3. Ready(c', d', paused', stopped') = Ready(c, d, paused, stopped \/ stops)
    BY <1>1, <1>2, <2>2, ReadySame
  <2>4. Ready(c, d, paused, stopped \/ stops) <=> Ready(c, d, paused, stopped) /\ ~stops
    BY DEF Ready
  <2>5. armed' <=> Ready(c', d', paused', stopped')
    BY <2>1, <2>3, <2>4 DEF Exact, AutoSlideExact
  <2>6. armed' => player' # "idle"
    BY <2>1 DEF Exact, AutoSlideExact
  <2>7. armed' \in BOOLEAN
    BY <2>1 DEF Exact
  <2> QED BY <1>1, <1>2, <2>5, <2>6, <2>7 DEF Exact, AutoSlideExact
<1> QED BY <1>3, <1>4

(* A handler that navigates, wherever it goes.                              *)
LEMMA MovesKeeps ==
  ASSUME Inv, NEW g, Follows(d, g), NEW user \in BOOLEAN, NEW cue \in BOOLEAN,
         Moves(g, user, cue)
  PROVE  Inv'
<1>1. Exact' /\ d'.overview = g.overview
  BY SettleExact DEF Moves, Inv, Exact, Follows
<1>2. Tidy'
  BY <1>1 DEF Moves, Reposition, Tidy, Inv, Follows, OverviewLeavesNothing
<1> QED BY <1>1, <1>2 DEF Inv, Exact, Tidy

(* Leaving the overview, for good.                                          *)
LEMMA DeactivateSlides ==
  ASSUME IsDeck(d)
  PROVE  IsDeck(DeactivateOverview) /\ ~DeactivateOverview.overview /\ Slid(DeactivateOverview)
<1> DEFINE g == [d EXCEPT !.overview = FALSE]
<1>1. IsDeck(g) /\ g.overview = FALSE
  BY OverviewSet
<1>2. DeactivateOverview = Slide(c, g, d.h, d.v, Undef)
  BY DEF DeactivateOverview
<1> HIDE DEF g
<1>3. LET s == Slide(c, g, d.h, d.v, Undef) IN IsDeck(s) /\ s.overview = FALSE /\ Slid(s)
  BY <1>1, SlideFollows DEF Follows
<1> QED BY <1>2, <1>3

LEMMA ClosesKeeps ==
  ASSUME Inv, NEW g, IsDeck(g), ~g.overview, Slid(g), NEW user \in BOOLEAN,
         NEW cue \in BOOLEAN, Settle(g, user, cue), Closes, UNCHANGED <<c, paused>>
  PROVE  Inv'
<1>1. Exact' /\ d'.overview = g.overview
  BY SettleExact DEF Inv, Exact
<1>2. Tidy'
  BY <1>1 DEF Closes, Tidy, OverviewLeavesNothing
<1> QED BY <1>1, <1>2 DEF Inv, Exact, Tidy

(* Opening it: there is nothing to cue then.                                *)
LEMMA OpensKeeps ==
  ASSUME Inv, d' = ActivateOverview, Opens, armed' = FALSE, stopped' \in BOOLEAN,
         UNCHANGED <<c, paused>>
  PROVE  Inv'
<1>1. IsDeck(d') /\ d'.overview = TRUE
  BY OverviewSet DEF ActivateOverview, Inv
<1>2. ~Ready(c', d', paused', stopped')
  BY <1>1 DEF Ready
<1> QED BY <1>1, <1>2 DEF Opens, Inv, AutoSlideExact, OverviewLeavesNothing

-----------------------------------------------------------------------------
(* A page starts with the invariant.                                        *)
LEMMA InitInv == ASSUME Init PROVE Inv
<1> DEFINE fresh == SortAllFragments(c, FreshDeck(c))
           e == ReadURL(c, fresh, c.start)
<1>1. IsDeck(FreshDeck(c)) /\ FreshDeck(c).overview = FALSE
  BY DEF FreshDeck, IsDeck, Fields
<1>2. IsDeck(fresh) /\ fresh.overview = FALSE
  BY <1>1, SortAllKeeps
<1>3. IsDeck(e) /\ e.overview = FALSE
  <2> HIDE DEF fresh
  <2> QED BY <1>2, ReadURLFollows DEF Follows
<1>4. /\ d = [e EXCEPT !.events = <<>>]
      /\ armed = Ready(c, e, FALSE, FALSE)
      /\ player = IF ~HasPlayer(c) THEN "none"
                  ELSE IF Ready(c, e, FALSE, FALSE) THEN "playing" ELSE "idle"
      /\ paused = FALSE /\ stopped = FALSE
      /\ ovTimer = "none" /\ clickable = FALSE /\ zoomable = TRUE
  BY DEF Init
<1> HIDE DEF e
<1>5. IsDeck(d) /\ d.cur = e.cur /\ d.overview = e.overview
  BY <1>3, <1>4, ForgetEvents
<1>6. Ready(c, d, FALSE, FALSE) = Ready(c, e, FALSE, FALSE)
  BY <1>5 DEF Ready, AutoSlideOf, IsLastSlide
<1>7. Ready(c, e, FALSE, FALSE) \in BOOLEAN
  BY DEF Ready
<1> QED BY <1>4, <1>5, <1>6, <1>7 DEF Inv, AutoSlideExact, OverviewLeavesNothing

(* A step that touches none of what the invariant is about.                 *)
LEMMA ElsewhereKeeps ==
  ASSUME Inv, UNCHANGED <<c, d, paused, autoVars, gridVars>>
  PROVE  Inv'
<1>1. /\ c' = c /\ d' = d /\ paused' = paused /\ armed' = armed /\ stopped' = stopped
      /\ player' = player /\ ovTimer' = ovTimer /\ clickable' = clickable
      /\ zoomable' = zoomable
  BY DEF autoVars, gridVars
<1>2. IsDeck(d') /\ Ready(c', d', paused', stopped') = Ready(c, d, paused, stopped)
  BY <1>1 DEF Inv
<1> QED BY <1>1, <1>2 DEF Inv, AutoSlideExact, OverviewLeavesNothing

LEMMA StayFollows == ASSUME IsDeck(d) PROVE Follows(d, d)
BY DEF Follows

(* The keyboard.                                                            *)
LEMMA KeyIgnoredKeeps == ASSUME Inv, KeyIgnored PROVE Inv'
<1>1. Moves(d, TRUE, FALSE)
  BY DEF KeyIgnored, Moves
<1> QED BY <1>1, StayFollows, MovesKeeps DEF Inv

LEMMA KeyMovesKeeps == ASSUME Inv, NEW k, KeyMoves(k) PROVE Inv'
<1> IsDeck(d)
  BY DEF Inv
<1>1. ASSUME k \in DOMAIN Arrow, Moves(Press(c, d, Arrow[k]), TRUE, TRUE) PROVE Inv'
  <2>1. Arrow[k] \in Directions
    BY <1>1 DEF Arrow, Directions
  <2> QED BY <1>1, <2>1, PressFollows, MovesKeeps
<1>2. ASSUME Moves(Slide(c, d, 0, Undef, Undef), TRUE, TRUE) PROVE Inv'
  BY <1>2, SlideFollows, MovesKeeps
<1>3. ASSUME Moves(Slide(c, d, MaxValue, Undef, Undef), TRUE, TRUE) PROVE Inv'
  BY <1>3, SlideFollows, MovesKeeps
<1>4. ASSUME Moves(NavigateNext(c, d), TRUE, TRUE) PROVE Inv'
  BY <1>4, NavigateNextFollows, MovesKeeps
<1>5. ASSUME Moves(NavigatePrev(c, d), TRUE, TRUE) PROVE Inv'
  BY <1>5, NavigatePrevFollows, MovesKeeps
<1>6. ASSUME Moves(d, TRUE, TRUE) PROVE Inv'
  BY <1>6, StayFollows, MovesKeeps
<1> QED BY <1>1, <1>2, <1>3, <1>4, <1>5, <1>6 DEF KeyMoves

LEMMA KeyLeavesKeeps == ASSUME Inv, NEW k, KeyLeavesOverview(k) PROVE Inv'
BY DeactivateSlides, ClosesKeeps DEF KeyLeavesOverview, Inv

(* Pausing and resuming: resume() cues, and so does the keyboard's handler. *)
LEMMA TogglePauseKeeps ==
  ASSUME Inv, NEW user \in BOOLEAN, TogglePause(user)
  PROVE  Inv'
<1> DEFINE stops == user /\ c.stoppable
<1>1. /\ paused' = ~paused /\ stopped' = (stopped \/ stops)
      /\ c' = c /\ d' = d /\ UNCHANGED gridVars
      /\ paused' \in BOOLEAN /\ stopped' \in BOOLEAN
  BY DEF TogglePause, Inv
<1>2. Exact'
  <2>1. CASE user \/ paused
    <3>1. CueAutoSlide(c, d, paused', stopped')
      BY <1>1, <2>1 DEF TogglePause
    <3> QED BY <1>1, <3>1, CueExact DEF Inv
  <2>2. CASE ~(user \/ paused)
    <3>1. paused' = TRUE /\ armed' = FALSE
      BY <1>1, <2>2 DEF TogglePause, Inv
    <3> QED BY <1>1, <3>1 DEF Exact, Inv, AutoSlideExact, Ready
  <2> QED BY <2>1, <2>2
<1>3. Tidy'
  BY <1>1 DEF Tidy, Inv, gridVars, OverviewLeavesNothing
<1> QED BY <1>2, <1>3 DEF Inv, Exact, Tidy

LEMMA KeyEscapeKeeps == ASSUME Inv, KeyEscape PROVE Inv'
<1> IsDeck(d)
  BY DEF Inv
<1>1. ASSUME Moves(d, TRUE, TRUE) PROVE Inv'
  BY <1>1, StayFollows, MovesKeeps
<1>2. ASSUME Settle(ActivateOverview, TRUE, TRUE), Opens, UNCHANGED <<c, paused>>
      PROVE  Inv'
  <2>1. IsDeck(ActivateOverview) /\ ActivateOverview.overview = TRUE
    BY OverviewSet DEF ActivateOverview
  <2>2. Exact' /\ d'.overview = TRUE
    BY <1>2, <2>1, SettleExact DEF Inv, Exact
  <2>3. Tidy'
    BY <1>2, <2>2 DEF Opens, Tidy, Inv, OverviewLeavesNothing
  <2> QED BY <2>2, <2>3 DEF Inv, Exact, Tidy
<1>3. ASSUME Settle(DeactivateOverview, TRUE, TRUE), Closes, UNCHANGED <<c, paused>>
      PROVE  Inv'
  BY <1>3, DeactivateSlides, ClosesKeeps
<1> QED BY <1>1, <1>2, <1>3 DEF KeyEscape

(* The calls of other code.                                                 *)
LEMMA ApiOverviewKeeps ==
  ASSUME Inv, ApiToggleOverview \/ \E on \in BOOLEAN : ApiOverview(on)
  PROVE  Inv'
<1> IsDeck(d) /\ stopped \in BOOLEAN
  BY DEF Inv
<1>1. ASSUME Settle(DeactivateOverview, FALSE, TRUE), Closes, UNCHANGED <<c, paused>>
      PROVE  Inv'
  BY <1>1, DeactivateSlides, ClosesKeeps
<1>2. ASSUME d' = ActivateOverview, Opens, armed' = FALSE, UNCHANGED <<stopped, c, paused>>
      PROVE  Inv'
  BY <1>2, OpensKeeps
<1> QED BY <1>1, <1>2 DEF ApiToggleOverview, ApiOverview

LEMMA ApiMovesKeeps ==
  ASSUME Inv, (\E dir \in Directions : ApiArrow(dir)) \/ (\E h, v, f : ApiSlide(h, v, f))
  PROVE  Inv'
<1> IsDeck(d)
  BY DEF Inv
<1>1. ASSUME NEW dir \in Directions, ApiArrow(dir) PROVE Inv'
  BY <1>1, PressFollows, MovesKeeps DEF ApiArrow
<1>2. ASSUME NEW h, NEW v, NEW f, ApiSlide(h, v, f) PROVE Inv'
  BY <1>2, SlideFollows, MovesKeeps DEF ApiSlide
<1> QED BY <1>1, <1>2

(* The mouse.                                                               *)
LEMMA MouseKeeps ==
  ASSUME Inv,
         \/ \E dir \in Directions : ClickControl(dir) \/ Wheel(dir)
         \/ \E x : ProgressClick(x)
  PROVE  Inv'
<1> IsDeck(d)
  BY DEF Inv
<1>1. ASSUME NEW dir \in Directions, ClickControl(dir) PROVE Inv'
  BY <1>1, PressFollows, MovesKeeps DEF ClickControl
<1>2. ASSUME NEW dir \in Directions, Wheel(dir) PROVE Inv'
  BY <1>2, PressFollows, MovesKeeps DEF Wheel
<1>3. ASSUME NEW x, ProgressClick(x) PROVE Inv'
  BY <1>3, SlideFollows, MovesKeeps DEF ProgressClick
<1> QED BY <1>1, <1>2, <1>3

LEMMA OverviewClickKeeps == ASSUME Inv, NEW l, OverviewClick(l) PROVE Inv'
<1> DEFINE g == Slide(c, DeactivateOverview, l[1], l[2], Undef)
<1>1. IsDeck(g) /\ ~g.overview /\ Slid(g)
  <2>1. IsDeck(DeactivateOverview) /\ ~DeactivateOverview.overview
    BY DeactivateSlides DEF Inv
  <2> QED BY <2>1, SlideFollows DEF Follows
<1>2. Settle(g, FALSE, FALSE) /\ Closes /\ UNCHANGED <<c, paused>>
  BY DEF OverviewClick
<1> HIDE DEF g
<1> QED BY <1>1, <1>2, ClosesKeeps

(* Inline code that cues for deck g, whatever it does to stopped.           *)
LEMMA CuedKeeps ==
  ASSUME Inv, NEW g, Follows(d, g), d' = [g EXCEPT !.events = <<>>], Reposition(g),
         CueAutoSlide(c, g, paused, stopped'), stopped' \in BOOLEAN, UNCHANGED <<c, paused>>
  PROVE  Inv'
<1> DEFINE e == [g EXCEPT !.events = <<>>]
<1>1. IsDeck(e) /\ e.cur = g.cur /\ e.overview = g.overview
  BY ForgetEvents DEF Follows
<1>2. d' = e /\ c' = c /\ paused' = paused /\ paused' \in BOOLEAN
      /\ CueAutoSlide(c, g, paused', stopped')
  BY DEF Inv
<1> HIDE DEF e
<1>3. Exact'
  BY <1>1, <1>2, CueExact
<1>4. Tidy'
  BY <1>1, <1>2 DEF Reposition, Tidy, Inv, Follows, OverviewLeavesNothing
<1> QED BY <1>3, <1>4 DEF Inv, Exact, Tidy

LEMMA PlayerClickKeeps == ASSUME Inv, PlayerClick PROVE Inv'
<1> DEFINE restart == IsLastSlide(c, d) /\ ~c.loop
           g == Slide(c, d, 0, 0, Undef)
<1>1. CASE restart
  <2>1. Follows(d, g)
    BY SlideFollows DEF Inv
  <2>2. /\ d' = [g EXCEPT !.events = <<>>] /\ Reposition(g)
        /\ stopped' = FALSE /\ CueAutoSlide(c, g, paused, FALSE) /\ UNCHANGED <<c, paused>>
    BY <1>1 DEF PlayerClick
  <2>3. CueAutoSlide(c, g, paused, stopped') /\ stopped' \in BOOLEAN
    BY <2>2
  <2> HIDE DEF g
  <2> QED BY <2>1, <2>2, <2>3, CuedKeeps
<1>2. CASE ~restart /\ stopped
  <2>1. /\ d' = d /\ Reposition(d) /\ stopped' = FALSE /\ UNCHANGED <<c, paused>>
        /\ CueAutoSlide(c, d, paused, FALSE)
    BY <1>2 DEF PlayerClick
  <2>2. CueAutoSlide(c, d, paused', stopped')
    BY <2>1
  <2>3. Exact'
    BY <2>1, <2>2, CueExact DEF Inv
  <2>4. Tidy'
    BY <2>1 DEF Reposition, Tidy, Inv, OverviewLeavesNothing
  <2> QED BY <2>3, <2>4 DEF Inv, Exact, Tidy
<1>3. CASE ~restart /\ ~stopped
  <2>1. /\ d' = d /\ Reposition(d) /\ stopped' = TRUE /\ armed' = FALSE
        /\ UNCHANGED <<c, paused>>
    BY <1>3 DEF PlayerClick
  <2>2. ~Ready(c', d', paused', stopped')
    BY <2>1 DEF Ready
  <2>3. Exact'
    BY <2>1, <2>2 DEF Exact, Inv, AutoSlideExact
  <2>4. Tidy'
    BY <2>1 DEF Reposition, Tidy, Inv, OverviewLeavesNothing
  <2> QED BY <2>3, <2>4 DEF Inv, Exact, Tidy
<1> QED BY <1>1, <1>2, <1>3

(* Touch: a swipe may move, a pinch opens or leaves the overview.           *)
LEMMA TouchMoveKeeps == ASSUME Inv, NEW dir, TouchMove(dir) PROVE Inv'
<1> IsDeck(d)
  BY DEF Inv
<1>1. ASSUME dir \in {"left", "right", "up", "down"}, Moves(Press(c, d, dir), TRUE, FALSE)
      PROVE  Inv'
  <2>1. dir \in Directions
    BY <1>1 DEF Directions
  <2> QED BY <1>1, <2>1, PressFollows, MovesKeeps
<1>2. ASSUME d' = ActivateOverview, Opens, armed' = FALSE,
             stopped' = (stopped \/ c.stoppable), UNCHANGED c, UNCHANGED paused
      PROVE  Inv'
  <2>1. stopped' \in BOOLEAN
    BY <1>2
  <2> QED BY <1>2, <2>1, OpensKeeps
<1>3. ASSUME Settle(DeactivateOverview, TRUE, TRUE), Closes, UNCHANGED <<c, paused>>
      PROVE  Inv'
  BY <1>3, DeactivateSlides, ClosesKeeps
<1>4. ASSUME Moves(d, TRUE, FALSE) PROVE Inv'
  BY <1>4, StayFollows, MovesKeeps
<1> QED BY <1>1, <1>2, <1>3, <1>4 DEF TouchMove

(* configure(): sync() cues for the new config.                             *)
LEMMA ConfigureKeeps == ASSUME Inv, NEW o, Configure(o) PROVE Inv'
<1> DEFINE g == SortAllFragments(c', d)
<1>1. /\ d' = g
      /\ stopped' = (IF HasPlayer(c') THEN FALSE ELSE stopped)
      /\ armed' = Ready(c', d, paused, stopped')
      /\ player' = (IF ~HasPlayer(c') THEN "none" ELSE IF armed' THEN "playing" ELSE "idle")
      /\ paused' = paused /\ UNCHANGED gridVars
  BY DEF Configure, Sync
<1>2. IsDeck(g) /\ g.overview = d.overview /\ g.cur = d.cur
  BY SortAllKeeps DEF Inv
<1> HIDE DEF g
<1>3. Ready(c', d', paused', stopped') = Ready(c', d, paused, stopped')
  <2>1. d'.cur = d.cur /\ d'.overview = d.overview /\ paused' = paused
    BY <1>1, <1>2
  <2> QED BY <2>1, ReadySame
<1>4. armed' \in BOOLEAN
  BY <1>1 DEF Ready
<1>5. Exact'
  BY <1>1, <1>2, <1>3, <1>4 DEF Exact, Inv, AutoSlideExact
<1>6. Tidy'
  BY <1>1, <1>2 DEF Tidy, Inv, gridVars, OverviewLeavesNothing
<1> QED BY <1>5, <1>6 DEF Inv, Exact, Tidy

(* The timers.                                                              *)
LEMMA OverviewTimerKeeps == ASSUME Inv, OverviewTimer PROVE Inv'
<1> DEFINE g == [d EXCEPT !.shown = Shown(c, d)]
<1>1. /\ d' = g /\ ovTimer # "none" /\ ovTimer' = "none" /\ clickable' = TRUE
      /\ zoomable' = (zoomable /\ ovTimer = "again")
      /\ c' = c /\ paused' = paused /\ armed' = armed /\ stopped' = stopped
      /\ player' = player
  BY DEF OverviewTimer, autoVars
<1>2. IsDeck(g) /\ g.overview = d.overview /\ g.cur = d.cur
  BY DEF Inv, IsDeck, Fields
<1> HIDE DEF g
<1>3. Ready(c', d', paused', stopped') = Ready(c, d, paused, stopped)
  BY <1>1, <1>2, ReadySame
<1>4. Exact'
  BY <1>1, <1>2, <1>3 DEF Exact, Inv, AutoSlideExact
<1>5. Tidy'
  BY <1>1, <1>2 DEF Tidy, Inv, OverviewLeavesNothing
<1> QED BY <1>4, <1>5 DEF Inv, Exact, Tidy

LEMMA HomeTimerKeeps == ASSUME Inv, HomeTimer PROVE Inv'
<1> DEFINE g == ResetStacks(c, d)
<1>1. /\ d' = g /\ UNCHANGED gridVars
      /\ c' = c /\ paused' = paused /\ armed' = armed /\ stopped' = stopped
      /\ player' = player
  BY DEF HomeTimer, autoVars
<1>2. IsDeck(g) /\ g.overview = d.overview /\ g.cur = d.cur
  BY ResetKeeps DEF Inv
<1> HIDE DEF g
<1>3. Ready(c', d', paused', stopped') = Ready(c, d, paused, stopped)
  BY <1>1, <1>2, ReadySame
<1>4. Exact'
  BY <1>1, <1>2, <1>3 DEF Exact, Inv, AutoSlideExact
<1>5. Tidy'
  BY <1>1, <1>2 DEF Tidy, Inv, gridVars, OverviewLeavesNothing
<1> QED BY <1>4, <1>5 DEF Inv, Exact, Tidy

LEMMA HashChangeKeeps == ASSUME Inv, HashChange PROVE Inv'
<1> DEFINE g == ReadURL(c, d, hash)
           e == [g EXCEPT !.events = <<>>]
<1>1. Follows(d, g)
  BY ReadURLFollows DEF Inv
<1>2. /\ d' = e /\ Reposition(g) /\ c' = c /\ paused' = paused /\ stopped' = stopped
      /\ IF Slid(g) THEN CueAutoSlide(c, g, paused, stopped) ELSE UNCHANGED <<armed, player>>
  BY DEF HashChange
<1> HIDE DEF g
<1>3. CASE Slid(g)
  <2>1. CueAutoSlide(c, g, paused, stopped') /\ stopped' \in BOOLEAN
    BY <1>2, <1>3 DEF Inv
  <2> QED BY <1>1, <1>2, <2>1, CuedKeeps
<1>4. CASE ~Slid(g)
  <2>1. armed' = armed /\ player' = player
    BY <1>2, <1>4
  <2>2. IsDeck(e) /\ e.cur = d.cur /\ e.overview = d.overview
    BY <1>1, <1>4, ForgetEvents DEF Follows
  <2> HIDE DEF e
  <2>3. Ready(c', d', paused', stopped') = Ready(c, d, paused, stopped)
    BY <1>2, <2>2, ReadySame
  <2>4. Exact'
    BY <1>2, <2>1, <2>2, <2>3 DEF Exact, Inv, AutoSlideExact
  <2>5. Tidy'
    BY <1>1, <1>2, <1>4, <2>2 DEF Reposition, Tidy, Inv, OverviewLeavesNothing
  <2> QED BY <2>4, <2>5 DEF Inv, Exact, Tidy
<1> QED BY <1>3, <1>4

-----------------------------------------------------------------------------
LEMMA TimersKeep == ASSUME Inv, Timers PROVE Inv'
<1>1. ASSUME AutoSlideTimer PROVE Inv'
  BY <1>1, NavigateNextFollows, MovesKeeps DEF AutoSlideTimer, Inv
<1>2. ASSUME PreviewTimer PROVE Inv'
  BY <1>2, ElsewhereKeeps DEF PreviewTimer
<1> QED BY <1>1, <1>2, OverviewTimerKeeps, HomeTimerKeeps, HashChangeKeeps DEF Timers

LEMMA UserKeeps == ASSUME Inv, User PROVE Inv'
<1>1. ASSUME KeyIgnored \/ KeyPause \/ KeyEscape PROVE Inv'
  BY <1>1, KeyIgnoredKeeps, KeyEscapeKeeps, TogglePauseKeeps DEF KeyPause
<1>2. ASSUME NEW k, KeyMoves(k) \/ KeyLeavesOverview(k) PROVE Inv'
  BY <1>2, KeyMovesKeeps, KeyLeavesKeeps
<1>3. ASSUME ApiToggleOverview \/ \E on \in BOOLEAN : ApiOverview(on) PROVE Inv'
  BY <1>3, ApiOverviewKeeps
<1>4. ASSUME ApiTogglePause PROVE Inv'
  BY <1>4, TogglePauseKeeps DEF ApiTogglePause
<1>5. ASSUME (\E dir \in Directions : ApiArrow(dir)) \/ (\E h, v, f : ApiSlide(h, v, f))
      PROVE  Inv'
  BY <1>5, ApiMovesKeeps
<1>6. ASSUME NEW dir \in Directions, ClickControl(dir) \/ Wheel(dir) PROVE Inv'
  BY <1>6, MouseKeeps
<1>7. ASSUME NEW x, ProgressClick(x) PROVE Inv'
  BY <1>7, MouseKeeps
<1>8. ASSUME (\E l : OverviewClick(l)) \/ PlayerClick PROVE Inv'
  BY <1>8, OverviewClickKeeps, PlayerClickKeeps
<1>9. ASSUME NEW dir, TouchMove(dir) PROVE Inv'
  BY <1>9, TouchMoveKeeps
<1>10. ASSUME \/ \E fingers : TouchStart(fingers)
              \/ TouchEnd \/ OpenPreview \/ ClosePreview
              \/ \E url : UserHash(url)
       PROVE  Inv'
  BY <1>10, ElsewhereKeeps DEF TouchStart, TouchEnd, OpenPreview, ClosePreview, UserHash
<1>11. ASSUME NEW o, Configure(o) PROVE Inv'
  BY <1>11, ConfigureKeeps
<1>12. {"prev", "next"} \subseteq Directions
  BY DEF Directions
<1> QED BY <1>1, <1>2, <1>3, <1>4, <1>5, <1>6, <1>7, <1>8, <1>9, <1>10, <1>11, <1>12 DEF User

LEMMA StepInv == ASSUME Inv, [Next]_vars PROVE Inv'
<1>1. ASSUME UNCHANGED vars PROVE Inv'
  BY <1>1, ElsewhereKeeps DEF vars, autoVars, gridVars
<1> QED BY <1>1, TimersKeep, UserKeeps DEF Next

LEMMA Invariant == Spec => []Inv
<1>1. Init => Inv
  BY InitInv
<1>2. Inv /\ [Next]_vars => Inv'
  BY StepInv
<1> QED BY <1>1, <1>2, PTL DEF Spec

(* The auto-slide timeout is pending exactly when cueAutoSlide() would set  *)
(* it, and then the player does not show that it is idle, in every          *)
(* presentation and after any sequence of handlers and timers.              *)
THEOREM AutoSlideIsExact == Spec => []AutoSlideExact
<1>1. Inv => AutoSlideExact
  BY DEF Inv
<1> QED BY <1>1, Invariant, PTL

(* Outside the overview no slide takes a click as a jump, zooming is on and *)
(* no timer of activateOverview() is pending, in every presentation.        *)
THEOREM OverviewIsLeftClean == Spec => []OverviewLeavesNothing
<1>1. Inv => OverviewLeavesNothing
  BY DEF Inv
<1> QED BY <1>1, Invariant, PTL

-----------------------------------------------------------------------------
(* The deck itself: every handler leaves it Sound, and an address that has  *)
(* been handled says where it is.  g is what a handler makes of the deck:   *)
Arrives(g) == Sound(c, g) /\ (Slid(g) \/ g.cur = d.cur)

(* what slide() and the handler around it make of the address,              *)
Written(g) ==
  /\ d' = [g EXCEPT !.events = <<>>] /\ c' = c
  /\ IF Slid(g) /\ c.history THEN WriteURL(UrlOf(c, g)) ELSE UNCHANGED urlVars

Named == \A p \in Presentations : NamesAreNames(p)

Page ==
  /\ Named => NamesAreNames(c)
  /\ IsPage(c) /\ Sound(c, d) /\ d.events = <<>>
  /\ IsHash(hash) /\ hashEvents \in 0 .. MaxPending
  /\ c.history /\ hashEvents = 0 => Addresses(c, d, hash)

(* and the flags around it, of which the first invariant has the others.    *)
Flags ==
  /\ player \in {"none", "idle", "playing"}
  /\ ovTimer \in {"none", "show", "again"}
  /\ preview \in {"none", "hidden", "visible"}

LEMMA AlikeItself == ASSUME NEW p PROVE Alike(p, p)
BY DEF Alike

LEMMA UrlIsHash ==
  ASSUME NEW p, IsPresentation(p), NEW e, Sound(p, e)
  PROVE  IsHash(UrlOf(p, e))
<1>1. e.h \in Int /\ e.v \in Int
  BY SoundPlace
<1>2. IsHash(HashAt(e.h, e.v)) /\ \A id : IsHash(HashNamed(id))
  BY <1>1 DEF IsHash, HashAt, HashNamed
<1> QED BY <1>2 DEF UrlOf

LEMMA WrittenKeeps == ASSUME Page, NEW g, Arrives(g), Written(g) PROVE Page'
<1>1. IsPage(c) /\ IsPresentation(c) /\ Sound(c, g) /\ c' = c
  BY DEF Page, Arrives, Written, IsPage
<1>2. Sound(c, d') /\ d'.events = <<>> /\ d'.cur = g.cur
  BY <1>1, EventsSound DEF Written
<1>3. CASE Slid(g) /\ c.history
  <2>1. WriteURL(UrlOf(c, g))
    BY <1>3 DEF Written
  <2>2. hash' = UrlOf(c, g) /\ hashEvents' \in 0 .. MaxPending
    BY <2>1, MaxPendingAssumption DEF WriteURL, Page
  <2>3. Addresses(c, g, hash')
    BY <2>2 DEF Addresses
  <2>4. Addresses(c, d', hash')
    BY <1>1, <1>2, <2>3, AlikeItself, AddressSame
  <2>5. IsHash(hash')
    BY <1>1, <2>2, UrlIsHash
  <2> QED BY <1>1, <1>2, <2>2, <2>4, <2>5 DEF Page
<1>4. CASE ~(Slid(g) /\ c.history)
  <2>1. hash' = hash /\ hashEvents' = hashEvents
    BY <1>4 DEF Written, urlVars
  <2>2. ASSUME c.history, hashEvents = 0 PROVE Addresses(c, d', hash)
    <3>1. d'.cur = d.cur /\ Sound(c, d) /\ Addresses(c, d, hash)
      BY <1>2, <1>4, <2>2 DEF Arrives, Page
    <3> QED BY <1>1, <1>2, <3>1, AlikeItself, AddressSame
  <2> QED BY <1>1, <1>2, <2>1, <2>2 DEF Page
<1> QED BY <1>3, <1>4

(* A step that does not go anywhere.                                        *)
LEMMA StaysKeeps ==
  ASSUME Page, IsPage(c'), Alike(c, c'), c'.history = c.history, UNCHANGED urlVars,
         Sound(c', d'), Sound(c, d'), d'.cur = d.cur, d'.events = <<>>
  PROVE  Page'
<1>1. hash' = hash /\ hashEvents' = hashEvents
  BY DEF urlVars
<1>2. ASSUME c.history, hashEvents = 0 PROVE Addresses(c', d', hash)
  BY <1>2, AddressSame DEF Page, IsPage
<1>3. NamesAreNames(c) => NamesAreNames(c')
  BY DEF Alike, NamesAreNames
<1> QED BY <1>1, <1>2, <1>3 DEF Page

LEMMA ElsewhereWritten == ASSUME Page, UNCHANGED <<c, d, urlVars>> PROVE Page'
<1>1. c' = c /\ d' = d /\ UNCHANGED urlVars
  OBVIOUS
<1> QED BY <1>1, AlikeItself, StaysKeeps DEF Page

(* activateOverview() is one.                                               *)
LEMMA OpensWritten ==
  ASSUME Page, d' = ActivateOverview, UNCHANGED <<c, urlVars>>
  PROVE  Page'
<1> DEFINE g == ActivateOverview
<1>1. Sound(c, d)
  BY DEF Page
<1>2. Sound(c, g) /\ g.cur = d.cur /\ g.events = d.events
  BY <1>1, OverviewSound DEF ActivateOverview
<1> HIDE DEF g
<1>3. d' = g /\ c' = c /\ UNCHANGED urlVars
  BY DEF g
<1> QED BY <1>2, <1>3, AlikeItself, StaysKeeps DEF Page

LEMMA OnwardArrives ==
  ASSUME Page, NEW g, Onward(c, d, g), Follows(d, g)
  PROVE  Arrives(g)
BY DEF Onward, Follows, Arrives

LEMMA MovesWritten ==
  ASSUME NEW g, NEW user, NEW cue, Moves(g, user, cue) \/ (Settle(g, user, cue) /\ UNCHANGED c)
  PROVE  Written(g)
BY DEF Moves, Settle, Written

(* Where the handlers go.                                                   *)
LEMMA PressArrives == ASSUME Inv, Page, NEW dir \in Directions PROVE Arrives(Press(c, d, dir))
<1>1. IsPresentation(c) /\ Sound(c, d) /\ IsDeck(d)
  BY DEF Inv, Page, IsPage
<1> QED BY <1>1, PressSound, PressFollows, OnwardArrives

LEMMA NextPrevArrive ==
  ASSUME Inv, Page
  PROVE  Arrives(NavigateNext(c, d)) /\ Arrives(NavigatePrev(c, d))
<1>1. IsPresentation(c) /\ Sound(c, d) /\ IsDeck(d)
  BY DEF Inv, Page, IsPage
<1> QED BY <1>1, NavigateNextSound, NavigatePrevSound, NavigateNextFollows, NavigatePrevFollows,
           OnwardArrives

LEMMA SlideGoes ==
  ASSUME Inv, Page, NEW h \in Int, NEW v \in Int, NEW f \in Int
  PROVE  Arrives(Slide(c, d, h, v, f))
<1>1. IsPresentation(c) /\ Sound(c, d) /\ IsDeck(d)
  BY DEF Inv, Page, IsPage
<1> QED BY <1>1, SlideSound, SlideFollows, OnwardArrives

LEMMA StayArrives == ASSUME Page PROVE Arrives(d)
BY DEF Page, Arrives

LEMMA OverviewArrives == ASSUME Page PROVE Arrives(ActivateOverview)
<1>1. Sound(c, d)
  BY DEF Page
<1> QED BY <1>1, OverviewSound DEF ActivateOverview, Arrives

(* The deck deactivateOverview() makes, and the one a click in the overview *)
(* makes of that.                                                           *)
LEMMA DeactivateArrives ==
  ASSUME Inv, Page
  PROVE  /\ Arrives(DeactivateOverview)
         /\ \A h, v \in Int : Arrives(Slide(c, DeactivateOverview, h, v, Undef))
<1> DEFINE e == [d EXCEPT !.overview = FALSE]
           g == DeactivateOverview
<1>1. IsPresentation(c) /\ Sound(c, e) /\ d.h \in Int /\ d.v \in Int /\ Undef \in Int
  <2>1. IsPresentation(c) /\ Sound(c, d)
    BY DEF Page, IsPage
  <2> QED BY <2>1, OverviewSound, SoundPlace DEF Undef
<1>2. g = Slide(c, e, d.h, d.v, Undef)
  BY DEF DeactivateOverview
<1> HIDE DEF e
<1>3. Sound(c, g)
  BY <1>1, <1>2, SlideSound DEF Onward
<1>4. Slid(g) /\ IsDeck(g)
  BY DeactivateSlides DEF Inv
<1> HIDE DEF g
<1>5. ASSUME NEW h \in Int, NEW v \in Int PROVE Arrives(Slide(c, g, h, v, Undef))
  BY <1>1, <1>3, <1>4, SlideSound, SlideFollows DEF Onward, Arrives
<1> QED BY <1>3, <1>4, <1>5 DEF Arrives, g

(* One action after the other.                                              *)
LEMMA ArrowDirection == ASSUME NEW k \in DOMAIN Arrow PROVE Arrow[k] \in Directions
BY DEF Arrow, Directions

LEMMA KeysWritten ==
  ASSUME Inv, Page,
         KeyIgnored \/ KeyPause \/ KeyEscape \/ \E k : KeyMoves(k) \/ KeyLeavesOverview(k)
  PROVE  Page'
<1>1. ASSUME NEW g, Arrives(g), \E user, cue : Moves(g, user, cue) PROVE Page'
  BY <1>1, MovesWritten, WrittenKeeps
<1>2. ASSUME NEW g, Arrives(g), \E user, cue : Settle(g, user, cue) /\ UNCHANGED c PROVE Page'
  BY <1>2, MovesWritten, WrittenKeeps
<1>3. CASE KeyIgnored
  BY <1>2, <1>3, StayArrives DEF KeyIgnored
<1>4. CASE KeyPause
  BY <1>4, AlikeItself, StaysKeeps DEF KeyPause, TogglePause, Page
<1>5. CASE KeyEscape
  BY <1>1, <1>2, <1>5, StayArrives, OverviewArrives, DeactivateArrives DEF KeyEscape
<1>6. ASSUME NEW k, KeyMoves(k) PROVE Page'
  <2>1. ASSUME k \in DOMAIN Arrow PROVE Arrives(Press(c, d, Arrow[k]))
    BY <2>1, ArrowDirection, PressArrives
  <2>2. 0 \in Int /\ MaxValue \in Int /\ Undef \in Int
    BY MaxValueAssumption DEF Undef
  <2>3. /\ Arrives(Slide(c, d, 0, Undef, Undef)) /\ Arrives(Slide(c, d, MaxValue, Undef, Undef))
        /\ Arrives(NavigateNext(c, d)) /\ Arrives(NavigatePrev(c, d)) /\ Arrives(d)
    BY <2>2, SlideGoes, NextPrevArrive, StayArrives
  <2> QED BY <1>1, <1>6, <2>1, <2>3 DEF KeyMoves
<1>7. ASSUME NEW k, KeyLeavesOverview(k) PROVE Page'
  BY <1>2, <1>7, DeactivateArrives DEF KeyLeavesOverview
<1> QED BY <1>3, <1>4, <1>5, <1>6, <1>7

LEMMA ApiWritten ==
  ASSUME Inv, Page,
         \/ ApiToggleOverview \/ (\E on \in BOOLEAN : ApiOverview(on)) \/ ApiTogglePause
         \/ (\E dir \in Directions : ApiArrow(dir))
         \/ (\E h \in Int, v \in Int, f \in Int : ApiSlide(h, v, f))
  PROVE  Page'
<1>1. ASSUME NEW g, Arrives(g), \E user, cue : Moves(g, user, cue) PROVE Page'
  BY <1>1, MovesWritten, WrittenKeeps
<1>2. ASSUME Settle(DeactivateOverview, FALSE, TRUE), UNCHANGED c PROVE Page'
  BY <1>2, DeactivateArrives, MovesWritten, WrittenKeeps
<1>3. ASSUME d' = ActivateOverview, UNCHANGED <<c, urlVars>> PROVE Page'
  BY <1>3, OpensWritten
<1>4. CASE ApiToggleOverview
  BY <1>2, <1>3, <1>4 DEF ApiToggleOverview
<1>5. ASSUME NEW on \in BOOLEAN, ApiOverview(on) PROVE Page'
  BY <1>2, <1>3, <1>5 DEF ApiOverview
<1>6. CASE ApiTogglePause
  BY <1>6, AlikeItself, StaysKeeps DEF ApiTogglePause, TogglePause, Page
<1>7. ASSUME NEW dir \in Directions, ApiArrow(dir) PROVE Page'
  BY <1>1, <1>7, PressArrives DEF ApiArrow
<1>8. ASSUME NEW h \in Int, NEW v \in Int, NEW f \in Int, ApiSlide(h, v, f) PROVE Page'
  BY <1>1, <1>8, SlideGoes DEF ApiSlide
<1> QED BY <1>4, <1>5, <1>6, <1>7, <1>8

LEMMA MouseWritten ==
  ASSUME Inv, Page,
         \/ \E dir \in Directions : ClickControl(dir) \/ Wheel(dir)
         \/ \E x \in Int : ProgressClick(x)
         \/ \E l \in Leaves(c) : OverviewClick(l)
         \/ PlayerClick
  PROVE  Page'
<1>1. ASSUME NEW g, Arrives(g), \E user, cue : Moves(g, user, cue) PROVE Page'
  BY <1>1, MovesWritten, WrittenKeeps
<1>2. ASSUME NEW dir \in Directions, ClickControl(dir) \/ Wheel(dir) PROVE Page'
  BY <1>1, <1>2, PressArrives DEF ClickControl, Wheel
<1>3. ASSUME NEW x \in Int, ProgressClick(x) PROVE Page'
  <2>1. Undef \in Int
    BY DEF Undef
  <2> QED BY <1>1, <1>3, <2>1, SlideGoes DEF ProgressClick
<1>4. ASSUME NEW l \in Leaves(c), OverviewClick(l) PROVE Page'
  <2>1. l[1] \in Int /\ l[2] \in Int
    BY LeafParts DEF Page, IsPage, Whole
  <2> DEFINE g == Slide(c, DeactivateOverview, l[1], l[2], Undef)
  <2>2. Arrives(g)
    BY <2>1, DeactivateArrives
  <2>3. Settle(g, FALSE, FALSE) /\ UNCHANGED c
    BY <1>4 DEF OverviewClick
  <2> HIDE DEF g
  <2> QED BY <2>2, <2>3, MovesWritten, WrittenKeeps
<1>5. CASE PlayerClick
  <2> DEFINE g == Slide(c, d, 0, 0, Undef)
  <2>1. CASE IsLastSlide(c, d) /\ ~c.loop
    <3>1. Arrives(g) /\ Slid(g)
      <4>1. Undef \in Int
        BY DEF Undef
      <4> QED BY <4>1, SlideGoes, SlideFollows DEF Inv
    <3>2. /\ d' = [g EXCEPT !.events = <<>>] /\ c' = c
          /\ IF c.history THEN WriteURL(UrlOf(c, g)) ELSE UNCHANGED urlVars
      BY <1>5, <2>1 DEF PlayerClick
    <3> HIDE DEF g
    <3>3. Written(g)
      BY <3>1, <3>2 DEF Written
    <3> QED BY <3>1, <3>3, WrittenKeeps
  <2>2. CASE ~(IsLastSlide(c, d) /\ ~c.loop)
    <3>1. UNCHANGED <<c, d, urlVars>>
      BY <1>5, <2>2 DEF PlayerClick
    <3> QED BY <3>1, ElsewhereWritten
  <2> QED BY <2>1, <2>2
<1> QED BY <1>2, <1>3, <1>4, <1>5

LEMMA TouchWritten ==
  ASSUME Inv, Page, (\E fingers : TouchStart(fingers)) \/ (\E dir : TouchMove(dir)) \/ TouchEnd
  PROVE  Page'
<1>1. ASSUME NEW g, Arrives(g), \E user, cue : Moves(g, user, cue) PROVE Page'
  BY <1>1, MovesWritten, WrittenKeeps
<1>2. ASSUME Settle(DeactivateOverview, TRUE, TRUE), UNCHANGED c PROVE Page'
  BY <1>2, DeactivateArrives, MovesWritten, WrittenKeeps
<1>3. ASSUME d' = ActivateOverview, UNCHANGED c, UNCHANGED urlVars PROVE Page'
  BY <1>3, OpensWritten
<1>4. ASSUME NEW dir, TouchMove(dir) PROVE Page'
  <2>1. ASSUME dir \in {"left", "right", "up", "down"} PROVE Arrives(Press(c, d, dir))
    BY <2>1, PressArrives DEF Directions
  <2> QED BY <1>1, <1>2, <1>3, <1>4, <2>1, StayArrives DEF TouchMove
<1>5. ASSUME UNCHANGED <<c, d, urlVars>> PROVE Page'
  BY <1>5, ElsewhereWritten
<1> QED BY <1>4, <1>5 DEF TouchStart, TouchEnd

(* configure() leaves the markup alone.                                     *)
LEMMA ConfigureWritten == ASSUME Page, NEW o \in c.options, Configure(o) PROVE Page'
<1> DEFINE q == [c EXCEPT !.loop = o.loop, !.autoSlide = o.autoSlide]
<1>1. o.loop \in BOOLEAN /\ o.autoSlide \in Nat
  BY DEF Page, IsPage
<1>2. /\ DOMAIN q = DOMAIN c /\ Alike(c, q) /\ q.loop = o.loop
      /\ q.history = c.history /\ q.stoppable = c.stoppable
      /\ q.start = c.start /\ q.links = c.links /\ q.options = c.options
  BY DEF Page, IsPage, Alike
<1>3. c' = q /\ d' = SortAllFragments(q, d) /\ UNCHANGED urlVars
  BY DEF Configure, Sync
<1> HIDE DEF q
<1>4. IsPresentation(q) /\ Sound(q, d)
  BY <1>1, <1>2, AlikeSound DEF Page, IsPage
<1>5. IsPage(q)
  BY <1>2, <1>4 DEF Page, IsPage
<1>6. SortAllFragments(q, d) = SortAllFragments(c, d)
  BY <1>2, AlikeSame DEF SortAllFragments
<1> DEFINE g == SortAllFragments(q, d)
<1>7. Sound(q, g) /\ Sound(c, g) /\ g.cur = d.cur /\ g.events = d.events
  BY <1>4, <1>6, SortAllSound DEF Page, IsPage
<1> HIDE DEF g
<1>8. c' = q /\ d' = g
  BY <1>3 DEF g
<1> QED BY <1>2, <1>3, <1>5, <1>7, <1>8, StaysKeeps DEF Page

LEMMA TimersWritten == ASSUME Inv, Page, AutoSlideTimer \/ OverviewTimer \/ HomeTimer PROVE Page'
<1>1. IsPage(c) /\ IsPresentation(c) /\ Sound(c, d) /\ d.events = <<>>
  BY DEF Page, IsPage
<1>2. CASE AutoSlideTimer
  BY <1>2, NextPrevArrive, MovesWritten, WrittenKeeps DEF AutoSlideTimer
<1>3. ASSUME NEW g, Sound(c, g), g.cur = d.cur, g.events = d.events, d' = g,
             UNCHANGED <<c, urlVars>>
      PROVE  Page'
  BY <1>1, <1>3, AlikeItself, StaysKeeps
<1>4. CASE OverviewTimer
  BY <1>1, <1>3, <1>4, ShownSound DEF OverviewTimer
<1>5. CASE HomeTimer
  BY <1>1, <1>3, <1>5, ResetSound DEF HomeTimer
<1> QED BY <1>2, <1>4, <1>5

(* readURL() either slides, and writes where to, or the address is right.   *)
LEMMA HashChangeWritten == ASSUME Inv, Page, HashChange PROVE Page'
<1> DEFINE g == ReadURL(c, d, hash)
<1>1. IsPage(c) /\ IsPresentation(c) /\ Sound(c, d) /\ IsHash(hash) /\ IsDeck(d)
  BY DEF Inv, Page, IsPage
<1>2. Sound(c, g)
  BY <1>1, SoundPlace, ReadURLSound DEF Onward, IsHash
<1>3. /\ d' = [g EXCEPT !.events = <<>>] /\ c' = c
      /\ hash' = (IF Slid(g) /\ c.history THEN UrlOf(c, g) ELSE hash)
      /\ hashEvents > 0
      /\ hashEvents' = (IF hash' # hash THEN hashEvents ELSE hashEvents - 1)
  BY DEF HashChange
<1>4. ~Slid(g) => g = d /\ Addresses(c, d, hash)
  <2>1. ASSUME ~Slid(g) PROVE \A h, v : g # Slide(c, d, h, v, Undef)
    BY <1>1, <2>1, SlideFollows
  <2>2. d.cur # None
    BY <1>1, SoundPlace
  <2> QED BY <2>1, <2>2, AddressStays
<1> HIDE DEF g
<1>5. Sound(c, d') /\ d'.events = <<>> /\ d'.cur = g.cur
  BY <1>2, <1>3, EventsSound
<1>6. hashEvents' \in 0 .. MaxPending
  BY <1>3, MaxPendingAssumption DEF Page
<1>7. CASE Slid(g) /\ c.history
  <2>1. hash' = UrlOf(c, g) /\ Addresses(c, g, hash')
    BY <1>3, <1>7 DEF Addresses
  <2>2. IsHash(hash') /\ Addresses(c, d', hash')
    BY <1>1, <1>2, <1>5, <2>1, UrlIsHash, AddressSame, AlikeItself
  <2> QED BY <1>1, <1>3, <1>5, <1>6, <2>2 DEF Page
<1>8. CASE Slid(g) /\ ~c.history
  BY <1>1, <1>3, <1>5, <1>6, <1>8 DEF Page
<1>9. CASE ~Slid(g)
  <2>1. hash' = hash /\ Addresses(c, d', hash)
    BY <1>1, <1>3, <1>4, <1>5, <1>9, AddressSame, AlikeItself
  <2> QED BY <1>1, <1>3, <1>5, <1>6, <2>1 DEF Page
<1> QED BY <1>7, <1>8, <1>9

LEMMA UserHashWritten == ASSUME Page, NEW url \in c.links, UserHash(url) PROVE Page'
<1>1. /\ IsHash(url) /\ hash' = url /\ hashEvents' = hashEvents + 1
      /\ hashEvents < MaxPending /\ c' = c /\ d' = d
  BY DEF UserHash, Page, IsPage
<1>2. hashEvents' \in 0 .. MaxPending /\ hashEvents' # 0
  BY <1>1, MaxPendingAssumption DEF Page
<1> QED BY <1>1, <1>2 DEF Page

LEMMA UserWritten == ASSUME Inv, Page, User PROVE Page'
<1>1. ASSUME \/ KeyIgnored \/ KeyPause \/ KeyEscape
             \/ \E k \in c.keys \cap Keys : KeyMoves(k) \/ KeyLeavesOverview(k)
      PROVE  Page'
  BY <1>1, KeysWritten
<1>2. ASSUME \/ ApiToggleOverview \/ (\E on \in BOOLEAN : ApiOverview(on)) \/ ApiTogglePause
             \/ \E dir \in Directions : ApiArrow(dir)
      PROVE  Page'
  BY <1>2, ApiWritten
<1>3. ASSUME NEW h \in -1 .. c.n, NEW v \in 0 .. 1, NEW f \in {Undef, -1, 0, 1}, ApiSlide(h, v, f)
      PROVE  Page'
  <2>1. h \in Int /\ v \in Int /\ f \in Int
    BY DEF Undef, Page, IsPage, IsPresentation
  <2> QED BY <1>3, <2>1, ApiWritten
<1>4. ASSUME \E dir \in Directions : ClickControl(dir) \/ Wheel(dir) PROVE Page'
  BY <1>4, MouseWritten
<1>5. ASSUME NEW x \in 0 .. c.n - 1, ProgressClick(x) PROVE Page'
  <2>1. x \in Int
    BY DEF Page, IsPage, IsPresentation
  <2> QED BY <1>5, <2>1, MouseWritten
<1>6. ASSUME (\E l \in Leaves(c) : OverviewClick(l)) \/ PlayerClick PROVE Page'
  BY <1>6, MouseWritten
<1>7. ASSUME (\E fingers : TouchStart(fingers)) \/ (\E dir : TouchMove(dir)) \/ TouchEnd
      PROVE  Page'
  BY <1>7, TouchWritten
<1>8. ASSUME OpenPreview \/ ClosePreview PROVE Page'
  BY <1>8, ElsewhereWritten DEF OpenPreview, ClosePreview
<1>9. ASSUME (\E o \in c.options : Configure(o)) \/ (\E url \in c.links : UserHash(url))
      PROVE  Page'
  BY <1>9, ConfigureWritten, UserHashWritten
<1>10. {"prev", "next"} \subseteq Directions
  BY DEF Directions
<1> QED BY <1>1, <1>2, <1>3, <1>4, <1>5, <1>6, <1>7, <1>8, <1>9, <1>10 DEF User

LEMMA StepPage == ASSUME Inv, Page, [Next]_vars PROVE Page'
<1>1. ASSUME PreviewTimer \/ UNCHANGED vars PROVE Page'
  BY <1>1, ElsewhereWritten DEF PreviewTimer, vars
<1> QED BY <1>1, UserWritten, TimersWritten, HashChangeWritten DEF Next, Timers

LEMMA InitPage == ASSUME Init PROVE Page
<1> DEFINE fresh == SortAllFragments(c, FreshDeck(c))
           g == ReadURL(c, fresh, c.start)
<1>1. /\ c \in Presentations /\ IsPage(c) /\ IsPresentation(c) /\ IsHash(c.start)
      /\ d = [g EXCEPT !.events = <<>>]
      /\ hash = (IF c.history THEN UrlOf(c, g) ELSE c.start)
      /\ hashEvents \in {0, 1}
  BY PresentationsAssumption DEF Init, IsPage
<1>2. Base(c, fresh) /\ fresh.cur = None
  BY <1>1, FreshBase
<1> HIDE DEF fresh
<1>3. Sound(c, g)
  BY <1>1, <1>2, ReadURLSound DEF Onward, IsHash
<1> HIDE DEF g
<1>4. Sound(c, d) /\ d.events = <<>> /\ d.cur = g.cur
  BY <1>1, <1>3, EventsSound
<1>5. IsHash(hash) /\ (c.history => Addresses(c, d, hash))
  <2>1. CASE c.history
    <3>1. Addresses(c, g, hash) /\ IsHash(hash)
      BY <1>1, <1>3, <2>1, UrlIsHash DEF Addresses
    <3> QED BY <1>1, <1>3, <1>4, <3>1, AddressSame, AlikeItself
  <2>2. CASE ~c.history
    BY <1>1, <2>2
  <2> QED BY <2>1, <2>2
<1>6. hashEvents \in 0 .. MaxPending
  BY <1>1, MaxPendingAssumption
<1>7. Named => NamesAreNames(c)
  BY <1>1 DEF Named
<1> QED BY <1>1, <1>4, <1>5, <1>6, <1>7 DEF Page

(* The flags.                                                               *)
LEMMA SettleFlags ==
  ASSUME Flags, NEW g, NEW user, NEW cue, Settle(g, user, cue)
  PROVE  player' \in {"none", "idle", "playing"}
BY DEF Flags, Settle, CueAutoSlide

LEMMA MovesFlags ==
  ASSUME Flags, NEW g, NEW user, NEW cue, Moves(g, user, cue), preview' \in {preview, "none"}
  PROVE  Flags'
<1>1. player' \in {"none", "idle", "playing"}
  BY SettleFlags DEF Moves
<1> QED BY <1>1 DEF Flags, Moves, Reposition

LEMMA ClosesFlags ==
  ASSUME Flags, NEW g, NEW user, NEW cue, Settle(g, user, cue), Closes,
         preview' \in {preview, "none"}
  PROVE  Flags'
<1>1. player' \in {"none", "idle", "playing"}
  BY SettleFlags
<1> QED BY <1>1 DEF Flags, Closes

LEMMA OpensFlags ==
  ASSUME Flags, player' \in {"none", "idle", "playing"}, Opens, preview' \in {preview, "none"}
  PROVE  Flags'
BY DEF Flags, Opens

LEMMA CuedFlags ==
  ASSUME Flags, NEW g, NEW isPaused, NEW isStopped, CueAutoSlide(c, g, isPaused, isStopped)
  PROVE  player' \in {"none", "idle", "playing"}
BY DEF Flags, CueAutoSlide

LEMMA PauseFlags == ASSUME Flags, NEW user, TogglePause(user) PROVE Flags'
<1>1. (\E isPaused, isStopped : CueAutoSlide(c, d, isPaused, isStopped)) \/ player' = player
  BY DEF TogglePause
<1>2. player' \in {"none", "idle", "playing"}
  BY <1>1, CuedFlags DEF Flags
<1> QED BY <1>2 DEF Flags, TogglePause, gridVars

LEMMA KeysFlags ==
  ASSUME Flags,
         KeyIgnored \/ KeyPause \/ KeyEscape \/ \E k : KeyMoves(k) \/ KeyLeavesOverview(k)
  PROVE  Flags'
<1>1. ASSUME \E g, user, cue : Moves(g, user, cue), preview' \in {preview, "none"} PROVE Flags'
  BY <1>1, MovesFlags
<1>2. ASSUME \E g, user, cue : Settle(g, user, cue), Closes, preview' \in {preview, "none"}
      PROVE  Flags'
  BY <1>2, ClosesFlags
<1>3. CASE KeyIgnored
  <2>1. Moves(d, TRUE, FALSE) /\ preview' = preview
    BY <1>3 DEF KeyIgnored, Moves
  <2> QED BY <1>1, <2>1
<1>4. CASE KeyPause
  BY <1>4, PauseFlags DEF KeyPause
<1>5. CASE KeyEscape
  <2>1. preview' = "none"
    BY <1>5 DEF KeyEscape
  <2>2. ASSUME Settle(ActivateOverview, TRUE, TRUE), Opens PROVE Flags'
    BY <2>1, <2>2, SettleFlags, OpensFlags
  <2> QED BY <1>1, <1>2, <1>5, <2>1, <2>2 DEF KeyEscape
<1>6. ASSUME NEW k, KeyMoves(k) PROVE Flags'
  BY <1>1, <1>6 DEF KeyMoves
<1>7. ASSUME NEW k, KeyLeavesOverview(k) PROVE Flags'
  BY <1>2, <1>7 DEF KeyLeavesOverview
<1> QED BY <1>3, <1>4, <1>5, <1>6, <1>7

LEMMA ApiFlags ==
  ASSUME Flags,
         \/ ApiToggleOverview \/ (\E on \in BOOLEAN : ApiOverview(on)) \/ ApiTogglePause
         \/ (\E dir : ApiArrow(dir)) \/ (\E h, v, f : ApiSlide(h, v, f))
  PROVE  Flags'
<1>1. ASSUME \E g, user, cue : Moves(g, user, cue), preview' \in {preview, "none"} PROVE Flags'
  BY <1>1, MovesFlags
<1>2. ASSUME Settle(DeactivateOverview, FALSE, TRUE), Closes, preview' = preview PROVE Flags'
  BY <1>2, ClosesFlags
<1>3. ASSUME Opens, UNCHANGED <<player, preview>> PROVE Flags'
  BY <1>3, OpensFlags DEF Flags
<1>4. CASE ApiToggleOverview
  BY <1>2, <1>3, <1>4 DEF ApiToggleOverview
<1>5. ASSUME NEW on \in BOOLEAN, ApiOverview(on) PROVE Flags'
  BY <1>2, <1>3, <1>5 DEF ApiOverview
<1>6. CASE ApiTogglePause
  BY <1>6, PauseFlags DEF ApiTogglePause
<1>7. ASSUME NEW dir, ApiArrow(dir) PROVE Flags'
  BY <1>1, <1>7 DEF ApiArrow
<1>8. ASSUME NEW h, NEW v, NEW f, ApiSlide(h, v, f) PROVE Flags'
  BY <1>1, <1>8 DEF ApiSlide
<1> QED BY <1>4, <1>5, <1>6, <1>7, <1>8

LEMMA MouseFlags ==
  ASSUME Flags,
         \/ \E dir : ClickControl(dir) \/ Wheel(dir)
         \/ (\E x : ProgressClick(x)) \/ (\E l : OverviewClick(l)) \/ PlayerClick
  PROVE  Flags'
<1>1. ASSUME \E g, user, cue : Moves(g, user, cue), preview' = preview PROVE Flags'
  BY <1>1, MovesFlags
<1>2. ASSUME \E dir : ClickControl(dir) \/ Wheel(dir) PROVE Flags'
  BY <1>1, <1>2 DEF ClickControl, Wheel
<1>3. ASSUME NEW x, ProgressClick(x) PROVE Flags'
  BY <1>1, <1>3 DEF ProgressClick
<1>4. ASSUME NEW l, OverviewClick(l) PROVE Flags'
  <2>1. (\E g : Settle(g, FALSE, FALSE)) /\ Closes /\ preview' = preview
    BY <1>4 DEF OverviewClick
  <2> QED BY <2>1, ClosesFlags
<1>5. CASE PlayerClick
  <2>1. \/ \E g, isStopped : CueAutoSlide(c, g, paused, isStopped)
        \/ player' = "idle"
    BY <1>5 DEF PlayerClick
  <2>2. player' \in {"none", "idle", "playing"}
    BY <2>1, CuedFlags
  <2>3. ovTimer' \in {ovTimer, "again"} /\ preview' = preview
    BY <1>5 DEF PlayerClick, Reposition
  <2> QED BY <2>2, <2>3 DEF Flags
<1> QED BY <1>2, <1>3, <1>4, <1>5

LEMMA TouchFlags ==
  ASSUME Flags, (\E fingers : TouchStart(fingers)) \/ (\E dir : TouchMove(dir)) \/ TouchEnd
  PROVE  Flags'
<1>1. ASSUME \E g, user, cue : Moves(g, user, cue), preview' = preview PROVE Flags'
  BY <1>1, MovesFlags
<1>2. ASSUME Settle(DeactivateOverview, TRUE, TRUE), Closes, preview' = preview PROVE Flags'
  BY <1>2, ClosesFlags
<1>3. ASSUME Opens, player' = (IF c.stoppable /\ player = "playing" THEN "idle" ELSE player),
             preview' = preview
      PROVE  Flags'
  BY <1>3, OpensFlags DEF Flags
<1>4. ASSUME NEW dir, TouchMove(dir) PROVE Flags'
  BY <1>1, <1>2, <1>3, <1>4 DEF TouchMove
<1>5. ASSUME UNCHANGED <<autoVars, gridVars, preview>> PROVE Flags'
  BY <1>5 DEF Flags, autoVars, gridVars
<1> QED BY <1>4, <1>5 DEF TouchStart, TouchEnd

LEMMA StepFlags == ASSUME Flags, [Next]_vars PROVE Flags'
<1>1. ASSUME KeyIgnored \/ KeyPause \/ KeyEscape \/ \E k : KeyMoves(k) \/ KeyLeavesOverview(k)
      PROVE  Flags'
  BY <1>1, KeysFlags
<1>2. ASSUME \/ ApiToggleOverview \/ (\E on \in BOOLEAN : ApiOverview(on)) \/ ApiTogglePause
             \/ (\E dir : ApiArrow(dir)) \/ (\E h, v, f : ApiSlide(h, v, f))
      PROVE  Flags'
  BY <1>2, ApiFlags
<1>3. ASSUME \/ \E dir : ClickControl(dir) \/ Wheel(dir)
             \/ (\E x : ProgressClick(x)) \/ (\E l : OverviewClick(l)) \/ PlayerClick
      PROVE  Flags'
  BY <1>3, MouseFlags
<1>4. ASSUME (\E fingers : TouchStart(fingers)) \/ (\E dir : TouchMove(dir)) \/ TouchEnd
      PROVE  Flags'
  BY <1>4, TouchFlags
<1>5. ASSUME OpenPreview \/ ClosePreview \/ PreviewTimer \/ \E url : UserHash(url)
      PROVE  Flags'
  BY <1>5 DEF OpenPreview, ClosePreview, PreviewTimer, UserHash, Flags, autoVars, gridVars
<1>6. ASSUME NEW o, Configure(o) PROVE Flags'
  BY <1>6 DEF Configure, Sync, Flags, gridVars
<1>7. ASSUME AutoSlideTimer PROVE Flags'
  <2>1. Moves(NavigateNext(c, d), FALSE, TRUE) /\ preview' = preview
    BY <1>7 DEF AutoSlideTimer
  <2> QED BY <2>1, MovesFlags
<1>8. ASSUME OverviewTimer \/ HomeTimer PROVE Flags'
  BY <1>8 DEF OverviewTimer, HomeTimer, Flags, autoVars, gridVars
<1>9. ASSUME HashChange PROVE Flags'
  <2>1. (\E g : CueAutoSlide(c, g, paused, stopped)) \/ player' = player
    BY <1>9 DEF HashChange
  <2>2. player' \in {"none", "idle", "playing"}
    BY <2>1, CuedFlags DEF Flags
  <2>3. ovTimer' \in {ovTimer, "again"} /\ preview' = preview
    BY <1>9 DEF HashChange, Reposition
  <2> QED BY <2>2, <2>3 DEF Flags
<1>10. CASE UNCHANGED vars
  BY <1>10 DEF vars, Flags, autoVars, gridVars
<1> QED BY <1>1, <1>2, <1>3, <1>4, <1>5, <1>6, <1>7, <1>8, <1>9, <1>10 DEF Next, Timers, User

LEMMA PageInvariant == Spec => [](Inv /\ Page /\ Flags)
<1>1. Init => Inv /\ Page /\ Flags
  <2>1. ASSUME Init PROVE Flags
    BY <2>1 DEF Init, Flags
  <2> QED BY <2>1, InitInv, InitPage
<1>2. Inv /\ Page /\ Flags /\ [Next]_vars => (Inv /\ Page /\ Flags)'
  BY StepInv, StepPage, StepFlags
<1> QED BY <1>1, <1>2, PTL DEF Spec

LEMMA PageSound == ASSUME Page PROVE IsPresentation(c) /\ Sound(c, d)
BY DEF Page, IsPage

(* The closure's variables and the attributes of the DOM hold what they may *)
(* hold: the indices name a slide there is, the current one; the previous   *)
(* one is another; fragments that are current are visible.                  *)
THEOREM TypeCorrect == Spec => []TypeOK
<1>1. ASSUME Inv, Page, Flags PROVE TypeOK
  <2>1. /\ d.h \in 0 .. c.n - 1 /\ d.v \in Nat /\ d.cur \in Leaves(c)
    BY <1>1, PageSound, SoundPlace
  <2>2. /\ d.cls \in [Sections(c) -> Words] /\ d.prev \in Leaves(c) \cup {None}
        /\ d.prev # d.cur /\ d.cur = SlideAt(c, d.h, d.v)
        /\ \A l \in Leaves(c) : d.mark[l] \subseteq d.vis[l] /\ d.vis[l] \subseteq DOMAIN c.frags[l]
    BY <1>1, PageSound, SoundTypes
  <2>3. /\ hashEvents \in 0 .. MaxPending
        /\ player \in {"none", "idle", "playing"}
        /\ ovTimer \in {"none", "show", "again"}
        /\ preview \in {"none", "hidden", "visible"}
    BY <1>1 DEF Page, Flags
  <2>4. <<paused, armed, stopped, clickable, zoomable>> \in [1 .. 5 -> BOOLEAN]
    BY <1>1 DEF Inv
  <2> QED BY <2>1, <2>2, <2>3, <2>4 DEF TypeOK, Words
<1> QED BY <1>1, PageInvariant, PTL

(* The progress bar is right: the current slide alone is present, it is on  *)
(* display, and the slides counted as past are those before it, whatever    *)
(* handlers, timers and addresses brought us there.                         *)
THEOREM ProgressIsTrue == Spec => []ProgressTrue
<1>1. ASSUME Page PROVE ProgressTrue
  BY <1>1, PageSound, SoundProgress, SoundPlace DEF ProgressTrue
<1> QED BY <1>1, PageInvariant, PTL

(* The fragments follow the slides, on every page: all shown before the     *)
(* current slide, none after it, and the numbers of each slide's fragments  *)
(* have no gaps and put the visible ones first.                             *)
THEOREM FragmentsFollow == Spec => []FragmentsAgree
<1>1. ASSUME Page PROVE FragmentsAgree
  BY <1>1, PageSound, SoundFragments DEF FragmentsAgree
<1> QED BY <1>1, PageInvariant, PTL

(* An enabled arrow does something, on every page that is left to right and *)
(* shows one slide at a time (with the exceptions the property names).      *)
THEOREM ControlsDoSomething == Spec => []EnabledControlsWork
<1>1. ASSUME Page PROVE EnabledControlsWork
  BY <1>1, PageSound, ControlsWork DEF EnabledControlsWork, Differs
<1> QED BY <1>1, PageInvariant, PTL

(* "previous" undoes "next": the same slide with the same fragments.        *)
THEOREM PreviousUndoesNext == Spec => []PrevUndoesNext
<1>1. ASSUME Page PROVE PrevUndoesNext
  <2> DEFINE g == NavigateNext(c, d)
  <2>1. ASSUME ~c.rtl, ~c.loop, c.fragments, Differs(d, g), g.h = d.h \/ g.v = 0
        PROVE  LET b == NavigatePrev(c, g) IN b.cur = d.cur /\ b.vis[d.cur] = d.vis[d.cur]
    <3> HIDE DEF g
    <3>1. g = NavigateNext(c, d)
      BY DEF g
    <3> QED BY <1>1, <2>1, <3>1, PageSound, PrevUndoes
  <2> QED BY <2>1 DEF PrevUndoesNext, Differs
<1> QED BY <1>1, PageInvariant, PTL

(* The address on display opens the slide we are on, on every page none of  *)
(* whose ids starts with digits: readURL() takes such a name for an index.  *)
THEOREM AddressOpensHere ==
  ASSUME \A p \in Presentations : NamesAreNames(p)
  PROVE  Spec => []AddressReopens
<1>1. ASSUME Page PROVE AddressReopens
  <2> DEFINE fresh == SortAllFragments(c, FreshDeck(c))
  <2>1. Base(c, fresh) /\ fresh.cur = None
    BY <1>1, PageSound, FreshBase
  <2> HIDE DEF fresh
  <2>2. NamesAreNames(c) /\ (c.history /\ hashEvents = 0 => Addresses(c, d, hash))
    BY <1>1 DEF Page, Named
  <2>3. c.history /\ hashEvents = 0 => ReadURL(c, fresh, hash).cur = d.cur
    BY <1>1, <2>1, <2>2, PageSound, AddressFinds
  <2> QED BY <2>3 DEF AddressReopens, fresh
<1> QED BY <1>1, PageInvariant, PTL
=============================================================================
