------------------------------- MODULE Slides -------------------------------
(***************************************************************************)
(* The navigation algorithms of reveal.js (ratchet-examples/reveal.js/js/  *)
(* reveal.js), as operators on two records.  c is the presentation: its    *)
(* markup, which no code here changes, and its config object.  d is the    *)
(* deck: what the code keeps in its closure (indexh, indexv, currentSlide, *)
(* previousSlide) and what it writes into the DOM and reads back from it   *)
(* (classes, data attributes, style.display).                              *)
(*                                                                         *)
(*   c.n             number of horizontal slides                           *)
(*   c.verticals[x]  number of <section>s nested in horizontal slide x     *)
(*   c.startv[x]     its data-start-indexv, or Undef                       *)
(*   c.frags[l]      data-fragment-index of each fragment of slide l, in   *)
(*                   document order, Undef where the attribute is missing  *)
(*   c.ids[name]     the section with that id                              *)
(*   c.number[name]  parseInt(name), or Undef when it is NaN               *)
(*   c.loop, c.rtl, c.fragments, c.viewDistance     as in config           *)
(*                                                                         *)
(* A section is a pair: <<x, Whole>> for horizontal slide x, <<x, y>> for  *)
(* the y-th section nested in it.                                          *)
(***************************************************************************)
EXTENDS Integers, Sequences, FiniteSets, Functions

Whole == -1
Undef == -2
None  == <<Whole, Whole>>
NoName == ""

Tops(c)        == {<<x, Whole>> : x \in 0 .. c.n - 1}
Children(c, x) == {<<x, y>> : y \in 0 .. c.verticals[x] - 1}
Sections(c)    == Tops(c) \cup UNION {Children(c, x) : x \in 0 .. c.n - 1}
IsStack(c, x)  == x \in 0 .. c.n - 1 /\ c.verticals[x] > 0

(* The slides one can be on: every section that is not a stack.            *)
Leaves(c) == {s \in Sections(c) : s[2] = Whole => ~IsStack(c, s[1])}

(* What a page may say of itself: at least one slide, and numbers where     *)
(* numbers are expected.                                                    *)
IsPresentation(c) ==
  /\ c.n \in Nat \ {0}
  /\ c.verticals \in [0 .. c.n - 1 -> Nat]
  /\ c.startv \in [0 .. c.n - 1 -> Nat \cup {Undef}]
  /\ c.frags \in [Leaves(c) -> Seq(Nat \cup {Undef})]
  /\ NoName \notin DOMAIN c.ids /\ \A id \in DOMAIN c.ids : c.ids[id] \in Sections(c)
  /\ \A id \in DOMAIN c.number : c.number[id] \in Int
  /\ c.viewDistance \in Nat
  /\ <<c.loop, c.rtl, c.fragments>> \in BOOLEAN \X BOOLEAN \X BOOLEAN

(* No id of the page starts with digits, which readURL() takes for an index. *)
NamesAreNames(c) == \A id \in DOMAIN c.ids \cap DOMAIN c.number : c.number[id] = Undef

IsVerticalSlide(s) == s[2] # Whole

(* currentVerticalSlides[indexv] || currentHorizontalSlide                 *)
SlideAt(c, x, y) == IF y \in 0 .. c.verticals[x] - 1 THEN <<x, y>> ELSE <<x, Whole>>

(* The page as resetVerticalSlides() leaves it, before the first slide().  *)
FreshDeck(c) ==
  [h |-> 0, v |-> 0, cur |-> None, prev |-> None,
   cls  |-> [s \in Sections(c) |-> IF s[2] > 0 THEN "future" ELSE "none"],
   mem  |-> [x \in 0 .. c.n - 1 |-> 0],
   vis  |-> [l \in Leaves(c) |-> {}],
   mark |-> [l \in Leaves(c) |-> {}],
   attr |-> c.frags,
   shown |-> Sections(c), home |-> FALSE, overview |-> FALSE, events |-> <<>>]

-----------------------------------------------------------------------------
(* Fragments.  sortFragments() renumbers the fragments S of slide l: groups *)
(* by their attribute first, then the ones without, with no gaps.           *)
SortFragments(d, l, S) ==
  LET a       == d.attr[l]
      ordered == {a[i] : i \in S} \ {Undef}
      place(i) == IF a[i] # Undef
                  THEN Cardinality({k \in ordered : k < a[i]})
                  ELSE Cardinality(ordered) + Cardinality({j \in S : j < i /\ a[j] = Undef})
  IN [d EXCEPT !.attr[l] = [i \in DOMAIN a |-> IF i \in S THEN place(i) ELSE a[i]]]

(* Every slide of the deck at once, as sync() does; slides do not interact. *)
SortAllFragments(c, d) ==
  [d EXCEPT !.attr = [l \in Leaves(c) |-> SortFragments(d, l, DOMAIN d.attr[l]).attr[l]]]

(* The loop of navigateFragment(): the fragments of the current slide with  *)
(* a number up to index are visible, the others are not.                    *)
ShowUpTo(d, index) ==
  LET l  == d.cur
      on == {i \in DOMAIN d.attr[l] : d.attr[l][i] <= index}
      hidden == d.vis[l] \ on
      shown  == on \ d.vis[l]
  IN [d EXCEPT !.vis[l]  = on,
               !.mark[l] = {i \in on : d.attr[l][i] = index},
               !.events  = @ \o (IF hidden # {} THEN <<"fragmenthidden">> ELSE <<>>)
                             \o (IF shown  # {} THEN <<"fragmentshown">>  ELSE <<>>)]

HasFragments(c, d) == c.fragments /\ d.cur # None /\ d.attr[d.cur] # <<>>

NavigateFragment(c, d, index) ==
  IF HasFragments(c, d)
  THEN ShowUpTo(SortFragments(d, d.cur, DOMAIN d.attr[d.cur]), index)
  ELSE d

(* The number of the last visible fragment, -1 when there is none.          *)
LastVisible(d) ==
  LET S == {d.attr[d.cur][i] : i \in d.vis[d.cur]}
  IN IF S = {} THEN -1 ELSE CHOOSE k \in S : \A j \in S : j <= k

(* nextFragment() and previousFragment(): the visible ones are numbered on   *)
(* their own to find where we are.                                          *)
StepFragment(c, d, offset) ==
  IF HasFragments(c, d)
  THEN LET all  == SortFragments(d, d.cur, DOMAIN d.attr[d.cur])
           seen == SortFragments(all, d.cur, all.vis[d.cur])
       IN ShowUpTo(seen, LastVisible(seen) + offset)
  ELSE d

(* What nextFragment() and previousFragment() return.                       *)
FragmentMoved(d, e) == e.vis # d.vis

AvailableFragments(c, d) ==
  [prev |-> HasFragments(c, d) /\ d.vis[d.cur] # {},
   next |-> HasFragments(c, d) /\ d.vis[d.cur] # DOMAIN d.attr[d.cur]]

-----------------------------------------------------------------------------
(* Where an index lands among k slides: around when the deck loops, else at *)
(* the nearest end; with no slides we cannot be beyond the zeroth index.    *)
Bounded(c, i, k) ==
  IF k = 0 THEN 0
  ELSE IF c.loop THEN i % k
  ELSE IF i > k - 1 THEN k - 1
  ELSE IF i < 0 THEN 0
  ELSE i

\* Mutant: the slides after the current one keep their fragments.
UpdateSlidesForward(c, d, dim, row, at) ==
  LET group == IF dim = 1 THEN Tops(c) ELSE Children(c, row)
      Inside(l) == dim = 1 \/ (l[1] = row /\ IsVerticalSlide(l))
      Word(s) == IF s[dim] = at THEN "present"
                 ELSE IF (s[dim] < at) = (dim = 1 /\ c.rtl) THEN "future" ELSE "past"
  IN [d EXCEPT
        !.cls = [s \in DOMAIN @ |-> IF s \in group THEN Word(s) ELSE @[s]],
        !.vis = [l \in DOMAIN @ |-> IF Inside(l) /\ l[dim] < at THEN DOMAIN d.attr[l] ELSE @[l]]]

(* updateSlides() in one dimension: dim 1 turns the horizontal slides, dim  *)
(* 2 the ones nested in row.  Slides before at are past and show all their  *)
(* fragments, slides after it are future and show none.                     *)
UpdateSlides(c, d, dim, row, at) ==
  LET group   == IF dim = 1 THEN Tops(c) ELSE Children(c, row)
      Inside(l) == dim = 1 \/ (l[1] = row /\ IsVerticalSlide(l))
      reverse == dim = 1 /\ c.rtl
      Word(s) == IF s[dim] = at THEN "present"
                 ELSE IF (s[dim] < at) = reverse THEN "future" ELSE "past"
      Away(l) == Inside(l) /\ l[dim] # at
  IN [d EXCEPT
        !.cls  = [s \in DOMAIN @ |-> IF s \in group THEN Word(s) ELSE @[s]],
        !.vis  = [l \in DOMAIN @ |-> IF ~Away(l) THEN @[l]
                                     ELSE IF l[dim] < at THEN DOMAIN d.attr[l] ELSE {}],
        !.mark = [l \in DOMAIN @ |-> IF Away(l) THEN {} ELSE @[l]]]

(* getPreviousVerticalIndex(): where to resume in horizontal slide x.  The  *)
(* class 'stack' it asks for is given by the first slide().                 *)
Remembered(c, d, x) ==
  IF d.cur = None \/ ~IsStack(c, x) THEN 0
  ELSE IF c.startv[x] # Undef THEN c.startv[x]
  ELSE d.mem[x]

Distance(i, j) == IF i > j THEN i - j ELSE j - i

(* updateSlidesVisibility(): the sections that are not display: none.       *)
Shown(c, d) ==
  LET reach  == IF d.overview THEN 10 ELSE c.viewDistance
      period == Distance(c.n, reach)
      far(x) == IF period = 0 THEN 0 ELSE Distance(d.h, x) % period
      deep(s) == Distance(IF s[1] = d.h THEN d.v ELSE Remembered(c, d, s[1]), s[2])
  IN {s \in Sections(c) :
        far(s[1]) + (IF IsVerticalSlide(s) THEN deep(s) ELSE 0) <= reach}

\* Mutants: the previous slide is the current one when nothing changed; it
\* keeps its class.
LeaveSame(from, e, slideChanged) ==
  [e EXCEPT
     !.prev = from,
     !.cls  = [s \in DOMAIN @ |-> IF slideChanged /\ s = from /\ @[s] = "present"
                                  THEN "none" ELSE @[s]],
     !.home = @ \/ (slideChanged /\ from # None /\ e.h = 0),
     !.events = @ \o (IF slideChanged THEN <<"slidechanged">> ELSE <<>>) \o <<"url">>]
LeavePresent(from, e, slideChanged) ==
  [e EXCEPT
     !.prev = IF slideChanged THEN from ELSE None,
     !.home = @ \/ (slideChanged /\ from # None /\ e.h = 0),
     !.events = @ \o (IF slideChanged THEN <<"slidechanged">> ELSE <<>>) \o <<"url">>]

(* The end of slide(): from leaves "previous" for e, which is not the same   *)
(* slide when the indices changed.  An edge case leaves its class present.  *)
Leave(from, e, slideChanged) ==
  [e EXCEPT
     !.prev = IF slideChanged THEN from ELSE None,
     !.cls  = [s \in DOMAIN @ |-> IF slideChanged /\ s = from /\ @[s] = "present"
                                  THEN "none" ELSE @[s]],
     !.home = @ \/ (slideChanged /\ from # None /\ e.h = 0),
     !.events = @ \o (IF slideChanged THEN <<"slidechanged">> ELSE <<>>) \o <<"url">>]

(* slide(h, v, f): Undef stands for an argument that is not given.          *)
Slide(c, d, h, v, f) ==
  LET goal == IF v = Undef THEN Remembered(c, d, h) ELSE v
      kept == IF d.cur # None /\ IsVerticalSlide(d.cur)
              THEN [d EXCEPT !.mem[d.cur[1]] = d.v] ELSE d
      x == Bounded(c, h, c.n)
      y == Bounded(c, goal, c.verticals[x])
      turned == UpdateSlides(c, UpdateSlides(c, kept, 1, x, x), 2, x, y)
      there  == [turned EXCEPT !.h = x, !.v = y, !.cur = SlideAt(c, x, y)]
      seen   == [there EXCEPT !.shown = Shown(c, there)]
      done   == IF f = Undef THEN seen ELSE NavigateFragment(c, seen, f)
  IN Leave(d.cur, done, x # d.h \/ y # d.v)

(* The task slide() leaves behind when it lands on the first slide.         *)
ResetStacks(c, d) ==
  [d EXCEPT !.mem = [x \in DOMAIN @ |-> IF IsStack(c, x) THEN 0 ELSE @[x]], !.home = FALSE]

-----------------------------------------------------------------------------
\* Mutant: one slide too many below.
AvailableRoutesBelow(c, d) ==
  LET back == d.h > 0 \/ c.loop
      on   == d.h < c.n - 1 \/ c.loop
  IN [left  |-> IF c.rtl THEN on ELSE back,
      right |-> IF c.rtl THEN back ELSE on,
      up    |-> d.v > 0,
      down  |-> d.v < c.verticals[d.h]]

AvailableRoutes(c, d) ==
  LET back == d.h > 0 \/ c.loop
      on   == d.h < c.n - 1 \/ c.loop
  IN [left  |-> IF c.rtl THEN on ELSE back,
      right |-> IF c.rtl THEN back ELSE on,
      up    |-> d.v > 0,
      down  |-> d.v < c.verticals[d.h] - 1]

(* The arrows try the fragments of the slide first, except in the overview. *)
Try(c, d, offset) == IF d.overview THEN d ELSE StepFragment(c, d, offset)

NavigateLeft(c, d) ==
  LET by == IF c.rtl THEN 1 ELSE -1
      e  == Try(c, d, by)
  IN IF ~FragmentMoved(d, e) /\ AvailableRoutes(c, d).left
     THEN Slide(c, e, d.h + by, Undef, Undef) ELSE e

NavigateRight(c, d) ==
  LET by == IF c.rtl THEN -1 ELSE 1
      e  == Try(c, d, by)
  IN IF ~FragmentMoved(d, e) /\ AvailableRoutes(c, d).right
     THEN Slide(c, e, d.h + by, Undef, Undef) ELSE e

NavigateUp(c, d) ==
  LET e == Try(c, d, -1)
  IN IF ~FragmentMoved(d, e) /\ AvailableRoutes(c, d).up
     THEN Slide(c, e, d.h, d.v - 1, Undef) ELSE e

NavigateDown(c, d) ==
  LET e == Try(c, d, 1)
  IN IF ~FragmentMoved(d, e) /\ AvailableRoutes(c, d).down
     THEN Slide(c, e, d.h, d.v + 1, Undef) ELSE e

\* Mutant: back to where we were in the stack, not to its last slide.
NavigatePrevResuming(c, d) ==
  LET e == StepFragment(c, d, -1)
  IN IF FragmentMoved(d, e) THEN e
     ELSE IF AvailableRoutes(c, d).up THEN NavigateUp(c, e)
     ELSE IF d.h > 0 /\ d.cls[<<d.h - 1, Whole>>] = "past"
     THEN Slide(c, e, d.h - 1, Undef, Undef)
     ELSE e

(* Backwards: a fragment, the slide above, or the last slide of the stack   *)
(* before, which is looked up by its class 'past'.                          *)
NavigatePrev(c, d) ==
  LET e    == StepFragment(c, d, -1)
      last == c.verticals[d.h - 1] - 1
  IN IF FragmentMoved(d, e) THEN e
     ELSE IF AvailableRoutes(c, d).up THEN NavigateUp(c, e)
     ELSE IF d.h > 0 /\ d.cls[<<d.h - 1, Whole>>] = "past"
     THEN Slide(c, e, d.h - 1, IF last = 0 THEN Undef ELSE last, Undef)
     ELSE e

NavigateNext(c, d) ==
  LET e == StepFragment(c, d, 1)
  IN IF FragmentMoved(d, e) THEN e
     ELSE IF AvailableRoutes(c, d).down THEN NavigateDown(c, e)
     ELSE NavigateRight(c, e)

Press(c, d, dir) ==
  CASE dir = "left"  -> NavigateLeft(c, d)
    [] dir = "right" -> NavigateRight(c, d)
    [] dir = "up"    -> NavigateUp(c, d)
    [] dir = "down"  -> NavigateDown(c, d)
    [] dir = "prev"  -> NavigatePrev(c, d)
    [] dir = "next"  -> NavigateNext(c, d)

Directions == {"left", "right", "up", "down", "prev", "next"}

(* updateControls(): the arrows that carry the class 'enabled'.             *)
Controls(c, d) ==
  LET r == AvailableRoutes(c, d)
      f == AvailableFragments(c, d)
      upright == IsVerticalSlide(d.cur)
      Enabled(dir) ==
        CASE dir = "left"  -> r.left  \/ (f.prev /\ ~upright)
          [] dir = "right" -> r.right \/ (f.next /\ ~upright)
          [] dir = "up"    -> r.up    \/ (f.prev /\ upright)
          [] dir = "down"  -> r.down  \/ (f.next /\ upright)
          [] dir = "prev"  -> r.left  \/ r.up   \/ f.prev
          [] dir = "next"  -> r.right \/ r.down \/ f.next
  IN {dir \in Directions : Enabled(dir)}

-----------------------------------------------------------------------------
(* Document order, a stack after the slides it contains.                    *)
Precedes(s, t) ==
  \/ s[1] < t[1]
  \/ s[1] = t[1] /\ s # t /\ (t[2] = Whole \/ (s[2] # Whole /\ s[2] < t[2]))

(* updateProgress(): it counts slides until it meets one that is present.   *)
PastCount(c, d) ==
  LET present == {s \in Sections(c) : d.cls[s] = "present"}
  IN Cardinality({l \in Leaves(c) : \A s \in present : Precedes(l, s)})

(* isFirstSlide() looks for a section of class 'past', isLastSlide() for a  *)
(* sibling element after the current slide, or after its stack.             *)
IsFirstSlide(c, d) == \A s \in Sections(c) : d.cls[s] # "past"
IsLastSlide(c, d) ==
  /\ d.cur # None
  /\ IF IsVerticalSlide(d.cur)
     THEN d.cur[2] = c.verticals[d.cur[1]] - 1 /\ d.cur[1] = c.n - 1
     ELSE d.cur[1] = c.n - 1

(* getIndices() of the deck: f counts the visible fragments from -1, and is *)
(* undefined on a slide without any.                                        *)
Indices(d) ==
  [h |-> d.h, v |-> d.v,
   f |-> IF d.attr[d.cur] = <<>> THEN Undef ELSE Cardinality(d.vis[d.cur]) - 1]

-----------------------------------------------------------------------------
(* A hash is a record: a name, or the indices "#/h/v".                      *)
HashAt(h, v)   == [name |-> NoName, h |-> h, v |-> v]
HashNamed(id)  == [name |-> id, h |-> 0, v |-> 0]

\* Mutant: the vertical index is left out.
UrlOfTop(c, d) ==
  LET named == {id \in DOMAIN c.ids : c.ids[id] = d.cur}
  IN IF named # {} THEN HashNamed(CHOOSE id \in named : TRUE) ELSE HashAt(d.h, 0)

(* writeURL(): the id of the current slide if it has one.                   *)
UrlOf(c, d) ==
  LET named == {id \in DOMAIN c.ids : c.ids[id] = d.cur}
  IN IF named # {} THEN HashNamed(CHOOSE id \in named : TRUE) ELSE HashAt(d.h, d.v)

(* readURL().  A name that starts with digits is read as an index; the link *)
(* to a stack keeps the vertical index of the slide we are on.              *)
ReadURL(c, d, hash) ==
  LET started == d.cur # None
      isName  == hash.name # NoName /\ (hash.name \in DOMAIN c.number => c.number[hash.name] = Undef)
      h == IF hash.name = NoName THEN hash.h ELSE c.number[hash.name]
  IN IF isName
     THEN IF hash.name \in DOMAIN c.ids
          THEN LET s == c.ids[hash.name]
               IN Slide(c, d, s[1],
                        IF IsVerticalSlide(s) THEN s[2] ELSE IF started THEN d.v ELSE Undef,
                        Undef)
          ELSE Slide(c, d, d.h, d.v, Undef)
     ELSE IF ~started \/ h # d.h \/ hash.v # d.v
          THEN Slide(c, d, h, hash.v, Undef) ELSE d

=============================================================================
