------------------------------ MODULE MCReveal ------------------------------
(***************************************************************************)
(* The presentations on which Reveal is checked, one for each group of     *)
(* features; a page shows one of them.                                     *)
(***************************************************************************)
EXTENDS Reveal

(* A presentation from the number of slides nested in each horizontal one   *)
(* and the fragments of the slides that have some.                          *)
Plain(verticals, frags) ==
  LET n == Len(verticals)
      deck == [n |-> n, verticals |-> [x \in 0 .. n - 1 |-> verticals[x + 1]]]
  IN [n |-> n, verticals |-> deck.verticals,
      startv |-> [x \in 0 .. n - 1 |-> Undef],
      frags  |-> [l \in Leaves(deck) |-> IF l \in DOMAIN frags THEN frags[l] ELSE <<>>],
      ids    |-> [id \in {} |-> None], number |-> [id \in {} |-> Undef],
      loop |-> FALSE, rtl |-> FALSE, fragments |-> TRUE, viewDistance |-> 1,
      auto |-> [s \in Sections(deck) |-> Undef], autoSlide |-> 0, stoppable |-> TRUE,
      history |-> FALSE, mouseWheel |-> FALSE, touch |-> FALSE, preview |-> FALSE,
      start |-> HashAt(0, 0), keys |-> {}, links |-> {}, options |-> {}, calls |-> {}]

Frags(l, attrs) == [m \in {l} |-> attrs]

(* A talk with addresses: a stack in the middle, named slides, fragments    *)
(* with and without a number of their own, opened by the name of the stack; *)
(* one link has a name that starts with a digit.                            *)
Talk ==
  [Plain(<<0, 2, 2>>, [l \in {<<0, Whole>>, <<1, 1>>} |->
                         IF l[1] = 0 THEN <<Undef, 5, 5>> ELSE <<2>>])
   EXCEPT !.history = TRUE, !.start = HashNamed("stack"),
          !.startv = [@ EXCEPT ![1] = 0],
          !.ids = [id \in {"stack", "deep"} |->
                     IF id = "stack" THEN <<1, Whole>> ELSE <<1, 1>>],
          !.number = [id \in {"2nd"} |-> 2],
          !.keys = {"h", "l", "k", "j", "p", "n", "home", "end"},
          !.links = {HashAt(0, 0), HashAt(2, 1), HashNamed("stack"), HashNamed("nowhere"),
                     HashNamed("2nd")}]

(* Opened in the middle, with a stack that starts below its top.            *)
Deep ==
  [Plain(<<1, 3>>, Frags(<<1, 1>>, <<Undef>>))
   EXCEPT !.history = TRUE, !.start = HashNamed("deep"),
          !.ids = [id \in {"deep"} |-> <<1, 2>>],
          !.startv = [x \in 0 .. 1 |-> IF x = 1 THEN 1 ELSE Undef],
          !.keys = {"h", "l", "k", "j", "p", "n", "ignored"},
          !.links = {HashAt(1, 0)}, !.calls = {"slide"}]

(* A kiosk that auto-slides, with a player, the wheel and a configuration   *)
(* that changes.                                                            *)
Kiosk ==
  [Plain(<<2, 0>>, Frags(<<0, 1>>, <<0>>))
   EXCEPT !.autoSlide = 1, !.mouseWheel = TRUE,
          !.keys = {"b", "n", "end"}, !.calls = {"pause", "mouse"},
          !.options = {[loop |-> lp, autoSlide |-> as] : lp \in BOOLEAN, as \in 0 .. 1}]

(* The same without a player; one slide of the stack never auto-slides.     *)
Unstoppable ==
  [Plain(<<2, 0>>, Frags(<<1, Whole>>, <<0, 1>>))
   EXCEPT !.stoppable = FALSE, !.auto = [@ EXCEPT ![<<0, Whole>>] = 1, ![<<0, 1>>] = 0],
          !.autoSlide = 1, !.keys = {"b", "p", "ignored"},
          !.calls = {"pause", "overview", "override", "arrows"}]

(* A tablet: touch, the overview and the preview overlay.                   *)
Tablet ==
  [Plain(<<0, 2>>, Frags(<<0, Whole>>, <<0>>))
   EXCEPT !.touch = TRUE, !.autoSlide = 1, !.keys = {"esc", "space", "return", "shift"},
          !.calls = {"mouse", "overview"}, !.preview = TRUE]

RightToLeft ==
  [Plain(<<0, 2, 0>>, Frags(<<1, 0>>, <<0>>))
   EXCEPT !.rtl = TRUE, !.keys = {"h", "l", "k", "j", "p", "n"}]

MCPresentations == {Talk, Deep, Kiosk, Unstoppable, Tablet, RightToLeft}

ASSUME NamesAssumption == \A p \in MCPresentations : NamesAreNames(p)
=============================================================================
