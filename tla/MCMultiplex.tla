---------------------------- MODULE MCMultiplex ----------------------------
(***************************************************************************)
(* Three pages and the ways to connect them, on which Multiplex is checked. *)
(***************************************************************************)
EXTENDS Multiplex

CONSTANTS A, B, C

(* Two slides, the second a stack, with fragments one after the other, in a *)
(* group, or without any.                                                   *)
TalkWith(first, deep) ==
  LET markup == [n |-> 2, verticals |-> [x \in 0 .. 1 |-> 2 * x]]
  IN [n |-> 2, verticals |-> markup.verticals, startv |-> [x \in 0 .. 1 |-> Undef],
      frags |-> [l \in Leaves(markup) |->
                   CASE l = <<0, Whole>> -> first
                     [] l = <<1, 0>> -> deep
                     [] OTHER -> <<>>],
      ids |-> [id \in {} |-> None], number |-> [id \in {} |-> Undef],
      loop |-> FALSE, rtl |-> FALSE, fragments |-> TRUE, viewDistance |-> 3]

Stepwise == TalkWith(<<1, 0>>, <<Undef>>)
Grouped  == TalkWith(<<0, 0, 1>>, <<>>)
Bare     == TalkWith(<<>>, <<>>)

Setup(c, how, masters, clients, trusted) ==
  [c |-> c, how |-> how, masters |-> masters, clients |-> clients, trusted |-> trusted]

MCSetups ==
  {Setup(Stepwise, "multiplex", {A}, {B, C}, {A}),
   Setup(Stepwise, "multiplex", {A, B}, {B, C}, {A}),
   Setup(Bare, "multiplex", {A, B}, {A, B}, {A, B}),
   Setup(Stepwise, "notes", {A}, {B}, {A}),
   Setup(Stepwise, "popup", {A}, {B}, {A})}

GroupedSetups == {Setup(Grouped, "multiplex", {A}, {B}, {A})}

ASSUME SteadyAssumption == \A s \in MCSetups : Steady(s)
=============================================================================
