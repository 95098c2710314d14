------------------------------- MODULE MCGame -------------------------------
(* Two players, of whom none differs from another. *)
EXTENDS Game, TLC

CONSTANTS P, Q

Alike == Permutations(Player)
=============================================================================
