--------------------------- MODULE MC_TrainerCode ---------------------------
(***************************************************************************)
(* Instances of TrainerCode for TLC.                                       *)
(***************************************************************************)
EXTENDS TrainerCode, TLC

CONSTANTS u1, u2, o1, o2, o3, c1, c2

\* Two orders of one learner, and one of another.
TwiceAndOnce == o1 :> u1 @@ o2 :> u1 @@ o3 :> u2
Twice        == o1 :> u1 @@ o2 :> u1

\* A fee that holds no whole discount of 2, and one that holds one.
Fees == c1 :> 1 @@ c2 :> 3

Symmetry == Permutations(Handlers) \cup Permutations(Statements)

=============================================================================
