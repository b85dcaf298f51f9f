----------------------------- MODULE MC_Refunds -----------------------------
(***************************************************************************)
(* Instances of Refunds for TLC.                                           *)
(***************************************************************************)
EXTENDS Refunds, TLC

CONSTANTS p1, p2, o1, o2

\* One payment for each order.
OwnOrder == p1 :> o1 @@ p2 :> o2
OnlyOne  == p1 :> o1

Symmetry == Permutations(Refunds) \cup Permutations(Handlers)

=============================================================================
