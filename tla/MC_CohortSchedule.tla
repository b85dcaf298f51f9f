------------------------- MODULE MC_CohortSchedule -------------------------
(***************************************************************************)
(* Instances of CohortSchedule for TLC.                                    *)
(***************************************************************************)
EXTENDS CohortSchedule, TLC

\* The terms of a year of 13 days.
Seasons == 0 :> 0 @@ 1 :> 3 @@ 2 :> 7 @@ 3 :> 10

Symmetry == Permutations(Strands) \cup Permutations(Offers)

=============================================================================
