---------------------------- MODULE MC_SeatHolds ----------------------------
(***************************************************************************)
(* Instances of SeatHolds for TLC.                                         *)
(***************************************************************************)
EXTENDS SeatHolds, TLC

CONSTANTS u1, u2, u3, u4, o1, o2, o3

\* Whose orders they are: one each, or one of one learner.
OneEach == o1 :> u1 @@ o2 :> u2 @@ o3 :> u3
One == o1 :> u1

\* A full cohort of one seat with a waiting list: u1 is enrolled, the others wait.
FullCohort ==
  /\ enr    = [u \in Users |-> IF u = u1 THEN "enrolled" ELSE "waitlisted"]
  /\ since  = u1 :> 1 @@ u2 :> 2 @@ u3 :> 3 @@ u4 :> 4
  /\ joined = since
  /\ label  = "full" /\ barred = {}
  /\ clock  = 4
  /\ status = [u \in Users |-> "none"] /\ heldBy = [u \in Users |-> None]
  /\ order  = [o \in Orders |-> "none"] /\ outcome = [o \in Orders |-> "none"]
  /\ job    = [p \in Handlers |-> Idle] /\ staffed = 0

FullSpec == FullCohort /\ [][Next]_vars

Symmetry == Permutations(Handlers)

=============================================================================
