---------------------------- MODULE MC_PlanEdits ----------------------------
(***************************************************************************)
(* Instances of PlanEdits for TLC: a schedule that changes the dates of the *)
(* plan and two sessions, an edit of the dates alone, and a note.           *)
(***************************************************************************)
EXTENDS PlanEdits, TLC

CONSTANTS dates, lesson, t1, t2, schedule, change, note

MC_Touches == (schedule :> {dates, t1, t2}) @@ (change :> {dates}) @@ (note :> {})
Symmetry   == Permutations(Strands) \cup Permutations({t1, t2})

=============================================================================
