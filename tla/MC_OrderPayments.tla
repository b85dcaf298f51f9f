-------------------------- MODULE MC_OrderPayments --------------------------
(***************************************************************************)
(* Instances of OrderPayments for TLC.                                     *)
(***************************************************************************)
EXTENDS OrderPayments, TLC

\* Handlers are interchangeable, and so are attempts made under one provider; used
\* where no liveness is checked.
Symmetry == Permutations(Handlers) \cup Permutations(Attempts \ TestAttempts)

\* Bound: the provider is not switched while the order lives, so its attempts are
\* all hosted ones or all the test provider's (cash may come beside either).
OneProvider ==
  \A a \in TestAttempts, b \in Attempts \ TestAttempts : payFor[a] = None \/ payFor[b] = None \/ "cash" \in {charge[a], charge[b]}

=============================================================================
