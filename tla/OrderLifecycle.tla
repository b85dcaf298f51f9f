--------------------------- MODULE OrderLifecycle ---------------------------
(***************************************************************************)
(* What an order promises its buyer, said without handlers, doors or        *)
(* crashes: it is placed with a seat held; it may be cancelled while it     *)
(* awaits payment, which frees the seat; it is settled once, even after     *)
(* being cancelled (the money came); a settled order becomes an enrolment   *)
(* or a follow-up, after which the buyer is told, once.                     *)
(***************************************************************************)
EXTENDS Naturals

CONSTANT Orders

VARIABLES order, invoice, hold, seat, told
vars == <<order, invoice, hold, seat, told>>

Init ==
  /\ order   = [o \in Orders |-> "none"]
  /\ invoice = [o \in Orders |-> "none"]
  /\ hold    = [o \in Orders |-> "none"]
  /\ seat    = [o \in Orders |-> "none"]
  /\ told    = [o \in Orders |-> 0]

Place(o) ==
  /\ order[o] = "none"
  /\ order'   = [order EXCEPT ![o] = "pending_payment"]
  /\ invoice' = [invoice EXCEPT ![o] = "issued"]
  /\ hold'    = [hold EXCEPT ![o] = "seat_held"]
  /\ UNCHANGED <<seat, told>>

Cancel(o) ==
  /\ order[o] = "pending_payment"
  /\ order'   = [order EXCEPT ![o] = "cancelled"]
  /\ invoice' = [invoice EXCEPT ![o] = "void"]
  /\ hold'    = [hold EXCEPT ![o] = "cancelled"]
  /\ UNCHANGED <<seat, told>>

Settle(o) ==
  /\ order[o] \in {"pending_payment", "cancelled"}
  /\ order'   = [order EXCEPT ![o] = "paid"]
  /\ invoice' = [invoice EXCEPT ![o] = "paid"]
  /\ UNCHANGED <<hold, seat, told>>

\* The buyer is enrolled or left to a follow-up, once; only an enrolment ends a hold.
Serve(o) ==
  /\ order[o] = "paid"
  /\ seat[o] = "none"
  /\ \/ /\ seat' = [seat EXCEPT ![o] = "enrolled"]
        /\ hold' = [hold EXCEPT ![o] = IF hold[o] = "seat_held" THEN "converted" ELSE hold[o]]
     \/ /\ seat' = [seat EXCEPT ![o] = "failed"]
        /\ UNCHANGED hold
  /\ UNCHANGED <<order, invoice, told>>

Tell(o) ==
  /\ seat[o] # "none"
  /\ told[o] = 0
  /\ told' = [told EXCEPT ![o] = 1]
  /\ UNCHANGED <<order, invoice, hold, seat>>

Next == \E o \in Orders : Place(o) \/ Cancel(o) \/ Settle(o) \/ Serve(o) \/ Tell(o)

Spec == Init /\ [][Next]_vars

=============================================================================
