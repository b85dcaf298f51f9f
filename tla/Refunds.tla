------------------------------ MODULE Refunds ------------------------------
(***************************************************************************)
(* Money given back: a refund of a payment is asked for (requestRefund) and *)
(* finance approves or rejects it (processRefund).  An approval asks the    *)
(* provider to send the money inside a transaction that holds a lock on the *)
(* payment, books the refund there, and only after the commit corrects what *)
(* the trainer owes for his code (applyCodeRefund).                         *)
(*                                                                         *)
(* What the provider did cannot be rolled back: when its answer is lost, or *)
(* the transaction is, the refund is pending again and the money is sent.   *)
(* Left out: the seats dropped with a refund (a Drop of SeatHolds), messages. *)
(***************************************************************************)
EXTENDS Naturals, FiniteSets

CONSTANTS
  Orders, Payments, Refunds,
  OrderOf,    \* the order a payment is of
  Price,      \* what was paid, in units; each payment is of its whole invoice
  Handlers,
  MaxCuts,    \* bound: lost answers for each refund
  None

ASSUME OrderOfAssumption == OrderOf \in [Payments -> Orders]
ASSUME RefundsAssumption == IsFiniteSet(Refunds)
ASSUME PriceAssumption   == Price \in Nat \ {0}
ASSUME CutsAssumption    == MaxCuts \in Nat
ASSUME NoneAssumption    == None \notin Payments \cup Refunds

VARIABLES
  refund,    \* Refund: its payment, amount and status
  pay,       \* Payment.status
  order,     \* Order.status
  redeemed,  \* TrainerCodeRedemption.status of an order
  applied,   \* the refunded total TrainerCodeRedemption.owed was last computed from
  flagged,   \* the correction of an order's debt was left to a person
  sent,      \* how often the provider has sent a refund's money
  cut,       \* how often it was sent and its booking lost
  job

vars == <<refund, pay, order, redeemed, applied, flagged, sent, cut, job>>

Paid == {"succeeded", "partially_refunded", "refunded"}

Places == {"idle", "request", "reject", "lock", "call", "book", "ledger", "apply"}

\* total: refunded of the payment, as booked; read: the debt's total, as read.
Job  == [at : Places, pay : Payments \cup {None}, ref : Refunds \cup {None},
         amount : 0..Price, total : Nat, read : Nat]
Idle == [at |-> "idle", pay |-> None, ref |-> None, amount |-> 0, total |-> 0, read |-> 0]

Refund == [pay : Payments \cup {None}, amount : 0..Price,
           status : {"none", "pending", "processed", "rejected"}]

TypeOK ==
  /\ refund   \in [Refunds -> Refund]
  /\ pay      \in [Payments -> Paid]
  /\ order    \in [Orders -> Paid]
  /\ redeemed \in [Orders -> {"paid", "refunded"}]
  /\ applied  \in [Orders -> Nat]
  /\ flagged  \in [Orders -> BOOLEAN]
  /\ sent     \in [Refunds -> Nat]
  /\ cut      \in [Refunds -> Nat]
  /\ job      \in [Handlers -> Job]

\* Every payment has succeeded and every order was bought with a trainer's code.
Init ==
  /\ refund   = [r \in Refunds |-> [pay |-> None, amount |-> 0, status |-> "none"]]
  /\ pay      = [p \in Payments |-> "succeeded"]
  /\ order    = [o \in Orders |-> "succeeded"]
  /\ redeemed = [o \in Orders |-> "paid"]
  /\ applied  = [o \in Orders |-> 0]
  /\ flagged  = [o \in Orders |-> FALSE]
  /\ sent     = [r \in Refunds |-> 0]
  /\ cut      = [r \in Refunds |-> 0]
  /\ job      = [h \in Handlers |-> Idle]

----------------------------------------------------------------------------
(* What the handlers read, each with the slip a change could make of it. *)

\* The units of money that refunds of a payment ask for; a sum is a count of these.
Units(p, statuses) ==
  {u \in Refunds \X (1..Price) :
     refund[u[1]].pay = p /\ refund[u[1]].status \in statuses /\ u[2] <= refund[u[1]].amount}

Total(p, statuses) == Cardinality(Units(p, statuses))

\* A request counts what is pending with what is processed.
MayAsk(p, n) == n > 0 /\ Total(p, {"pending", "processed"}) + n <= Price

InTx(h) == job[h].at \in {"call", "book"}

\* The lock of a payment is held until its transaction ends, and the refund's row with it.
LockFree_Always(p) == TRUE
LockFree(p) == \A h \in Handlers : InTx(h) => job[h].pay # p

RowFree(r) == \A h \in Handlers : InTx(h) => job[h].ref # r

\* The question asked again under the lock.
StillPending_AsRead(r) == TRUE
StillPending(r) == refund[r].status = "pending"

Fits(p, r) == Total(p, {"processed"}) + refund[r].amount <= Price

Rejectable_AsRead(r) == TRUE
Rejectable(r) == refund[r].status = "pending"

StatusOf_OfRefund(total, n)   == "processed"
StatusOf_ThisRefund(total, n) == IF n >= Price THEN "refunded" ELSE "partially_refunded"
StatusOf(total, n)            == IF total >= Price THEN "refunded" ELSE "partially_refunded"

At(h, place) == job[h].at = place
Finish(h)    == job' = [job EXCEPT ![h] = Idle]

----------------------------------------------------------------------------
RequestRead(h, p, n) ==
  /\ At(h, "idle")
  /\ pay[p] \in {"succeeded", "partially_refunded"}
  /\ MayAsk(p, n)
  /\ job' = [job EXCEPT ![h] = [Idle EXCEPT !.at = "request", !.pay = p, !.amount = n]]
  /\ UNCHANGED <<refund, pay, order, redeemed, applied, flagged, sent, cut>>

RequestWrite(h, r) ==
  /\ At(h, "request")
  /\ refund[r].status = "none"
  /\ refund' = [refund EXCEPT ![r] = [pay |-> job[h].pay, amount |-> job[h].amount, status |-> "pending"]]
  /\ Finish(h)
  /\ UNCHANGED <<pay, order, redeemed, applied, flagged, sent, cut>>

\* Bound: the model has a few refunds, and gives up when they are used.
NoRefundLeft(h) ==
  /\ At(h, "request")
  /\ \A r \in Refunds : refund[r].status # "none"
  /\ Finish(h)
  /\ UNCHANGED <<refund, pay, order, redeemed, applied, flagged, sent, cut>>

\* A rejection waits for an approval that holds the row, and then finds it decided.
RejectRead(h, r) ==
  /\ At(h, "idle")
  /\ refund[r].status = "pending"
  /\ job' = [job EXCEPT ![h] = [Idle EXCEPT !.at = "reject", !.ref = r]]
  /\ UNCHANGED <<refund, pay, order, redeemed, applied, flagged, sent, cut>>

RejectWrite(h) ==
  LET r == job[h].ref IN
  /\ At(h, "reject")
  /\ RowFree(r)
  /\ refund' = IF Rejectable(r) THEN [refund EXCEPT ![r].status = "rejected"] ELSE refund
  /\ Finish(h)
  /\ UNCHANGED <<pay, order, redeemed, applied, flagged, sent, cut>>

ApproveRead(h, r) ==
  /\ At(h, "idle")
  /\ refund[r].status = "pending"
  /\ job' = [job EXCEPT ![h] = [Idle EXCEPT !.at = "lock", !.ref = r, !.pay = refund[r].pay]]
  /\ UNCHANGED <<refund, pay, order, redeemed, applied, flagged, sent, cut>>

\* Under the lock: still pending, and still within what was paid.
ApproveLock(h) ==
  LET r == job[h].ref
      p == job[h].pay IN
  /\ At(h, "lock")
  /\ LockFree(p)
  /\ IF StillPending(r) /\ Fits(p, r) THEN job' = [job EXCEPT ![h].at = "call"] ELSE Finish(h)
  /\ UNCHANGED <<refund, pay, order, redeemed, applied, flagged, sent, cut>>

ProviderSends(h) ==
  /\ At(h, "call")
  /\ sent' = [sent EXCEPT ![job[h].ref] = @ + 1]
  /\ job'  = [job EXCEPT ![h].at = "book"]
  /\ UNCHANGED <<refund, pay, order, redeemed, applied, flagged, cut>>

\* The provider refuses: the transaction is rolled back.
ProviderRefuses(h) ==
  /\ At(h, "call")
  /\ Finish(h)
  /\ UNCHANGED <<refund, pay, order, redeemed, applied, flagged, sent, cut>>

Book(h) ==
  LET r     == job[h].ref
      p     == job[h].pay
      total == Total(p, {"processed"}) + refund[r].amount
      now   == StatusOf(total, refund[r].amount) IN
  /\ At(h, "book")
  /\ refund' = [refund EXCEPT ![r].status = "processed"]
  /\ pay'    = [pay EXCEPT ![p] = now]
  /\ order'  = [order EXCEPT ![OrderOf[p]] = now]
  /\ job'    = [job EXCEPT ![h].at = "ledger", ![h].total = total]
  /\ UNCHANGED <<redeemed, applied, flagged, sent, cut>>

\* applyCodeRefund: nothing to do when the debt is settled or already right.
LedgerRead(h) ==
  LET o == OrderOf[job[h].pay] IN
  /\ At(h, "ledger")
  /\ IF redeemed[o] = "paid" /\ (job[h].total # applied[o] \/ job[h].total >= Price)
     THEN job' = [job EXCEPT ![h].at = "apply", ![h].read = applied[o]]
     ELSE Finish(h)
  /\ UNCHANGED <<refund, pay, order, redeemed, applied, flagged, sent, cut>>

\* Written on condition of what was read; otherwise left to a person.
LedgerWrite(h) ==
  LET o == OrderOf[job[h].pay] IN
  /\ At(h, "apply")
  /\ IF redeemed[o] = "paid" /\ applied[o] = job[h].read
     THEN /\ applied'  = [applied EXCEPT ![o] = job[h].total]
          /\ redeemed' = IF job[h].total >= Price THEN [redeemed EXCEPT ![o] = "refunded"] ELSE redeemed
          /\ UNCHANGED flagged
     ELSE /\ flagged' = [flagged EXCEPT ![o] = TRUE]
          /\ UNCHANGED <<applied, redeemed>>
  /\ Finish(h)
  /\ UNCHANGED <<refund, pay, order, sent, cut>>

\* The provider's answer is lost after it has sent the money, the transaction runs into
\* its term, or the process ends, then or between the booking and the debt.
Cut(h) ==
  /\ \/ /\ At(h, "book")
        /\ cut[job[h].ref] < MaxCuts
        /\ cut' = [cut EXCEPT ![job[h].ref] = @ + 1]
     \/ /\ At(h, "ledger") \/ At(h, "apply")
        /\ MaxCuts > 0
        /\ UNCHANGED cut
  /\ Finish(h)
  /\ UNCHANGED <<refund, pay, order, redeemed, applied, flagged, sent>>

Next ==
  \E h \in Handlers :
    \/ \E p \in Payments, n \in 1..Price : RequestRead(h, p, n)
    \/ \E r \in Refunds : RequestWrite(h, r) \/ RejectRead(h, r) \/ ApproveRead(h, r)
    \/ NoRefundLeft(h) \/ RejectWrite(h)
    \/ ApproveLock(h) \/ ProviderSends(h) \/ ProviderRefuses(h) \/ Book(h)
    \/ LedgerRead(h) \/ LedgerWrite(h) \/ Cut(h)

Spec == Init /\ [][Next]_vars

----------------------------------------------------------------------------
(* Properties *)

\* What is booked as refunded never exceeds what was paid, although requests are counted
\* without a lock and two of them may ask for the same money.
BooksWithinPayment == \A p \in Payments : Total(p, {"processed"}) <= Price

\* A payment says of itself what its refunds add up to, and so does its order when it
\* has no other payment.
StatusFollowsRefunds ==
  \A p \in Payments :
    LET total == Total(p, {"processed"}) IN
    /\ pay[p] = IF total = 0 THEN "succeeded" ELSE IF total >= Price THEN "refunded" ELSE "partially_refunded"
    /\ (\A q \in Payments : OrderOf[q] = OrderOf[p] => q = p) => order[OrderOf[p]] = pay[p]

\* A refund's money is sent once for its booking and once for every booking that was
\* lost: two approvals at once, or an approval and a rejection, send nothing twice.
SentAccounted ==
  \A r \in Refunds :
    sent[r] = cut[r] + (IF refund[r].status = "processed" \/ \E h \in Handlers : At(h, "book") /\ job[h].ref = r
                        THEN 1 ELSE 0)

\* A handler works on a payment and a refund of it that was asked for.
Placed ==
  /\ \A r \in Refunds : refund[r].status # "none" => refund[r].pay \in Payments /\ refund[r].amount > 0
  /\ \A h \in Handlers :
       /\ job[h].at \notin {"idle", "reject"} => job[h].pay \in Payments
       /\ At(h, "request") => job[h].amount > 0
       /\ job[h].at \in {"reject", "lock", "call", "book"} =>
            job[h].ref \in Refunds /\ refund[job[h].ref].status # "none"
       /\ job[h].at \in {"lock", "call", "book"} => job[h].pay = refund[job[h].ref].pay

\* A transaction has its payment and its pending refund to itself, and what it found to
\* fit still fits.
TxAlone ==
  \A h \in Handlers : InTx(h) =>
    /\ refund[job[h].ref].status = "pending" /\ Fits(job[h].pay, job[h].ref)
    /\ \A g \in Handlers : InTx(g) /\ job[g].pay = job[h].pay => g = h

\* A refund is decided once: neither a late rejection nor a second approval changes it.
DecidedOnce ==
  [][\A r \in Refunds : refund[r].status \in {"processed", "rejected"} => refund'[r] = refund[r]]_vars

\* What processRefund says of itself: the money is sent to the provider once.
SentOnce == \A r \in Refunds : sent[r] <= 1

\* What applyCodeRefund says of itself: called again after every refund, it arrives at the
\* same number.  With nothing under way and nothing left to a person, the debt is what the
\* refunds leave of it.
DebtFollowsRefunds ==
  (\A h \in Handlers : At(h, "idle")) =>
    \A p \in Payments : ~flagged[OrderOf[p]] => applied[OrderOf[p]] = Total(p, {"processed"})

=============================================================================
