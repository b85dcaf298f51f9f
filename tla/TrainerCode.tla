---------------------------- MODULE TrainerCode ----------------------------
(***************************************************************************)
(* A trainer's discount code, from the purchase that uses it to the fee     *)
(* statement it is deducted from.  An order takes a use of the code with    *)
(* its creation (Coupon.usedCount and a TrainerCodeRedemption row, held),   *)
(* gives it back when it is cancelled, and makes it a debt of the trainer   *)
(* when it is paid; a refund lowers the debt; a statement of the fees for a *)
(* cohort takes what is still pending of it, and its cancellation gives     *)
(* that back.  Refunds shows how totals of refunds race; OrderPayments how  *)
(* an order comes to be paid or cancelled, also that a handler may be cut   *)
(* short before it reaches the ledger, which is left out here.              *)
(*                                                                         *)
(* What a trainer is going to earn is not modelled: his budget may cover a  *)
(* purchase or not.                                                         *)
(***************************************************************************)
EXTENDS Integers, FiniteSets, Functions

CONSTANTS
  Users,       \* learners
  Orders,      \* order ids, each bought with the code
  Buyer,       \* the learner an order is for
  Limit,       \* Coupon.maxUses; 0: no limit
  Amount,      \* the discount of an order, in units
  Cohorts,     \* completed cohorts of the trainer
  Fee,         \* what he is owed for each of them, in units
  Statements,  \* TrainerPayout ids
  Handlers,    \* requests being served at one time
  None         \* no order, no statement, no cohort

ASSUME OrdersAssumption == IsFiniteSet(Orders) /\ Buyer \in [Orders -> Users]
ASSUME LimitAssumption  == Limit \in Nat
ASSUME AmountAssumption == Amount \in Nat \ {0}
ASSUME FeeAssumption    == Fee \in [Cohorts -> Nat]
ASSUME NoneAssumption   == None \notin Orders \cup Statements \cup Cohorts

VARIABLES
  active,     \* Coupon.active
  used,       \* Coupon.usedCount
  order,      \* Order.status ("paid" also after a refund)
  late,       \* orders settled after they had been cancelled
  refunded,   \* what was booked as refunded of an order, in units of its discount
  row,        \* TrainerCodeRedemption.status
  owed,       \* TrainerCodeRedemption.owed
  pending,    \* TrainerCodeRedemption.pending
  flagged,    \* orders with a trainer_code.ledger_failed audit
  raised,     \* orders whose debt went up again: a total was applied after a larger one
  payout,     \* TrainerPayout.status
  cohort,     \* the cohort a statement is for
  items,      \* what a statement took of an order's pending debt (less than 0: gave back)
  job         \* what each handler is doing

coupon    == <<active, used>>
ledger    == <<row, owed, pending, flagged, raised>>
statement == <<payout, cohort, items>>
vars == <<coupon, order, late, refunded, ledger, statement, job>>

\* ord: the order; sum, debt: the refunded total and the row's owed as read; pay, of: the
\* statement and its cohort; plan: what the statement will take.
Job == [at : {"idle", "reserve", "mark", "refund", "correct", "state"}, ord : Orders \cup {None},
        sum : 0..Amount, debt : 0..Amount, pay : Statements \cup {None},
        of : Cohorts \cup {None}, plan : [Orders -> Int]]

Idle == [at |-> "idle", ord |-> None, sum |-> 0, debt |-> 0, pay |-> None, of |-> None,
         plan |-> [o \in Orders |-> 0]]

TypeOK ==
  /\ active   \in BOOLEAN
  /\ used     \in Nat
  /\ order    \in [Orders -> {"none", "pending_payment", "cancelled", "paid"}]
  /\ late     \subseteq Orders
  /\ refunded \in [Orders -> 0..Amount]
  /\ row      \in [Orders -> {"none", "held", "released", "paid", "refunded"}]
  /\ owed     \in [Orders -> 0..Amount]
  /\ pending  \in [Orders -> Int]
  /\ flagged  \subseteq Orders
  /\ raised   \subseteq Orders
  /\ payout   \in [Statements -> {"none", "pending", "approved", "paid", "cancelled"}]
  /\ cohort   \in [Statements -> Cohorts \cup {None}]
  /\ items    \in [Statements -> [Orders -> Int]]
  /\ job      \in [Handlers -> Job]

Init ==
  /\ active = TRUE /\ used = 0
  /\ order    = [o \in Orders |-> "none"]
  /\ late     = {}
  /\ refunded = [o \in Orders |-> 0]
  /\ row      = [o \in Orders |-> "none"]
  /\ owed     = [o \in Orders |-> 0]
  /\ pending  = [o \in Orders |-> 0]
  /\ flagged  = {}
  /\ raised   = {}
  /\ payout   = [s \in Statements |-> "none"]
  /\ cohort   = [s \in Statements |-> None]
  /\ items    = [s \in Statements |-> [o \in Orders |-> 0]]
  /\ job      = [p \in Handlers |-> Idle]

At(p, place) == job[p].at = place
Finish(p)    == job' = [job EXCEPT ![p] = Idle]

----------------------------------------------------------------------------
(* The purchase.                                                            *)

\* CODE_USE_COUNTS, and the unique index over them: once for each learner.
Counted      == {o \in Orders : row[o] \in {"held", "paid"}}
UsedByBuyer(o) == \E q \in Counted \ {o} : Buyer[q] = Buyer[o]

Room == Limit = 0 \/ used < Limit

\* couponFor: what the buyer is told before he pays.
Price(p, o) ==
  /\ At(p, "idle") /\ order[o] = "none"
  /\ active /\ (Limit = 0 \/ used < Limit) /\ ~UsedByBuyer(o)
  /\ job' = [job EXCEPT ![p].at = "reserve", ![p].ord = o]
  /\ UNCHANGED <<coupon, order, late, refunded, ledger, statement>>

\* reserveCouponUse, in the transaction that creates the order.  The coupon's row stays locked
\* from its update to the commit, so that the whole transaction is one step of the ledger.
Reserve(p) ==
  LET o == job[p].ord IN
  /\ At(p, "reserve") /\ order[o] = "none" /\ Room /\ ~UsedByBuyer(o)
  /\ used'  = used + 1
  /\ order' = [order EXCEPT ![o] = "pending_payment"]
  /\ row'   = [row EXCEPT ![o] = "held"]
  /\ Finish(p)
  /\ UNCHANGED <<active, late, refunded, owed, pending, flagged, raised, statement>>

\* No use is left, the learner has used the code, or the trainer's budget does not cover it.
Refused(p) ==
  /\ At(p, "reserve") /\ Finish(p)
  /\ UNCHANGED <<coupon, order, late, refunded, ledger, statement>>

\* releaseCouponUse, in the transaction that cancels the order.
Cancel(o) ==
  /\ order[o] = "pending_payment"
  /\ order' = [order EXCEPT ![o] = "cancelled"]
  /\ used'  = IF used > 0 THEN used - 1 ELSE used
  /\ row'   = [row EXCEPT ![o] = IF @ = "held" THEN "released" ELSE @]
  /\ UNCHANGED <<active, late, refunded, owed, pending, flagged, raised, statement, job>>

----------------------------------------------------------------------------
(* The payment and its refunds.                                             *)

\* settleOrder's claim, which takes a cancelled order too.
Settle(p, o) ==
  /\ At(p, "idle") /\ order[o] \in {"pending_payment", "cancelled"}
  /\ order' = [order EXCEPT ![o] = "paid"]
  /\ late'  = IF order[o] = "cancelled" THEN late \cup {o} ELSE late
  /\ job'   = [job EXCEPT ![p].at = "mark", ![p].ord = o]
  /\ UNCHANGED <<coupon, refunded, ledger, statement>>

Markable_HeldOnly(o) == row[o] = "held"
Markable(o)          == row[o] \in {"held", "released"}

CountedAgain_Never(o) == 0
CountedAgain(o)       == IF row[o] = "released" THEN 1 ELSE 0

\* markCodeUsePaid: a row that is neither held nor released is left as it is.
Mark(p) ==
  LET o == job[p].ord IN
  /\ At(p, "mark") /\ (Markable(o) => ~UsedByBuyer(o))
  /\ IF Markable(o)
     THEN /\ row'     = [row EXCEPT ![o] = "paid"]
          /\ owed'    = [owed EXCEPT ![o] = Amount]
          /\ pending' = [pending EXCEPT ![o] = @ + Amount]
          /\ used'    = used + CountedAgain(o)
     ELSE UNCHANGED <<row, owed, pending, used>>
  /\ Finish(p)
  /\ UNCHANGED <<active, order, late, refunded, flagged, raised, statement>>

\* The index allows the learner no second use: the failure is written down and goes no further.
MarkFails(p) ==
  LET o == job[p].ord IN
  /\ At(p, "mark") /\ Markable(o) /\ UsedByBuyer(o)
  /\ flagged' = flagged \cup {o}
  /\ Finish(p)
  /\ UNCHANGED <<coupon, order, late, refunded, row, owed, pending, raised, statement>>

\* processRefund has booked k more; the ledger follows after its commit.
Refund(p, o, k) ==
  /\ At(p, "idle") /\ order[o] = "paid" /\ refunded[o] + k <= Amount
  /\ refunded' = [refunded EXCEPT ![o] = @ + k]
  /\ job' = [job EXCEPT ![p].at = "refund", ![p].ord = o, ![p].sum = refunded[o] + k]
  /\ UNCHANGED <<coupon, order, late, ledger, statement>>

\* owedAfterRefund, of the total: no refund is subtracted twice.
OwedAfter_Again(debt, sum) == debt - sum
OwedAfter(debt, sum)       == Amount - sum

\* applyCodeRefund: reads the row, and writes if the debt is still what it read.
RefundRead(p) ==
  LET o == job[p].ord IN
  /\ At(p, "refund")
  /\ IF row[o] = "paid" /\ (owed[o] # OwedAfter(owed[o], job[p].sum) \/ job[p].sum = Amount)
     THEN job' = [job EXCEPT ![p].at = "correct", ![p].debt = owed[o]]
     ELSE Finish(p)
  /\ UNCHANGED <<coupon, order, late, refunded, ledger, statement>>

AsRead(p) == row[job[p].ord] = "paid" /\ owed[job[p].ord] = job[p].debt

Correct(p) ==
  LET o    == job[p].ord
      full == job[p].sum = Amount
      now  == OwedAfter(job[p].debt, job[p].sum)
  IN
  /\ At(p, "correct") /\ AsRead(p)
  /\ row'     = [row EXCEPT ![o] = IF full THEN "refunded" ELSE @]
  /\ owed'    = [owed EXCEPT ![o] = now]
  /\ pending' = [pending EXCEPT ![o] = @ + (now - job[p].debt)]
  /\ raised'  = IF now > job[p].debt THEN raised \cup {o} ELSE raised
  /\ used'    = IF full /\ used > 0 THEN used - 1 ELSE used
  /\ Finish(p)
  /\ UNCHANGED <<active, order, late, refunded, flagged, statement>>

CorrectFails(p) ==
  /\ At(p, "correct") /\ ~AsRead(p)
  /\ flagged' = flagged \cup {job[p].ord}
  /\ Finish(p)
  /\ UNCHANGED <<coupon, order, late, refunded, row, owed, pending, raised, statement>>

----------------------------------------------------------------------------
(* The statement of fees: generateForCohort and its cancellation.           *)

Live(s) == payout[s] \in {"pending", "approved", "paid"}

Sum(f, S) == SumFunctionOnSet(f, S)

\* The lock of one trainer's statements is kept from here to the commit.
LockFree_Always == TRUE
LockFree        == \A q \in Handlers : ~At(q, "state")

\* planLedger: every credit, and whole deductions, the oldest first, while they fit; which are
\* oldest is left open, so: deductions that fit, when none of the others would fit too.
Credits    == {o \in Orders : pending[o] < 0}
Deductions == {o \in Orders : pending[o] > 0}
Fits(T, c) == Sum(pending, T \cup Credits) <= Fee[c]
Plans(c) ==
  {[o \in Orders |-> IF o \in Credits \cup T THEN pending[o] ELSE 0] :
     T \in {D \in SUBSET Deductions : Fits(D, c) /\ \A o \in Deductions \ D : ~Fits(D \cup {o}, c)}}

Generate(p, s, c) ==
  /\ At(p, "idle") /\ LockFree
  /\ payout[s] = "none" /\ \A q \in Handlers : job[q].pay # s
  /\ \A t \in Statements : Live(t) => cohort[t] # c
  /\ \E plan \in Plans(c) :
       job' = [job EXCEPT ![p].at = "state", ![p].pay = s, ![p].of = c, ![p].plan = plan]
  /\ UNCHANGED <<coupon, order, late, refunded, ledger, statement>>

\* The ledger goes down by what was taken; it is not set to zero.
After_Zero(p, o) == IF job[p].plan[o] = 0 THEN pending[o] ELSE 0
After(p, o)      == pending[o] - job[p].plan[o]

Issue(p) ==
  LET s == job[p].pay IN
  /\ At(p, "state")
  /\ payout'  = [payout EXCEPT ![s] = "pending"]
  /\ cohort'  = [cohort EXCEPT ![s] = job[p].of]
  /\ items'   = [items EXCEPT ![s] = job[p].plan]
  /\ pending' = [o \in Orders |-> After(p, o)]
  /\ Finish(p)
  /\ UNCHANGED <<coupon, order, late, refunded, row, owed, flagged, raised>>

\* transition: by the statement's status in the write itself.
Step(s, from, to) ==
  /\ payout[s] \in from
  /\ payout' = [payout EXCEPT ![s] = to]
  /\ UNCHANGED <<coupon, order, late, refunded, row, owed, flagged, raised, cohort, items, job>>

ApproveStatement(s) == Step(s, {"pending"}, "approved") /\ UNCHANGED pending
PayStatement(s)     == Step(s, {"approved"}, "paid") /\ UNCHANGED pending

CancelStatement(s) ==
  /\ Step(s, {"pending", "approved"}, "cancelled")
  /\ pending' = [o \in Orders |-> pending[o] + items[s][o]]

----------------------------------------------------------------------------
(* The trainer pauses, resumes or revokes his code, and we switch any coupon  *)
(* off or on.  A purchase asks for Coupon.active alone.                       *)

Switch ==
  /\ active' = ~active
  /\ UNCHANGED <<used, order, late, refunded, ledger, statement, job>>

----------------------------------------------------------------------------
Buying(p)   == Reserve(p) \/ Refused(p) \/ \E o \in Orders : Price(p, o)
Paying(p)   == Mark(p) \/ MarkFails(p) \/ \E o \in Orders : Settle(p, o)
Refunding(p) ==
  \/ RefundRead(p) \/ Correct(p) \/ CorrectFails(p)
  \/ \E o \in Orders, k \in 1..Amount : Refund(p, o, k)
Stating(p)  == Issue(p) \/ \E s \in Statements, c \in Cohorts : Generate(p, s, c)

Next ==
  \/ \E p \in Handlers : Buying(p) \/ Paying(p) \/ Refunding(p) \/ Stating(p)
  \/ \E o \in Orders : Cancel(o)
  \/ \E s \in Statements : ApproveStatement(s) \/ PayStatement(s) \/ CancelStatement(s)
  \/ Switch

Spec == Init /\ [][Next]_vars

----------------------------------------------------------------------------
(* Properties.                                                              *)

\* What was taken of an order's debt by the statements that stand.
Taken(o) == Sum([s \in Statements |-> items[s][o]], {s \in Statements : Live(s)})

(* Coupon.usedCount is the number of uses that count, held or paid, whichever way an order      *)
(* came to an end, paid late or refunded (coupon-ledger.ts: three doors change both).           *)
UsesCounted == used = Cardinality(Counted)

(* The code is used no more often than it may be, but for orders paid after their cancellation, *)
(* whose use counts again without asking (reserveCouponUse's conditional count).                *)
WithinLimit == Limit > 0 => used <= Limit + Cardinality(late)

(* Whoever paid with the code, also late, cost the trainer his debt, or the failure is on       *)
(* record, or his settlement is still at it (markCodeUsePaid).                                  *)
PaidUseRecorded ==
  \A o \in Orders : order[o] = "paid" =>
    \/ row[o] \in {"paid", "refunded"}
    \/ o \in flagged
    \/ \E p \in Handlers : At(p, "mark") /\ job[p].ord = o

(* No debt is lost and none is made: what is pending of an order's debt and what standing       *)
(* statements took of it add up to what is owed, whatever refunds, statements and their         *)
(* cancellations happen in between (coupon-ledger.ts:163-172, earnings.service.ts:935-944).     *)
DebtConserved == \A o \in Orders : pending[o] + Taken(o) = owed[o]

(* No discount is deducted twice, nor given back twice: two statements generated at once do     *)
(* not both take it (the lock of generateForCohort).  Where a total applied late made a debt    *)
(* rise again, cancelling the statement that had given it back leaves more than one discount    *)
(* taken, until the next statement gives it back: DebtConserved still holds there.              *)
DeductedOnce == \A o \in Orders \ raised : Taken(o) \in -Amount..Amount

(* A cohort's fee is stated once.                                                               *)
FeeStatedOnce ==
  \A s, t \in Statements : Live(s) /\ Live(t) /\ cohort[s] = cohort[t] => s = t

=============================================================================
