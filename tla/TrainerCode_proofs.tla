------------------------- MODULE TrainerCode_proofs -------------------------
(***************************************************************************)
(* Proofs about TrainerCode, for any learners, orders, cohorts, fees,       *)
(* statements and handlers, any limit and any discount.  The debts are sums *)
(* over the statements that stand, of which there are finitely many at any  *)
(* time; what is needed of sums is proved below.                            *)
(***************************************************************************)
EXTENDS TrainerCode, FiniteSetTheorems, TLAPS

LEMMA IdleTyped == Idle \in Job
  BY AmountAssumption DEF Idle, Job

\* A handler that only moves on.
LEMMA JobTyped ==
  ASSUME job \in [Handlers -> Job], NEW p \in Handlers, NEW j \in Job,
         job' = [job EXCEPT ![p] = j]
  PROVE  /\ job' \in [Handlers -> Job] /\ job'[p] = j
         /\ \A q \in Handlers \ {p} : job'[q] = job[q]
  OBVIOUS

LEMMA CorrectTyped ==
  ASSUME NEW j \in Job, NEW n \in 0..Amount
  PROVE  [j EXCEPT !.at = "correct", !.debt = n] \in Job
  BY DEF Job

LEMMA RefundTyped ==
  ASSUME NEW j \in Job, NEW o \in Orders, NEW n \in 0..Amount
  PROVE  [j EXCEPT !.at = "refund", !.ord = o, !.sum = n] \in Job
  BY DEF Job

LEMMA StateTyped ==
  ASSUME NEW j \in Job, NEW s \in Statements, NEW c \in Cohorts, NEW plan \in [Orders -> Int]
  PROVE  [j EXCEPT !.at = "state", !.pay = s, !.of = c, !.plan = plan] \in Job
  BY DEF Job

LEMMA FinishTyped ==
  ASSUME job \in [Handlers -> Job], NEW p \in Handlers, Finish(p)
  PROVE  /\ job' \in [Handlers -> Job] /\ job'[p] = Idle /\ job'[p].at = "idle"
         /\ job'[p].pay = None
         /\ \A q \in Handlers \ {p} : job'[q] = job[q]
<1>1. job' = [job EXCEPT ![p] = Idle]
  BY DEF Finish
<1> QED BY <1>1, IdleTyped, JobTyped DEF Idle

\* What a statement takes is a number for each order.
LEMMA PlanTyped ==
  ASSUME TypeOK, NEW c \in Cohorts, NEW plan \in Plans(c)
  PROVE  plan \in [Orders -> Int]
<1>1. PICK T : plan = [o \in Orders |-> IF o \in Credits \cup T THEN pending[o] ELSE 0]
  BY DEF Plans
<1>2. pending \in [Orders -> Int]
  BY DEF TypeOK
<1> QED BY <1>1, <1>2

\* A handler at work has an order, or a statement and its cohort.
Busy ==
  \A p \in Handlers :
    /\ At(p, "reserve") \/ At(p, "mark") \/ At(p, "refund") \/ At(p, "correct")
         => job[p].ord \in Orders
    /\ At(p, "state") => job[p].pay \in Statements /\ job[p].of \in Cohorts

TypeInv == TypeOK /\ Busy

----------------------------------------------------------------------------
(* Each operation keeps TypeOK and Busy.                                    *)

LEMMA Moves ==
  ASSUME TypeInv, NEW p \in Handlers, NEW j \in Job, job' = [job EXCEPT ![p] = j],
         j.at \in {"reserve", "mark", "refund", "correct"} => j.ord \in Orders,
         j.at = "state" => j.pay \in Statements /\ j.of \in Cohorts
  PROVE  job' \in [Handlers -> Job] /\ Busy'
<1>1. job \in [Handlers -> Job]
  BY DEF TypeInv, TypeOK
<1>2. job' \in [Handlers -> Job] /\ job'[p] = j /\ \A q \in Handlers \ {p} : job'[q] = job[q]
  BY <1>1, JobTyped
<1>3. \A q \in Handlers :
        /\ job'[q].at \in {"reserve", "mark", "refund", "correct"} => job'[q].ord \in Orders
        /\ job'[q].at = "state" => job'[q].pay \in Statements /\ job'[q].of \in Cohorts
  BY <1>2 DEF TypeInv, Busy, At
<1> QED BY <1>2, <1>3 DEF Busy, At

LEMMA Ends ==
  ASSUME TypeInv, NEW p \in Handlers, Finish(p)
  PROVE  job' \in [Handlers -> Job] /\ Busy'
  BY Moves, IdleTyped DEF Finish, Idle

LEMMA TypeInvInit == Init => TypeInv
<1> SUFFICES ASSUME Init PROVE TypeInv
  OBVIOUS
<1>1. job \in [Handlers -> Job] /\ \A p \in Handlers : job[p] = Idle
  BY IdleTyped DEF Init
<1>2. Busy
  BY <1>1 DEF Busy, At, Idle
<1>3. TypeOK
  BY <1>1, AmountAssumption DEF Init, TypeOK
<1> QED BY <1>2, <1>3 DEF TypeInv

LEMMA BuyingTyped ==
  ASSUME TypeInv, NEW p \in Handlers, Buying(p)
  PROVE  TypeInv'
<1> USE DEF TypeInv
<1>1. CASE Reserve(p)
  <2>1. job[p].ord \in Orders
    BY <1>1 DEF Reserve, Busy
  <2>2. Finish(p)
    BY <1>1 DEF Reserve
  <2>3. job' \in [Handlers -> Job] /\ Busy'
    BY <2>2, Ends
  <2> QED BY <1>1, <2>1, <2>3 DEF Reserve, TypeOK, statement
<1>2. CASE Refused(p)
  <2>1. Finish(p)
    BY <1>2 DEF Refused
  <2>2. job' \in [Handlers -> Job] /\ Busy'
    BY <2>1, Ends
  <2> QED BY <1>2, <2>2 DEF Refused, TypeOK, coupon, ledger, statement
<1>3. ASSUME NEW o \in Orders, Price(p, o) PROVE TypeInv'
  <2>1. [job[p] EXCEPT !.at = "reserve", !.ord = o] \in Job
    BY DEF TypeOK, Job
  <2>2. job' = [job EXCEPT ![p] = [job[p] EXCEPT !.at = "reserve", !.ord = o]]
    BY <1>3 DEF Price, TypeOK
  <2>3. [job[p] EXCEPT !.at = "reserve", !.ord = o].ord = o
        /\ [job[p] EXCEPT !.at = "reserve", !.ord = o].at = "reserve"
    BY DEF TypeOK, Job
  <2>4. job' \in [Handlers -> Job] /\ Busy'
    BY <2>1, <2>2, <2>3, Moves
  <2> QED BY <1>3, <2>4 DEF Price, TypeOK, coupon, ledger, statement
<1> QED BY <1>1, <1>2, <1>3 DEF Buying

LEMMA PayingTyped ==
  ASSUME TypeInv, NEW p \in Handlers, Paying(p)
  PROVE  TypeInv'
<1> USE DEF TypeInv
<1>1. CASE Mark(p)
  <2>1. job[p].ord \in Orders
    BY <1>1 DEF Mark, Busy
  <2>2. Finish(p)
    BY <1>1 DEF Mark
  <2>3. job' \in [Handlers -> Job] /\ Busy'
    BY <2>2, Ends
  <2>4. used' \in Nat
    BY <1>1 DEF Mark, TypeOK, CountedAgain
  <2>5. owed' \in [Orders -> 0..Amount] /\ pending' \in [Orders -> Int]
    BY <1>1, <2>1, AmountAssumption DEF Mark, TypeOK
  <2> QED BY <1>1, <2>1, <2>3, <2>4, <2>5 DEF Mark, TypeOK, statement
<1>2. CASE MarkFails(p)
  <2>1. job[p].ord \in Orders
    BY <1>2 DEF MarkFails, Busy
  <2>2. Finish(p)
    BY <1>2 DEF MarkFails
  <2>3. job' \in [Handlers -> Job] /\ Busy'
    BY <2>2, Ends
  <2> QED BY <1>2, <2>1, <2>3 DEF MarkFails, TypeOK, coupon, statement
<1>3. ASSUME NEW o \in Orders, Settle(p, o) PROVE TypeInv'
  <2>1. [job[p] EXCEPT !.at = "mark", !.ord = o] \in Job
    BY DEF TypeOK, Job
  <2>2. job' = [job EXCEPT ![p] = [job[p] EXCEPT !.at = "mark", !.ord = o]]
    BY <1>3 DEF Settle, TypeOK
  <2>3. [job[p] EXCEPT !.at = "mark", !.ord = o].ord = o
        /\ [job[p] EXCEPT !.at = "mark", !.ord = o].at = "mark"
    BY DEF TypeOK, Job
  <2>4. job' \in [Handlers -> Job] /\ Busy'
    BY <2>1, <2>2, <2>3, Moves
  <2> QED BY <1>3, <2>4 DEF Settle, TypeOK, coupon, ledger, statement
<1> QED BY <1>1, <1>2, <1>3 DEF Paying

LEMMA RefundingTyped ==
  ASSUME TypeInv, NEW p \in Handlers, Refunding(p)
  PROVE  TypeInv'
<1> USE DEF TypeInv
<1>1. CASE RefundRead(p)
  <2>1. job[p].ord \in Orders
    BY <1>1 DEF RefundRead, Busy
  <2>2. Finish(p) \/ job' = [job EXCEPT ![p].at = "correct", ![p].debt = owed[job[p].ord]]
    BY <1>1 DEF RefundRead
  <2>3. CASE Finish(p)
    <3>1. job' \in [Handlers -> Job] /\ Busy'
      BY <2>3, Ends
    <3> QED BY <1>1, <3>1 DEF RefundRead, TypeOK, coupon, ledger, statement
  <2>4. CASE job' = [job EXCEPT ![p].at = "correct", ![p].debt = owed[job[p].ord]]
    <3>1. owed[job[p].ord] \in 0..Amount
      BY <2>1 DEF TypeOK
    <3>2. [job[p] EXCEPT !.at = "correct", !.debt = owed[job[p].ord]] \in Job
      BY <3>1, CorrectTyped DEF TypeOK
    <3>3. job' = [job EXCEPT ![p] = [job[p] EXCEPT !.at = "correct", !.debt = owed[job[p].ord]]]
      BY <2>4 DEF TypeOK
    <3>4. [job[p] EXCEPT !.at = "correct", !.debt = owed[job[p].ord]].ord \in Orders
          /\ [job[p] EXCEPT !.at = "correct", !.debt = owed[job[p].ord]].at = "correct"
      BY <2>1 DEF TypeOK, Job
    <3>5. job' \in [Handlers -> Job] /\ Busy'
      BY <3>2, <3>3, <3>4, Moves
    <3> QED BY <1>1, <3>5 DEF RefundRead, TypeOK, coupon, ledger, statement
  <2> QED BY <2>2, <2>3, <2>4
<1>2. CASE Correct(p)
  <2>1. job[p].ord \in Orders
    BY <1>2 DEF Correct, Busy
  <2>2. Finish(p)
    BY <1>2 DEF Correct
  <2>3. job' \in [Handlers -> Job] /\ Busy'
    BY <2>2, Ends
  <2>4. job[p].sum \in 0..Amount /\ job[p].debt \in 0..Amount
    BY DEF TypeOK, Job
  <2>5. used' \in Nat
    BY <1>2 DEF Correct, TypeOK
  <2>6. OwedAfter(job[p].debt, job[p].sum) \in 0..Amount
    BY <2>4, AmountAssumption DEF OwedAfter
  <2>7. owed' \in [Orders -> 0..Amount]
    BY <1>2, <2>1, <2>6 DEF Correct, TypeOK
  <2>8. pending' \in [Orders -> Int]
    BY <1>2, <2>1, <2>4, <2>6, AmountAssumption DEF Correct, TypeOK
  <2> QED BY <1>2, <2>1, <2>3, <2>5, <2>7, <2>8 DEF Correct, TypeOK, statement
<1>3. CASE CorrectFails(p)
  <2>1. job[p].ord \in Orders
    BY <1>3 DEF CorrectFails, Busy
  <2>2. Finish(p)
    BY <1>3 DEF CorrectFails
  <2>3. job' \in [Handlers -> Job] /\ Busy'
    BY <2>2, Ends
  <2> QED BY <1>3, <2>1, <2>3 DEF CorrectFails, TypeOK, coupon, statement
<1>4. ASSUME NEW o \in Orders, NEW k \in 1..Amount, Refund(p, o, k) PROVE TypeInv'
  <2>1. refunded[o] + k \in 0..Amount
    BY <1>4, AmountAssumption DEF Refund, TypeOK
  <2>2. [job[p] EXCEPT !.at = "refund", !.ord = o, !.sum = refunded[o] + k] \in Job
    BY <2>1, RefundTyped DEF TypeOK
  <2>3. job' = [job EXCEPT ![p] = [job[p] EXCEPT !.at = "refund", !.ord = o, !.sum = refunded[o] + k]]
    BY <1>4 DEF Refund, TypeOK
  <2>4. [job[p] EXCEPT !.at = "refund", !.ord = o, !.sum = refunded[o] + k].ord = o
        /\ [job[p] EXCEPT !.at = "refund", !.ord = o, !.sum = refunded[o] + k].at = "refund"
    BY DEF TypeOK, Job
  <2>5. job' \in [Handlers -> Job] /\ Busy'
    BY <2>2, <2>3, <2>4, Moves
  <2> QED BY <1>4, <2>1, <2>5 DEF Refund, TypeOK, coupon, ledger, statement
<1> QED BY <1>1, <1>2, <1>3, <1>4 DEF Refunding

LEMMA StatingTyped ==
  ASSUME TypeInv, NEW p \in Handlers, Stating(p)
  PROVE  TypeInv'
<1> USE DEF TypeInv
<1>1. CASE Issue(p)
  <2>1. job[p].pay \in Statements /\ job[p].of \in Cohorts
    BY <1>1 DEF Issue, Busy
  <2>2. Finish(p)
    BY <1>1 DEF Issue
  <2>3. job' \in [Handlers -> Job] /\ Busy'
    BY <2>2, Ends
  <2>4. job[p].plan \in [Orders -> Int]
    BY DEF TypeOK, Job
  <2>5. pending' \in [Orders -> Int]
    BY <1>1, <2>4 DEF Issue, After, TypeOK
  <2> QED BY <1>1, <2>1, <2>3, <2>4, <2>5 DEF Issue, TypeOK, coupon
<1>2. ASSUME NEW s \in Statements, NEW c \in Cohorts, Generate(p, s, c) PROVE TypeInv'
  <2>1. PICK plan \in Plans(c) :
          job' = [job EXCEPT ![p].at = "state", ![p].pay = s, ![p].of = c, ![p].plan = plan]
    BY <1>2 DEF Generate
  <2>2. plan \in [Orders -> Int]
    BY PlanTyped
  <2>3. [job[p] EXCEPT !.at = "state", !.pay = s, !.of = c, !.plan = plan] \in Job
    BY <2>2, StateTyped DEF TypeOK
  <2>4. job' = [job EXCEPT ![p] = [job[p] EXCEPT !.at = "state", !.pay = s, !.of = c, !.plan = plan]]
    BY <2>1 DEF TypeOK
  <2>5. [job[p] EXCEPT !.at = "state", !.pay = s, !.of = c, !.plan = plan].at = "state"
        /\ [job[p] EXCEPT !.at = "state", !.pay = s, !.of = c, !.plan = plan].pay = s
        /\ [job[p] EXCEPT !.at = "state", !.pay = s, !.of = c, !.plan = plan].of = c
    BY DEF TypeOK, Job
  <2>6. job' \in [Handlers -> Job] /\ Busy'
    BY <2>3, <2>4, <2>5, Moves
  <2> QED BY <1>2, <2>6 DEF Generate, TypeOK, coupon, ledger, statement
<1> QED BY <1>1, <1>2 DEF Stating

LEMMA OthersTyped ==
  ASSUME TypeInv,
         \/ \E o \in Orders : Cancel(o)
         \/ \E s \in Statements : ApproveStatement(s) \/ PayStatement(s) \/ CancelStatement(s)
         \/ Switch
  PROVE  TypeInv'
<1> USE DEF TypeInv
<1>1. ASSUME NEW o \in Orders, Cancel(o) PROVE TypeInv'
  BY <1>1 DEF Cancel, TypeOK, Busy, At, statement
<1>2. ASSUME NEW s \in Statements, ApproveStatement(s) \/ PayStatement(s) PROVE TypeInv'
  BY <1>2 DEF ApproveStatement, PayStatement, Step, TypeOK, Busy, At, coupon
<1>3. ASSUME NEW s \in Statements, CancelStatement(s) PROVE TypeInv'
  <2>1. pending' \in [Orders -> Int]
    BY <1>3 DEF CancelStatement, TypeOK
  <2> QED BY <1>3, <2>1 DEF CancelStatement, Step, TypeOK, Busy, At, coupon
<1>4. CASE Switch
  BY <1>4 DEF Switch, TypeOK, Busy, At, ledger, statement
<1> QED BY <1>1, <1>2, <1>3, <1>4

LEMMA TypeInvStep == TypeInv /\ [Next]_vars => TypeInv'
<1> SUFFICES ASSUME TypeInv, [Next]_vars PROVE TypeInv'
  OBVIOUS
<1>1. CASE UNCHANGED vars
  BY <1>1 DEF vars, coupon, ledger, statement, TypeInv, TypeOK, Busy, At
<1>2. ASSUME NEW p \in Handlers, Buying(p) \/ Paying(p) \/ Refunding(p) \/ Stating(p) PROVE TypeInv'
  BY <1>2, BuyingTyped, PayingTyped, RefundingTyped, StatingTyped
<1> QED BY <1>1, <1>2, OthersTyped DEF Next

(* Every variable keeps its type: no debt leaves 0..Amount, also under refunds whose totals are *)
(* applied late.                                                                                *)
THEOREM TypeCorrect == Spec => []TypeOK
<1>1. TypeInv => TypeOK
  BY DEF TypeInv
<1> QED BY <1>1, TypeInvInit, TypeInvStep, PTL DEF Spec

----------------------------------------------------------------------------
(* Where the row of an order stands, by where the order stands.             *)

Placed ==
  /\ \A o \in Orders :
       /\ order[o] = "none" => row[o] = "none"
       /\ order[o] = "pending_payment" => row[o] = "held"
       /\ order[o] = "cancelled" => row[o] = "released"
       /\ order[o] = "paid" => row[o] # "none"
       /\ row[o] \in {"paid", "refunded"} => order[o] = "paid"
       /\ o \in late => order[o] = "paid"
       /\ order[o] = "paid" /\ row[o] = "released" => o \in late
  /\ \A p \in Handlers : At(p, "mark") => order[job[p].ord] = "paid"

Inv == TypeInv /\ Placed

LEMMA InvInit == Init => Inv
<1> SUFFICES ASSUME Init PROVE Placed
  BY TypeInvInit DEF Inv
<1> QED BY DEF Init, Placed, At, Idle

\* A step that leaves orders and rows alone, and starts no handler on a payment.
LEMMA PlacedKept ==
  ASSUME Placed, UNCHANGED <<order, late, row>>,
         \A p \in Handlers : job'[p].at = "mark" => job'[p] = job[p]
  PROVE  Placed'
  BY DEF Placed, At

\* One that changes one order or its row.
LEMMA PlacedOne ==
  ASSUME Placed, NEW o \in Orders,
         \A q \in Orders \ {o} : order'[q] = order[q] /\ row'[q] = row[q] /\ (q \in late' <=> q \in late),
         /\ order'[o] = "none" => row'[o] = "none"
         /\ order'[o] = "pending_payment" => row'[o] = "held"
         /\ order'[o] = "cancelled" => row'[o] = "released"
         /\ order'[o] = "paid" => row'[o] # "none"
         /\ row'[o] \in {"paid", "refunded"} => order'[o] = "paid"
         /\ o \in late' => order'[o] = "paid"
         /\ order'[o] = "paid" /\ row'[o] = "released" => o \in late',
         order[o] = "paid" => order'[o] = "paid",
         \A p \in Handlers : job'[p].at = "mark" =>
            \/ job'[p] = job[p] /\ job[p].ord \in Orders
            \/ job'[p].ord = o /\ order'[o] = "paid"
  PROVE  Placed'
<1>1. \A p \in Handlers : At(p, "mark")' => order'[job'[p].ord] = "paid"
  BY DEF Placed, At
<1> QED BY <1>1 DEF Placed

LEMMA InvStep == Inv /\ [Next]_vars => Inv'
<1> SUFFICES ASSUME Inv, [Next]_vars PROVE Placed'
  BY TypeInvStep DEF Inv
<1> USE DEF Inv
<1>0. /\ job \in [Handlers -> Job] /\ order \in [Orders -> {"none", "pending_payment", "cancelled", "paid"}]
      /\ row \in [Orders -> {"none", "held", "released", "paid", "refunded"}] /\ late \subseteq Orders
  BY DEF TypeInv, TypeOK
<1>1. \A p \in Handlers : Finish(p) => \A q \in Handlers : job'[q].at = "mark" => job'[q] = job[q]
  BY <1>0, FinishTyped
<1>2. \A p \in Handlers : At(p, "mark") => job[p].ord \in Orders
  BY DEF TypeInv, Busy
<1>3. CASE UNCHANGED vars
  BY <1>3, PlacedKept DEF vars, ledger
<1>4. ASSUME NEW p \in Handlers, Buying(p) PROVE Placed'
  <2>1. CASE Reserve(p)
    <3>1. job[p].ord \in Orders /\ Finish(p)
      BY <2>1 DEF Reserve, TypeInv, Busy
    <3>2. \A q \in Handlers : job'[q].at = "mark" => job'[q] = job[q] /\ job[q].ord \in Orders
      BY <3>1, <1>1, <1>2 DEF At
    <3> DEFINE o == job[p].ord
    <3>3. order[o] = "none" /\ order'[o] = "pending_payment" /\ row'[o] = "held"
          /\ \A q \in Orders \ {o} : order'[q] = order[q] /\ row'[q] = row[q]
      BY <2>1, <3>1, <1>0 DEF Reserve
    <3>4. o \notin late' /\ late' = late
      BY <2>1, <3>1, <3>3 DEF Reserve, Placed
    <3> HIDE DEF o
    <3> QED BY <3>1, <3>2, <3>3, <3>4, PlacedOne DEF o
  <2>2. CASE Refused(p)
    BY <2>2, <1>1, PlacedKept DEF Refused, ledger
  <2>3. ASSUME NEW o \in Orders, Price(p, o) PROVE Placed'
    <3>1. \A q \in Handlers : job'[q].at = "mark" => job'[q] = job[q]
      BY <2>3, <1>0 DEF Price, Job
    <3> QED BY <2>3, <3>1, PlacedKept DEF Price, ledger
  <2> QED BY <1>4, <2>1, <2>2, <2>3 DEF Buying
<1>5. ASSUME NEW p \in Handlers, Paying(p) PROVE Placed'
  <2>1. CASE Mark(p)
    <3>1. job[p].ord \in Orders /\ Finish(p) /\ order[job[p].ord] = "paid"
      BY <2>1, <1>2 DEF Mark, Placed
    <3>2. \A q \in Handlers : job'[q].at = "mark" => job'[q] = job[q] /\ job[q].ord \in Orders
      BY <3>1, <1>1, <1>2 DEF At
    <3> QED BY <2>1, <3>1, <3>2, <1>0, PlacedOne DEF Mark, Placed
  <2>2. CASE MarkFails(p)
    BY <2>2, <1>1, PlacedKept DEF MarkFails, ledger
  <2>3. ASSUME NEW o \in Orders, Settle(p, o) PROVE Placed'
    <3>1. \A q \in Handlers : job'[q].at = "mark" =>
             \/ job'[q] = job[q] /\ job[q].ord \in Orders
             \/ job'[q].ord = o
      BY <2>3, <1>0, <1>2 DEF Settle, Job, At
    <3>2. /\ order'[o] = "paid" /\ row' = row
          /\ \A q \in Orders \ {o} : order'[q] = order[q] /\ (q \in late' <=> q \in late)
          /\ order[o] = "cancelled" => o \in late'
      BY <2>3, <1>0 DEF Settle, ledger
    <3>3. row[o] \in {"held", "released"} /\ (row[o] = "released" => order[o] = "cancelled")
      BY <2>3 DEF Settle, Placed
    <3> QED BY <3>1, <3>2, <3>3, PlacedOne
  <2> QED BY <1>5, <2>1, <2>2, <2>3 DEF Paying
<1>6. ASSUME NEW p \in Handlers, Refunding(p) PROVE Placed'
  <2>1. CASE RefundRead(p)
    <3>1. \A q \in Handlers : job'[q].at = "mark" => job'[q] = job[q]
      BY <2>1, <1>0, <1>1 DEF RefundRead, Job
    <3> QED BY <2>1, <3>1, PlacedKept DEF RefundRead, ledger
  <2>2. CASE Correct(p)
    <3>1. job[p].ord \in Orders /\ Finish(p) /\ row[job[p].ord] = "paid" /\ order[job[p].ord] = "paid"
      BY <2>2 DEF Correct, AsRead, TypeInv, Busy, Placed
    <3>2. \A q \in Handlers : job'[q].at = "mark" => job'[q] = job[q] /\ job[q].ord \in Orders
      BY <3>1, <1>1, <1>2 DEF At
    <3>3. row'[job[p].ord] \in {"paid", "refunded"} /\ order' = order /\ late' = late
          /\ \A q \in Orders \ {job[p].ord} : row'[q] = row[q]
      BY <2>2, <3>1, <1>0 DEF Correct
    <3> QED BY <3>1, <3>2, <3>3, PlacedOne DEF Placed
  <2>3. CASE CorrectFails(p)
    BY <2>3, <1>1, PlacedKept DEF CorrectFails
  <2>4. ASSUME NEW o \in Orders, NEW k \in 1..Amount, Refund(p, o, k) PROVE Placed'
    <3>1. \A q \in Handlers : job'[q].at = "mark" => job'[q] = job[q]
      BY <2>4, <1>0 DEF Refund, Job
    <3> QED BY <2>4, <3>1, PlacedKept DEF Refund, ledger
  <2> QED BY <1>6, <2>1, <2>2, <2>3, <2>4 DEF Refunding
<1>7. ASSUME NEW p \in Handlers, Stating(p) PROVE Placed'
  <2>1. CASE Issue(p)
    BY <2>1, <1>1, PlacedKept DEF Issue
  <2>2. ASSUME NEW s \in Statements, NEW c \in Cohorts, Generate(p, s, c) PROVE Placed'
    <3>1. PICK plan : job' = [job EXCEPT ![p].at = "state", ![p].pay = s, ![p].of = c, ![p].plan = plan]
      BY <2>2 DEF Generate
    <3>2. \A q \in Handlers : job'[q].at = "mark" => job'[q] = job[q]
      BY <3>1, <1>0 DEF Job
    <3> QED BY <2>2, <3>2, PlacedKept DEF Generate, ledger
  <2> QED BY <1>7, <2>1, <2>2 DEF Stating
<1>8. ASSUME NEW o \in Orders, Cancel(o) PROVE Placed'
  <2>1. \A q \in Handlers : job'[q].at = "mark" => job'[q] = job[q] /\ job[q].ord \in Orders
    BY <1>8, <1>2 DEF Cancel, At
  <2>2. row[o] = "held" /\ o \notin late
    BY <1>8 DEF Cancel, Placed
  <2>3. order[o] # "paid" /\ order'[o] = "cancelled" /\ row'[o] = "released" /\ late' = late
        /\ \A q \in Orders \ {o} : row'[q] = row[q] /\ order'[q] = order[q]
    BY <1>8, <2>2, <1>0 DEF Cancel
  <2> QED BY <2>1, <2>2, <2>3, PlacedOne
<1>9. ASSUME NEW s \in Statements, ApproveStatement(s) \/ PayStatement(s) \/ CancelStatement(s) PROVE Placed'
  BY <1>9, PlacedKept DEF ApproveStatement, PayStatement, CancelStatement, Step
<1>10. CASE Switch
  BY <1>10, PlacedKept DEF Switch, ledger
<1> QED BY <1>3, <1>4, <1>5, <1>6, <1>7, <1>8, <1>9, <1>10 DEF Next

----------------------------------------------------------------------------
(* The uses that count, and how a step changes them.                        *)

Same ==
  /\ used' = used /\ Counted' = Counted
  /\ Counted' \ late' = Counted \ late

\* A purchase takes a use while there is room; a late payment takes one anyway.
Takes(o) ==
  /\ o \in Orders \ Counted /\ Counted' = Counted \cup {o}
  /\ used' = used + 1 /\ late' = late
  /\ Room \/ o \in late

Gives(o) ==
  /\ o \in Counted /\ Counted' = Counted \ {o}
  /\ used' = (IF used > 0 THEN used - 1 ELSE used) /\ late' = late

LEMMA Changes ==
  ASSUME Inv, [Next]_vars
  PROVE  Same \/ \E o \in Orders : Takes(o) \/ Gives(o)
<1> USE DEF Inv
<1>0. /\ order \in [Orders -> {"none", "pending_payment", "cancelled", "paid"}]
      /\ row \in [Orders -> {"none", "held", "released", "paid", "refunded"}]
      /\ used \in Nat /\ late \subseteq Orders
  BY DEF TypeInv, TypeOK
<1>1. ASSUME UNCHANGED <<row, late, used>> PROVE Same
  BY <1>1 DEF Same, Counted
<1>2. CASE UNCHANGED vars
  BY <1>1, <1>2 DEF vars, coupon, ledger
<1>3. ASSUME NEW p \in Handlers, Buying(p) PROVE Same \/ \E o \in Orders : Takes(o)
  <2>1. CASE Reserve(p)
    <3>1. PICK o \in Orders : o = job[p].ord
      BY <2>1 DEF Reserve, TypeInv, Busy
    <3>2. row' = [row EXCEPT ![o] = "held"] /\ used' = used + 1 /\ late' = late /\ Room
      BY <2>1, <3>1 DEF Reserve
    <3>3. row[o] = "none"
      BY <2>1, <3>1 DEF Reserve, Placed
    <3>4. Takes(o)
      BY <3>2, <3>3, <1>0 DEF Takes, Counted
    <3> QED BY <3>4
  <2>2. CASE Refused(p)
    BY <2>2, <1>1 DEF Refused, coupon, ledger
  <2>3. ASSUME NEW o \in Orders, Price(p, o) PROVE Same
    BY <2>3, <1>1 DEF Price, coupon, ledger
  <2> QED BY <1>3, <2>1, <2>2, <2>3 DEF Buying
<1>4. ASSUME NEW p \in Handlers, Paying(p) PROVE Same \/ \E o \in Orders : Takes(o)
  <2>1. CASE Mark(p)
    <3>1. PICK o \in Orders : o = job[p].ord
      BY <2>1 DEF Mark, TypeInv, Busy
    <3>2. order[o] = "paid" /\ late' = late /\ order' = order
      BY <2>1, <3>1 DEF Mark, At, Placed
    <3>3. CASE ~Markable(o)
      BY <2>1, <3>1, <3>3, <3>2, <1>1 DEF Mark, coupon, ledger
    <3>4. ASSUME Markable(o) PROVE /\ row' = [row EXCEPT ![o] = "paid"]
                                   /\ used' = used + CountedAgain(o)
      BY <2>1, <3>1, <3>4 DEF Mark
    <3>5. CASE row[o] = "held"
      <4>0. row' = [row EXCEPT ![o] = "paid"] /\ used' = used + CountedAgain(o)
        BY <3>4, <3>5 DEF Markable
      <4>1. Counted' = Counted
        BY <4>0, <3>2, <3>5, <1>0 DEF Counted
      <4>2. used' = used
        BY <4>0, <3>2, <3>5, <1>0 DEF CountedAgain
      <4> QED BY <4>0, <3>2, <4>1, <4>2 DEF Same
    <3>6. CASE row[o] = "released"
      <4>0. row' = [row EXCEPT ![o] = "paid"] /\ used' = used + CountedAgain(o)
        BY <3>4, <3>6 DEF Markable
      <4>1. o \in late
        BY <4>0, <3>2, <3>6 DEF Placed
      <4>2. Counted' = Counted \cup {o} /\ o \notin Counted
        BY <4>0, <3>2, <3>6, <1>0 DEF Counted
      <4>3. used' = used + 1
        BY <4>0, <3>2, <3>6 DEF CountedAgain
      <4>4. Takes(o)
        BY <4>0, <3>2, <4>1, <4>2, <4>3 DEF Takes
      <4> QED BY <4>4
    <3> QED BY <3>3, <3>5, <3>6 DEF Markable
  <2>2. CASE MarkFails(p)
    BY <2>2, <1>1 DEF MarkFails, coupon, ledger
  <2>3. ASSUME NEW o \in Orders, Settle(p, o) PROVE Same
    <3>1. row' = row /\ used' = used
      BY <2>3 DEF Settle, coupon, ledger
    <3>2. Counted' = Counted
      BY <3>1 DEF Counted
    <3>3. CASE order[o] = "cancelled"
      <4>1. o \notin Counted /\ late' = late \cup {o}
        BY <2>3, <3>3 DEF Settle, Counted, Placed
      <4> QED BY <3>1, <3>2, <4>1 DEF Same
    <3>4. CASE order[o] # "cancelled"
      <4>1. late' = late
        BY <2>3, <3>4 DEF Settle
      <4> QED BY <3>1, <3>2, <4>1 DEF Same
    <3> QED BY <3>3, <3>4
  <2> QED BY <1>4, <2>1, <2>2, <2>3 DEF Paying
<1>5. ASSUME NEW p \in Handlers, Refunding(p) PROVE Same \/ \E o \in Orders : Gives(o)
  <2>1. CASE RefundRead(p)
    BY <2>1, <1>1 DEF RefundRead, coupon, ledger
  <2>2. CASE Correct(p)
    <3>1. PICK o \in Orders : o = job[p].ord
      BY <2>2 DEF Correct, TypeInv, Busy
    <3>2. row[o] = "paid" /\ late' = late
      BY <2>2, <3>1 DEF Correct, AsRead
    <3>3. CASE job[p].sum = Amount
      <4>1. row' = [row EXCEPT ![o] = "refunded"] /\ used' = (IF used > 0 THEN used - 1 ELSE used)
        BY <2>2, <3>1, <3>3 DEF Correct
      <4>2. Counted' = Counted \ {o} /\ o \in Counted
        BY <3>2, <4>1, <1>0 DEF Counted
      <4>3. Gives(o)
        BY <3>2, <4>1, <4>2 DEF Gives
      <4> QED BY <4>3
    <3>4. CASE job[p].sum # Amount
      <4>1. row' = row /\ used' = used
        BY <2>2, <3>1, <3>4, <1>0 DEF Correct
      <4> QED BY <3>2, <4>1, <1>1
    <3> QED BY <3>3, <3>4
  <2>3. CASE CorrectFails(p)
    BY <2>3, <1>1 DEF CorrectFails, coupon
  <2>4. ASSUME NEW o \in Orders, NEW k \in 1..Amount, Refund(p, o, k) PROVE Same
    BY <2>4, <1>1 DEF Refund, coupon, ledger
  <2> QED BY <1>5, <2>1, <2>2, <2>3, <2>4 DEF Refunding
<1>6. ASSUME NEW p \in Handlers, Stating(p) PROVE Same
  BY <1>6, <1>1 DEF Stating, Issue, Generate, coupon, ledger
<1>7. ASSUME NEW o \in Orders, Cancel(o) PROVE Gives(o)
  <2>1. row[o] = "held" /\ late' = late /\ used' = (IF used > 0 THEN used - 1 ELSE used)
    BY <1>7 DEF Cancel, Placed
  <2>2. row' = [row EXCEPT ![o] = "released"]
    BY <1>7, <2>1, <1>0 DEF Cancel
  <2>3. Counted' = Counted \ {o} /\ o \in Counted
    BY <2>1, <2>2, <1>0 DEF Counted
  <2> QED BY <2>1, <2>3 DEF Gives
<1>8. ASSUME NEW s \in Statements, ApproveStatement(s) \/ PayStatement(s) \/ CancelStatement(s) PROVE Same
  BY <1>8, <1>1 DEF ApproveStatement, PayStatement, CancelStatement, Step, coupon
<1>9. CASE Switch
  BY <1>9, <1>1 DEF Switch, ledger
<1> QED BY <1>2, <1>3, <1>4, <1>5, <1>6, <1>7, <1>8, <1>9 DEF Next

LEMMA CountedFinite ==
  /\ IsFiniteSet(Counted) /\ Cardinality(Counted) \in Nat
  /\ IsFiniteSet(Counted \ late) /\ Cardinality(Counted \ late) \in Nat
<1>1. Counted \subseteq Orders /\ Counted \ late \subseteq Orders
  BY DEF Counted
<1> QED BY <1>1, OrdersAssumption, FS_Subset, FS_CardinalityType

\* UsesCounted, and, apart from late payments, no more uses than the code has.
CountInv ==
  /\ UsesCounted
  /\ Limit > 0 => Cardinality(Counted \ late) <= Limit

LEMMA CountInit == Init => CountInv
<1> SUFFICES ASSUME Init PROVE CountInv
  OBVIOUS
<1>1. Counted = {} /\ Counted \ late = {}
  BY DEF Init, Counted
<1>2. Cardinality({}) = 0
  BY FS_EmptySet
<1> QED BY <1>1, <1>2, LimitAssumption DEF CountInv, UsesCounted, Init

LEMMA CountStep == Inv /\ CountInv /\ [Next]_vars => CountInv'
<1> SUFFICES ASSUME Inv, CountInv, [Next]_vars PROVE CountInv'
  OBVIOUS
<1>1. used \in Nat /\ used = Cardinality(Counted) /\ Limit \in Nat
  BY LimitAssumption DEF Inv, TypeInv, TypeOK, CountInv, UsesCounted
<1>2. CASE Same
  BY <1>2 DEF Same, CountInv, UsesCounted
<1>3. ASSUME NEW o \in Orders, Takes(o) PROVE CountInv'
  <2>1. Cardinality(Counted') = Cardinality(Counted) + 1
    BY <1>3, CountedFinite, FS_AddElement DEF Takes
  <2>2. UsesCounted'
    BY <1>3, <1>1, <2>1 DEF Takes, UsesCounted
  <2>3. CASE o \in late
    <3>1. Counted' \ late' = Counted \ late
      BY <1>3, <2>3 DEF Takes
    <3> QED BY <2>2, <3>1 DEF CountInv
  <2>4. CASE o \notin late
    <3>1. Counted' \ late' = (Counted \ late) \cup {o} /\ o \notin Counted \ late
      BY <1>3, <2>4 DEF Takes
    <3>2. Cardinality(Counted' \ late') = Cardinality(Counted \ late) + 1
      BY <3>1, CountedFinite, FS_AddElement
    <3>3. Cardinality(Counted \ late) <= Cardinality(Counted)
      BY CountedFinite, FS_Subset
    <3>4. Limit > 0 => Cardinality(Counted) < Limit
      BY <1>1, <1>3, <2>4 DEF Takes, Room
    <3>5. Limit > 0 => Cardinality(Counted' \ late') <= Limit
      BY <1>1, <3>2, <3>3, <3>4, CountedFinite
    <3> QED BY <2>2, <3>5 DEF CountInv
  <2> QED BY <2>3, <2>4
<1>4. ASSUME NEW o \in Orders, Gives(o) PROVE CountInv'
  <2>1. Cardinality(Counted') = Cardinality(Counted) - 1
    BY <1>4, CountedFinite, FS_RemoveElement DEF Gives
  <2>2. used > 0
    <3>1. Counted # {}
      BY <1>4 DEF Gives
    <3>2. Cardinality(Counted) # 0
      BY <3>1, CountedFinite, FS_EmptySet
    <3> QED BY <3>2, <1>1
  <2>3. UsesCounted'
    BY <1>4, <1>1, <2>1, <2>2 DEF Gives, UsesCounted
  <2>4. Counted' \ late' \subseteq Counted \ late
    BY <1>4 DEF Gives
  <2>5. Cardinality(Counted' \ late') <= Cardinality(Counted \ late)
        /\ Cardinality(Counted' \ late') \in Nat
    BY <2>4, CountedFinite, FS_Subset, FS_CardinalityType
  <2>6. Limit > 0 => Cardinality(Counted' \ late') <= Limit
    BY <2>5, <1>1, CountedFinite DEF CountInv
  <2> QED BY <2>3, <2>6 DEF CountInv
<1> QED BY <1>2, <1>3, <1>4, Changes

LEMMA InvHolds == Spec => [](Inv /\ CountInv)
<1>1. Init => Inv /\ CountInv
  BY InvInit, CountInit
<1>2. Inv /\ CountInv /\ [Next]_vars => (Inv /\ CountInv)'
  BY InvStep, CountStep
<1> QED BY <1>1, <1>2, PTL DEF Spec

(* Coupon.usedCount is the number of uses that count, however purchases, cancellations, late    *)
(* payments and refunds cross.                                                                   *)
THEOREM UseCountSound == Spec => []UsesCounted
<1>1. Inv /\ CountInv => UsesCounted
  BY DEF CountInv
<1> QED BY <1>1, InvHolds, PTL

(* However many buyers take the last use at once, the code is used no more often than it may be, *)
(* but for payments that come after a cancellation.                                               *)
THEOREM LimitKept == Spec => []WithinLimit
<1>1. Inv /\ CountInv => WithinLimit
  <2> SUFFICES ASSUME Inv, CountInv, Limit > 0 PROVE used <= Limit + Cardinality(late)
    BY DEF WithinLimit
  <2>1. used = Cardinality(Counted) /\ Cardinality(Counted \ late) <= Limit /\ Limit \in Nat
    BY LimitAssumption DEF CountInv, UsesCounted
  <2>2. IsFiniteSet(late) /\ Cardinality(late) \in Nat
    BY OrdersAssumption, FS_Subset, FS_CardinalityType DEF Inv, TypeInv, TypeOK
  <2>3. Cardinality((Counted \ late) \cup late)
        = Cardinality(Counted \ late) + Cardinality(late) - Cardinality((Counted \ late) \cap late)
        /\ IsFiniteSet((Counted \ late) \cup late)
    BY <2>2, CountedFinite, FS_Union
  <2>4. (Counted \ late) \cap late = {} /\ Counted \subseteq (Counted \ late) \cup late
    OBVIOUS
  <2>5. Cardinality({}) = 0
    BY FS_EmptySet
  <2>6. Cardinality(Counted) <= Cardinality((Counted \ late) \cup late)
    BY <2>3, <2>4, FS_Subset
  <2> DEFINE a == Cardinality(Counted \ late)
             b == Cardinality(late)
             c == Cardinality((Counted \ late) \cup late)
  <2>7. c = a + b - 0
    BY <2>3, <2>4, <2>5
  <2>8. a \in Nat /\ b \in Nat
    BY <2>2, CountedFinite, FS_Subset, FS_CardinalityType
  <2>9. used <= c /\ a <= Limit /\ Limit \in Nat
    BY <2>1, <2>6
  <2>10. used \in Nat
    BY DEF Inv, TypeInv, TypeOK
  <2> HIDE DEF a, b, c
  <2>11. used <= Limit + b
    BY <2>7, <2>8, <2>9, <2>10
  <2> QED BY <2>11 DEF b
<1> QED BY <1>1, InvHolds, PTL

----------------------------------------------------------------------------
(* What a handler at work, other than the one that moves, is doing.         *)

LEMMA OnlyOne ==
  ASSUME TypeInv, NEW p \in Handlers, Buying(p) \/ Paying(p) \/ Refunding(p) \/ Stating(p)
  PROVE  \A q \in Handlers \ {p} : job'[q] = job[q]
<1>1. job \in [Handlers -> Job]
  BY DEF TypeInv, TypeOK
<1> QED BY <1>1 DEF Buying, Reserve, Refused, Price, Paying, Mark, MarkFails, Settle,
      Refunding, RefundRead, Correct, CorrectFails, Refund, Stating, Issue, Generate, Finish

LEMMA RecordedKept ==
  ASSUME PaidUseRecorded, \A o \in Orders : order'[o] = "paid" => order[o] = "paid",
         \A o \in Orders : row[o] \in {"paid", "refunded"} => row'[o] \in {"paid", "refunded"},
         flagged \subseteq flagged',
         \A q \in Handlers : job[q].at = "mark" => job'[q] = job[q]
  PROVE  PaidUseRecorded'
  BY DEF PaidUseRecorded, At

LEMMA RecordedStep == Inv /\ PaidUseRecorded /\ [Next]_vars => PaidUseRecorded'
<1> SUFFICES ASSUME Inv, PaidUseRecorded, [Next]_vars PROVE PaidUseRecorded'
  OBVIOUS
<1> USE DEF Inv
<1>0. /\ job \in [Handlers -> Job] /\ order \in [Orders -> {"none", "pending_payment", "cancelled", "paid"}]
      /\ row \in [Orders -> {"none", "held", "released", "paid", "refunded"}] /\ flagged \subseteq Orders
  BY DEF TypeInv, TypeOK
<1>1. CASE UNCHANGED vars
  BY <1>1, RecordedKept DEF vars, ledger
<1>2. ASSUME NEW p \in Handlers, Buying(p) \/ Refunding(p) \/ Stating(p) PROVE PaidUseRecorded'
  <2>1. \A q \in Handlers \ {p} : job'[q] = job[q]
    BY <1>2, OnlyOne
  <2>2. job[p].at # "mark"
    BY <1>2 DEF Buying, Reserve, Refused, Price, Refunding, RefundRead, Correct, CorrectFails, Refund,
                Stating, Issue, Generate, At
  <2>3. \A o \in Orders : order'[o] = "paid" => order[o] = "paid"
    BY <1>2, <1>0 DEF Buying, Reserve, Refused, Price, Refunding, RefundRead, Correct, CorrectFails, Refund,
                Stating, Issue, Generate
  <2>4. \A o \in Orders : row[o] \in {"paid", "refunded"} => row'[o] \in {"paid", "refunded"}
    <3>1. CASE Reserve(p)
      <4>1. row[job[p].ord] = "none"
        BY <3>1 DEF Reserve, Placed, TypeInv, Busy
      <4> QED BY <3>1, <4>1, <1>0 DEF Reserve
    <3>2. CASE Correct(p)
      BY <3>2, <1>0 DEF Correct
    <3> QED BY <1>2, <3>1, <3>2 DEF Buying, Refused, Price, Refunding, RefundRead, CorrectFails, Refund,
                Stating, Issue, Generate, ledger
  <2>5. flagged \subseteq flagged'
    BY <1>2 DEF Buying, Reserve, Refused, Price, Refunding, RefundRead, Correct, CorrectFails, Refund,
                Stating, Issue, Generate, ledger
  <2> QED BY <2>1, <2>2, <2>3, <2>4, <2>5, RecordedKept
<1>3. ASSUME NEW p \in Handlers, Mark(p) \/ MarkFails(p) PROVE PaidUseRecorded'
  <2>1. \A q \in Handlers \ {p} : job'[q] = job[q]
    BY <1>3, OnlyOne DEF Paying
  <2>2. job[p].ord \in Orders /\ order[job[p].ord] = "paid" /\ order' = order
    BY <1>3 DEF Mark, MarkFails, Placed, TypeInv, Busy
  <2>3. row'[job[p].ord] \in {"paid", "refunded"} \/ job[p].ord \in flagged'
    BY <1>3, <2>2, <1>0 DEF Mark, MarkFails, Markable, Placed, ledger
  <2>4. \A o \in Orders \ {job[p].ord} : row'[o] = row[o]
    BY <1>3, <2>2, <1>0 DEF Mark, MarkFails, ledger
  <2>5. flagged \subseteq flagged'
    BY <1>3 DEF Mark, MarkFails, ledger
  <2> QED BY <2>1, <2>2, <2>3, <2>4, <2>5 DEF PaidUseRecorded, At
<1>4. ASSUME NEW p \in Handlers, NEW o \in Orders, Settle(p, o) PROVE PaidUseRecorded'
  <2>1. \A q \in Handlers \ {p} : job'[q] = job[q]
    BY <1>4, OnlyOne DEF Paying
  <2>2. job[p].at = "idle" /\ job'[p].at = "mark" /\ job'[p].ord = o
    BY <1>4, <1>0 DEF Settle, At, Job
  <2>3. row' = row /\ flagged' = flagged /\ \A q \in Orders \ {o} : order'[q] = order[q]
    BY <1>4, <1>0 DEF Settle, ledger
  <2> QED BY <2>1, <2>2, <2>3 DEF PaidUseRecorded, At
<1>5. ASSUME NEW o \in Orders, Cancel(o) PROVE PaidUseRecorded'
  BY <1>5, <1>0, RecordedKept DEF Cancel
<1>6. ASSUME NEW s \in Statements, ApproveStatement(s) \/ PayStatement(s) \/ CancelStatement(s)
      PROVE PaidUseRecorded'
  BY <1>6, RecordedKept DEF ApproveStatement, PayStatement, CancelStatement, Step
<1>7. CASE Switch
  BY <1>7, RecordedKept DEF Switch, ledger
<1> QED BY <1>1, <1>2, <1>3, <1>4, <1>5, <1>6, <1>7 DEF Next, Paying

(* Whoever paid with the code, also after a cancellation, cost the trainer his debt, or the      *)
(* failure is on record, or his settlement is still at it.                                       *)
THEOREM PaidUsesRecorded == Spec => []PaidUseRecorded
<1>1. Init => PaidUseRecorded
  BY DEF Init, PaidUseRecorded
<1>2. Inv /\ PaidUseRecorded /\ [Next]_vars => PaidUseRecorded'
  BY RecordedStep
<1>3. Inv /\ [Next]_vars => Inv'
  BY InvStep
<1> QED BY <1>1, <1>2, <1>3, InvInit, PTL DEF Spec

----------------------------------------------------------------------------
(* The statement under way is the only one, and still the first for its     *)
(* cohort: the lock is kept from the look to the write.                     *)

StatedAlone ==
  \A p \in Handlers : At(p, "state") =>
    /\ \A q \in Handlers : At(q, "state") => q = p
    /\ payout[job[p].pay] = "none"
    /\ \A t \in Statements : Live(t) => cohort[t] # job[p].of

StateInv == StatedAlone /\ FeeStatedOnce

LEMMA StatedKept ==
  ASSUME StateInv, UNCHANGED cohort,
         \A q \in Handlers : job'[q].at = "state" => job'[q] = job[q],
         \A t \in Statements : payout'[t] \in {"pending", "approved", "paid"} => Live(t),
         \A q \in Handlers : At(q, "state") => payout'[job[q].pay] = payout[job[q].pay]
  PROVE  StateInv'
<1>1. FeeStatedOnce'
  BY DEF StateInv, FeeStatedOnce, Live
<1>2. StatedAlone'
  BY DEF StateInv, StatedAlone, Live, At
<1> QED BY <1>1, <1>2 DEF StateInv

LEMMA StateStep == Inv /\ StateInv /\ [Next]_vars => StateInv'
<1> SUFFICES ASSUME Inv, StateInv, [Next]_vars PROVE StateInv'
  OBVIOUS
<1> USE DEF Inv
<1>0. /\ job \in [Handlers -> Job] /\ cohort \in [Statements -> Cohorts \cup {None}]
      /\ payout \in [Statements -> {"none", "pending", "approved", "paid", "cancelled"}]
  BY DEF TypeInv, TypeOK
<1>1. CASE UNCHANGED vars
  BY <1>1, StatedKept DEF vars, statement, Live
<1>2. ASSUME NEW p \in Handlers, Buying(p) \/ Paying(p) \/ Refunding(p) PROVE StateInv'
  <2>1. \A q \in Handlers \ {p} : job'[q] = job[q]
    BY <1>2, OnlyOne
  <2>2. payout' = payout /\ cohort' = cohort
    BY <1>2 DEF Buying, Reserve, Refused, Price, Paying, Mark, MarkFails, Settle,
                Refunding, RefundRead, Correct, CorrectFails, Refund, statement
  <2>3. job'[p].at # "state"
    <3>1. CASE Finish(p)
      BY <3>1, <1>0, FinishTyped
    <3>2. ASSUME NEW o \in Orders, Price(p, o) \/ Settle(p, o) PROVE job'[p].at # "state"
      BY <3>2, <1>0 DEF Price, Settle, Job
    <3>3. CASE RefundRead(p)
      BY <3>3, <3>1, <1>0 DEF RefundRead, Job
    <3>4. ASSUME NEW o \in Orders, NEW k \in 1..Amount, Refund(p, o, k) PROVE job'[p].at # "state"
      BY <3>4, <1>0 DEF Refund, Job
    <3> QED BY <1>2, <3>1, <3>2, <3>3, <3>4 DEF Buying, Reserve, Refused, Paying, Mark, MarkFails,
              Refunding, Correct, CorrectFails
  <2> QED BY <2>1, <2>2, <2>3, StatedKept DEF Live
<1>3. ASSUME NEW p \in Handlers, Issue(p) PROVE StateInv'
  <2>1. job[p].pay \in Statements /\ job[p].of \in Cohorts /\ Finish(p)
    BY <1>3 DEF Issue, TypeInv, Busy
  <2>2. \A q \in Handlers : job'[q].at # "state"
    BY <2>1, <1>0, <1>3, FinishTyped DEF StateInv, StatedAlone, At, Issue
  <2>3. /\ cohort'[job[p].pay] = job[p].of
        /\ \A t \in Statements \ {job[p].pay} : cohort'[t] = cohort[t] /\ payout'[t] = payout[t]
    BY <1>3, <2>1, <1>0 DEF Issue
  <2>4. \A t \in Statements : Live(t) => cohort[t] # job[p].of
    BY <1>3 DEF Issue, StateInv, StatedAlone
  <2>5. FeeStatedOnce'
    BY <2>1, <2>3, <2>4 DEF StateInv, FeeStatedOnce, Live
  <2> QED BY <2>2, <2>5 DEF StateInv, StatedAlone, At
<1>4. ASSUME NEW p \in Handlers, NEW s \in Statements, NEW c \in Cohorts, Generate(p, s, c)
      PROVE StateInv'
  <2>1. \A q \in Handlers \ {p} : job'[q] = job[q]
    BY <1>4, OnlyOne DEF Stating
  <2>2. payout' = payout /\ cohort' = cohort
    BY <1>4 DEF Generate, statement
  <2>3. job'[p].pay = s /\ job'[p].of = c
    BY <1>4, <1>0 DEF Generate, Job
  <2>4. payout[s] = "none" /\ (\A t \in Statements : Live(t) => cohort[t] # c)
        /\ \A q \in Handlers : job[q].at # "state"
    BY <1>4 DEF Generate, LockFree, At
  <2>5. FeeStatedOnce'
    BY <2>2 DEF StateInv, FeeStatedOnce, Live
  <2> QED BY <2>1, <2>2, <2>3, <2>4, <2>5 DEF StateInv, StatedAlone, Live, At
<1>5. ASSUME NEW o \in Orders, Cancel(o) PROVE StateInv'
  BY <1>5, StatedKept DEF Cancel, statement, Live
<1>6. ASSUME NEW s \in Statements, ApproveStatement(s) \/ PayStatement(s) \/ CancelStatement(s)
      PROVE StateInv'
  <2>1. /\ payout[s] \in {"pending", "approved"} /\ cohort' = cohort /\ job' = job
        /\ \A t \in Statements \ {s} : payout'[t] = payout[t]
    BY <1>6, <1>0 DEF ApproveStatement, PayStatement, CancelStatement, Step
  <2>2. \A t \in Statements : payout'[t] \in {"pending", "approved", "paid"} => Live(t)
    BY <2>1 DEF Live
  <2>3. \A q \in Handlers : At(q, "state") => job[q].pay \in Statements \ {s}
    BY <2>1 DEF StateInv, StatedAlone, TypeInv, Busy
  <2> QED BY <2>1, <2>2, <2>3, StatedKept
<1>7. CASE Switch
  BY <1>7, StatedKept DEF Switch, statement, Live
<1> QED BY <1>1, <1>2, <1>3, <1>4, <1>5, <1>6, <1>7 DEF Next, Stating

(* A cohort's fee is stated once, however many statements are generated, approved, paid and      *)
(* cancelled at one time.                                                                        *)
THEOREM FeesStatedOnce == Spec => []FeeStatedOnce
<1>1. Init => StateInv
  BY DEF Init, StateInv, StatedAlone, FeeStatedOnce, Live, At, Idle
<1>2. Inv /\ StateInv /\ [Next]_vars => StateInv'
  BY StateStep
<1>3. Inv /\ [Next]_vars => Inv'
  BY InvStep
<1>4. StateInv => FeeStatedOnce
  BY DEF StateInv
<1> QED BY <1>1, <1>2, <1>3, <1>4, InvInit, PTL DEF Spec
----------------------------------------------------------------------------
(* Sums over finite sets.  The fold that defines them adds what is picked   *)
(* first to the sum of the rest; each fact below is shown by looking at a   *)
(* smallest set that would contradict it.                                   *)

Chosen(T)     == CHOOSE x \in T : TRUE
Adds(g, f, S) == g = [T \in SUBSET S |-> IF T = {} THEN 0 ELSE f[Chosen(T)] + g[T \ {Chosen(T)}]]

LEMMA Smallest ==
  ASSUME NEW S, IsFiniteSet(S), NEW B, B \subseteq SUBSET S, B # {}
  PROVE  \E T \in B : \A U \in SUBSET T : U # T => U \notin B
<1>1. IsWellFoundedOn(StrictSubsetOrdering(S), FiniteSubsetsOf(S))
  BY FS_StrictSubsetOrderingWellFounded
<1>2. B \subseteq FiniteSubsetsOf(S)
  BY FS_Subset DEF FiniteSubsetsOf
<1>3. PICK T \in B : \A U \in B : ~(<<U, T>> \in StrictSubsetOrdering(S))
  BY <1>1, <1>2, WFMin
<1>4. ASSUME NEW U \in SUBSET T, U # T, U \in B PROVE FALSE
  BY <1>3, <1>4 DEF StrictSubsetOrdering
<1> QED BY <1>4

LEMMA ChosenIn ==
  ASSUME NEW T, T # {}
  PROVE  Chosen(T) \in T /\ T \ {Chosen(T)} \in SUBSET T /\ T \ {Chosen(T)} # T
<1>1. Chosen(T) \in T
  BY DEF Chosen
<1> QED BY <1>1

LEMMA AddsSame ==
  ASSUME NEW f, NEW S, NEW R, IsFiniteSet(S), NEW g, NEW h, Adds(g, f, S), Adds(h, f, R),
         NEW T \in SUBSET (S \cap R)
  PROVE  g[T] = h[T]
<1> DEFINE B == {U \in SUBSET (S \cap R) : g[U] # h[U]}
<1>1. ASSUME B # {} PROVE FALSE
  <2>1. IsFiniteSet(S \cap R)
    BY FS_Subset
  <2>2. PICK U \in B : \A W \in SUBSET U : W # U => W \notin B
    <3>1. B \subseteq SUBSET (S \cap R)
      OBVIOUS
    <3> HIDE DEF B
    <3> QED BY <1>1, <2>1, <3>1, Smallest
  <2>3. U \in SUBSET S /\ U \in SUBSET R /\ g[U] # h[U]
    BY <2>2
  <2>4. /\ g[U] = IF U = {} THEN 0 ELSE f[Chosen(U)] + g[U \ {Chosen(U)}]
        /\ h[U] = IF U = {} THEN 0 ELSE f[Chosen(U)] + h[U \ {Chosen(U)}]
    BY <2>3 DEF Adds
  <2>5. U # {}
    BY <2>3, <2>4
  <2>6. g[U \ {Chosen(U)}] = h[U \ {Chosen(U)}]
    BY <2>2, <2>3, <2>5, ChosenIn
  <2> QED BY <2>3, <2>4, <2>5, <2>6
<1> QED BY <1>1

LEMMA AddsExists ==
  ASSUME NEW f, NEW S, IsFiniteSet(S)
  PROVE  \E g : Adds(g, f, S)
<1> DEFINE B == {T \in SUBSET S : ~\E g : Adds(g, f, T)}
<1>1. ASSUME B # {} PROVE FALSE
  <2>1. PICK T \in B : \A U \in SUBSET T : U # T => U \notin B
    <3>1. B \subseteq SUBSET S
      OBVIOUS
    <3> HIDE DEF B
    <3> QED BY <1>1, <3>1, Smallest
  <2> DEFINE G(U) == CHOOSE g : Adds(g, f, U)
             Rest(U) == U \ {Chosen(U)}
             h == [U \in SUBSET T |-> IF U = {} THEN 0 ELSE f[Chosen(U)] + G(Rest(U))[Rest(U)]]
  <2>2. ASSUME NEW U \in SUBSET T, U # T PROVE Adds(G(U), f, U)
    <3>1. \E g : Adds(g, f, U)
      BY <2>1, <2>2
    <3> QED BY <3>1
  <2>3. ASSUME NEW U \in SUBSET T, U # T PROVE h[U] = G(U)[U]
    <3>1. Adds(G(U), f, U)
      BY <2>2, <2>3
    <3>2. G(U)[U] = IF U = {} THEN 0 ELSE f[Chosen(U)] + G(U)[Rest(U)]
      BY <3>1 DEF Adds
    <3>3. CASE U = {}
      BY <3>2, <3>3
    <3>4. CASE U # {}
      <4>1. Rest(U) \in SUBSET U /\ Rest(U) # T /\ IsFiniteSet(U)
        BY <2>3, <3>4, ChosenIn, FS_Subset, <2>1
      <4>2. Adds(G(Rest(U)), f, Rest(U))
        BY <4>1, <2>2
      <4>3. Rest(U) \in SUBSET (U \cap Rest(U))
        BY <4>1
      <4> HIDE DEF G, Rest
      <4>4. G(U)[Rest(U)] = G(Rest(U))[Rest(U)]
        BY <3>1, <4>1, <4>2, <4>3, AddsSame
      <4> QED BY <3>2, <3>4, <4>4
    <3> QED BY <3>3, <3>4
  <2>4. \A U \in SUBSET T : U # {} => h[Rest(U)] = G(Rest(U))[Rest(U)]
    <3>1. \A U \in SUBSET T : U # {} => Rest(U) \in SUBSET T /\ Rest(U) # T
      BY ChosenIn
    <3> HIDE DEF h, Rest, G
    <3> QED BY <2>3, <3>1
  <2>5. Adds(h, f, T)
    <3>1. \A U \in SUBSET T : h[U] = IF U = {} THEN 0 ELSE f[Chosen(U)] + h[Rest(U)]
      <4>1. \A U \in SUBSET T : h[U] = IF U = {} THEN 0 ELSE f[Chosen(U)] + G(Rest(U))[Rest(U)]
        OBVIOUS
      <4> HIDE DEF h, G, Rest
      <4> QED BY <2>4, <4>1
    <3>2. h = [U \in SUBSET T |-> h[U]]
      OBVIOUS
    <3> HIDE DEF h
    <3>3. h = [U \in SUBSET T |-> IF U = {} THEN 0 ELSE f[Chosen(U)] + h[Rest(U)]]
      BY <3>1, <3>2
    <3> QED BY <3>3 DEF Adds
  <2> QED BY <2>1, <2>5
<1> QED BY <1>1

LEMMA SumUnfolds ==
  ASSUME NEW f, NEW S, IsFiniteSet(S)
  PROVE  Sum(f, S) = IF S = {} THEN 0 ELSE f[Chosen(S)] + Sum(f, S \ {Chosen(S)})
<1> DEFINE G(T) == CHOOSE g : Adds(g, f, T)
           Rest == S \ {Chosen(S)}
<1>1. \A T : Sum(f, T) = G(T)[T]
  BY DEF Sum, SumFunctionOnSet, FoldFunctionOnSet, MapThenFoldSet, Adds, Chosen
<1>2. \A T \in SUBSET S : Adds(G(T), f, T)
  BY AddsExists, FS_Subset
<1>3. G(S)[S] = IF S = {} THEN 0 ELSE f[Chosen(S)] + G(S)[Rest]
  <2>1. Adds(G(S), f, S)
    BY <1>2
  <2> HIDE DEF G
  <2> QED BY <2>1 DEF Adds
<1>4. ASSUME S # {} PROVE G(S)[Rest] = G(Rest)[Rest]
  <2>1. Rest \in SUBSET (S \cap Rest)
    BY <1>4, ChosenIn
  <2>2. Adds(G(S), f, S) /\ Adds(G(Rest), f, Rest)
    BY <1>2
  <2> HIDE DEF G, Rest
  <2> QED BY <2>1, <2>2, AddsSame
<1> HIDE DEF G
<1> QED BY <1>1, <1>3, <1>4

LEMMA SumOfNone ==
  ASSUME NEW f
  PROVE  Sum(f, {}) = 0
  BY SumUnfolds, FS_EmptySet

LEMMA SumTyped ==
  ASSUME NEW f, NEW S, IsFiniteSet(S), \A x \in S : f[x] \in Int
  PROVE  Sum(f, S) \in Int
<1> DEFINE B == {T \in SUBSET S : Sum(f, T) \notin Int}
<1>1. ASSUME B # {} PROVE FALSE
  <2>1. PICK T \in B : \A U \in SUBSET T : U # T => U \notin B
    <3>1. B \subseteq SUBSET S
      OBVIOUS
    <3> HIDE DEF B
    <3> QED BY <1>1, <3>1, Smallest
  <2>2. T \in SUBSET S /\ Sum(f, T) \notin Int /\ IsFiniteSet(T)
    BY <2>1, FS_Subset
  <2>3. Sum(f, T) = IF T = {} THEN 0 ELSE f[Chosen(T)] + Sum(f, T \ {Chosen(T)})
    BY <2>2, SumUnfolds
  <2>4. T # {}
    BY <2>2, <2>3
  <2>5. Sum(f, T \ {Chosen(T)}) \in Int /\ f[Chosen(T)] \in Int
    BY <2>1, <2>2, <2>4, ChosenIn
  <2> QED BY <2>2, <2>3, <2>4, <2>5
<1> QED BY <1>1

\* The sum without one of the numbers, whichever is left out.
LEMMA SumLeaves ==
  ASSUME NEW f, NEW S, IsFiniteSet(S), \A x \in S : f[x] \in Int, NEW x \in S
  PROVE  Sum(f, S) = f[x] + Sum(f, S \ {x})
<1> DEFINE B == {T \in SUBSET S : \E y \in T : Sum(f, T) # f[y] + Sum(f, T \ {y})}
<1>1. ASSUME B # {} PROVE FALSE
  <2>1. PICK T \in B : \A U \in SUBSET T : U # T => U \notin B
    <3>1. B \subseteq SUBSET S
      OBVIOUS
    <3> HIDE DEF B
    <3> QED BY <1>1, <3>1, Smallest
  <2>2. T \in SUBSET S /\ IsFiniteSet(T)
    BY <2>1, FS_Subset
  <2>3. PICK y \in T : Sum(f, T) # f[y] + Sum(f, T \ {y})
    BY <2>1
  <2>4. PICK c \in T : c = Chosen(T)
    BY ChosenIn
  <2>5. Sum(f, T) = f[c] + Sum(f, T \ {c})
    BY <2>2, <2>4, SumUnfolds
  <2>6. c # y
    BY <2>3, <2>5
  <2>7. Sum(f, T \ {c}) = f[y] + Sum(f, (T \ {c}) \ {y})
    <3>1. T \ {c} \in SUBSET T /\ T \ {c} # T /\ T \ {c} \in SUBSET S /\ y \in T \ {c}
      BY <2>2, <2>6
    <3> QED BY <2>1, <3>1
  <2>8. Sum(f, T \ {y}) = f[c] + Sum(f, (T \ {y}) \ {c})
    <3>1. T \ {y} \in SUBSET T /\ T \ {y} # T /\ T \ {y} \in SUBSET S /\ c \in T \ {y}
      BY <2>2, <2>6
    <3> QED BY <2>1, <3>1
  <2>9. (T \ {c}) \ {y} = (T \ {y}) \ {c}
    OBVIOUS
  <2>10. Sum(f, (T \ {c}) \ {y}) \in Int /\ f[c] \in Int /\ f[y] \in Int
    <3>1. IsFiniteSet((T \ {c}) \ {y}) /\ \A z \in (T \ {c}) \ {y} : f[z] \in Int
      BY <2>2, FS_Subset
    <3> QED BY <2>2, <3>1, SumTyped
  <2>11. Sum(f, (T \ {y}) \ {c}) = Sum(f, (T \ {c}) \ {y})
    BY <2>9
  <2> QED BY <2>3, <2>5, <2>7, <2>8, <2>10, <2>11
<1> QED BY <1>1

LEMMA SumTakesIn ==
  ASSUME NEW f, NEW S, IsFiniteSet(S), \A y \in S : f[y] \in Int, NEW x, x \notin S, f[x] \in Int
  PROVE  IsFiniteSet(S \cup {x}) /\ Sum(f, S \cup {x}) = f[x] + Sum(f, S)
<1>1. IsFiniteSet(S \cup {x}) /\ x \in S \cup {x} /\ (S \cup {x}) \ {x} = S /\ \A y \in S \cup {x} : f[y] \in Int
  BY FS_AddElement
<1> QED BY <1>1, SumLeaves

LEMMA SumSame ==
  ASSUME NEW f, NEW g, NEW S, IsFiniteSet(S), \A x \in S : f[x] = g[x]
  PROVE  Sum(f, S) = Sum(g, S)
<1> DEFINE B == {T \in SUBSET S : Sum(f, T) # Sum(g, T)}
<1>1. ASSUME B # {} PROVE FALSE
  <2>1. PICK T \in B : \A U \in SUBSET T : U # T => U \notin B
    <3>1. B \subseteq SUBSET S
      OBVIOUS
    <3> HIDE DEF B
    <3> QED BY <1>1, <3>1, Smallest
  <2>2. T \in SUBSET S /\ Sum(f, T) # Sum(g, T) /\ IsFiniteSet(T)
    BY <2>1, FS_Subset
  <2>3. /\ Sum(f, T) = IF T = {} THEN 0 ELSE f[Chosen(T)] + Sum(f, T \ {Chosen(T)})
        /\ Sum(g, T) = IF T = {} THEN 0 ELSE g[Chosen(T)] + Sum(g, T \ {Chosen(T)})
    BY <2>2, SumUnfolds
  <2>4. T # {}
    BY <2>2, <2>3
  <2>5. Sum(f, T \ {Chosen(T)}) = Sum(g, T \ {Chosen(T)}) /\ f[Chosen(T)] = g[Chosen(T)]
    BY <2>1, <2>2, <2>4, ChosenIn
  <2> QED BY <2>2, <2>3, <2>4, <2>5
<1> QED BY <1>1

LEMMA SumSplits ==
  ASSUME NEW f, NEW S, IsFiniteSet(S), \A x \in S : f[x] \in Int, NEW R \in SUBSET S
  PROVE  Sum(f, S) = Sum(f, R) + Sum(f, S \ R)
<1> DEFINE B == {T \in SUBSET R : Sum(f, S) # Sum(f, T) + Sum(f, S \ T)}
<1>0. ASSUME NEW T \in SUBSET S PROVE IsFiniteSet(T) /\ Sum(f, T) \in Int
  BY FS_Subset, SumTyped
<1>1. ASSUME B # {} PROVE FALSE
  <2>1. PICK T \in B : \A U \in SUBSET T : U # T => U \notin B
    <3>1. B \subseteq SUBSET R /\ IsFiniteSet(R)
      BY <1>0
    <3> HIDE DEF B
    <3> QED BY <1>1, <3>1, Smallest
  <2>2. T \in SUBSET R /\ Sum(f, S) # Sum(f, T) + Sum(f, S \ T)
    BY <2>1
  <2>3. T # {}
    <3>1. S \ {} = S /\ Sum(f, S) \in Int
      BY <1>0
    <3> QED BY <2>2, <3>1, SumOfNone
  <2>4. PICK c \in T : c \in S /\ c \notin S \ T
    BY <2>2, <2>3
  <2>5. Sum(f, S) = Sum(f, T \ {c}) + Sum(f, S \ (T \ {c}))
    <3>1. T \ {c} \in SUBSET T /\ T \ {c} # T /\ T \ {c} \in SUBSET R
      BY <2>2, <2>4
    <3> QED BY <2>1, <3>1
  <2>6. Sum(f, T) = f[c] + Sum(f, T \ {c})
    BY <1>0, <2>2, SumLeaves
  <2>7. Sum(f, S \ (T \ {c})) = f[c] + Sum(f, S \ T)
    <3>1. S \ (T \ {c}) = (S \ T) \cup {c} /\ IsFiniteSet(S \ T)
      BY <1>0, <2>4
    <3> QED BY <2>4, <3>1, SumTakesIn
  <2>8. f[c] \in Int /\ Sum(f, T \ {c}) \in Int /\ Sum(f, S \ T) \in Int
    BY <1>0, <2>2, <2>4
  <2> QED BY <2>2, <2>5, <2>6, <2>7, <2>8
<1> QED BY <1>1

----------------------------------------------------------------------------
(* The debt of an order: what is pending of it, and what standing           *)
(* statements took.                                                         *)

Stand       == {s \in Statements : Live(s)}
Items(o)    == [s \in Statements |-> items[s][o]]
Drawn(o, S) == Sum(Items(o), S)
Unpaid(o)   == row[o] \notin {"paid", "refunded"}

\* A step that leaves the ledger and the statements as they are.
LedgerKept == /\ UNCHANGED <<owed, pending, raised, items>> /\ Stand' = Stand
              /\ \A o \in Orders : Unpaid(o)' <=> Unpaid(o)
Kept == LedgerKept /\ \A q \in Handlers : job'[q].at = "state" => job'[q] = job[q]

\* One that makes a debt, and one that corrects it.
Makes(o) ==
  /\ Unpaid(o) /\ ~Unpaid(o)' /\ \A q \in Orders \ {o} : Unpaid(q)' <=> Unpaid(q)
  /\ owed'    = [owed EXCEPT ![o] = Amount]
  /\ pending' = [pending EXCEPT ![o] = @ + Amount]
  /\ UNCHANGED <<raised, items>> /\ Stand' = Stand
  /\ \A q \in Handlers : job'[q].at = "state" => job'[q] = job[q]
Corrects(o, n) ==
  /\ ~Unpaid(o) /\ ~Unpaid(o)' /\ \A q \in Orders \ {o} : Unpaid(q)' <=> Unpaid(q)
  /\ owed'    = [owed EXCEPT ![o] = n]
  /\ pending' = [pending EXCEPT ![o] = @ + (n - owed[o])]
  /\ raised'  = IF n > owed[o] THEN raised \cup {o} ELSE raised
  /\ items' = items /\ Stand' = Stand
  /\ \A q \in Handlers : job'[q].at = "state" => job'[q] = job[q]

\* One that plans a statement, writes it, or takes it back.
PlansAll(p) ==
  /\ LedgerKept
  /\ \A o \in Orders : job'[p].plan[o] \in {0, pending[o]}
  /\ \A q \in Handlers : job'[q].at = "state" => q = p \/ job'[q] = job[q]
Issues(p, s, plan) ==
  /\ At(p, "state") /\ plan = job[p].plan /\ s \in Statements \ Stand
  /\ Stand' = Stand \cup {s} /\ items' = [items EXCEPT ![s] = plan]
  /\ pending' = [o \in Orders |-> pending[o] - plan[o]]
  /\ UNCHANGED <<row, owed, raised>>
  /\ \A q \in Handlers : job'[q].at # "state"
TakesBack(s) ==
  /\ s \in Stand /\ Stand' = Stand \ {s} /\ UNCHANGED <<row, owed, raised, items, job>>
  /\ pending' = [o \in Orders |-> pending[o] + items[s][o]]

DebtActs ==
  \/ Kept
  \/ \E o \in Orders : Makes(o) \/ \E n \in 0..Amount : Corrects(o, n)
  \/ \E p \in Handlers : PlansAll(p) \/ \E s \in Statements, plan \in [Orders -> Int] : Issues(p, s, plan)
  \/ \E s \in Statements : TakesBack(s)

LEMMA FinishKeeps ==
  ASSUME TypeInv, NEW p \in Handlers, Finish(p)
  PROVE  \A q \in Handlers : job'[q].at = "state" => job'[q] = job[q]
<1>1. job \in [Handlers -> Job]
  BY DEF TypeInv, TypeOK
<1>2. job'[p].at = "idle" /\ \A q \in Handlers \ {p} : job'[q] = job[q]
  BY <1>1, FinishTyped
<1> QED BY <1>2

LEMMA BuyingDebt ==
  ASSUME Inv, NEW p \in Handlers, Buying(p)
  PROVE  Kept
<1>0. TypeInv /\ row \in [Orders -> {"none", "held", "released", "paid", "refunded"}] /\ job \in [Handlers -> Job]
  BY DEF Inv, TypeInv, TypeOK
<1>1. CASE Reserve(p)
  <2>1. PICK o \in Orders : o = job[p].ord
    BY <1>0, <1>1 DEF Reserve, TypeInv, Busy
  <2>2. row' = [row EXCEPT ![o] = "held"] /\ row[o] = "none" /\ Finish(p)
    BY <1>1, <2>1 DEF Reserve, Inv, Placed
  <2>3. \A q \in Orders : Unpaid(q)' <=> Unpaid(q)
    BY <1>0, <2>2 DEF Unpaid
  <2>4. UNCHANGED <<owed, pending, raised, items>> /\ Stand' = Stand
    BY <1>1 DEF Reserve, statement, Stand, Live
  <2> QED BY <1>0, <2>2, <2>3, <2>4, FinishKeeps DEF Kept, LedgerKept
<1>2. CASE Refused(p)
  <2>1. Finish(p) /\ UNCHANGED <<row, owed, pending, raised, items>> /\ Stand' = Stand
    BY <1>2 DEF Refused, ledger, statement, Stand, Live
  <2> QED BY <1>0, <2>1, FinishKeeps DEF Kept, LedgerKept, Unpaid
<1>3. ASSUME NEW o \in Orders, Price(p, o) PROVE Kept
  <2>1. UNCHANGED <<row, owed, pending, raised, items>> /\ Stand' = Stand
    BY <1>3 DEF Price, ledger, statement, Stand, Live
  <2>2. \A q \in Handlers : job'[q].at = "state" => job'[q] = job[q]
    BY <1>3, <1>0 DEF Price, Job
  <2> QED BY <2>1, <2>2 DEF Kept, LedgerKept, Unpaid
<1> QED BY <1>1, <1>2, <1>3 DEF Buying

LEMMA PayingDebt ==
  ASSUME Inv, NEW p \in Handlers, Paying(p)
  PROVE  Kept \/ \E o \in Orders : Makes(o)
<1>0. TypeInv /\ row \in [Orders -> {"none", "held", "released", "paid", "refunded"}] /\ job \in [Handlers -> Job]
  BY DEF Inv, TypeInv, TypeOK
<1>1. CASE Mark(p)
  <2>1. PICK o \in Orders : o = job[p].ord
    BY <1>0, <1>1 DEF Mark, TypeInv, Busy
  <2>2. /\ Finish(p) /\ raised' = raised /\ items' = items /\ Stand' = Stand
        /\ \A q \in Handlers : job'[q].at = "state" => job'[q] = job[q]
    BY <1>0, <1>1, FinishKeeps DEF Mark, statement, Stand, Live
  <2>3. CASE Markable(o)
    <3>1. /\ row' = [row EXCEPT ![o] = "paid"] /\ owed' = [owed EXCEPT ![o] = Amount]
          /\ pending' = [pending EXCEPT ![o] = @ + Amount]
      BY <1>1, <2>1, <2>3 DEF Mark
    <3>2. Unpaid(o) /\ ~Unpaid(o)' /\ \A q \in Orders \ {o} : Unpaid(q)' <=> Unpaid(q)
      BY <1>0, <2>3, <3>1 DEF Unpaid, Markable
    <3> QED BY <2>2, <3>1, <3>2 DEF Makes
  <2>4. CASE ~Markable(o)
    <3>1. UNCHANGED <<row, owed, pending>>
      BY <1>1, <2>1, <2>4 DEF Mark
    <3> QED BY <2>2, <3>1 DEF Kept, LedgerKept, Unpaid
  <2> QED BY <2>3, <2>4
<1>2. CASE MarkFails(p)
  <2>1. Finish(p) /\ UNCHANGED <<row, owed, pending, raised, items>> /\ Stand' = Stand
    BY <1>2 DEF MarkFails, statement, Stand, Live
  <2> QED BY <1>0, <2>1, FinishKeeps DEF Kept, LedgerKept, Unpaid
<1>3. ASSUME NEW o \in Orders, Settle(p, o) PROVE Kept
  <2>1. UNCHANGED <<row, owed, pending, raised, items>> /\ Stand' = Stand
    BY <1>3 DEF Settle, ledger, statement, Stand, Live
  <2>2. \A q \in Handlers : job'[q].at = "state" => job'[q] = job[q]
    BY <1>3, <1>0 DEF Settle, Job
  <2> QED BY <2>1, <2>2 DEF Kept, LedgerKept, Unpaid
<1> QED BY <1>1, <1>2, <1>3 DEF Paying

LEMMA RefundingDebt ==
  ASSUME Inv, NEW p \in Handlers, Refunding(p)
  PROVE  Kept \/ \E o \in Orders, n \in 0..Amount : Corrects(o, n)
<1>0. /\ TypeInv /\ row \in [Orders -> {"none", "held", "released", "paid", "refunded"}]
      /\ job \in [Handlers -> Job]
  BY DEF Inv, TypeInv, TypeOK
<1>1. CASE RefundRead(p)
  <2>1. UNCHANGED <<row, owed, pending, raised, items>> /\ Stand' = Stand
    BY <1>1 DEF RefundRead, ledger, statement, Stand, Live
  <2>2. \A q \in Handlers : job'[q].at = "state" => job'[q] = job[q]
    <3>1. CASE Finish(p)
      BY <1>0, <3>1, FinishKeeps
    <3>2. CASE job' = [job EXCEPT ![p].at = "correct", ![p].debt = owed[job[p].ord]]
      BY <1>0, <3>2 DEF Job
    <3> QED BY <1>1, <3>1, <3>2 DEF RefundRead
  <2> QED BY <2>1, <2>2 DEF Kept, LedgerKept, Unpaid
<1>2. CASE Correct(p)
  <2>1. PICK o \in Orders : o = job[p].ord
    BY <1>0, <1>2 DEF Correct, TypeInv, Busy
  <2> DEFINE n == OwedAfter(job[p].debt, job[p].sum)
  <2>2. n \in 0..Amount
    <3>1. job[p].sum \in 0..Amount
      BY <1>0 DEF Job
    <3> QED BY <3>1, AmountAssumption DEF OwedAfter
  <2>3. /\ row[o] = "paid" /\ owed[o] = job[p].debt /\ Finish(p)
        /\ row' = [row EXCEPT ![o] = IF job[p].sum = Amount THEN "refunded" ELSE @]
        /\ owed' = [owed EXCEPT ![o] = n]
        /\ pending' = [pending EXCEPT ![o] = @ + (n - job[p].debt)]
        /\ raised' = IF n > job[p].debt THEN raised \cup {o} ELSE raised
    BY <1>2, <2>1 DEF Correct, AsRead
  <2>4. /\ items' = items /\ Stand' = Stand
        /\ \A q \in Handlers : job'[q].at = "state" => job'[q] = job[q]
    BY <1>0, <1>2, <2>3, FinishKeeps DEF Correct, statement, Stand, Live
  <2>5. ~Unpaid(o) /\ ~Unpaid(o)' /\ \A q \in Orders \ {o} : Unpaid(q)' <=> Unpaid(q)
    BY <1>0, <2>3 DEF Unpaid
  <2> HIDE DEF n
  <2>6. Corrects(o, n)
    BY <2>3, <2>4, <2>5 DEF Corrects
  <2> QED BY <2>2, <2>6
<1>3. CASE CorrectFails(p)
  <2>1. Finish(p) /\ UNCHANGED <<row, owed, pending, raised, items>> /\ Stand' = Stand
    BY <1>3 DEF CorrectFails, statement, Stand, Live
  <2> QED BY <1>0, <2>1, FinishKeeps DEF Kept, LedgerKept, Unpaid
<1>4. ASSUME NEW o \in Orders, NEW k \in 1..Amount, Refund(p, o, k) PROVE Kept
  <2>1. UNCHANGED <<row, owed, pending, raised, items>> /\ Stand' = Stand
    BY <1>4 DEF Refund, ledger, statement, Stand, Live
  <2>2. \A q \in Handlers : job'[q].at = "state" => job'[q] = job[q]
    BY <1>4, <1>0 DEF Refund, Job
  <2> QED BY <2>1, <2>2 DEF Kept, LedgerKept, Unpaid
<1> QED BY <1>1, <1>2, <1>3, <1>4 DEF Refunding

LEMMA StatingDebt ==
  ASSUME Inv, StateInv, NEW p \in Handlers, Stating(p)
  PROVE  PlansAll(p) \/ \E s \in Statements, plan \in [Orders -> Int] : Issues(p, s, plan)
<1>0. TypeInv /\ job \in [Handlers -> Job] /\ pending \in [Orders -> Int]
      /\ payout \in [Statements -> {"none", "pending", "approved", "paid", "cancelled"}]
  BY DEF Inv, TypeInv, TypeOK
<1>1. CASE Issue(p)
  <2>1. At(p, "state") /\ Finish(p)
    BY <1>1 DEF Issue
  <2>2. PICK s \in Statements : s = job[p].pay
    BY <1>0, <2>1 DEF TypeInv, Busy
  <2>3. PICK plan \in [Orders -> Int] : plan = job[p].plan
    BY <1>0 DEF Job
  <2>4. payout[s] = "none" /\ \A q \in Handlers : At(q, "state") => q = p
    BY <2>1, <2>2 DEF StateInv, StatedAlone
  <2>5. /\ payout' = [payout EXCEPT ![s] = "pending"] /\ items' = [items EXCEPT ![s] = plan]
        /\ pending' = [o \in Orders |-> pending[o] - plan[o]] /\ UNCHANGED <<row, owed, raised>>
    BY <1>1, <2>2, <2>3 DEF Issue, After
  <2>6. s \notin Stand /\ Stand' = Stand \cup {s}
    BY <1>0, <2>4, <2>5 DEF Stand, Live
  <2>7. \A q \in Handlers : job'[q].at # "state"
    BY <1>0, <2>1, <2>4, FinishTyped DEF At
  <2> QED BY <2>1, <2>3, <2>5, <2>6, <2>7 DEF Issues
<1>2. ASSUME NEW s \in Statements, NEW c \in Cohorts, Generate(p, s, c) PROVE PlansAll(p)
  <2>1. PICK plan \in Plans(c) :
          job' = [job EXCEPT ![p].at = "state", ![p].pay = s, ![p].of = c, ![p].plan = plan]
    BY <1>2 DEF Generate
  <2>2. UNCHANGED <<row, owed, pending, raised, items>> /\ Stand' = Stand
    BY <1>2 DEF Generate, ledger, statement, Stand, Live
  <2>3. \A o \in Orders : plan[o] \in {0, pending[o]}
    BY DEF Plans
  <2>4. job'[p].plan = plan /\ \A q \in Handlers \ {p} : job'[q] = job[q]
    BY <1>0, <2>1 DEF Job
  <2> QED BY <2>2, <2>3, <2>4 DEF PlansAll, LedgerKept, Unpaid
<1> QED BY <1>1, <1>2 DEF Stating

LEMMA DebtKinds ==
  ASSUME Inv, StateInv, [Next]_vars
  PROVE  DebtActs
<1>0. /\ row \in [Orders -> {"none", "held", "released", "paid", "refunded"}]
      /\ payout \in [Statements -> {"none", "pending", "approved", "paid", "cancelled"}]
  BY DEF Inv, TypeInv, TypeOK
<1>1. CASE UNCHANGED vars
  BY <1>1 DEF vars, ledger, statement, DebtActs, Kept, LedgerKept, Stand, Live, Unpaid
<1>2. ASSUME NEW p \in Handlers, Buying(p) \/ Paying(p) \/ Refunding(p) \/ Stating(p) PROVE DebtActs
  BY <1>2, BuyingDebt, PayingDebt, RefundingDebt, StatingDebt DEF DebtActs
<1>3. ASSUME NEW o \in Orders, Cancel(o) PROVE DebtActs
  <2>1. row' = [row EXCEPT ![o] = "released"] /\ row[o] = "held"
    BY <1>0, <1>3 DEF Cancel, Inv, Placed
  <2>2. \A q \in Orders : Unpaid(q)' <=> Unpaid(q)
    BY <1>0, <2>1 DEF Unpaid
  <2> QED BY <1>3, <2>2 DEF Cancel, statement, DebtActs, Kept, LedgerKept, Stand, Live
<1>4. ASSUME NEW s \in Statements, ApproveStatement(s) \/ PayStatement(s) PROVE DebtActs
  <2>1. Stand' = Stand
    BY <1>0, <1>4 DEF ApproveStatement, PayStatement, Step, Stand, Live
  <2> QED BY <1>4, <2>1 DEF ApproveStatement, PayStatement, Step, DebtActs, Kept, LedgerKept, Unpaid
<1>5. ASSUME NEW s \in Statements, CancelStatement(s) PROVE DebtActs
  <2>1. s \in Stand /\ Stand' = Stand \ {s}
    BY <1>0, <1>5 DEF CancelStatement, Step, Stand, Live
  <2>2. TakesBack(s)
    BY <1>5, <2>1 DEF CancelStatement, Step, TakesBack
  <2> QED BY <2>2 DEF DebtActs
<1>6. CASE Switch
  BY <1>6 DEF Switch, ledger, statement, DebtActs, Kept, LedgerKept, Stand, Live, Unpaid
<1> QED BY <1>1, <1>2, <1>3, <1>4, <1>5, <1>6 DEF Next

LEMMA DrawnTyped ==
  ASSUME TypeOK, IsFiniteSet(Stand), NEW o \in Orders, NEW T \in SUBSET Stand
  PROVE  /\ IsFiniteSet(T) /\ Drawn(o, T) \in Int
         /\ \A s \in Statements : Items(o)[s] = items[s][o] /\ items[s][o] \in Int
<1>1. \A s \in Statements : Items(o)[s] = items[s][o] /\ items[s][o] \in Int
  BY DEF TypeOK, Items
<1>2. T \subseteq Statements /\ IsFiniteSet(T)
  BY FS_Subset DEF Stand
<1> QED BY <1>1, <1>2, SumTyped DEF Drawn

\* What was drawn before a statement is written, and with it.
LEMMA DrawnIssued ==
  ASSUME TypeOK, TypeOK', IsFiniteSet(Stand), NEW p \in Handlers, NEW s \in Statements,
         NEW plan \in [Orders -> Int], Issues(p, s, plan), NEW o \in Orders, NEW T \in SUBSET Stand
  PROVE  Drawn(o, T)' = Drawn(o, T) /\ Drawn(o, T \cup {s})' = plan[o] + Drawn(o, T)
<1>1. /\ IsFiniteSet(T) /\ T \subseteq Statements /\ s \notin T
      /\ \A t \in Statements : Items(o)[t] = items[t][o] /\ items[t][o] \in Int
  BY DrawnTyped DEF Issues, Stand
<1>2. /\ \A t \in Statements : Items(o)'[t] = items'[t][o]
      /\ \A t \in Statements \ {s} : items'[t] = items[t]
      /\ items'[s] = plan
  BY DEF Issues, Items, TypeOK
<1>3. \A t \in T : Items(o)'[t] = Items(o)[t] /\ Items(o)'[t] \in Int
  BY <1>1, <1>2
<1>4. Items(o)'[s] = plan[o] /\ plan[o] \in Int
  BY <1>2
<1> DEFINE f == Items(o)
           g == Items(o)'
<1> HIDE DEF f, g
<1>5. Sum(g, T) = Sum(f, T)
  BY <1>1, <1>3, SumSame DEF f, g
<1>6. Sum(g, T \cup {s}) = g[s] + Sum(g, T)
  BY <1>1, <1>3, <1>4, SumTakesIn DEF g
<1>7. Drawn(o, T)' = Sum(g, T) /\ Drawn(o, T \cup {s})' = Sum(g, T \cup {s}) /\ Drawn(o, T) = Sum(f, T)
  BY DEF Drawn, f, g
<1> QED BY <1>4, <1>5, <1>6, <1>7 DEF g

\* A debt is what is pending of it and what was taken; there is none before the payment.
DebtInv ==
  /\ IsFiniteSet(Stand)
  /\ \A o \in Orders : Unpaid(o) => owed[o] = 0
  /\ \A o \in Orders : pending[o] + Drawn(o, Stand) = owed[o]

LEMMA DebtStep ==
  ASSUME TypeOK, TypeOK', DebtInv, DebtActs
  PROVE  DebtInv'
<1>0. /\ pending \in [Orders -> Int] /\ owed \in [Orders -> 0..Amount]
      /\ \A o \in Orders, T \in SUBSET Stand : Drawn(o, T) \in Int
      /\ IsFiniteSet(Stand) /\ Amount \in Nat
  BY DrawnTyped, AmountAssumption DEF TypeOK, DebtInv
<1>1. ASSUME items' = items, NEW o \in Orders, NEW T PROVE Drawn(o, T)' = Drawn(o, T)
  BY <1>1 DEF Drawn, Items
<1>2. ASSUME LedgerKept PROVE DebtInv'
  BY <1>1, <1>2 DEF LedgerKept, DebtInv
<1>3. ASSUME NEW o \in Orders, Makes(o) PROVE DebtInv'
  <2>1. owed[o] = 0 /\ pending[o] + Drawn(o, Stand) = 0
    BY <1>3 DEF Makes, DebtInv
  <2>2. /\ owed'[o] = Amount /\ pending'[o] = pending[o] + Amount
        /\ \A q \in Orders \ {o} : owed'[q] = owed[q] /\ pending'[q] = pending[q]
    BY <1>0, <1>3 DEF Makes
  <2>3. Stand' = Stand /\ \A q \in Orders : Drawn(q, Stand)' = Drawn(q, Stand)
    BY <1>1, <1>3 DEF Makes
  <2>4. pending'[o] + Drawn(o, Stand)' = owed'[o]
    BY <1>0, <2>1, <2>2, <2>3
  <2>5. \A q \in Orders : pending'[q] + Drawn(q, Stand)' = owed'[q]
    BY <2>2, <2>3, <2>4 DEF DebtInv
  <2>6. \A q \in Orders : Unpaid(q)' => owed'[q] = 0
    BY <1>3, <2>2 DEF Makes, DebtInv
  <2> QED BY <1>0, <2>3, <2>5, <2>6 DEF DebtInv
<1>4. ASSUME NEW o \in Orders, NEW n \in 0..Amount, Corrects(o, n) PROVE DebtInv'
  <2>1. pending[o] + Drawn(o, Stand) = owed[o]
    BY DEF DebtInv
  <2>2. /\ owed'[o] = n /\ pending'[o] = pending[o] + (n - owed[o])
        /\ \A q \in Orders \ {o} : owed'[q] = owed[q] /\ pending'[q] = pending[q]
    BY <1>0, <1>4 DEF Corrects
  <2>3. Stand' = Stand /\ \A q \in Orders : Drawn(q, Stand)' = Drawn(q, Stand)
    BY <1>1, <1>4 DEF Corrects
  <2>4. pending'[o] + Drawn(o, Stand)' = owed'[o]
    BY <1>0, <2>1, <2>2, <2>3
  <2>5. \A q \in Orders : pending'[q] + Drawn(q, Stand)' = owed'[q]
    BY <2>2, <2>3, <2>4 DEF DebtInv
  <2>6. \A q \in Orders : Unpaid(q)' => owed'[q] = 0
    BY <1>4, <2>2 DEF Corrects, DebtInv
  <2> QED BY <1>0, <2>3, <2>5, <2>6 DEF DebtInv
<1>5. ASSUME NEW p \in Handlers, NEW s \in Statements, NEW plan \in [Orders -> Int], Issues(p, s, plan)
      PROVE DebtInv'
  <2>1. Stand' = Stand \cup {s} /\ IsFiniteSet(Stand')
    BY <1>0, <1>5, FS_AddElement DEF Issues
  <2>2. ASSUME NEW o \in Orders PROVE pending'[o] + Drawn(o, Stand)' = owed'[o]
    <3>1. PICK T \in SUBSET Stand : T = Stand
      OBVIOUS
    <3>2. Drawn(o, T \cup {s})' = plan[o] + Drawn(o, T)
      BY <1>0, <1>5, DrawnIssued
    <3>3. Drawn(o, Stand)' = Drawn(o, T \cup {s})'
      BY <2>1, <3>1 DEF Drawn
    <3>4. pending'[o] = pending[o] - plan[o] /\ owed'[o] = owed[o] /\ pending[o] + Drawn(o, Stand) = owed[o]
      BY <1>5 DEF Issues, DebtInv
    <3> QED BY <1>0, <3>1, <3>2, <3>3, <3>4
  <2> QED BY <1>5, <2>1, <2>2 DEF Issues, DebtInv, Unpaid
<1>6. ASSUME NEW s \in Statements, TakesBack(s) PROVE DebtInv'
  <2>1. Stand' = Stand \ {s} /\ IsFiniteSet(Stand') /\ Stand' \in SUBSET Stand
    BY <1>0, <1>6, FS_RemoveElement DEF TakesBack
  <2>2. ASSUME NEW o \in Orders PROVE pending'[o] + Drawn(o, Stand)' = owed'[o]
    <3>1. \A t \in Stand : Items(o)[t] = items[t][o] /\ items[t][o] \in Int
      BY <1>0, DrawnTyped DEF Stand
    <3>2. Drawn(o, Stand) = items[s][o] + Drawn(o, Stand \ {s})
      BY <1>0, <1>6, <3>1, SumLeaves DEF Drawn, TakesBack
    <3>3. Drawn(o, Stand)' = Drawn(o, Stand \ {s}) /\ Drawn(o, Stand \ {s}) \in Int
      BY <1>0, <1>6, <2>1 DEF TakesBack, Drawn, Items
    <3>4. pending'[o] = pending[o] + items[s][o] /\ owed'[o] = owed[o] /\ pending[o] + Drawn(o, Stand) = owed[o]
      BY <1>6 DEF TakesBack, DebtInv
    <3>5. items[s][o] \in Int
      BY <1>6, <3>1 DEF TakesBack
    <3> QED BY <1>0, <3>2, <3>3, <3>4, <3>5
  <2> QED BY <1>6, <2>1, <2>2 DEF TakesBack, DebtInv, Unpaid
<1> QED BY <1>2, <1>3, <1>4, <1>5, <1>6 DEF DebtActs, Kept, PlansAll

LEMMA NoStatements ==
  ASSUME Init
  PROVE  Stand = {} /\ \A o \in Orders : Unpaid(o)
  BY DEF Init, Stand, Live, Unpaid

LEMMA DebtInit == Init => DebtInv
<1> SUFFICES ASSUME Init PROVE DebtInv
  OBVIOUS
<1>1. Stand = {} /\ IsFiniteSet(Stand)
  BY NoStatements, FS_EmptySet
<1>2. \A o \in Orders : Drawn(o, Stand) = 0
  BY <1>1, SumOfNone DEF Drawn
<1> QED BY <1>1, <1>2 DEF Init, DebtInv

LEMMA TakenIsDrawn == \A o \in Orders : Taken(o) = Drawn(o, Stand)
  BY DEF Taken, Drawn, Items, Stand

LEMMA StateInit == Init => StateInv
  BY DEF Init, StateInv, StatedAlone, FeeStatedOnce, Live, At, Idle

LEMMA DebtInvNext ==
  (Inv /\ StateInv /\ DebtInv) /\ [Next]_vars => (Inv /\ StateInv /\ DebtInv)'
<1> SUFFICES ASSUME Inv, StateInv, DebtInv, [Next]_vars PROVE (Inv /\ StateInv /\ DebtInv)'
  OBVIOUS
<1>1. Inv' /\ StateInv'
  BY InvStep, StateStep
<1>2. TypeOK /\ TypeOK'
  BY <1>1 DEF Inv, TypeInv
<1> QED BY <1>1, <1>2, DebtKinds, DebtStep

(* No debt is lost and none is made: what is pending of an order's debt and what standing       *)
(* statements took of it add up to what is owed, however refunds (also their totals applied     *)
(* late), statements and their cancellations cross (coupon-ledger.ts:163-172,                    *)
(* earnings.service.ts:935-944).                                                                 *)
THEOREM DebtsConserved == Spec => []DebtConserved
<1>1. DebtInv => DebtConserved
  BY TakenIsDrawn DEF DebtInv, DebtConserved
<1> QED BY <1>1, InvInit, StateInit, DebtInit, DebtInvNext, PTL DEF Spec

----------------------------------------------------------------------------
(* How much of one discount any of the standing statements took.            *)

\* Once the debt is made: no more than the discount, and gave back no more than it fell.
Bounded(o, n) ==
  /\ n \in Int
  /\ IF Unpaid(o) THEN n = 0 ELSE owed[o] - Amount <= n /\ n <= Amount

\* What any part of them took, also with what is being stated: cancelling some of them
\* leaves the others within it.
Comes(o, T, n) ==
  \/ n = Drawn(o, T)
  \/ \E p \in Handlers : At(p, "state") /\ n = Drawn(o, T) + job[p].plan[o]
DrawnWithin(o) == \A T \in SUBSET Stand, n \in Int : Comes(o, T, n) => Bounded(o, n)

TakeInv == \A o \in Orders \ raised : DrawnWithin(o)

\* A step after which no more comes together, of an order whose bound it leaves or widens.
LEMMA NoMoreComes ==
  ASSUME TakeInv, NEW o \in Orders \ raised, Stand' \subseteq Stand,
         \A T \in SUBSET Stand, n \in Int : Comes(o, T, n)' => Comes(o, T, n),
         \A n \in Int : Bounded(o, n) => Bounded(o, n)'
  PROVE  DrawnWithin(o)'
<1>1. ASSUME NEW T \in SUBSET Stand', NEW n \in Int, Comes(o, T, n)' PROVE Bounded(o, n)'
  <2>1. T \in SUBSET Stand
    OBVIOUS
  <2>2. Comes(o, T, n)
    BY <1>1, <2>1
  <2> QED BY <2>1, <2>2 DEF TakeInv, DrawnWithin
<1> QED BY <1>1 DEF DrawnWithin

LEMMA ComesKept ==
  ASSUME items' = items, \A q \in Handlers : job'[q].at = "state" => job'[q] = job[q],
         NEW o \in Orders, NEW T, NEW n, Comes(o, T, n)'
  PROVE  Comes(o, T, n)
<1>1. Drawn(o, T)' = Drawn(o, T)
  BY DEF Drawn, Items
<1> QED BY <1>1 DEF Comes, At

\* All that is pending, with what some statements took, is what is owed less what the
\* others took.
LEMMA PendingBounded ==
  ASSUME TypeOK, DebtInv, NEW o \in Orders, DrawnWithin(o), NEW T \in SUBSET Stand
  PROVE  Bounded(o, Drawn(o, T) + pending[o])
<1> DEFINE R == Stand \ T
<1>1. Drawn(o, T) \in Int /\ Drawn(o, R) \in Int /\ Drawn(o, Stand) \in Int /\ R \in SUBSET Stand
  BY DrawnTyped DEF DebtInv
<1>2. Drawn(o, Stand) = Drawn(o, T) + Drawn(o, R)
  <2>1. \A s \in Stand : Items(o)[s] \in Int
    BY DrawnTyped DEF Stand, DebtInv
  <2> QED BY <2>1, SumSplits DEF Drawn, DebtInv
<1>3. Bounded(o, Drawn(o, R))
  BY <1>1 DEF DrawnWithin, Comes
<1>4. pending[o] \in Int /\ owed[o] \in Int /\ Amount \in Nat /\ pending[o] + Drawn(o, Stand) = owed[o]
      /\ (Unpaid(o) => owed[o] = 0)
  BY AmountAssumption DEF TypeOK, DebtInv
<1> HIDE DEF R
<1> QED BY <1>1, <1>2, <1>3, <1>4 DEF Bounded

LEMMA TakeStep ==
  ASSUME TypeOK, TypeOK', DebtInv, TakeInv, DebtActs
  PROVE  TakeInv'
<1>0. /\ pending \in [Orders -> Int] /\ owed \in [Orders -> 0..Amount] /\ job \in [Handlers -> Job]
      /\ IsFiniteSet(Stand) /\ Amount \in Nat
  BY AmountAssumption DEF TypeOK, DebtInv
<1>1. CASE Kept
  <2>1. ASSUME NEW o \in Orders \ raised PROVE DrawnWithin(o)'
    <3>1. \A n \in Int : Bounded(o, n) => Bounded(o, n)'
      BY <1>1 DEF Kept, LedgerKept, Bounded
    <3> QED BY <1>1, <3>1, ComesKept, NoMoreComes DEF Kept, LedgerKept
  <2> QED BY <1>1, <2>1 DEF TakeInv, Kept, LedgerKept
<1>2. ASSUME NEW c \in Orders, Makes(c) PROVE TakeInv'
  <2>1. ASSUME NEW o \in Orders \ raised PROVE DrawnWithin(o)'
    <3>1. \A n \in Int : Bounded(o, n) => Bounded(o, n)'
      BY <1>0, <1>2 DEF Makes, Bounded
    <3> QED BY <1>2, <3>1, ComesKept, NoMoreComes DEF Makes
  <2> QED BY <1>2, <2>1 DEF TakeInv, Makes
<1>3. ASSUME NEW c \in Orders, NEW m \in 0..Amount, Corrects(c, m) PROVE TakeInv'
  <2>1. ASSUME NEW o \in Orders \ raised' PROVE DrawnWithin(o)'
    <3>1. o \in Orders \ raised /\ (o = c => m <= owed[o])
      BY <1>0, <1>3 DEF Corrects
    <3>2. \A n \in Int : Bounded(o, n) => Bounded(o, n)'
      BY <1>0, <1>3, <3>1 DEF Corrects, Bounded
    <3> QED BY <1>3, <3>1, <3>2, ComesKept, NoMoreComes DEF Corrects
  <2> QED BY <2>1 DEF TakeInv
<1>4. ASSUME NEW p \in Handlers, PlansAll(p) PROVE TakeInv'
  <2>1. ASSUME NEW o \in Orders \ raised PROVE DrawnWithin(o)'
    <3>1. ASSUME NEW T \in SUBSET Stand, NEW n \in Int, Comes(o, T, n)' PROVE Bounded(o, n)
      <4>1. DrawnWithin(o)
        BY DEF TakeInv
      <4>2. Drawn(o, T)' = Drawn(o, T) /\ Drawn(o, T) \in Int
        BY <1>0, <1>4, DrawnTyped DEF PlansAll, LedgerKept, Drawn, Items
      <4>3. CASE n = Drawn(o, T) + job'[p].plan[o]
        <5>1. n = Drawn(o, T) \/ n = Drawn(o, T) + pending[o]
          BY <1>4, <4>2, <4>3 DEF PlansAll
        <5>2. CASE n = Drawn(o, T)
          BY <4>1, <5>2 DEF DrawnWithin, Comes
        <5>3. CASE n = Drawn(o, T) + pending[o]
          BY <4>1, <5>3, PendingBounded
        <5> QED BY <5>1, <5>2, <5>3
      <4>4. CASE n # Drawn(o, T) + job'[p].plan[o]
        <5>1. Comes(o, T, n)
          BY <1>4, <3>1, <4>2, <4>4 DEF PlansAll, Comes, At
        <5> QED BY <4>1, <5>1 DEF DrawnWithin
      <4> QED BY <4>3, <4>4
    <3>2. \A n \in Int : Bounded(o, n) => Bounded(o, n)'
      BY <1>4 DEF PlansAll, LedgerKept, Bounded
    <3>3. Stand' = Stand
      BY <1>4 DEF PlansAll, LedgerKept
    <3> QED BY <3>1, <3>2, <3>3 DEF DrawnWithin
  <2> QED BY <1>4, <2>1 DEF TakeInv, PlansAll, LedgerKept
<1>5. ASSUME NEW p \in Handlers, NEW s \in Statements, NEW plan \in [Orders -> Int], Issues(p, s, plan)
      PROVE TakeInv'
  <2>1. ASSUME NEW o \in Orders \ raised, NEW T \in SUBSET Stand', NEW n \in Int, Comes(o, T, n)'
        PROVE  Bounded(o, n)'
    <3>1. T \ {s} \in SUBSET Stand /\ n = Drawn(o, T)'
      BY <1>5, <2>1 DEF Issues, Comes, At
    <3>2. /\ Drawn(o, T \ {s})' = Drawn(o, T \ {s})
          /\ Drawn(o, (T \ {s}) \cup {s})' = plan[o] + Drawn(o, T \ {s})
      BY <1>0, <1>5, <3>1, DrawnIssued
    <3>3. Drawn(o, T \ {s}) \in Int /\ plan[o] \in Int
      BY <1>0, <3>1, DrawnTyped
    <3>4. Comes(o, T \ {s}, n)
      <4>1. CASE s \in T
        <5>1. (T \ {s}) \cup {s} = T
          BY <4>1
        <5>2. n = Drawn(o, T \ {s}) + plan[o]
          <6>1. Drawn(o, (T \ {s}) \cup {s})' = Drawn(o, T)'
            BY <5>1
          <6> HIDE DEF Drawn
          <6> QED BY <3>1, <3>2, <3>3, <6>1
        <5> QED BY <1>5, <5>2 DEF Issues, Comes
      <4>2. CASE s \notin T
        <5>1. T \ {s} = T
          BY <4>2
        <5> QED BY <3>1, <3>2, <5>1 DEF Comes
      <4> QED BY <4>1, <4>2
    <3>5. Bounded(o, n)
      BY <3>1, <3>4 DEF TakeInv, DrawnWithin
    <3> QED BY <1>5, <3>5 DEF Issues, Bounded, Unpaid
  <2> QED BY <1>5, <2>1 DEF TakeInv, DrawnWithin, Issues
<1>6. ASSUME NEW s \in Statements, TakesBack(s) PROVE TakeInv'
  <2>1. ASSUME NEW o \in Orders \ raised PROVE DrawnWithin(o)'
    <3>1. \A n \in Int : Bounded(o, n) => Bounded(o, n)'
      BY <1>6 DEF TakesBack, Bounded, Unpaid
    <3> QED BY <1>6, <3>1, ComesKept, NoMoreComes DEF TakesBack
  <2> QED BY <1>6, <2>1 DEF TakeInv, TakesBack
<1> QED BY <1>1, <1>2, <1>3, <1>4, <1>5, <1>6 DEF DebtActs

LEMMA TakeInit == Init => TakeInv
<1> SUFFICES ASSUME Init, NEW o \in Orders \ raised, NEW T \in SUBSET Stand, NEW n \in Int, Comes(o, T, n)
             PROVE  Bounded(o, n)
  BY DEF TakeInv, DrawnWithin
<1>1. T = {} /\ Unpaid(o)
  BY NoStatements
<1>2. n = 0
  BY <1>1, SumOfNone DEF Comes, Drawn, Init, At, Idle
<1> QED BY <1>1, <1>2 DEF Bounded

(* No discount is deducted twice, nor given back twice, however many statements are generated,   *)
(* refunded against and cancelled at one time, as long as no total of refunds was applied after  *)
(* a larger one (the lock of generateForCohort, earnings.service.ts:825-833).                    *)
THEOREM DeductedAtMostOnce == Spec => []DeductedOnce
<1>1. ASSUME TypeOK, DebtInv, TakeInv, NEW o \in Orders \ raised
      PROVE  Taken(o) \in -Amount..Amount
  <2>1. Taken(o) \in Int /\ Comes(o, Stand, Taken(o)) /\ Stand \in SUBSET Stand
    BY <1>1, TakenIsDrawn, DrawnTyped DEF DebtInv, Comes
  <2>2. Bounded(o, Taken(o))
    BY <1>1, <2>1 DEF TakeInv, DrawnWithin
  <2>3. owed[o] \in 0..Amount /\ Amount \in Nat
    BY <1>1, AmountAssumption DEF TypeOK
  <2> QED BY <2>2, <2>3 DEF Bounded
<1>2. Inv /\ DebtInv /\ TakeInv => DeductedOnce
  BY <1>1 DEF Inv, TypeInv, DeductedOnce
<1>3. (Inv /\ StateInv /\ DebtInv) /\ TakeInv /\ [Next]_vars => TakeInv'
  <2> SUFFICES ASSUME Inv, StateInv, DebtInv, TakeInv, [Next]_vars PROVE TakeInv'
    OBVIOUS
  <2>1. TypeOK /\ TypeOK'
    BY InvStep DEF Inv, TypeInv
  <2> QED BY <2>1, DebtKinds, TakeStep
<1> QED BY <1>2, <1>3, InvInit, StateInit, DebtInit, TakeInit, DebtInvNext, PTL DEF Spec

=============================================================================
