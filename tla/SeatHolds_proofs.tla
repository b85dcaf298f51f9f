-------------------------- MODULE SeatHolds_proofs --------------------------
(***************************************************************************)
(* Proofs about SeatHolds, for any learners, orders and handlers and any    *)
(* capacity.                                                               *)
(***************************************************************************)
EXTENDS SeatHolds, FiniteSetTheorems, TLAPS

\* An update inside its domain keeps a function's type, one outside changes nothing.
LEMMA UpdateTyped ==
  ASSUME NEW S, NEW T, NEW f \in [S -> T], NEW x, NEW v, x \in S => v \in T
  PROVE  [f EXCEPT ![x] = v] \in [S -> T]
  OBVIOUS

\* A union is no larger than its parts together.
LEMMA UnionBound ==
  ASSUME NEW S, NEW T, IsFiniteSet(S), IsFiniteSet(T)
  PROVE  IsFiniteSet(S \cup T) /\ Cardinality(S \cup T) <= Cardinality(S) + Cardinality(T)
<1>1. IsFiniteSet(S \cap T)
  BY FS_Subset
<1>2. Cardinality(S) \in Nat /\ Cardinality(T) \in Nat /\ Cardinality(S \cap T) \in Nat
  BY <1>1, FS_CardinalityType
<1>3. IsFiniteSet(S \cup T) /\ Cardinality(S \cup T) = Cardinality(S) + Cardinality(T) - Cardinality(S \cap T)
  BY FS_Union
<1> QED BY <1>2, <1>3

LEMMA IdleTyped == Idle \in Job
  BY DEF Idle, Job, Places, Enrollments

\* What one handler does with itself keeps the type of job.
LEMMA JobTyped ==
  ASSUME TypeOK, NEW p \in Handlers, NEW j \in Job, job' = [job EXCEPT ![p] = j]
  PROVE  job' \in [Handlers -> Job]
  BY DEF TypeOK

LEMMA FinishTyped ==
  ASSUME TypeOK, NEW p \in Handlers, Finish(p)
  PROVE  job' \in [Handlers -> Job]
  BY IdleTyped DEF TypeOK, Finish

LEMMA GotoTyped ==
  ASSUME TypeOK, NEW p \in Handlers, NEW place \in Places, Goto(p, place)
  PROVE  job' \in [Handlers -> Job]
  BY DEF TypeOK, Goto, Job

\* Every variable keeps its type.
THEOREM TypeCorrect == Spec => []TypeOK
<1>1. Init => TypeOK
  BY IdleTyped, StaffAssumption DEF Init, TypeOK, Statuses, Enrollments, Outcomes
<1>2. TypeOK /\ [Next]_vars => TypeOK'
  <2> SUFFICES ASSUME TypeOK, [Next]_vars PROVE TypeOK'
    OBVIOUS
  <2> USE DEF TypeOK, Statuses, Enrollments, Outcomes, request, enrollment
  <2>0. Cardinality(Enrolled) \in Nat
    BY UsersAssumption, FS_Subset, FS_CardinalityType DEF Enrolled
  <2>1. ASSUME NEW p \in Handlers, NEW u \in Users,
               Request(p, u) \/ RequestPlan(p, u) \/ Reject(p, u) \/ Approve(p, u) \/ Checkout(p, u)
        PROVE TypeOK'
    <3>1. \A place \in Places, row \in BOOLEAN : [Idle EXCEPT !.at = place, !.user = u, !.row = row] \in Job
      BY DEF Idle, Job
    <3>2. \A place \in Places : [Idle EXCEPT !.at = place, !.user = u] \in Job
      BY DEF Idle, Job
    <3>4. \A place \in Places : [Idle EXCEPT !.at = place, !.user = u, !.count = Cardinality(Enrolled)] \in Job
      BY <2>0 DEF Idle, Job
    <3>3. job' \in [Handlers -> Job]
      <4>1. CASE Request(p, u) BY <4>1, <3>1, JobTyped DEF Request, Places
      <4>2. CASE RequestPlan(p, u) BY <4>2, <3>2, JobTyped DEF RequestPlan, Places
      <4>3. CASE Reject(p, u) BY <4>3, <3>2, JobTyped DEF Reject, Places
      <4>4. CASE Approve(p, u) BY <4>4, <3>4, JobTyped DEF Approve, Places
      <4>5. CASE Checkout(p, u) BY <4>5, <3>4, JobTyped DEF Checkout, Places
      <4> QED BY <2>1, <4>1, <4>2, <4>3, <4>4, <4>5
    <3> QED BY <2>1, <3>3 DEF Request, RequestPlan, Reject, Approve, Checkout
  <2>2. ASSUME NEW p \in Handlers, NEW u \in Users, StaffEnroll(p, u) PROVE TypeOK'
    <3>1. PICK force \in BOOLEAN :
            job' = [job EXCEPT ![p] = [Idle EXCEPT !.at = "enroll", !.user = u, !.force = force]]
      BY <2>2 DEF StaffEnroll
    <3>2. [Idle EXCEPT !.at = "enroll", !.user = u, !.force = force] \in Job
      BY DEF Idle, Job, Places
    <3>3. job' \in [Handlers -> Job]
      BY <3>1, <3>2, JobTyped
    <3>4. staffed' \in 0..MaxStaff
      BY <2>2, StaffAssumption DEF StaffEnroll
    <3> QED BY <2>2, <3>3, <3>4 DEF StaffEnroll
  <2>3. ASSUME NEW p \in Handlers, NEW u \in Users, Drop(p, u) PROVE TypeOK'
    <3>1. [Idle EXCEPT !.at = "fill"] \in Job
      BY DEF Idle, Job, Places
    <3>2. job' \in [Handlers -> Job]
      BY <2>3, <3>1, JobTyped DEF Drop
    <3> QED BY <2>3, <3>2 DEF Drop
  <2>4. ASSUME NEW p \in Handlers, NEW o \in Orders, Settle(p, o) PROVE TypeOK'
    BY <2>4, BuyerAssumption DEF Settle, Idle, Job, Places
  <2>5. ASSUME NEW o \in Orders, Cancel(o) PROVE TypeOK'
    BY <2>5 DEF Cancel
  <2>6. ASSUME NEW p \in Handlers, RequestWrite(p) PROVE TypeOK'
    BY <2>6, FinishTyped DEF RequestWrite
  <2>7. ASSUME NEW p \in Handlers, RequestPlanWrite(p) PROVE TypeOK'
    BY <2>7, FinishTyped DEF RequestPlanWrite
  <2>8. ASSUME NEW p \in Handlers, RejectWrite(p) PROVE TypeOK'
    BY <2>8, FinishTyped DEF RejectWrite
  <2>9. ASSUME NEW p \in Handlers, NEW o \in Orders, ApproveTx(p, o) PROVE TypeOK'
    BY <2>9, FinishTyped DEF ApproveTx, Hold
  <2>10. ASSUME NEW p \in Handlers, NEW o \in Orders, CheckoutTx(p, o) PROVE TypeOK'
    BY <2>10, FinishTyped DEF CheckoutTx, Hold
  <2>11. ASSUME NEW p \in Handlers, CheckoutRefused(p) \/ NoOrderLeft(p) PROVE TypeOK'
    BY <2>11, FinishTyped DEF CheckoutRefused, NoOrderLeft
  <2>23. ASSUME NEW p \in Handlers, CheckoutCount(p) PROVE TypeOK'
    <3> DEFINE n == Cardinality(Enrolled)
    <3>1. n \in Nat /\ job[p] \in Job
      BY <2>0
    <3>2. [job[p] EXCEPT !.at = "recount", !.count = n] \in Job
      BY <3>1 DEF Job, Places
    <3>3. job' = [job EXCEPT ![p] = [job[p] EXCEPT !.at = "recount", !.count = n]]
      BY <2>23 DEF CheckoutCount
    <3>4. job' \in [Handlers -> Job]
      BY <3>2, <3>3, JobTyped
    <3> QED BY <2>23, <3>4 DEF CheckoutCount
  <2>12. ASSUME NEW p \in Handlers, SettleTargets(p) PROVE TypeOK'
    <3>1. job' \in [Handlers -> Job]
      <4> DEFINE held == job[p].user \in Released(job[p].ord)
      <4>1. job[p] \in Job /\ held \in BOOLEAN
        OBVIOUS
      <4>2. [job[p] EXCEPT !.at = "enroll", !.held = held] \in Job
        BY <4>1 DEF Job, Places
      <4>3. job' = [job EXCEPT ![p] = [job[p] EXCEPT !.at = "enroll", !.held = held]]
        BY <2>12 DEF SettleTargets
      <4> QED BY <4>2, <4>3, JobTyped
    <3> QED BY <2>12, <3>1 DEF SettleTargets
  <2>13. ASSUME NEW p \in Handlers, SettleReport(p) PROVE TypeOK'
    BY <2>13, FinishTyped DEF SettleReport
  <2>14. ASSUME NEW p \in Handlers, EnrollRead(p) PROVE TypeOK'
    <3>1. job' \in [Handlers -> Job]
      <4>1. CASE Finish(p)
        BY <4>1, FinishTyped
      <4>2. CASE Goto(p, "report")
        BY <4>2, GotoTyped DEF Places
      <4>3. CASE job' = [job EXCEPT ![p].at = "decide", ![p].row = enr[job[p].user] # "none",
                              ![p].open = label = "open", ![p].count = Cardinality(Enrolled)]
        <5> DEFINE j == [job[p] EXCEPT !.at = "decide", !.row = enr[job[p].user] # "none",
                                       !.open = label = "open", !.count = Cardinality(Enrolled)]
        <5>1. job[p] \in Job
          OBVIOUS
        <5>2. j \in Job
          BY <2>0, <5>1 DEF Job, Places
        <5>3. job' = [job EXCEPT ![p] = j]
          BY <4>3
        <5> QED BY <5>2, <5>3, JobTyped
      <4> QED BY <2>14, <4>1, <4>2, <4>3 DEF EnrollRead, Refuse, AfterEnroll
    <3>2. outcome' \in [Orders -> Outcomes]
      <4>1. outcome' = outcome \/ outcome' = [outcome EXCEPT ![job[p].ord] = "refused"]
        BY <2>14 DEF EnrollRead, Refuse
      <4> QED BY <4>1
    <3> QED BY <2>14, <3>1, <3>2 DEF EnrollRead
  <2>24. ASSUME NEW p \in Handlers, EnrollHeld(p) PROVE TypeOK'
    <3> DEFINE give == Decision(job[p].user, job[p].force, job[p].count)
               j == [job[p] EXCEPT !.at = "write", !.count = 0, !.give = give]
    <3>1. job[p] \in Job /\ give \in Enrollments
      BY DEF Decision
    <3>2. j \in Job
      BY <3>1 DEF Job, Places
    <3>3. job' = [job EXCEPT ![p] = j]
      BY <2>24 DEF EnrollHeld
    <3>4. job' \in [Handlers -> Job]
      BY <3>2, <3>3, JobTyped
    <3> QED BY <2>24, <3>4 DEF EnrollHeld
  <2>25. ASSUME NEW p \in Handlers, NEW place \in Places, CountHeld(p, place) PROVE TypeOK'
    <3>1. job' \in [Handlers -> Job]
      <4>1. CASE Finish(p)
        BY <4>1, FinishTyped
      <4>2. CASE job' = [job EXCEPT ![p].at = place, ![p].count = 0]
        <5>1. job[p] \in Job
          OBVIOUS
        <5>2. [job[p] EXCEPT !.at = place, !.count = 0] \in Job
          BY <5>1 DEF Job
        <5>3. job' = [job EXCEPT ![p] = [job[p] EXCEPT !.at = place, !.count = 0]]
          BY <4>2
        <5> QED BY <5>2, <5>3, JobTyped
      <4> QED BY <2>25, <4>1, <4>2 DEF CountHeld
    <3> QED BY <2>25, <3>1 DEF CountHeld
  <2>26. ASSUME NEW p \in Handlers, ApproveHeld(p) \/ CheckoutHeld(p) \/ FillHeld(p) PROVE TypeOK'
    BY <2>25, <2>26 DEF ApproveHeld, CheckoutHeld, FillHeld, Places
  <2>27. ASSUME NEW u \in Users, Bar(u) PROVE TypeOK'
    BY <2>27 DEF Bar
  <2>15. ASSUME NEW p \in Handlers, EnrollWrite(p) PROVE TypeOK'
    <3>1. job[p] \in Job
      OBVIOUS
    <3>2. job' \in [Handlers -> Job]
      BY <2>15, FinishTyped, GotoTyped DEF EnrollWrite, Refuse, Places
    <3>3. enr' \in [Users -> Enrollments] /\ clock' \in Nat
      <4>1. job[p].give \in Enrollments
        BY <3>1 DEF Job
      <4>2. enr' \in [Users -> Enrollments]
        BY <2>15, <4>1 DEF EnrollWrite
      <4> QED BY <2>15, <4>2 DEF EnrollWrite
    <3>4. since' \in [Users -> Nat] /\ joined' \in [Users -> Nat]
      BY <2>15, <3>3 DEF EnrollWrite
    <3>5. outcome' \in [Orders -> Outcomes]
      <4>1. outcome' = outcome \/ outcome' = [outcome EXCEPT ![job[p].ord] = "failed"]
        BY <2>15 DEF EnrollWrite, Refuse
      <4> QED BY <4>1
    <3> QED BY <2>15, <3>2, <3>3, <3>4, <3>5 DEF EnrollWrite
  <2>16. ASSUME NEW p \in Handlers, EnrollCount(p) PROVE TypeOK'
    BY <2>16, FinishTyped, GotoTyped DEF EnrollCount, AfterEnroll, Places
  <2>17. ASSUME NEW p \in Handlers, EnrollLabel(p) PROVE TypeOK'
    BY <2>17, FinishTyped, GotoTyped DEF EnrollLabel, AfterEnroll, Places
  <2>18. ASSUME NEW p \in Handlers, FillCount(p) PROVE TypeOK'
    <3> DEFINE j == [job[p] EXCEPT !.at = "room", !.open = label = "open", !.count = Cardinality(Enrolled)]
    <3>1. job[p] \in Job
      OBVIOUS
    <3>2. j \in Job
      BY <2>0, <3>1 DEF Job, Places
    <3>3. job' = [job EXCEPT ![p] = j]
      BY <2>18 DEF FillCount
    <3>4. job' \in [Handlers -> Job]
      BY <3>2, <3>3, JobTyped
    <3> QED BY <2>18, <3>4 DEF FillCount
  <2>19. ASSUME NEW p \in Handlers, FillNext(p) PROVE TypeOK'
    <3>1. job' \in [Handlers -> Job]
      <4>1. ASSUME NEW u \in Waiting, job' = [job EXCEPT ![p].at = "promote", ![p].next = u]
            PROVE  job' \in [Handlers -> Job]
        <5>0. job[p] \in Job /\ u \in Users
          BY DEF Waiting
        <5>1. [job[p] EXCEPT !.at = "promote", !.next = u] \in Job
          BY <5>0 DEF Job, Places
        <5>2. job' = [job EXCEPT ![p] = [job[p] EXCEPT !.at = "promote", !.next = u]]
          BY <4>1
        <5> QED BY <5>1, <5>2, JobTyped
      <4>2. CASE Finish(p) BY <4>2, FinishTyped
      <4>3. CASE Goto(p, "reopen") BY <4>3, GotoTyped DEF Places
      <4> QED BY <2>19, <4>1, <4>2, <4>3 DEF FillNext
    <3> QED BY <2>19, <3>1 DEF FillNext
  <2>20. ASSUME NEW p \in Handlers, FillReopen(p) PROVE TypeOK'
    BY <2>20, FinishTyped DEF FillReopen
  <2>21. ASSUME NEW p \in Handlers, FillPromote(p) PROVE TypeOK'
    BY <2>21, FinishTyped DEF FillPromote
  <2>22. CASE UNCHANGED vars
    BY <2>22 DEF vars
  <2> QED
    BY <2>1, <2>2, <2>3, <2>4, <2>5, <2>6, <2>7, <2>8, <2>9, <2>10, <2>11, <2>12, <2>13, <2>14,
       <2>15, <2>16, <2>17, <2>18, <2>19, <2>20, <2>21, <2>22, <2>23, <2>24, <2>26, <2>27
       DEF Next, Begin, Continue
<1> QED BY <1>1, <1>2, PTL DEF Spec

\* A held seat is its holder's, for an order of his that is not cancelled, though the
\* doors write by a row's id what they decided on an older state.
THEOREM HeldSeatsAreOwed == Spec => []HeldForLiveOrder
<1>1. Init => HeldForLiveOrder
  BY DEF Init, HeldForLiveOrder, Held
<1>2. TypeOK /\ HeldForLiveOrder /\ [Next]_vars => HeldForLiveOrder'
  <2> SUFFICES ASSUME TypeOK, HeldForLiveOrder, [Next]_vars PROVE HeldForLiveOrder'
    OBVIOUS
  <2> USE DEF TypeOK, HeldForLiveOrder, Held
  <2>1. ASSUME UNCHANGED <<status, heldBy, order>> PROVE HeldForLiveOrder'
    BY <2>1
  <2>2. ASSUME NEW p \in Handlers, RequestWrite(p) PROVE HeldForLiveOrder'
    BY <2>2 DEF RequestWrite
  <2>3. ASSUME NEW p \in Handlers, RequestPlanWrite(p) PROVE HeldForLiveOrder'
    BY <2>3 DEF RequestPlanWrite
  <2>4. ASSUME NEW p \in Handlers, RejectWrite(p) PROVE HeldForLiveOrder'
    BY <2>4 DEF RejectWrite
  <2>5. ASSUME NEW p \in Handlers, NEW o \in Orders, Hold(job[p].user, o) PROVE HeldForLiveOrder'
    BY <2>5, BuyerAssumption, NoneAssumption DEF Hold
  <2>6. ASSUME NEW o \in Orders, Cancel(o) PROVE HeldForLiveOrder'
    BY <2>6 DEF Cancel, Released
  <2>7. ASSUME NEW p \in Handlers, NEW o \in Orders, Settle(p, o) PROVE HeldForLiveOrder'
    BY <2>7 DEF Settle, request
  <2>8. ASSUME NEW p \in Handlers, SettleReport(p) PROVE HeldForLiveOrder'
    BY <2>8 DEF SettleReport
  <2>9. ASSUME NEW p \in Handlers, Begin(p) PROVE HeldForLiveOrder'
    BY <2>9, <2>1, <2>7 DEF Begin, Request, RequestPlan, Reject, Approve, Checkout, StaffEnroll, Drop, request
  <2>10. ASSUME NEW p \in Handlers, Continue(p) PROVE HeldForLiveOrder'
    <3>1. ASSUME NEW o \in Orders, ApproveTx(p, o) \/ CheckoutTx(p, o) PROVE HeldForLiveOrder'
      BY <3>1, <2>5 DEF ApproveTx, CheckoutTx
    <3>2. ASSUME \/ ApproveHeld(p) \/ CheckoutHeld(p) \/ CheckoutCount(p) \/ CheckoutRefused(p)
                 \/ NoOrderLeft(p) \/ SettleTargets(p)
                 \/ EnrollRead(p) \/ EnrollHeld(p) \/ EnrollWrite(p) \/ EnrollCount(p) \/ EnrollLabel(p)
                 \/ FillCount(p) \/ FillHeld(p) \/ FillNext(p) \/ FillReopen(p) \/ FillPromote(p)
          PROVE UNCHANGED <<status, heldBy, order>>
      BY <3>2 DEF ApproveHeld, CheckoutHeld, FillHeld, CountHeld, CheckoutCount, CheckoutRefused, NoOrderLeft,
                  SettleTargets, EnrollRead, EnrollHeld, EnrollWrite, EnrollCount,
                  EnrollLabel, FillCount, FillNext, FillReopen, FillPromote, request
    <3> QED BY <2>10, <2>1, <2>2, <2>3, <2>4, <2>8, <3>1, <3>2 DEF Continue
  <2>11. CASE UNCHANGED vars
    BY <2>11, <2>1 DEF vars
  <2>12. ASSUME NEW u \in Users, Bar(u) PROVE HeldForLiveOrder'
    BY <2>12, <2>1 DEF Bar, request
  <2> QED BY <2>6, <2>9, <2>10, <2>11, <2>12 DEF Next
<1> QED BY <1>1, <1>2, TypeCorrect, PTL DEF Spec

----------------------------------------------------------------------------
(* What a handler has counted.                                              *)

LEMMA SeatsFinite ==
  /\ IsFiniteSet(Enrolled) /\ Cardinality(Enrolled) \in Nat
  /\ IsFiniteSet(Held) /\ Cardinality(Held) \in Nat
  BY UsersAssumption, FS_Subset, FS_CardinalityType DEF Enrolled, Held

\* What one handler does leaves what the others carry.
LEMMA OthersKeep ==
  ASSUME TypeOK, NEW p \in Handlers, Begin(p) \/ Continue(p)
  PROVE  \A q \in Handlers \ {p} : job'[q] = job[q]
<1>1. job \in [Handlers -> Job]
  BY DEF TypeOK
<1> QED BY <1>1 DEF Begin, Request, RequestPlan, Reject, Approve, Checkout, StaffEnroll, Drop, Settle,
      Continue, RequestWrite, RequestPlanWrite, RejectWrite, ApproveHeld, ApproveTx, CheckoutHeld, CheckoutTx,
      CheckoutCount, CheckoutRefused, NoOrderLeft, SettleTargets, SettleReport, EnrollRead, Refuse, EnrollHeld,
      EnrollWrite, EnrollCount, EnrollLabel, AfterEnroll, FillCount, FillHeld, CountHeld, FillNext, FillReopen, FillPromote, Finish, Goto

\* A handler comes to the second count of a check by the first, and to a claim on a seat
\* by a check or by finding a waiter.
LEMMA OwnPlace ==
  ASSUME TypeOK, NEW p \in Handlers, Begin(p) \/ Continue(p)
  PROVE  /\ job'[p].at \in {"approve", "cart", "recount", "decide", "room"} =>
              job'[p].count = Cardinality(Enrolled) /\ enr' = enr
         /\ job'[p].at \in {"hold", "write", "next", "promote"} =>
              ApproveHeld(p) \/ EnrollHeld(p) \/ FillHeld(p) \/ FillNext(p)
<1> DEFINE Between == {"approve", "cart", "recount", "decide", "room"}
           Claiming == {"hold", "write", "next", "promote"}
           Goal == /\ job'[p].at \in Between => job'[p].count = Cardinality(Enrolled) /\ enr' = enr
                   /\ job'[p].at \in Claiming => ApproveHeld(p) \/ EnrollHeld(p) \/ FillHeld(p) \/ FillNext(p)
<1>1. job \in [Handlers -> Job] /\ job[p] \in Job
  BY DEF TypeOK
<1>2. ASSUME job'[p].at \in Places \ (Between \cup Claiming) PROVE Goal
  BY <1>2
<1>3. ASSUME job'[p] = Idle PROVE Goal
  BY <1>3 DEF Idle
<1>4. CASE \E u \in Users : Request(p, u) \/ RequestPlan(p, u) \/ Reject(p, u) \/ StaffEnroll(p, u) \/ Drop(p, u)
  <2>1. PICK u \in Users : Request(p, u) \/ RequestPlan(p, u) \/ Reject(p, u) \/ StaffEnroll(p, u) \/ Drop(p, u)
    BY <1>4
  <2>2. job'[p].at \in {"request", "plan", "reject", "enroll", "fill"}
    <3>1. CASE Request(p, u) BY <1>1, <3>1 DEF Request, Idle
    <3>2. CASE RequestPlan(p, u) BY <1>1, <3>2 DEF RequestPlan, Idle
    <3>3. CASE Reject(p, u) BY <1>1, <3>3 DEF Reject, Idle
    <3>4. CASE StaffEnroll(p, u) BY <1>1, <3>4 DEF StaffEnroll, Idle
    <3>5. CASE Drop(p, u) BY <1>1, <3>5 DEF Drop, Idle
    <3> QED BY <2>1, <3>1, <3>2, <3>3, <3>4, <3>5
  <2> QED BY <1>2, <2>2 DEF Places
<1>5. CASE \E o \in Orders : Settle(p, o)
  <2>1. job'[p].at = "targets"
    BY <1>1, <1>5 DEF Settle, Idle
  <2> QED BY <1>2, <2>1 DEF Places
<1>6. CASE \E u \in Users : Approve(p, u) \/ Checkout(p, u)
  <2>1. PICK u \in Users : Approve(p, u) \/ Checkout(p, u)
    BY <1>6
  <2>2. enr' = enr
    BY <2>1 DEF Approve, Checkout, enrollment
  <2>3. job'[p].at \in {"approve", "cart"} /\ job'[p].count = Cardinality(Enrolled)
    <3>1. CASE Approve(p, u) BY <1>1, <3>1 DEF Approve, Idle
    <3>2. CASE Checkout(p, u) BY <1>1, <3>2 DEF Checkout, Idle
    <3> QED BY <2>1, <3>1, <3>2
  <2> QED BY <2>2, <2>3
<1>7. CASE CheckoutCount(p)
  <2>1. job'[p].at = "recount" /\ job'[p].count = Cardinality(Enrolled) /\ enr' = enr
    BY <1>1, <1>7 DEF CheckoutCount, enrollment, Job
  <2> QED BY <2>1
<1>8. CASE FillCount(p)
  <2>1. job'[p].at = "room" /\ job'[p].count = Cardinality(Enrolled) /\ enr' = enr
    BY <1>1, <1>8 DEF FillCount, enrollment, Job
  <2> QED BY <2>1
<1>9. CASE EnrollRead(p)
  <2>1. enr' = enr
    BY <1>9 DEF EnrollRead, enrollment
  <2>2. \/ job'[p] = Idle
        \/ job'[p].at = "report"
        \/ job'[p].at = "decide" /\ job'[p].count = Cardinality(Enrolled)
    BY <1>1, <1>9 DEF EnrollRead, Refuse, AfterEnroll, Finish, Goto, Job
  <2>3. CASE job'[p].at = "report"
    BY <1>2, <2>3 DEF Places
  <2> QED BY <1>3, <2>1, <2>2, <2>3
<1>10. CASE CheckoutHeld(p)
  <2>1. job'[p] = Idle \/ job'[p].at = "checkout"
    BY <1>1, <1>10 DEF CheckoutHeld, CountHeld, Finish, Job
  <2> QED BY <1>2, <1>3, <2>1 DEF Places
<1>11. CASE SettleTargets(p) \/ EnrollWrite(p) \/ EnrollCount(p) \/ EnrollLabel(p)
  <2>1. job'[p] = Idle \/ job'[p].at \in {"enroll", "count", "label", "report"}
    <3>1. CASE SettleTargets(p)
      BY <1>1, <3>1 DEF SettleTargets, Job
    <3>2. CASE EnrollWrite(p)
      BY <1>1, <3>2 DEF EnrollWrite, Refuse, Finish, Goto, Job
    <3>3. CASE EnrollCount(p) \/ EnrollLabel(p)
      BY <1>1, <3>3 DEF EnrollCount, EnrollLabel, AfterEnroll, Finish, Goto, Job
    <3> QED BY <1>11, <3>1, <3>2, <3>3
  <2> QED BY <1>2, <1>3, <2>1 DEF Places
<1>12. CASE ApproveHeld(p) \/ FillHeld(p)
  <2>1. job'[p] = Idle \/ job'[p].at \in {"hold", "next"}
    BY <1>1, <1>12 DEF ApproveHeld, FillHeld, CountHeld, Finish, Job
  <2> QED BY <1>3, <1>12, <2>1
<1>13. CASE EnrollHeld(p)
  <2>1. job'[p].at = "write"
    BY <1>1, <1>13 DEF EnrollHeld, Job
  <2> QED BY <1>13, <2>1
<1>14. CASE FillNext(p)
  <2>1. job'[p] = Idle \/ job'[p].at \in {"promote", "reopen"}
    BY <1>1, <1>14 DEF FillNext, Finish, Goto, Job
  <2> QED BY <1>3, <1>14, <2>1
<1>15. CASE RequestWrite(p) \/ RequestPlanWrite(p) \/ RejectWrite(p) \/ CheckoutRefused(p)
            \/ NoOrderLeft(p) \/ SettleReport(p) \/ FillReopen(p) \/ FillPromote(p)
            \/ \E o \in Orders : ApproveTx(p, o) \/ CheckoutTx(p, o)
  BY <1>1, <1>3, <1>15 DEF RequestWrite, RequestPlanWrite, RejectWrite, CheckoutRefused, NoOrderLeft,
      SettleReport, FillReopen, FillPromote, ApproveTx, CheckoutTx, Finish
<1> QED BY <1>4, <1>5, <1>6, <1>7, <1>8, <1>9, <1>10, <1>11, <1>12, <1>13, <1>14, <1>15 DEF Begin, Continue

\* No more are enrolled than a check under way has counted.
LEMMA CalmCounts ==
  ASSUME TypeOK, Counted, [Next /\ Calm]_vars
  PROVE  Counted'
<1>1. ASSUME NEW q \in Handlers, job'[q] = job[q], BetweenCounts(q), Enrolled' \subseteq Enrolled
      PROVE  Cardinality(Enrolled') <= job'[q].count
  <2>1. Cardinality(Enrolled') <= Cardinality(Enrolled) /\ Cardinality(Enrolled') \in Nat
    BY <1>1, SeatsFinite, FS_Subset, FS_CardinalityType
  <2>2. Cardinality(Enrolled) <= job[q].count /\ job[q].count \in Nat
    BY <1>1 DEF Counted, TypeOK, Job
  <2> QED BY <1>1, <2>1, <2>2, SeatsFinite
<1>2. ASSUME NEW p \in Handlers, Begin(p) \/ Continue(p), Calm PROVE Counted'
  <2> SUFFICES ASSUME NEW q \in Handlers, job'[q].at \in {"approve", "cart", "recount", "decide", "room"}
               PROVE  Cardinality(Enrolled') <= job'[q].count
    BY DEF Counted, BetweenCounts
  <2>1. CASE q = p
    <3>1. job'[p].count = Cardinality(Enrolled) /\ Enrolled' = Enrolled
      BY <1>2, <2>1, OwnPlace DEF Enrolled
    <3> QED BY <2>1, <3>1, SeatsFinite
  <2>2. CASE q # p
    <3>1. job'[q] = job[q]
      BY <1>2, <2>2, OthersKeep
    <3>2. BetweenCounts(q)
      BY <3>1 DEF BetweenCounts
    <3>3. Enrolled' \subseteq Enrolled
      BY <1>2, <3>2 DEF Calm
    <3> QED BY <1>1, <3>1, <3>2, <3>3
  <2> QED BY <2>1, <2>2
<1>3. ASSUME UNCHANGED <<enr, job>> PROVE Counted'
  BY <1>3 DEF Counted, BetweenCounts, Enrolled
<1>4. ASSUME (\E o \in Orders : Cancel(o)) \/ (\E u \in Users : Bar(u)) \/ UNCHANGED vars
      PROVE  UNCHANGED <<enr, job>>
  BY <1>4 DEF Cancel, Bar, enrollment, vars
<1> QED BY <1>2, <1>3, <1>4 DEF Next

----------------------------------------------------------------------------
(* Learners who only buy, each with one order: any number of them at once.  *)

\* The steps that are left when only buyers use the cohort.
LEMMA BuyersSteps ==
  ASSUME OnlyBuyers, PaidOrHolding, [Next]_vars
  PROVE  \/ UNCHANGED vars
         \/ \E o \in Orders : Cancel(o)
         \/ \E u \in Users : Bar(u)
         \/ \E p \in Handlers, u \in Users : Checkout(p, u)
         \/ \E p \in Handlers, o \in Orders : CheckoutTx(p, o) \/ Settle(p, o)
         \/ \E p \in Handlers : \/ CheckoutHeld(p) \/ CheckoutCount(p) \/ CheckoutRefused(p)
                                \/ NoOrderLeft(p) \/ SettleTargets(p) \/ SettleReport(p)
                                \/ EnrollRead(p) \/ EnrollHeld(p) \/ EnrollWrite(p) \/ EnrollCount(p) \/ EnrollLabel(p)
<1>1. ASSUME NEW p \in Handlers, NEW u \in Users,
             Request(p, u) \/ RequestPlan(p, u) \/ Reject(p, u) \/ Approve(p, u)
             \/ StaffEnroll(p, u) \/ Drop(p, u)
      PROVE FALSE
  BY <1>1 DEF OnlyBuyers, Request, RequestPlan, Reject, Approve, StaffEnroll, Drop
<1>2. ASSUME NEW p \in Handlers, job[p].at \in {"request", "plan", "reject", "approve", "hold", "fill",
                                                "room", "next", "reopen", "promote"}
      PROVE FALSE
  BY <1>2 DEF PaidOrHolding, Settling
<1>3. ASSUME NEW p \in Handlers,
             \/ RequestWrite(p) \/ RequestPlanWrite(p) \/ RejectWrite(p) \/ ApproveHeld(p)
             \/ FillCount(p) \/ FillHeld(p) \/ FillNext(p) \/ FillReopen(p) \/ FillPromote(p) \/ \E o \in Orders : ApproveTx(p, o)
      PROVE FALSE
  BY <1>2, <1>3 DEF RequestWrite, RequestPlanWrite, RejectWrite, ApproveHeld, ApproveTx, FillCount, FillHeld,
                    FillNext, FillReopen, FillPromote, At
<1> QED BY <1>1, <1>3 DEF Next, Begin, Continue

\* A settlement under way keeps its hold and its decision until it reports.
LEMMA SettlementKeepsHold ==
  ASSUME OnlyBuyers, TypeOK, SettlesOwnHold, PaidOrHolding, [Next]_vars
  PROVE  SettlesOwnHold'
<1> USE BuyerAssumption, NoneAssumption DEF TypeOK, OnlyBuyers, request, enrollment
<1>1. ASSUME UNCHANGED vars PROVE SettlesOwnHold'
  BY <1>1 DEF vars, SettlesOwnHold, Settling, At
<1>2. ASSUME NEW o \in Orders, Cancel(o) PROVE SettlesOwnHold'
  BY <1>2 DEF Cancel, Cancellable, Released, Held, SettlesOwnHold, Settling, At
<1>3. ASSUME NEW p \in Handlers, NEW u \in Users, Checkout(p, u) PROVE SettlesOwnHold'
  BY <1>3 DEF Checkout, Idle, SettlesOwnHold, Settling, At
<1>4. ASSUME NEW p \in Handlers, NEW o \in Orders, CheckoutTx(p, o) PROVE SettlesOwnHold'
  BY <1>4 DEF CheckoutTx, Hold, Finish, Idle, SettlesOwnHold, Settling, At
<1>5. ASSUME NEW p \in Handlers, NEW o \in Orders, Settle(p, o) PROVE SettlesOwnHold'
  <2>1. order[o] = "pending_payment"
    BY <1>5 DEF Settle
  <2>2. status[Buyer[o]] = "seat_held" /\ heldBy[Buyer[o]] = o /\ outcome[o] = "none"
    BY <2>1 DEF PaidOrHolding
  <2>3. enr[Buyer[o]] = "none"
    BY <2>1 DEF PaidOrHolding
  <2> QED BY <1>5, <2>1, <2>2, <2>3 DEF Settle, Idle, SettlesOwnHold, Settling, At
<1>6. ASSUME NEW p \in Handlers, CheckoutRefused(p) \/ NoOrderLeft(p) PROVE SettlesOwnHold'
  BY <1>6 DEF CheckoutRefused, NoOrderLeft, Finish, Idle, SettlesOwnHold, Settling, At
<1>7. ASSUME NEW p \in Handlers, SettleTargets(p) PROVE SettlesOwnHold'
  BY <1>7 DEF SettleTargets, Released, Held, SettlesOwnHold, Settling, At, Job
<1>8. ASSUME NEW p \in Handlers, SettleReport(p) PROVE SettlesOwnHold'
  <2>1. job[p].give = "enrolled" /\ Settling(p)
    BY <1>8 DEF SettleReport, SettlesOwnHold, Settling, At
  <2> QED BY <1>8, <2>1 DEF SettleReport, Finish, Idle, SettlesOwnHold, Settling, At
<1>9. ASSUME NEW p \in Handlers, EnrollRead(p) PROVE SettlesOwnHold'
  <2>1. /\ job[p].at = "enroll" /\ enr[job[p].user] = "none" /\ job[p].ord \in Orders
        /\ \A q \in Handlers \ {p} : Settling(q) => job[q].ord # job[p].ord
        /\ UNCHANGED <<status, heldBy, order, enr>>
    BY <1>9 DEF EnrollRead, SettlesOwnHold, Settling, At
  <2>2. CASE Refuse(p, "refused")
    <3>1. /\ job'[p].at = "idle" /\ \A q \in Handlers \ {p} : job'[q] = job[q]
          /\ outcome' = [outcome EXCEPT ![job[p].ord] = "refused"]
      BY <2>1, <2>2 DEF Refuse, Finish, Idle
    <3> QED BY <2>1, <3>1 DEF SettlesOwnHold, Settling, At
  <2>3. CASE ~Refuse(p, "refused")
    <3>1. /\ job' = [job EXCEPT ![p].at = "decide", ![p].row = FALSE,
                               ![p].open = label = "open", ![p].count = Cardinality(Enrolled)]
          /\ outcome' = outcome
      BY <1>9, <2>1, <2>3 DEF EnrollRead
    <3>2. /\ job'[p].at = "decide" /\ job'[p].row = FALSE
          /\ job'[p].user = job[p].user /\ job'[p].ord = job[p].ord /\ job'[p].held = job[p].held
          /\ \A q \in Handlers \ {p} : job'[q] = job[q]
      BY <3>1 DEF Job
    <3> QED BY <2>1, <3>1, <3>2 DEF SettlesOwnHold, Settling, At
  <2> QED BY <2>2, <2>3
<1>13. ASSUME NEW p \in Handlers, EnrollHeld(p) PROVE SettlesOwnHold'
  <2>1. job[p].at = "decide" /\ job[p].user \in Held
    BY <1>13 DEF EnrollHeld, SettlesOwnHold, Settling, At, Held
  <2>2. Decision(job[p].user, job[p].force, job[p].count) = "enrolled"
    BY <2>1 DEF Decision
  <2>3. /\ job' = [job EXCEPT ![p].at = "write", ![p].count = 0, ![p].give = "enrolled"]
        /\ UNCHANGED <<status, heldBy, order, outcome, enr>>
    BY <1>13, <2>2 DEF EnrollHeld
  <2>4. /\ job'[p].at = "write" /\ job'[p].give = "enrolled" /\ job'[p].row = job[p].row
        /\ job'[p].user = job[p].user /\ job'[p].ord = job[p].ord /\ job'[p].held = job[p].held
        /\ \A q \in Handlers \ {p} : job'[q] = job[q]
    BY <2>3 DEF Job
  <2> QED BY <2>1, <2>3, <2>4 DEF SettlesOwnHold, Settling, At
<1>14. ASSUME NEW p \in Handlers, CheckoutHeld(p) PROVE SettlesOwnHold'
  <2>1. /\ job[p].at = "cart" /\ UNCHANGED <<status, heldBy, order, outcome, enr>>
        /\ job'[p].at \in {"idle", "checkout"} /\ \A q \in Handlers \ {p} : job'[q] = job[q]
    BY <1>14 DEF CheckoutHeld, CountHeld, Finish, Idle, At, Job
  <2> QED BY <2>1 DEF SettlesOwnHold, Settling, At
<1>15. ASSUME NEW u \in Users, Bar(u) PROVE SettlesOwnHold'
  BY <1>15 DEF Bar, SettlesOwnHold, Settling, At
<1>10. ASSUME NEW p \in Handlers, EnrollWrite(p) PROVE SettlesOwnHold'
  <2>1. Settling(p) /\ enr[job[p].user] = "none" /\ job[p].give = "enrolled"
    BY <1>10 DEF EnrollWrite, SettlesOwnHold, Settling, At
  <2>2. /\ job' = [job EXCEPT ![p].at = "count"]
        /\ enr' = [enr EXCEPT ![job[p].user] = "enrolled"]
        /\ UNCHANGED <<status, heldBy, order, outcome>>
    BY <1>10, <2>1 DEF EnrollWrite, Goto
  <2>3. \A q \in Handlers : q # p /\ Settling(q) => job[q].user # job[p].user
    BY <2>1 DEF SettlesOwnHold
  <2>4. job[p].at = "write"
    BY <1>10 DEF EnrollWrite, At
  <2> QED BY <2>1, <2>2, <2>3, <2>4 DEF SettlesOwnHold, Settling, At
<1>11. ASSUME NEW p \in Handlers, EnrollCount(p) \/ EnrollLabel(p) PROVE SettlesOwnHold'
  <2>1. job[p].at \in {"count", "label"} /\ UNCHANGED <<status, heldBy, order, outcome, enr>>
    BY <1>11 DEF EnrollCount, EnrollLabel, At
  <2>2. job[p].ord # None
    BY <2>1 DEF SettlesOwnHold, Settling
  <2>3. \E place \in {"label", "report"} : job' = [job EXCEPT ![p].at = place]
    BY <1>11, <2>2 DEF EnrollCount, EnrollLabel, AfterEnroll, Goto
  <2> QED BY <2>1, <2>3 DEF SettlesOwnHold, Settling, At
<1>12. ASSUME NEW p \in Handlers, CheckoutCount(p) PROVE SettlesOwnHold'
  <2>1. /\ job[p].at = "checkout" /\ UNCHANGED <<status, heldBy, order, outcome, enr>>
        /\ job'[p].at = "recount" /\ \A q \in Handlers \ {p} : job'[q] = job[q]
    BY <1>12 DEF CheckoutCount, At, Job
  <2> QED BY <2>1 DEF SettlesOwnHold, Settling, At
<1> QED BY <1>1, <1>2, <1>3, <1>4, <1>5, <1>6, <1>7, <1>8, <1>9, <1>10, <1>11, <1>12, <1>13, <1>14, <1>15,
           BuyersSteps

\* Who is enrolled has paid, and who has an order to pay holds a seat by it.
LEMMA BuyersKeepPlace ==
  ASSUME OnlyBuyers, TypeOK, SettlesOwnHold, PaidOrHolding, [Next]_vars
  PROVE  PaidOrHolding'
<1> USE BuyerAssumption, NoneAssumption DEF TypeOK, OnlyBuyers, request, enrollment
<1>1. ASSUME UNCHANGED vars PROVE PaidOrHolding'
  BY <1>1 DEF vars, PaidOrHolding, Settling, At
<1>2. ASSUME NEW o \in Orders, Cancel(o) PROVE PaidOrHolding'
  BY <1>2 DEF Cancel, Cancellable, Released, Held, PaidOrHolding, Settling, At
<1>3. ASSUME NEW p \in Handlers, NEW u \in Users, Checkout(p, u) PROVE PaidOrHolding'
  BY <1>3 DEF Checkout, Idle, PaidOrHolding, Settling, At
<1>4. ASSUME NEW p \in Handlers, NEW o \in Orders, CheckoutTx(p, o) PROVE PaidOrHolding'
  BY <1>4 DEF CheckoutTx, Hold, Finish, Idle, PaidOrHolding, Settling, At
<1>5. ASSUME NEW p \in Handlers, NEW o \in Orders, Settle(p, o) PROVE PaidOrHolding'
  BY <1>5 DEF Settle, Idle, PaidOrHolding, Settling, At
<1>6. ASSUME NEW p \in Handlers, CheckoutRefused(p) \/ NoOrderLeft(p) PROVE PaidOrHolding'
  BY <1>6 DEF CheckoutRefused, NoOrderLeft, Finish, Idle, PaidOrHolding, Settling, At
<1>7. ASSUME NEW p \in Handlers, SettleTargets(p) PROVE PaidOrHolding'
  BY <1>7 DEF SettleTargets, PaidOrHolding, Settling, At
<1>8. ASSUME NEW p \in Handlers, SettleReport(p) PROVE PaidOrHolding'
  <2>1. /\ job[p].give = "enrolled" /\ job[p].ord \in Orders /\ order[job[p].ord] = "paid"
        /\ job[p].user = Buyer[job[p].ord]
    BY <1>8 DEF SettleReport, SettlesOwnHold, Settling, At
  <2> QED BY <1>8, <2>1 DEF SettleReport, Finish, Idle, PaidOrHolding, Settling, At
<1>9. ASSUME NEW p \in Handlers, EnrollRead(p) PROVE PaidOrHolding'
  <2>1. enr[job[p].user] = "none" /\ job[p].ord \in Orders /\ order[job[p].ord] = "paid"
    BY <1>9 DEF EnrollRead, SettlesOwnHold, Settling, At
  <2>2. job'[p].at \in {"idle", "decide"} /\ \A q \in Handlers \ {p} : job'[q] = job[q]
    BY <1>9, <2>1 DEF EnrollRead, Refuse, Finish, Idle, Job
  <2>3. UNCHANGED <<status, heldBy, order, enr>>
        /\ \A o \in Orders : o # job[p].ord => outcome'[o] = outcome[o]
    BY <1>9, <2>1 DEF EnrollRead, Refuse
  <2> QED BY <2>1, <2>2, <2>3 DEF PaidOrHolding, Settling, At
<1>13. ASSUME NEW p \in Handlers, EnrollHeld(p) PROVE PaidOrHolding'
  <2>1. job'[p].at = "write" /\ \A q \in Handlers \ {p} : job'[q] = job[q]
    BY <1>13 DEF EnrollHeld, Job
  <2>2. UNCHANGED <<status, heldBy, order, outcome, enr>>
    BY <1>13 DEF EnrollHeld
  <2> QED BY <2>1, <2>2 DEF PaidOrHolding, Settling, At
<1>14. ASSUME NEW p \in Handlers, CheckoutHeld(p) PROVE PaidOrHolding'
  <2>1. /\ job[p].at = "cart" /\ UNCHANGED <<status, heldBy, order, outcome, enr>>
        /\ job'[p].at \in {"idle", "checkout"} /\ \A q \in Handlers \ {p} : job'[q] = job[q]
    BY <1>14 DEF CheckoutHeld, CountHeld, Finish, Idle, At, Job
  <2> QED BY <2>1 DEF PaidOrHolding, Settling, At
<1>15. ASSUME NEW u \in Users, Bar(u) PROVE PaidOrHolding'
  BY <1>15 DEF Bar, PaidOrHolding, Settling, At
<1>10. ASSUME NEW p \in Handlers, EnrollWrite(p) PROVE PaidOrHolding'
  <2>1. /\ enr[job[p].user] = "none" /\ job[p].give = "enrolled"
        /\ job[p].ord \in Orders /\ order[job[p].ord] = "paid" /\ job[p].user = Buyer[job[p].ord]
    BY <1>10 DEF EnrollWrite, SettlesOwnHold, Settling, At
  <2>2. /\ job' = [job EXCEPT ![p].at = "count"]
        /\ enr' = [enr EXCEPT ![job[p].user] = "enrolled"]
        /\ UNCHANGED <<status, heldBy, order, outcome>>
    BY <1>10, <2>1 DEF EnrollWrite, Goto
  <2> QED BY <2>1, <2>2 DEF PaidOrHolding, Settling, At
<1>11. ASSUME NEW p \in Handlers, EnrollCount(p) \/ EnrollLabel(p) PROVE PaidOrHolding'
  <2>1. UNCHANGED <<status, heldBy, order, outcome, enr>>
    BY <1>11 DEF EnrollCount, EnrollLabel
  <2>2. \/ job' = [job EXCEPT ![p] = Idle]
        \/ \E place \in {"label", "report"} : job' = [job EXCEPT ![p].at = place]
    BY <1>11 DEF EnrollCount, EnrollLabel, AfterEnroll, Goto, Finish
  <2>3. job'[p].at \in {"idle", "label", "report"} /\ \A q \in Handlers \ {p} : job'[q] = job[q]
    BY <2>2 DEF Idle, Job
  <2> QED BY <2>1, <2>3 DEF PaidOrHolding, Settling, At
<1>12. ASSUME NEW p \in Handlers, CheckoutCount(p) PROVE PaidOrHolding'
  <2>1. /\ job[p].at = "checkout" /\ UNCHANGED <<status, heldBy, order, outcome, enr>>
        /\ job'[p].at = "recount" /\ \A q \in Handlers \ {p} : job'[q] = job[q]
    BY <1>12 DEF CheckoutCount, At, Job
  <2> QED BY <2>1 DEF PaidOrHolding, Settling, At
<1> QED BY <1>1, <1>2, <1>3, <1>4, <1>5, <1>6, <1>7, <1>8, <1>9, <1>10, <1>11, <1>12, <1>13, <1>14, <1>15,
           BuyersSteps

\* A settlement reports its buyer's seat only once it is written, and nothing takes it; one
\* that is refused leaves the hold, and nobody else writes to the row of a paid order.
LEMMA BuyersGetSeats ==
  ASSUME OnlyBuyers, TypeOK, SettlesOwnHold, PaidOrHolding, PaidSeatGiven, [Next]_vars
  PROVE  PaidSeatGiven'
<1> USE BuyerAssumption, NoneAssumption DEF TypeOK, request, enrollment
<1>1. ASSUME UNCHANGED <<enr, outcome, order, status, heldBy>> PROVE PaidSeatGiven'
  BY <1>1 DEF PaidSeatGiven
<1>2. ASSUME NEW p \in Handlers, SettleReport(p) PROVE PaidSeatGiven'
  <2>1. /\ job[p].give = "enrolled" /\ job[p].ord \in Orders /\ outcome[job[p].ord] = "none"
        /\ job[p].user = Buyer[job[p].ord] /\ enr[job[p].user] = "enrolled"
    BY <1>2 DEF SettleReport, SettlesOwnHold, Settling, At
  <2>2. \A o \in Orders : o # job[p].ord => Buyer[o] # job[p].user
    BY <2>1 DEF OnlyBuyers
  <2>3. /\ outcome' = [outcome EXCEPT ![job[p].ord] = "converted"]
        /\ \A u \in Users \ {job[p].user} : status'[u] = status[u]
        /\ UNCHANGED <<heldBy, enr, order>>
    BY <1>2, <2>1 DEF SettleReport
  <2> QED BY <2>1, <2>2, <2>3 DEF PaidSeatGiven
<1>3. ASSUME NEW p \in Handlers, EnrollWrite(p) PROVE PaidSeatGiven'
  <2>1. enr[job[p].user] = "none" /\ job[p].give = "enrolled"
    BY <1>3 DEF EnrollWrite, SettlesOwnHold, Settling, At
  <2> QED BY <1>3, <2>1 DEF EnrollWrite, PaidSeatGiven
<1>4. ASSUME NEW p \in Handlers, EnrollRead(p) PROVE PaidSeatGiven'
  <2>1. /\ job[p].ord \in Orders /\ job[p].user = Buyer[job[p].ord]
        /\ order[job[p].ord] = "paid" /\ status[job[p].user] = "seat_held" /\ heldBy[job[p].user] = job[p].ord
    BY <1>4 DEF EnrollRead, SettlesOwnHold, Settling, At
  <2>2. UNCHANGED <<enr, order, status, heldBy>>
        /\ (outcome' = outcome \/ outcome' = [outcome EXCEPT ![job[p].ord] = "refused"])
    BY <1>4 DEF EnrollRead, Refuse
  <2> QED BY <2>1, <2>2 DEF PaidSeatGiven
<1>5. ASSUME NEW p \in Handlers, NEW o \in Orders, CheckoutTx(p, o) PROVE PaidSeatGiven'
  <2>1. order[o] = "none" /\ outcome[o] = "none" /\ Buyer[o] = job[p].user
    BY <1>5 DEF CheckoutTx, Hold, PaidOrHolding
  <2>2. \A q \in Orders \ {o} : Buyer[q] # job[p].user /\ order'[q] = order[q]
    BY <1>5, <2>1 DEF CheckoutTx, Hold, OnlyBuyers
  <2>3. /\ \A u \in Users \ {job[p].user} : status'[u] = status[u] /\ heldBy'[u] = heldBy[u]
        /\ UNCHANGED <<enr, outcome>>
    BY <1>5 DEF CheckoutTx, Hold
  <2> QED BY <2>1, <2>2, <2>3 DEF PaidSeatGiven
<1>6. ASSUME NEW p \in Handlers, NEW o \in Orders, Settle(p, o) PROVE PaidSeatGiven'
  BY <1>6 DEF Settle, PaidSeatGiven
<1>7. ASSUME NEW o \in Orders, Cancel(o) PROVE PaidSeatGiven'
  <2>1. order[o] = "pending_payment" /\ outcome[o] = "none"
    BY <1>7 DEF Cancel, Cancellable, PaidOrHolding
  <2>2. /\ \A q \in Orders \ {o} : order'[q] = order[q]
        /\ \A u \in Users : heldBy[u] # o => status'[u] = status[u] /\ heldBy'[u] = heldBy[u]
        /\ UNCHANGED <<enr, outcome>>
    BY <1>7 DEF Cancel, Released
  <2> QED BY <2>1, <2>2 DEF PaidSeatGiven
<1>8. ASSUME NEW p \in Handlers,
             \/ \E u \in Users : Checkout(p, u)
             \/ CheckoutHeld(p) \/ CheckoutCount(p) \/ CheckoutRefused(p) \/ NoOrderLeft(p) \/ SettleTargets(p)
             \/ EnrollHeld(p) \/ EnrollCount(p) \/ EnrollLabel(p)
      PROVE UNCHANGED <<enr, outcome, order, status, heldBy>>
  BY <1>8 DEF Checkout, CheckoutHeld, CountHeld, CheckoutCount, CheckoutRefused, NoOrderLeft, SettleTargets,
              EnrollHeld, EnrollCount, EnrollLabel
<1>9. ASSUME UNCHANGED vars \/ \E u \in Users : Bar(u) PROVE UNCHANGED <<enr, outcome, order, status, heldBy>>
  BY <1>9 DEF vars, Bar
<1> QED BY <1>1, <1>2, <1>3, <1>4, <1>5, <1>6, <1>7, <1>8, <1>9, BuyersSteps

\* Only a purchase takes a seat that nobody had, and it counts the seats after its write.
LEMMA BuyersFit ==
  ASSUME OnlyBuyers, TypeOK, SettlesOwnHold, PaidOrHolding, WithinCapacity, Counted, [Next]_vars
  PROVE  WithinCapacity'
<1> DEFINE seats == Enrolled \cup Held
<1> USE DEF TypeOK, request, enrollment
<1>1. /\ IsFiniteSet(Enrolled) /\ IsFiniteSet(Held) /\ IsFiniteSet(seats)
      /\ Cardinality(Enrolled) \in Nat /\ Cardinality(seats) \in Nat
  BY UsersAssumption, FS_Subset, FS_Union, FS_CardinalityType DEF Enrolled, Held
<1>2. ASSUME (Enrolled \cup Held)' \subseteq seats PROVE WithinCapacity'
  <2>1. Cardinality((Enrolled \cup Held)') <= Cardinality(seats)
    BY <1>1, <1>2, FS_Subset
  <2>2. Cardinality((Enrolled \cup Held)') \in Nat
    BY <1>1, <1>2, FS_Subset, FS_CardinalityType
  <2> QED BY <1>1, <2>1, <2>2, CapAssumption DEF WithinCapacity
<1>3. ASSUME NEW p \in Handlers, NEW o \in Orders, CheckoutTx(p, o) PROVE WithinCapacity'
  <2> DEFINE held == Held \cup {job[p].user}
  <2>1. (Enrolled \cup Held)' \subseteq Enrolled \cup held
    BY <1>3 DEF CheckoutTx, Hold, Enrolled, Held
  <2>2. IsFiniteSet(held) /\ Cardinality(held) \in Nat
    BY <1>1, FS_AddElement, FS_CardinalityType
  <2>3. /\ IsFiniteSet(Enrolled \cup held)
        /\ Cardinality(Enrolled \cup held) <= Cardinality(Enrolled) + Cardinality(held)
    BY <1>1, <2>2, UnionBound
  <2>4. /\ Cardinality((Enrolled \cup Held)') \in Nat
        /\ Cardinality((Enrolled \cup Held)') <= Cardinality(Enrolled \cup held)
        /\ Cardinality(Enrolled \cup held) \in Nat
    BY <2>1, <2>3, FS_Subset, FS_CardinalityType
  <2>5. Cap > 0 => Cardinality(Enrolled) + Cardinality(held) <= Cap
    <3>1. Cardinality(Enrolled) <= job[p].count /\ job[p].count \in Nat
      BY <1>3 DEF CheckoutTx, Counted, BetweenCounts, At, Job
    <3>2. Cap > 0 => job[p].count + Cardinality(held) <= Cap
      BY <1>3, <2>2, <3>1, CapAssumption DEF CheckoutTx, Overfull
    <3> QED BY <1>1, <2>2, <3>1, <3>2, CapAssumption
  <2> QED BY <1>1, <2>2, <2>3, <2>4, <2>5, CapAssumption DEF WithinCapacity
<1>4. ASSUME NEW p \in Handlers, EnrollWrite(p) PROVE WithinCapacity'
  <2>1. job[p].user \in Users /\ status[job[p].user] = "seat_held"
    BY <1>4, BuyerAssumption DEF EnrollWrite, SettlesOwnHold, Settling, At
  <2> QED BY <1>2, <1>4, <2>1 DEF EnrollWrite, Enrolled, Held
<1>5. ASSUME NEW p \in Handlers, SettleReport(p) PROVE WithinCapacity'
  BY <1>2, <1>5 DEF SettleReport, Enrolled, Held
<1>6. ASSUME NEW o \in Orders, Cancel(o) PROVE WithinCapacity'
  BY <1>2, <1>6 DEF Cancel, Enrolled, Held
<1>7. ASSUME UNCHANGED <<status, enr>> PROVE WithinCapacity'
  BY <1>2, <1>7 DEF Enrolled, Held
<1>8. ASSUME NEW p \in Handlers,
             \/ \E o \in Orders : Settle(p, o)
             \/ \E u \in Users : Checkout(p, u)
             \/ CheckoutHeld(p) \/ CheckoutCount(p) \/ CheckoutRefused(p) \/ NoOrderLeft(p) \/ SettleTargets(p)
             \/ EnrollRead(p) \/ EnrollHeld(p) \/ EnrollCount(p) \/ EnrollLabel(p)
      PROVE UNCHANGED <<status, enr>>
  BY <1>8 DEF Settle, Checkout, CheckoutHeld, CountHeld, CheckoutCount, CheckoutRefused, NoOrderLeft, SettleTargets,
              EnrollRead, EnrollHeld, EnrollCount, EnrollLabel
<1>9. ASSUME UNCHANGED vars \/ \E u \in Users : Bar(u) PROVE UNCHANGED <<status, enr>>
  BY <1>9 DEF vars, Bar
<1> QED BY <1>3, <1>4, <1>5, <1>6, <1>7, <1>8, <1>9, BuyersSteps

LEMMA BuyersInductive ==
  ASSUME OnlyBuyers
  PROVE  Spec => [](SettlesOwnHold /\ PaidOrHolding /\ PaidSeatGiven)
<1> DEFINE Inv == SettlesOwnHold /\ PaidOrHolding /\ PaidSeatGiven
<1>1. Init => Inv
  BY BuyerAssumption DEF Init, Idle, SettlesOwnHold, Settling, At, PaidOrHolding, PaidSeatGiven
<1>2. TypeOK /\ Inv /\ [Next]_vars => Inv'
  BY SettlementKeepsHold, BuyersKeepPlace, BuyersGetSeats
<1> QED BY <1>1, <1>2, TypeCorrect, PTL DEF Spec

\* Buyers at once, however many, are never sold more seats than there are, as long as nobody
\* is enrolled between the two counts of a check.
THEOREM SellsNoSeatTwice == ASSUME OnlyBuyers PROVE CalmSpec => []WithinCapacity
<1> DEFINE Inv == WithinCapacity /\ Counted
<1>1. Init => Inv
  <2> SUFFICES ASSUME Init PROVE Inv
    OBVIOUS
  <2>1. Enrolled \cup Held = {}
    BY DEF Init, Enrolled, Held
  <2>2. WithinCapacity
    BY <2>1, FS_EmptySet, CapAssumption DEF WithinCapacity
  <2> QED BY <2>2 DEF Init, Idle, Counted, BetweenCounts
<1>2. TypeOK /\ SettlesOwnHold /\ PaidOrHolding /\ Inv /\ [Next /\ Calm]_vars => Inv'
  BY CalmCounts, BuyersFit
<1>3. CalmSpec => Spec
  BY PTL DEF CalmSpec, Spec
<1> QED BY <1>1, <1>2, <1>3, BuyersInductive, TypeCorrect, PTL DEF CalmSpec

\* Each buyer who paid for the seat he holds is enrolled and told so, or refused by name
\* with the seat still held for him.
THEOREM PaidSeatsAreGiven == ASSUME OnlyBuyers PROVE Spec => []PaidSeatGiven
BY BuyersInductive, PTL

\* A buyer's hold is taken from him by nothing but the end of his own order.
THEOREM HoldsEndWithOrders == ASSUME OnlyBuyers PROVE Spec => HoldEndsWithOrder
<1> DEFINE Ends == \A u \in Held :
      status'[u] # "seat_held" =>
        \/ status'[u] = "converted" /\ order[heldBy[u]] = "paid"
        \/ status'[u] = "cancelled" /\ order'[heldBy[u]] = "cancelled"
                                    /\ order[heldBy[u]] = "pending_payment"
<1>1. TypeOK /\ SettlesOwnHold /\ PaidOrHolding /\ [Next]_vars => Ends \/ UNCHANGED vars
  <2> SUFFICES ASSUME TypeOK, SettlesOwnHold, PaidOrHolding, [Next]_vars, ~UNCHANGED vars PROVE Ends
    OBVIOUS
  <2> USE DEF TypeOK, Held, request, enrollment
  <2>1. ASSUME NEW o \in Orders, Cancel(o) PROVE Ends
    BY <2>1 DEF Cancel, Cancellable, Released
  <2>2. ASSUME NEW p \in Handlers, NEW o \in Orders, CheckoutTx(p, o) PROVE Ends
    BY <2>2 DEF CheckoutTx, Hold
  <2>3. ASSUME NEW p \in Handlers, SettleReport(p) PROVE Ends
    BY <2>3 DEF SettleReport, SettlesOwnHold, Settling, At
  <2>4. ASSUME status' = status PROVE Ends
    BY <2>4
  <2>5. ASSUME NEW p \in Handlers,
               \/ \E o \in Orders : Settle(p, o)
               \/ \E u \in Users : Checkout(p, u)
               \/ CheckoutHeld(p) \/ CheckoutCount(p) \/ CheckoutRefused(p) \/ NoOrderLeft(p) \/ SettleTargets(p)
               \/ EnrollRead(p) \/ EnrollHeld(p) \/ EnrollWrite(p) \/ EnrollCount(p) \/ EnrollLabel(p)
        PROVE status' = status
    BY <2>5 DEF Settle, Checkout, CheckoutHeld, CountHeld, CheckoutCount, CheckoutRefused, NoOrderLeft, SettleTargets,
                EnrollRead, EnrollHeld, EnrollWrite, EnrollCount, EnrollLabel
  <2>6. ASSUME NEW u \in Users, Bar(u) PROVE status' = status
    BY <2>6 DEF Bar
  <2> QED BY <2>1, <2>2, <2>3, <2>4, <2>5, <2>6, BuyersSteps
<1> QED BY <1>1, BuyersInductive, TypeCorrect, PTL DEF Spec, HoldEndsWithOrder

----------------------------------------------------------------------------
(* Every door, with each learner's calls one after another.                 *)

\* Who has an order to pay holds his seat by it.
PendingHolds ==
  \A o \in Orders : order[o] = "pending_payment" => status[Buyer[o]] = "seat_held" /\ heldBy[Buyer[o]] = o

\* A handler that will write a learner's request knows that he holds no seat; a settlement
\* that found his hold knows that it is by the order it settles, which is paid.
KnowsHold(j, st, hb, ord) ==
  /\ j.at \in {"request", "plan", "reject", "approve", "hold", "cart", "checkout", "recount"} =>
       j.user \in Users /\ st[j.user] # "seat_held"
  /\ j.at \in {"targets", "report"} /\ j.held => j.ord \in Orders
  /\ j.at = "targets" => j.ord \in Orders /\ j.user \in Users
  /\ j.ord \in Orders => ord[j.ord] = "paid"
  /\ j.held => j.ord \in Orders /\ j.user \in Users /\ hb[j.user] = j.ord

HoldsKnown == PendingHolds /\ \A p \in Handlers : KnowsHold(job[p], status, heldBy, order)

LEMMA IdleKnows ==
  ASSUME NEW st, NEW hb, NEW ord
  PROVE  KnowsHold(Idle, st, hb, ord)
  BY NoneAssumption DEF Idle, KnowsHold


\* A write to another learner's row leaves what a handler knows of its own.
LEMMA KnowsKept ==
  ASSUME NEW j \in Job, KnowsHold(j, status, heldBy, order), NEW u, j.user # u,
         \A v \in Users \ {u} : status'[v] = status[v] /\ heldBy'[v] = heldBy[v],
         \A o \in Orders : order[o] = "paid" => order'[o] = "paid"
  PROVE  KnowsHold(j, status', heldBy', order')
<1>1. j.user \in Users => status'[j.user] = status[j.user] /\ heldBy'[j.user] = heldBy[j.user]
  OBVIOUS
<1> QED BY <1>1 DEF KnowsHold

LEMMA OthersKnow ==
  ASSUME TypeOK, OwnTurns, HoldsKnown,
         NEW p \in Handlers, Begin(p) \/ Continue(p), NEW q \in Handlers \ {p}
  PROVE  KnowsHold(job'[q], status', heldBy', order')
<1>0. job'[q] = job[q] /\ job[q] \in Job /\ KnowsHold(job[q], status, heldBy, order) /\ KnowsHold(job[p], status, heldBy, order)
  BY OthersKeep DEF HoldsKnown, TypeOK
<1>1. job[p].user # None => job[q].user # job[p].user
  BY DEF OwnTurns
<1>2. status \in [Users -> Statuses] /\ heldBy \in [Users -> Orders \cup {None}]
      /\ order \in [Orders -> {"none", "pending_payment", "paid", "cancelled"}]
  BY DEF TypeOK
<1> USE DEF request
<1>3. ASSUME job[p].user \in Users,
             \A v \in Users \ {job[p].user} : status'[v] = status[v] /\ heldBy'[v] = heldBy[v],
             \A o \in Orders : order[o] = "paid" => order'[o] = "paid"
      PROVE  KnowsHold(job[q], status', heldBy', order')
  <2>1. job[q].user # job[p].user
    BY <1>1, <1>3, NoneAssumption
  <2> QED BY <1>0, <1>3, <2>1, KnowsKept
<1>4. ASSUME UNCHANGED <<request, order>>
      PROVE  KnowsHold(job[q], status', heldBy', order')
  BY <1>0, <1>4
<1>5. CASE RequestWrite(p)
  <2>1. job[p].user \in Users
    BY <1>0, <1>5 DEF RequestWrite, At, KnowsHold
  <2>2. \A v \in Users \ {job[p].user} : status'[v] = status[v] /\ heldBy'[v] = heldBy[v]
    BY <1>2, <1>5 DEF RequestWrite
  <2> QED BY <1>0, <1>3, <1>5, <2>1, <2>2 DEF RequestWrite
<1>6. CASE RequestPlanWrite(p)
  <2>1. job[p].user \in Users
    BY <1>0, <1>6 DEF RequestPlanWrite, At, KnowsHold
  <2>2. \A v \in Users \ {job[p].user} : status'[v] = status[v] /\ heldBy'[v] = heldBy[v]
    BY <1>2, <1>6 DEF RequestPlanWrite
  <2> QED BY <1>0, <1>3, <1>6, <2>1, <2>2 DEF RequestPlanWrite
<1>7. CASE RejectWrite(p)
  <2>1. job[p].user \in Users
    BY <1>0, <1>7 DEF RejectWrite, At, KnowsHold
  <2>2. \A v \in Users \ {job[p].user} : status'[v] = status[v] /\ heldBy'[v] = heldBy[v]
    BY <1>2, <1>7 DEF RejectWrite
  <2> QED BY <1>0, <1>3, <1>7, <2>1, <2>2 DEF RejectWrite
<1>8. CASE SettleReport(p)
  <2>1. CASE job[p].held
    <3>1. job[p].user \in Users
      BY <1>0, <2>1 DEF KnowsHold
    <3>2. \A v \in Users \ {job[p].user} : status'[v] = status[v] /\ heldBy'[v] = heldBy[v]
      BY <1>2, <1>8 DEF SettleReport
    <3> QED BY <1>0, <1>3, <1>8, <3>1, <3>2 DEF SettleReport
  <2>2. CASE ~job[p].held
    BY <1>0, <1>4, <1>8, <2>2 DEF SettleReport
  <2> QED BY <2>1, <2>2
<1>9. ASSUME NEW o \in Orders, Hold(job[p].user, o), job[p].at \in {"hold", "recount"}
      PROVE  KnowsHold(job[q], status', heldBy', order')
  <2>1. job[p].user \in Users
    BY <1>0, <1>9 DEF KnowsHold
  <2>2. \A v \in Users \ {job[p].user} : status'[v] = status[v] /\ heldBy'[v] = heldBy[v]
    BY <1>2, <1>9 DEF Hold
  <2>3. \A r \in Orders : order[r] = "paid" => order'[r] = "paid"
    BY <1>2, <1>9 DEF Hold
  <2> QED BY <1>3, <2>1, <2>2, <2>3
<1>10. CASE \E o \in Orders : Settle(p, o)
  <2>1. \A r \in Orders : order[r] = "paid" => order'[r] = "paid"
    BY <1>2, <1>10 DEF Settle
  <2>2. status' = status /\ heldBy' = heldBy
    BY <1>10 DEF Settle
  <2> QED BY <1>0, <2>1, <2>2 DEF KnowsHold
<1>11. CASE \E o \in Orders : ApproveTx(p, o) \/ CheckoutTx(p, o)
  BY <1>0, <1>9, <1>11 DEF ApproveTx, CheckoutTx, At
<1>12. ASSUME ~(RequestWrite(p) \/ RequestPlanWrite(p) \/ RejectWrite(p) \/ SettleReport(p)),
              ~(\E o \in Orders : ApproveTx(p, o) \/ CheckoutTx(p, o) \/ Settle(p, o))
       PROVE  UNCHANGED <<request, order>>
  BY <1>12 DEF Begin, Request, RequestPlan, Reject, Approve, Checkout, StaffEnroll, Drop,
      Continue, ApproveHeld, CheckoutHeld, CheckoutCount, CheckoutRefused,
      NoOrderLeft, SettleTargets, EnrollRead, EnrollHeld, EnrollWrite, EnrollCount, EnrollLabel,
      FillCount, FillHeld, CountHeld, FillNext, FillReopen, FillPromote, enrollment
<1> QED BY <1>0, <1>4, <1>5, <1>6, <1>7, <1>8, <1>10, <1>11, <1>12

\* What a handler knows of its learner after its own step.
LEMMA OwnKnows ==
  ASSUME TypeOK, HeldForLiveOrder, HoldsKnown, NEW p \in Handlers, Begin(p) \/ Continue(p)
  PROVE  KnowsHold(job'[p], status', heldBy', order')
<1>0. job \in [Handlers -> Job] /\ job[p] \in Job /\ KnowsHold(job[p], status, heldBy, order)
  BY DEF HoldsKnown, TypeOK
<1>1. status \in [Users -> Statuses] /\ heldBy \in [Users -> Orders \cup {None}]
      /\ order \in [Orders -> {"none", "pending_payment", "paid", "cancelled"}]
  BY DEF TypeOK
<1> USE DEF request
<1>2. CASE Begin(p)
  <2>1. CASE \E u \in Users : Request(p, u) \/ RequestPlan(p, u) \/ Reject(p, u) \/ Approve(p, u)
    <3>1. PICK u \in Users : Request(p, u) \/ RequestPlan(p, u) \/ Reject(p, u) \/ Approve(p, u)
      BY <2>1
    <3>2. UNCHANGED <<request, order>> /\ status[u] # "seat_held"
      BY <3>1 DEF Request, Requestable, RequestPlan, Reject, Approve
    <3>3. job'[p].user = u /\ job'[p].ord = None /\ ~job'[p].held
          /\ job'[p].at \in {"request", "plan", "reject", "approve"}
      <4>1. CASE Request(p, u)
        BY <1>0, <4>1 DEF Request, Idle
      <4>2. CASE RequestPlan(p, u)
        BY <1>0, <4>2 DEF RequestPlan, Idle
      <4>3. CASE Reject(p, u)
        BY <1>0, <4>3 DEF Reject, Idle
      <4>4. CASE Approve(p, u)
        BY <1>0, <4>4 DEF Approve, Idle
      <4> QED BY <3>1, <4>1, <4>2, <4>3, <4>4
    <3> QED BY <3>2, <3>3, NoneAssumption DEF KnowsHold
  <2>2. CASE \E u \in Users : Checkout(p, u)
    <3>1. PICK u \in Users : Checkout(p, u)
      BY <2>2
    <3>2. status[u] # "seat_held"
      BY <3>1, <1>1, NoneAssumption DEF Checkout, Blocked, HeldForLiveOrder, Held
    <3> QED BY <1>0, <1>1, <3>1, <3>2, NoneAssumption DEF Checkout, Idle, KnowsHold
  <2>3. CASE \E u \in Users : StaffEnroll(p, u) \/ Drop(p, u)
    <3>1. job'[p].ord = None /\ ~job'[p].held /\ job'[p].at \in {"enroll", "fill"}
      <4>1. CASE \E u \in Users : StaffEnroll(p, u)
        BY <1>0, <4>1 DEF StaffEnroll, Idle
      <4>2. CASE \E u \in Users : Drop(p, u)
        BY <1>0, <4>2 DEF Drop, Idle
      <4> QED BY <2>3, <4>1, <4>2
    <3> QED BY <3>1, NoneAssumption DEF KnowsHold
  <2>4. CASE \E o \in Orders : Settle(p, o)
    <3>1. PICK o \in Orders : Settle(p, o)
      BY <2>4
    <3>2. order'[o] = "paid"
      BY <1>1, <3>1 DEF Settle
    <3>3. job'[p].user = Buyer[o] /\ job'[p].ord = o /\ ~job'[p].held /\ job'[p].at = "targets"
      BY <1>0, <3>1 DEF Settle, Idle
    <3> QED BY <3>2, <3>3, BuyerAssumption DEF KnowsHold
  <2> QED BY <1>2, <2>1, <2>2, <2>3, <2>4 DEF Begin
<1>3. CASE job'[p] = Idle
  BY <1>3, IdleKnows
<1>4. CASE CheckoutCount(p)
  BY <1>0, <1>4 DEF CheckoutCount, At, KnowsHold
<1>10. CASE ApproveHeld(p) \/ CheckoutHeld(p)
  <2>1. UNCHANGED <<request, order>> /\ job[p].at \in {"approve", "cart"}
    BY <1>10 DEF ApproveHeld, CheckoutHeld, CountHeld, At
  <2>2. job'[p] = Idle \/ /\ job'[p].at \in {"hold", "checkout"} /\ job'[p].user = job[p].user
                          /\ job'[p].ord = job[p].ord /\ job'[p].held = job[p].held
    BY <1>0, <1>10 DEF ApproveHeld, CheckoutHeld, CountHeld, Finish, Job
  <2> QED BY <1>0, <1>3, <2>1, <2>2 DEF KnowsHold
<1>5. CASE SettleTargets(p)
  <2>1. job[p].at = "targets" /\ UNCHANGED <<request, order>>
    BY <1>5 DEF SettleTargets, At
  <2>2. job'[p].user = job[p].user /\ job'[p].ord = job[p].ord /\ job'[p].at = "enroll"
        /\ job'[p].held = (job[p].user \in Released(job[p].ord))
    BY <1>0, <1>5 DEF SettleTargets, Job
  <2>3. job'[p].held => heldBy[job[p].user] = job[p].ord
    BY <2>2 DEF Released
  <2> QED BY <1>0, <2>1, <2>2, <2>3 DEF KnowsHold
<1>6. ASSUME job'[p].user = job[p].user, job'[p].ord = job[p].ord, job'[p].held = job[p].held,
             job'[p].at \in {"report", "decide", "write", "count", "label", "room", "next", "promote", "reopen"},
             UNCHANGED <<request, order>>
      PROVE  KnowsHold(job'[p], status', heldBy', order')
  BY <1>0, <1>6 DEF KnowsHold
<1>7. CASE EnrollRead(p) \/ EnrollHeld(p) \/ EnrollWrite(p) \/ EnrollCount(p) \/ EnrollLabel(p)
  <2>1. UNCHANGED <<request, order>>
    BY <1>7 DEF EnrollRead, EnrollHeld, EnrollWrite, EnrollCount, EnrollLabel
  <2>2. ASSUME job'[p] # Idle
        PROVE  /\ job'[p].user = job[p].user /\ job'[p].ord = job[p].ord /\ job'[p].held = job[p].held
               /\ job'[p].at \in {"report", "decide", "write", "count", "label"}
    <3>1. CASE EnrollRead(p)
      BY <1>0, <2>2, <3>1 DEF EnrollRead, Refuse, AfterEnroll, Goto, Finish, Job
    <3>4. CASE EnrollHeld(p)
      BY <1>0, <2>2, <3>4 DEF EnrollHeld, Job
    <3>2. CASE EnrollWrite(p)
      BY <1>0, <2>2, <3>2 DEF EnrollWrite, Refuse, Goto, Finish, Job
    <3>3. CASE EnrollCount(p) \/ EnrollLabel(p)
      BY <1>0, <2>2, <3>3 DEF EnrollCount, EnrollLabel, AfterEnroll, Goto, Finish, Job
    <3> QED BY <1>7, <3>1, <3>2, <3>3, <3>4
  <2> QED BY <1>3, <1>6, <2>1, <2>2
<1>8. CASE FillCount(p) \/ FillHeld(p) \/ FillNext(p)
  <2>1. UNCHANGED <<request, order>>
    BY <1>8 DEF FillCount, FillHeld, CountHeld, FillNext
  <2>2. ASSUME job'[p] # Idle
        PROVE  /\ job'[p].user = job[p].user /\ job'[p].ord = job[p].ord /\ job'[p].held = job[p].held
               /\ job'[p].at \in {"room", "next", "promote", "reopen"}
    <3>1. CASE FillCount(p)
      BY <1>0, <2>2, <3>1 DEF FillCount, Job
    <3>3. CASE FillHeld(p)
      BY <1>0, <2>2, <3>3 DEF FillHeld, CountHeld, Finish, Job
    <3>2. CASE FillNext(p)
      BY <1>0, <2>2, <3>2 DEF FillNext, Goto, Finish, Job
    <3> QED BY <1>8, <3>1, <3>2, <3>3
  <2> QED BY <1>3, <1>6, <2>1, <2>2
<1>9. CASE RequestWrite(p) \/ RequestPlanWrite(p) \/ RejectWrite(p) \/ CheckoutRefused(p)
           \/ NoOrderLeft(p) \/ SettleReport(p) \/ FillReopen(p) \/ FillPromote(p)
           \/ \E o \in Orders : ApproveTx(p, o) \/ CheckoutTx(p, o)
  BY <1>0, <1>3, <1>9 DEF RequestWrite, RequestPlanWrite, RejectWrite, CheckoutRefused, NoOrderLeft,
      SettleReport, FillReopen, FillPromote, ApproveTx, CheckoutTx, Finish
<1> QED BY <1>2, <1>4, <1>5, <1>7, <1>8, <1>9, <1>10 DEF Continue

\* No step of a handler takes its hold from an order that is still to be paid.
LEMMA PendingKept ==
  ASSUME TypeOK, HoldsKnown, NEW p \in Handlers, Begin(p) \/ Continue(p)
  PROVE  PendingHolds'
<1>0. KnowsHold(job[p], status, heldBy, order) /\ PendingHolds
  BY DEF HoldsKnown
<1>1. status \in [Users -> Statuses] /\ heldBy \in [Users -> Orders \cup {None}]
      /\ order \in [Orders -> {"none", "pending_payment", "paid", "cancelled"}] /\ Buyer \in [Orders -> Users]
  BY BuyerAssumption DEF TypeOK
<1> SUFFICES ASSUME NEW r \in Orders, order'[r] = "pending_payment"
             PROVE  status'[Buyer[r]] = "seat_held" /\ heldBy'[Buyer[r]] = r
  BY DEF PendingHolds
<1> USE DEF request
<1>2. CASE RequestWrite(p) \/ RequestPlanWrite(p) \/ RejectWrite(p)
  <2>1. job[p].user \in Users /\ status[job[p].user] # "seat_held" /\ order' = order
    BY <1>0, <1>2 DEF RequestWrite, RequestPlanWrite, RejectWrite, At, KnowsHold
  <2>2. Buyer[r] # job[p].user
    BY <1>0, <2>1 DEF PendingHolds
  <2> QED BY <1>0, <1>1, <1>2, <2>1, <2>2 DEF RequestWrite, RequestPlanWrite, RejectWrite, PendingHolds
<1>3. CASE \E o \in Orders : ApproveTx(p, o) \/ CheckoutTx(p, o)
  <2>1. PICK o \in Orders : ApproveTx(p, o) \/ CheckoutTx(p, o)
    BY <1>3
  <2>2. Hold(job[p].user, o) /\ job[p].user \in Users /\ status[job[p].user] # "seat_held"
    BY <1>0, <2>1 DEF ApproveTx, CheckoutTx, At, KnowsHold
  <2>3. CASE r = o
    BY <1>1, <2>2, <2>3 DEF Hold
  <2>4. CASE r # o
    <3>1. order[r] = "pending_payment"
      BY <1>1, <2>2, <2>4 DEF Hold
    <3>2. Buyer[r] # job[p].user
      BY <1>0, <2>2, <3>1 DEF PendingHolds
    <3> QED BY <1>0, <1>1, <2>2, <3>1, <3>2 DEF Hold, PendingHolds
  <2> QED BY <2>3, <2>4
<1>4. CASE SettleReport(p)
  <2>1. order[r] = "pending_payment" /\ heldBy' = heldBy
    BY <1>4 DEF SettleReport
  <2>2. job[p].held => Buyer[r] # job[p].user
    BY <1>0, <2>1 DEF PendingHolds, KnowsHold
  <2> QED BY <1>0, <1>1, <1>4, <2>1, <2>2 DEF SettleReport, PendingHolds
<1>5. CASE \E o \in Orders : Settle(p, o)
  BY <1>0, <1>1, <1>5 DEF Settle, PendingHolds
<1>6. ASSUME ~(RequestWrite(p) \/ RequestPlanWrite(p) \/ RejectWrite(p) \/ SettleReport(p)),
             ~(\E o \in Orders : ApproveTx(p, o) \/ CheckoutTx(p, o) \/ Settle(p, o))
      PROVE  UNCHANGED <<request, order>>
  BY <1>6 DEF Begin, Request, RequestPlan, Reject, Approve, Checkout, StaffEnroll, Drop,
      Continue, ApproveHeld, CheckoutHeld, CheckoutCount, CheckoutRefused,
      NoOrderLeft, SettleTargets, EnrollRead, EnrollHeld, EnrollWrite, EnrollCount, EnrollLabel,
      FillCount, FillHeld, CountHeld, FillNext, FillReopen, FillPromote, enrollment
<1>7. CASE UNCHANGED <<request, order>>
  BY <1>0, <1>7 DEF PendingHolds
<1> QED BY <1>2, <1>3, <1>4, <1>5, <1>6, <1>7

\* Cancelling an order takes from no other order its hold.
LEMMA CancelKnows ==
  ASSUME TypeOK, HoldsKnown, NEW o \in Orders, Cancel(o)
  PROVE  HoldsKnown'
<1>1. status \in [Users -> Statuses] /\ heldBy \in [Users -> Orders \cup {None}]
      /\ order \in [Orders -> {"none", "pending_payment", "paid", "cancelled"}] /\ Buyer \in [Orders -> Users]
  BY BuyerAssumption DEF TypeOK
<1>2. \A r \in Orders : r # o => order'[r] = order[r]
  BY <1>1 DEF Cancel
<1>3. order[o] = "pending_payment" /\ order'[o] = "cancelled" /\ job' = job
  BY <1>1 DEF Cancel, Cancellable
<1>4. \A u \in Users : \/ status'[u] = status[u] /\ heldBy'[u] = heldBy[u]
                       \/ status'[u] = "cancelled" /\ heldBy[u] = o
  BY DEF Cancel, Released
<1>5. PendingHolds'
  BY <1>1, <1>2, <1>3, <1>4 DEF HoldsKnown, PendingHolds
<1>6. ASSUME NEW q \in Handlers PROVE KnowsHold(job[q], status', heldBy', order')
  <2>1. KnowsHold(job[q], status, heldBy, order)
    BY DEF HoldsKnown
  <2>2. \A r \in Orders : order[r] = "paid" => order'[r] = "paid" /\ r # o
    BY <1>2, <1>3
  <2> QED BY <1>4, <2>1, <2>2 DEF KnowsHold
<1> QED BY <1>3, <1>5, <1>6 DEF HoldsKnown

\* OneLiveOrder through every door and for any number of handlers: a learner whose own calls
\* do not overlap has no second order to pay over the seat he holds by one, whatever others'
\* calls, the worker's cancelling and late money do meanwhile.
THEOREM OneOrderOverASeat == Spec /\ []OwnTurns => []OneLiveOrder
<1>1. Init => HoldsKnown
  BY IdleKnows DEF Init, HoldsKnown, PendingHolds
<1>2. HoldsKnown /\ TypeOK /\ HeldForLiveOrder /\ OwnTurns /\ [Next]_vars => HoldsKnown'
  <2> SUFFICES ASSUME HoldsKnown, TypeOK, HeldForLiveOrder, OwnTurns, [Next]_vars
               PROVE  HoldsKnown'
    OBVIOUS
  <2>1. ASSUME NEW p \in Handlers, Begin(p) \/ Continue(p) PROVE HoldsKnown'
    <3>1. \A q \in Handlers : KnowsHold(job'[q], status', heldBy', order')
      BY <2>1, OthersKnow, OwnKnows
    <3>2. PendingHolds'
      BY <2>1, PendingKept
    <3> QED BY <3>1, <3>2 DEF HoldsKnown
  <2>2. CASE UNCHANGED vars
    BY <2>2 DEF vars, HoldsKnown, PendingHolds
  <2>3. ASSUME NEW u \in Users, Bar(u) PROVE HoldsKnown'
    BY <2>3 DEF Bar, request, HoldsKnown, PendingHolds
  <2> QED BY <2>1, <2>2, <2>3, CancelKnows DEF Next
<1>3. HoldsKnown => OneLiveOrder
  BY DEF HoldsKnown, PendingHolds, OneLiveOrder
<1> QED BY <1>1, <1>2, <1>3, TypeCorrect, HeldSeatsAreOwed, PTL DEF Spec

----------------------------------------------------------------------------
(* Every door but the staff's override, in calm steps: what a race of two    *)
(* counters may cost.                                                       *)

\* A handler claims a seat from the check that found room to the write that gives it, the
\* promotion of a waiter first while it looks for him.
Claims(j)     == j.at = "hold" \/ (j.at = "write" /\ j.give = "enrolled") \/ j.at = "promote"
Seat(j)       == IF j.at = "promote" THEN j.next ELSE j.user
Claiming(jb)  == {q \in Handlers : Claims(jb[q])}
Seeking(jb)   == {q \in Handlers : jb[q].at = "next"}
Claimed(jb)   == {Seat(jb[q]) : q \in Claiming(jb)}

\* All that is given, held and claimed, with those who still look for a waiter, is over the
\* capacity by fewer than there are handlers.
Promised(jb, E, H) == E \cup H \cup Claimed(jb)
Few(jb, E, H) ==
  Cap > 0 => Cardinality(Promised(jb, E, H)) + Cardinality(Seeking(jb)) < Cap + Cardinality(Handlers)

NoneForced == \A p \in Handlers : ~job[p].force

LEMMA PromisedFinite ==
  ASSUME NEW jb, NEW E, NEW H, IsFiniteSet(E), IsFiniteSet(H)
  PROVE  /\ IsFiniteSet(Claiming(jb)) /\ Cardinality(Claiming(jb)) \in Nat
         /\ IsFiniteSet(Seeking(jb)) /\ Cardinality(Seeking(jb)) \in Nat
         /\ IsFiniteSet(Claimed(jb)) /\ Cardinality(Claimed(jb)) \in Nat
         /\ Cardinality(Claimed(jb)) <= Cardinality(Claiming(jb))
         /\ IsFiniteSet(Promised(jb, E, H)) /\ Cardinality(Promised(jb, E, H)) \in Nat
<1>1. IsFiniteSet(Claiming(jb)) /\ IsFiniteSet(Seeking(jb))
  BY HandlersAssumption, FS_Subset DEF Claiming, Seeking
<1>2. IsFiniteSet(Claimed(jb)) /\ Cardinality(Claimed(jb)) <= Cardinality(Claiming(jb))
  <2> DEFINE C == Claiming(jb)
             f == [q \in C |-> Seat(jb[q])]
             T == Claimed(jb)
  <2>1. T = {Seat(jb[q]) : q \in C}
    BY DEF Claimed
  <2> HIDE DEF C, T
  <2>2. f \in Surjection(C, T)
    BY <2>1 DEF Surjection
  <2>3. IsFiniteSet(C)
    BY <1>1 DEF C
  <2> HIDE DEF f
  <2>4. IsFiniteSet(T) /\ Cardinality(T) <= Cardinality(C)
    BY <2>2, <2>3, FS_Surjection
  <2> QED BY <2>4 DEF C, T
<1>3. IsFiniteSet(E \cup H)
  BY FS_Union
<1>4. IsFiniteSet(Promised(jb, E, H))
  BY <1>2, <1>3, FS_Union DEF Promised
<1> QED BY <1>1, <1>2, <1>4, FS_CardinalityType

\* The bound stands when no one else is promised a seat and no one else looks for a waiter.
LEMMA FewerPromised ==
  ASSUME NEW jb, NEW E, NEW H, IsFiniteSet(E), IsFiniteSet(H), Few(jb, E, H),
         NEW jc, NEW F, NEW G, Promised(jc, F, G) \subseteq Promised(jb, E, H),
         Seeking(jc) \subseteq Seeking(jb)
  PROVE  Few(jc, F, G)
<1>1. IsFiniteSet(Promised(jb, E, H)) /\ Cardinality(Promised(jb, E, H)) \in Nat
      /\ IsFiniteSet(Seeking(jb)) /\ Cardinality(Seeking(jb)) \in Nat
  BY PromisedFinite
<1>2. /\ Cardinality(Promised(jc, F, G)) <= Cardinality(Promised(jb, E, H))
      /\ Cardinality(Promised(jc, F, G)) \in Nat
  BY <1>1, FS_Subset, FS_CardinalityType
<1>3. Cardinality(Seeking(jc)) <= Cardinality(Seeking(jb)) /\ Cardinality(Seeking(jc)) \in Nat
  BY <1>1, FS_Subset, FS_CardinalityType
<1>4. Cardinality(Handlers) \in Nat
  BY HandlersAssumption, FS_CardinalityType
<1> QED BY <1>1, <1>2, <1>3, <1>4, CapAssumption DEF Few

\* Claims and searches are of different handlers.
LEMMA ClaimsApart ==
  ASSUME NEW jb, NEW W \in SUBSET Handlers, Claiming(jb) \cup Seeking(jb) \subseteq W
  PROVE  Cardinality(Claimed(jb)) + Cardinality(Seeking(jb)) <= Cardinality(W)
<1>1. IsFiniteSet(W) /\ Cardinality(W) \in Nat
  BY HandlersAssumption, FS_Subset, FS_CardinalityType
<1>2. /\ IsFiniteSet(Claiming(jb)) /\ Cardinality(Claiming(jb)) \in Nat
      /\ IsFiniteSet(Seeking(jb)) /\ Cardinality(Seeking(jb)) \in Nat
      /\ Cardinality(Claimed(jb)) \in Nat /\ Cardinality(Claimed(jb)) <= Cardinality(Claiming(jb))
  BY PromisedFinite, FS_EmptySet
<1>3. Claiming(jb) \cap Seeking(jb) = {}
  BY DEF Claiming, Seeking, Claims
<1>4. Cardinality(Claiming(jb) \cup Seeking(jb)) = Cardinality(Claiming(jb)) + Cardinality(Seeking(jb))
  <2> DEFINE C == Claiming(jb)
             S == Seeking(jb)
  <2>1. IsFiniteSet(C) /\ IsFiniteSet(S) /\ C \cap S = {} /\ Cardinality(C) \in Nat /\ Cardinality(S) \in Nat
    BY <1>2, <1>3
  <2> HIDE DEF C, S
  <2>2. Cardinality(C \cup S) = Cardinality(C) + Cardinality(S) - Cardinality({})
    BY <2>1, FS_Union
  <2>3. Cardinality(C \cup S) = Cardinality(C) + Cardinality(S)
    BY <2>1, <2>2, FS_EmptySet
  <2> QED BY <2>3 DEF C, S
<1>5. Cardinality(Claiming(jb) \cup Seeking(jb)) <= Cardinality(W)
  BY <1>1, FS_Subset
<1> QED BY <1>1, <1>2, <1>4, <1>5

\* A check that finds a seat free among the enrolled and the held starts the bound afresh:
\* what else is promised is what the handlers claim, one seat each.
LEMMA FreshCheck ==
  ASSUME NEW jb, NEW E, NEW H, IsFiniteSet(E), IsFiniteSet(H), Cap > 0,
         NEW W \in SUBSET Handlers, Claiming(jb) \cup Seeking(jb) \subseteq W,
         Cardinality(E \cup H) + Cardinality(W) < Cap + Cardinality(Handlers)
  PROVE  Few(jb, E, H)
<1> DEFINE Q == E \cup H
<1>1. IsFiniteSet(Q) /\ Cardinality(Q) \in Nat
  BY FS_Union, FS_CardinalityType
<1>2. /\ IsFiniteSet(Claimed(jb)) /\ Cardinality(Claimed(jb)) \in Nat
      /\ Cardinality(Seeking(jb)) \in Nat /\ Cardinality(Promised(jb, E, H)) \in Nat
  BY PromisedFinite
<1>3. Cardinality(Promised(jb, E, H)) <= Cardinality(Q) + Cardinality(Claimed(jb))
  <2> HIDE DEF Q
  <2>1. Cardinality(Q \cup Claimed(jb)) <= Cardinality(Q) + Cardinality(Claimed(jb))
    BY <1>1, <1>2, UnionBound
  <2> QED BY <2>1 DEF Promised, Q
<1>4. Cardinality(Claimed(jb)) + Cardinality(Seeking(jb)) <= Cardinality(W)
  BY ClaimsApart
<1>5. Cardinality(W) \in Nat /\ Cardinality(Handlers) \in Nat
  BY HandlersAssumption, FS_Subset, FS_CardinalityType
<1> QED BY <1>1, <1>2, <1>3, <1>4, <1>5, CapAssumption DEF Few

\* n counted before and the held counted now are together no fewer than those promised.
LEMMA RoomLeft ==
  ASSUME NEW E, NEW H, IsFiniteSet(E), IsFiniteSet(H), NEW n \in Nat, Cardinality(E) <= n,
         Cap > 0, ~NoRoom(n + Cardinality(H))
  PROVE  Cardinality(E \cup H) + Cardinality(Handlers) < Cap + Cardinality(Handlers)
<1>1. IsFiniteSet(E \cup H) /\ Cardinality(E \cup H) <= Cardinality(E) + Cardinality(H)
  BY UnionBound
<1>2. /\ Cardinality(E \cup H) \in Nat /\ Cardinality(E) \in Nat /\ Cardinality(H) \in Nat
      /\ Cardinality(Handlers) \in Nat
  BY <1>1, HandlersAssumption, FS_CardinalityType
<1> QED BY <1>1, <1>2, CapAssumption DEF NoRoom

\* One handler's step that leaves it with no claim, or with one on a seat that is promised
\* already, and gives no seat that was not promised.
LEMMA NoNewPromise ==
  ASSUME TypeOK, Few(job, Enrolled, Held), NEW p \in Handlers, Begin(p) \/ Continue(p),
         job'[p].at # "next",
         Claims(job'[p]) => Seat(job'[p]) \in Promised(job, Enrolled, Held),
         Enrolled' \subseteq Promised(job, Enrolled, Held),
         Held' \subseteq Promised(job, Enrolled, Held)
  PROVE  Few(job', Enrolled', Held')
<1>1. \A q \in Handlers \ {p} : job'[q] = job[q]
  BY OthersKeep
<1>2. Claimed(job') \subseteq Promised(job, Enrolled, Held)
  BY <1>1 DEF Claimed, Claiming, Promised
<1>3. Promised(job', Enrolled', Held') \subseteq Promised(job, Enrolled, Held)
  BY <1>2 DEF Promised
<1>4. Seeking(job') \subseteq Seeking(job)
  BY <1>1 DEF Seeking
<1> QED BY <1>3, <1>4, SeatsFinite, FewerPromised

\* The steps that give no seat.
LEMMA OthersGiveNone ==
  ASSUME TypeOK, NEW p \in Handlers, Begin(p) \/ Continue(p),
         ~(EnrollWrite(p) \/ FillPromote(p) \/ \E o \in Orders : ApproveTx(p, o) \/ CheckoutTx(p, o))
  PROVE  Enrolled' \subseteq Enrolled /\ Held' \subseteq Held
<1>1. status \in [Users -> Statuses] /\ enr \in [Users -> Enrollments]
  BY DEF TypeOK
<1>2. CASE RequestWrite(p) \/ RequestPlanWrite(p) \/ RejectWrite(p) \/ SettleReport(p)
  BY <1>1, <1>2 DEF RequestWrite, RequestPlanWrite, RejectWrite, SettleReport, enrollment, Enrolled, Held
<1>3. CASE \E u \in Users : Drop(p, u)
  BY <1>1, <1>3 DEF Drop, request, Enrolled, Held
<1>4. ASSUME ~(RequestWrite(p) \/ RequestPlanWrite(p) \/ RejectWrite(p) \/ SettleReport(p)),
             ~(\E u \in Users : Drop(p, u))
      PROVE  UNCHANGED <<status, enr>>
  BY <1>4 DEF Begin, Request, RequestPlan, Reject, Approve, Checkout, StaffEnroll, Settle,
      Continue, ApproveHeld, CheckoutHeld, CheckoutCount, CheckoutRefused,
      NoOrderLeft, SettleTargets, EnrollRead, EnrollHeld, EnrollCount, EnrollLabel,
      FillCount, FillHeld, CountHeld, FillNext, FillReopen, request, enrollment
<1>5. CASE UNCHANGED <<status, enr>>
  BY <1>5 DEF Enrolled, Held
<1> QED BY <1>2, <1>3, <1>4, <1>5

\* The approval's and the promotion's check finds a seat free.
LEMMA CheckPasses ==
  ASSUME TypeOK, Counted, Few(job, Enrolled, Held), NEW p \in Handlers, ApproveHeld(p) \/ FillHeld(p)
  PROVE  Few(job', Enrolled', Held')
<1>1. job \in [Handlers -> Job] /\ job[p] \in Job
  BY DEF TypeOK
<1>2. Enrolled' = Enrolled /\ Held' = Held
  BY DEF ApproveHeld, FillHeld, CountHeld, request, enrollment, Enrolled, Held
<1>3. CountHeld(p, "hold") \/ CountHeld(p, "next")
  BY DEF ApproveHeld, FillHeld
<1>4. Continue(p)
  BY DEF Continue
<1>5. CASE NoRoom(Taken(job[p].count))
  <2>1. job'[p].at = "idle"
    BY <1>1, <1>3, <1>5 DEF CountHeld, Finish, Idle
  <2> QED BY <1>2, <1>4, <2>1, NoNewPromise DEF Claims, Promised
<1>6. CASE ~NoRoom(Taken(job[p].count))
  <2>1. job[p].count \in Nat /\ Cardinality(Enrolled) <= job[p].count
    BY <1>1 DEF Job, Counted, BetweenCounts, ApproveHeld, FillHeld, At
  <2>2. Cap > 0 => Cardinality(Enrolled \cup Held) + Cardinality(Handlers) < Cap + Cardinality(Handlers)
    BY <1>6, <2>1, SeatsFinite, RoomLeft DEF Taken
  <2>3. Claiming(job') \cup Seeking(job') \subseteq Handlers
    BY DEF Claiming, Seeking
  <2>4. Cap > 0 => Few(job', Enrolled, Held)
    BY <2>2, <2>3, SeatsFinite, FreshCheck
  <2>5. Few(job', Enrolled, Held)
    BY <2>4 DEF Few
  <2> QED BY <1>2, <2>5
<1> QED BY <1>5, <1>6

\* enroll's decision: a seat its holder has, a seat found free, or the waiting list.
LEMMA DecisionPromises ==
  ASSUME TypeOK, Counted, NoneForced, Few(job, Enrolled, Held), NEW p \in Handlers, EnrollHeld(p)
  PROVE  Few(job', Enrolled', Held')
<1> DEFINE u == job[p].user
           n == job[p].count
<1>1. job \in [Handlers -> Job] /\ job[p] \in Job
  BY DEF TypeOK
<1>2. Enrolled' = Enrolled /\ Held' = Held
  BY DEF EnrollHeld, request, enrollment, Enrolled, Held
<1>3. Continue(p)
  BY DEF Continue
<1>4. job'[p].at = "write" /\ job'[p].give = Decision(u, job[p].force, n) /\ job'[p].user = u
  BY <1>1 DEF EnrollHeld, Job
<1>5. CASE u \in Held
  <2>1. Seat(job'[p]) \in Held
    BY <1>4, <1>5 DEF Seat
  <2> QED BY <1>2, <1>3, <1>4, <2>1, NoNewPromise DEF Promised
<1>6. CASE u \notin Held /\ job'[p].give # "enrolled"
  <2>1. ~Claims(job'[p])
    BY <1>4, <1>6 DEF Claims
  <2> QED BY <1>2, <1>3, <1>4, <2>1, NoNewPromise DEF Promised
<1>7. CASE u \notin Held /\ job'[p].give = "enrolled"
  <2>1. Held \ {u} = Held
    BY <1>7
  <2>2. ~NoRoom(n + Cardinality(Held))
    BY <1>4, <1>7, <2>1 DEF Decision, NoneForced
  <2>3. n \in Nat /\ Cardinality(Enrolled) <= n
    BY <1>1 DEF Job, Counted, BetweenCounts, EnrollHeld, At
  <2>4. Cap > 0 => Cardinality(Enrolled \cup Held) + Cardinality(Handlers) < Cap + Cardinality(Handlers)
    BY <2>2, <2>3, SeatsFinite, RoomLeft
  <2>5. Claiming(job') \cup Seeking(job') \subseteq Handlers
    BY DEF Claiming, Seeking
  <2>6. Cap > 0 => Few(job', Enrolled, Held)
    BY <2>4, <2>5, SeatsFinite, FreshCheck
  <2>7. Few(job', Enrolled, Held)
    BY <2>6 DEF Few
  <2> QED BY <1>2, <2>7
<1> QED BY <1>5, <1>6, <1>7

\* Who looks for a waiter claims a seat for the one he finds.
LEMMA WaiterPromised ==
  ASSUME TypeOK, Few(job, Enrolled, Held), NEW p \in Handlers, FillNext(p)
  PROVE  Few(job', Enrolled', Held')
<1>1. job \in [Handlers -> Job] /\ job[p] \in Job
  BY DEF TypeOK
<1>2. Enrolled' = Enrolled /\ Held' = Held
  BY DEF FillNext, request, enrollment, Enrolled, Held
<1>3. Continue(p)
  BY DEF Continue
<1>4. CASE job'[p].at # "promote"
  <2>1. job'[p].at \in {"idle", "reopen"}
    BY <1>1, <1>4 DEF FillNext, Finish, Goto, Idle, Job
  <2> QED BY <1>2, <1>3, <2>1, NoNewPromise DEF Claims, Promised
<1>5. CASE job'[p].at = "promote"
  <2>1. PICK u : u = job'[p].next
    OBVIOUS
  <2>2. \A q \in Handlers \ {p} : job'[q] = job[q]
    BY <1>3, OthersKeep
  <2>3. job[p].at = "next"
    BY DEF FillNext, At
  <2>4. Promised(job', Enrolled, Held) \subseteq Promised(job, Enrolled, Held) \cup {u}
    BY <1>5, <2>1, <2>2 DEF Promised, Claimed, Claiming, Seat
  <2>5. Seeking(job') = Seeking(job) \ {p} /\ p \in Seeking(job)
    BY <1>5, <2>2, <2>3 DEF Seeking
  <2>6. PICK P, Q, S, T : /\ P = Promised(job, Enrolled, Held) /\ Q = Promised(job', Enrolled, Held)
                          /\ S = Seeking(job) /\ T = Seeking(job')
    OBVIOUS
  <2>7. IsFiniteSet(P) /\ Cardinality(P) \in Nat /\ IsFiniteSet(S) /\ Cardinality(S) \in Nat
    BY <2>6, SeatsFinite, PromisedFinite
  <2>8. IsFiniteSet(P \cup {u}) /\ Cardinality(P \cup {u}) <= Cardinality(P) + 1
    <3>1. IsFiniteSet(P \cup {u}) /\ Cardinality(P \cup {u}) = IF u \in P THEN Cardinality(P) ELSE Cardinality(P) + 1
      BY <2>7, FS_AddElement
    <3> QED BY <2>7, <3>1
  <2>9. Cardinality(Q) <= Cardinality(P \cup {u}) /\ Cardinality(Q) \in Nat /\ Cardinality(P \cup {u}) \in Nat
    BY <2>4, <2>6, <2>8, FS_Subset, FS_CardinalityType
  <2>10. Cardinality(T) = Cardinality(S) - 1
    BY <2>5, <2>6, <2>7, FS_RemoveElement
  <2>11. Cap > 0 => Cardinality(P) + Cardinality(S) < Cap + Cardinality(Handlers)
    BY <2>6 DEF Few
  <2>12. Cardinality(Handlers) \in Nat
    BY HandlersAssumption, FS_CardinalityType
  <2>13. Cap > 0 => Cardinality(Q) + Cardinality(T) < Cap + Cardinality(Handlers)
    BY <2>7, <2>8, <2>9, <2>10, <2>11, <2>12, CapAssumption
  <2>14. Few(job', Enrolled, Held)
    BY <2>6, <2>13 DEF Few
  <2> QED BY <1>2, <2>14
<1> QED BY <1>4, <1>5

\* A purchase is within the capacity by its own second count, and its handler is done.
LEMMA PurchaseFits ==
  ASSUME TypeOK, Counted, Few(job, Enrolled, Held), NEW p \in Handlers, NEW o \in Orders, CheckoutTx(p, o)
  PROVE  Few(job', Enrolled', Held')
<1> DEFINE u == job[p].user
           n == job[p].count
           W == Handlers \ {p}
<1>1. job \in [Handlers -> Job] /\ job[p] \in Job /\ status \in [Users -> Statuses]
  BY DEF TypeOK
<1>2. Enrolled' = Enrolled
  BY DEF CheckoutTx, enrollment, Enrolled
<1>3. Held' \subseteq Held \cup {u}
  BY <1>1 DEF CheckoutTx, Hold, Held
<1>4. Continue(p) /\ job'[p] = Idle
  BY <1>1 DEF CheckoutTx, Finish, Continue
<1>5. n \in Nat /\ Cardinality(Enrolled) <= n /\ (Cap > 0 => n + Cardinality(Held \cup {u}) <= Cap)
  <2>1. n \in Nat /\ Cardinality(Enrolled) <= n
    BY <1>1 DEF Job, Counted, BetweenCounts, CheckoutTx, At
  <2>2. IsFiniteSet(Held \cup {u}) /\ Cardinality(Held \cup {u}) \in Nat
    BY SeatsFinite, FS_AddElement, FS_CardinalityType
  <2> QED BY <2>1, <2>2, CapAssumption DEF CheckoutTx, Overfull
<1>6. IsFiniteSet(Held \cup {u}) /\ Cardinality(Held \cup {u}) \in Nat
  BY SeatsFinite, FS_AddElement, FS_CardinalityType
<1>7. Claiming(job') \cup Seeking(job') \subseteq W
  BY <1>4 DEF Claiming, Seeking, Claims, Idle
<1>8. Cardinality(W) = Cardinality(Handlers) - 1 /\ Cardinality(Handlers) \in Nat /\ W \in SUBSET Handlers
  BY HandlersAssumption, FS_RemoveElement, FS_CardinalityType
<1>9. ASSUME Cap > 0 PROVE Few(job', Enrolled', Held')
  <2>1. PICK H : H = Held'
    OBVIOUS
  <2>2. IsFiniteSet(Enrolled) /\ Cardinality(Enrolled) \in Nat
    BY SeatsFinite
  <2>3. IsFiniteSet(H) /\ Cardinality(H) <= Cardinality(Held \cup {u}) /\ Cardinality(H) \in Nat
    BY <1>3, <1>6, <2>1, FS_Subset, FS_CardinalityType
  <2>4. /\ IsFiniteSet(Enrolled \cup H) /\ Cardinality(Enrolled \cup H) \in Nat
        /\ Cardinality(Enrolled \cup H) <= Cardinality(Enrolled) + Cardinality(H)
    BY <2>2, <2>3, UnionBound, FS_CardinalityType
  <2> HIDE DEF W, n, u
  <2>5. Cardinality(Enrolled \cup H) + Cardinality(W) < Cap + Cardinality(Handlers)
    BY <1>5, <1>6, <1>8, <1>9, <2>2, <2>3, <2>4, CapAssumption
  <2>6. Few(job', Enrolled, H)
    BY <1>7, <1>8, <1>9, <2>2, <2>3, <2>5, FreshCheck
  <2> QED BY <1>2, <2>1, <2>6
<1> QED BY <1>9 DEF Few

\* The writes that give what was claimed.
LEMMA ClaimGiven ==
  ASSUME TypeOK, Few(job, Enrolled, Held), NEW p \in Handlers,
         EnrollWrite(p) \/ FillPromote(p) \/ \E o \in Orders : ApproveTx(p, o)
  PROVE  Few(job', Enrolled', Held')
<1>1. /\ job \in [Handlers -> Job] /\ job[p] \in Job
      /\ status \in [Users -> Statuses] /\ enr \in [Users -> Enrollments]
  BY DEF TypeOK
<1>2. Claims(job[p]) => Seat(job[p]) \in Promised(job, Enrolled, Held)
  BY DEF Promised, Claimed, Claiming
<1>3. Continue(p)
  BY DEF Continue
<1>4. CASE \E o \in Orders : ApproveTx(p, o)
  <2>1. Seat(job[p]) = job[p].user /\ Claims(job[p])
    BY <1>4 DEF ApproveTx, At, Seat, Claims
  <2>2. Enrolled' = Enrolled /\ Held' \subseteq Held \cup {job[p].user} /\ job'[p] = Idle
    BY <1>1, <1>4 DEF ApproveTx, Hold, Finish, enrollment, Enrolled, Held
  <2>3. ~Claims(job'[p]) /\ job'[p].at # "next"
    BY <2>2 DEF Idle, Claims
  <2>4. Enrolled' \subseteq Promised(job, Enrolled, Held) /\ Held' \subseteq Promised(job, Enrolled, Held)
    BY <1>2, <2>1, <2>2 DEF Promised
  <2> QED BY <1>3, <2>3, <2>4, NoNewPromise
<1>5. CASE FillPromote(p)
  <2>1. Seat(job[p]) = job[p].next /\ Claims(job[p])
    BY <1>5 DEF FillPromote, At, Seat, Claims
  <2>2. Held' = Held /\ Enrolled' \subseteq Enrolled \cup {job[p].next} /\ job'[p] = Idle
    BY <1>1, <1>5 DEF FillPromote, Finish, request, Enrolled, Held
  <2>3. ~Claims(job'[p]) /\ job'[p].at # "next"
    BY <2>2 DEF Idle, Claims
  <2>4. Enrolled' \subseteq Promised(job, Enrolled, Held) /\ Held' \subseteq Promised(job, Enrolled, Held)
    BY <1>2, <2>1, <2>2 DEF Promised
  <2> QED BY <1>3, <2>3, <2>4, NoNewPromise
<1>6. CASE EnrollWrite(p)
  <2>1. Seat(job[p]) = job[p].user /\ (job[p].give = "enrolled" => Claims(job[p]))
    BY <1>6 DEF EnrollWrite, At, Seat, Claims
  <2>2. job'[p].at \in {"idle", "count"}
    BY <1>1, <1>6 DEF EnrollWrite, Refuse, Finish, Goto, Idle, Job
  <2>3. /\ Held' = Held
        /\ Enrolled' \subseteq Enrolled \cup (IF job[p].give = "enrolled" THEN {job[p].user} ELSE {})
    BY <1>1, <1>6 DEF EnrollWrite, request, enrollment, Enrolled, Held
  <2>4. Enrolled' \subseteq Promised(job, Enrolled, Held) /\ Held' \subseteq Promised(job, Enrolled, Held)
    BY <1>2, <2>1, <2>3 DEF Promised
  <2> QED BY <1>3, <2>2, <2>4, NoNewPromise DEF Claims
<1> QED BY <1>4, <1>5, <1>6

\* No step of a handler promises more, whatever the others have under way.
LEMMA StepPromises ==
  ASSUME TypeOK, Counted, NoneForced, Few(job, Enrolled, Held), NEW p \in Handlers, Begin(p) \/ Continue(p)
  PROVE  Few(job', Enrolled', Held')
<1>1. CASE EnrollWrite(p) \/ FillPromote(p) \/ \E o \in Orders : ApproveTx(p, o)
  BY <1>1, ClaimGiven
<1>2. CASE \E o \in Orders : CheckoutTx(p, o)
  BY <1>2, PurchaseFits
<1>3. CASE ApproveHeld(p) \/ FillHeld(p)
  BY <1>3, CheckPasses
<1>4. CASE EnrollHeld(p)
  BY <1>4, DecisionPromises
<1>5. CASE FillNext(p)
  BY <1>5, WaiterPromised
<1>6. CASE ~(\/ EnrollWrite(p) \/ FillPromote(p) \/ ApproveHeld(p) \/ FillHeld(p) \/ EnrollHeld(p)
             \/ FillNext(p) \/ \E o \in Orders : ApproveTx(p, o) \/ CheckoutTx(p, o))
  <2>1. job'[p].at \notin {"hold", "write", "next", "promote"}
    BY <1>6, OwnPlace
  <2>2. Enrolled' \subseteq Enrolled /\ Held' \subseteq Held
    BY <1>6, OthersGiveNone
  <2>3. ~Claims(job'[p]) /\ job'[p].at # "next"
    BY <2>1 DEF Claims
  <2> QED BY <2>2, <2>3, NoNewPromise DEF Promised
<1> QED BY <1>1, <1>2, <1>3, <1>4, <1>5, <1>6

\* Without the staff's override no handler exceeds the capacity of its own accord.
LEMMA NeverForced ==
  ASSUME "override" \notin Doors, TypeOK, NoneForced, NEW p \in Handlers, Begin(p) \/ Continue(p)
  PROVE  NoneForced'
<1>1. job \in [Handlers -> Job] /\ job[p] \in Job
  BY DEF TypeOK
<1>2. ~job[p].force
  BY DEF NoneForced
<1>3. ~job'[p].force
  <2>1. CASE Begin(p)
    <3>1. CASE \E u \in Users : StaffEnroll(p, u)
      <4>1. PICK force \in BOOLEAN, u \in Users :
               ~force /\ job' = [job EXCEPT ![p] = [Idle EXCEPT !.at = "enroll", !.user = u, !.force = force]]
        BY <3>1 DEF StaffEnroll
      <4> QED BY <1>1, <4>1 DEF Idle
    <3>2. CASE \E o \in Orders : Settle(p, o)
      BY <1>1, <3>2 DEF Settle, Idle
    <3>3. ASSUME NEW u \in Users, Request(p, u) \/ RequestPlan(p, u) \/ Reject(p, u)
          PROVE  ~job'[p].force
      BY <1>1, <3>3 DEF Request, RequestPlan, Reject, Idle
    <3>4. ASSUME NEW u \in Users, Approve(p, u) \/ Checkout(p, u) \/ Drop(p, u)
          PROVE  ~job'[p].force
      BY <1>1, <3>4 DEF Approve, Checkout, Drop, Idle
    <3> QED BY <2>1, <3>1, <3>2, <3>3, <3>4 DEF Begin
  <2>2. CASE Continue(p)
    <3>1. CASE \/ RequestWrite(p) \/ RequestPlanWrite(p) \/ RejectWrite(p) \/ CheckoutRefused(p)
               \/ NoOrderLeft(p) \/ SettleReport(p) \/ FillReopen(p) \/ FillPromote(p)
               \/ \E o \in Orders : ApproveTx(p, o) \/ CheckoutTx(p, o)
      BY <1>1, <3>1 DEF RequestWrite, RequestPlanWrite, RejectWrite, CheckoutRefused, NoOrderLeft,
          SettleReport, FillReopen, FillPromote, ApproveTx, CheckoutTx, Finish, Idle
    <3>2. CASE ApproveHeld(p) \/ CheckoutHeld(p) \/ FillHeld(p)
      BY <1>1, <1>2, <3>2 DEF ApproveHeld, CheckoutHeld, FillHeld, CountHeld, Finish, Idle, Job
    <3>3. CASE CheckoutCount(p) \/ SettleTargets(p) \/ EnrollHeld(p) \/ FillCount(p)
      BY <1>1, <1>2, <3>3 DEF CheckoutCount, SettleTargets, EnrollHeld, FillCount, Job
    <3>4. CASE EnrollRead(p)
      BY <1>1, <1>2, <3>4 DEF EnrollRead, Refuse, AfterEnroll, Finish, Goto, Idle, Job
    <3>5. CASE EnrollWrite(p)
      BY <1>1, <1>2, <3>5 DEF EnrollWrite, Refuse, Finish, Goto, Idle, Job
    <3>6. CASE EnrollCount(p) \/ EnrollLabel(p)
      BY <1>1, <1>2, <3>6 DEF EnrollCount, EnrollLabel, AfterEnroll, Finish, Goto, Idle, Job
    <3>7. CASE FillNext(p)
      BY <1>1, <1>2, <3>7 DEF FillNext, Finish, Goto, Idle, Job
    <3> QED BY <2>2, <3>1, <3>2, <3>3, <3>4, <3>5, <3>6, <3>7 DEF Continue
  <2> QED BY <2>1, <2>2
<1> QED BY <1>3, OthersKeep DEF NoneForced

\* OverbookedByFew through every door but the override, for any learners, orders, handlers
\* and capacity: checks that pass at the same time cost a seat each, and no step after them
\* (a settlement, a promotion, a cancelling, a late payment) adds to what they cost.
THEOREM RacesOverbookByFew == ASSUME "override" \notin Doors PROVE CalmSpec => []OverbookedByFew
<1> DEFINE Inv == TypeOK /\ Counted /\ NoneForced /\ Few(job, Enrolled, Held)
<1>1. Init => Inv
  <2> SUFFICES ASSUME Init PROVE Inv
    OBVIOUS
  <2>1. TypeOK
    BY IdleTyped, StaffAssumption DEF Init, TypeOK, Statuses, Enrollments, Outcomes
  <2>2. Counted /\ NoneForced
    BY DEF Init, Counted, BetweenCounts, NoneForced, Idle
  <2>3. Promised(job, Enrolled, Held) = {} /\ Seeking(job) = {}
    BY DEF Init, Promised, Claimed, Claiming, Claims, Seeking, Enrolled, Held, Idle
  <2>4. Cardinality(Handlers) \in Nat
    BY HandlersAssumption, FS_CardinalityType
  <2>5. Few(job, Enrolled, Held)
    BY <2>3, <2>4, FS_EmptySet, CapAssumption DEF Few
  <2> QED BY <2>1, <2>2, <2>5
<1>2. Inv /\ TypeOK' /\ [Next /\ Calm]_vars => Inv'
  <2> SUFFICES ASSUME Inv, TypeOK', [Next /\ Calm]_vars PROVE Inv'
    OBVIOUS
  <2>1. Counted'
    BY CalmCounts
  <2>2. ASSUME NEW p \in Handlers, Begin(p) \/ Continue(p)
        PROVE  NoneForced' /\ Few(job', Enrolled', Held')
    BY <2>2, NeverForced, StepPromises
  <2>3. ASSUME UNCHANGED job, Enrolled' \subseteq Enrolled, Held' \subseteq Held
        PROVE  NoneForced' /\ Few(job', Enrolled', Held')
    <3>1. NoneForced'
      BY <2>3 DEF NoneForced
    <3>2. Promised(job', Enrolled', Held') \subseteq Promised(job, Enrolled, Held)
      BY <2>3 DEF Promised
    <3>3. Seeking(job') \subseteq Seeking(job)
      BY <2>3
    <3> QED BY <3>1, <3>2, <3>3, SeatsFinite, FewerPromised
  <2>4. ASSUME (\E o \in Orders : Cancel(o)) \/ (\E u \in Users : Bar(u)) \/ UNCHANGED vars
        PROVE  UNCHANGED job /\ Enrolled' \subseteq Enrolled /\ Held' \subseteq Held
    <3>1. CASE \E o \in Orders : Cancel(o)
      BY <3>1 DEF Cancel, Released, enrollment, Enrolled, Held, TypeOK
    <3>2. CASE (\E u \in Users : Bar(u)) \/ UNCHANGED vars
      BY <3>2 DEF Bar, vars, request, enrollment, Enrolled, Held
    <3> QED BY <2>4, <3>1, <3>2
  <2> QED BY <2>1, <2>2, <2>3, <2>4 DEF Next
<1>3. Inv => OverbookedByFew
  <2> SUFFICES ASSUME Inv, Cap > 0 PROVE Cardinality(Enrolled \cup Held) < Cap + Cardinality(Handlers)
    BY DEF OverbookedByFew
  <2> DEFINE P == Promised(job, Enrolled, Held)
  <2>1. IsFiniteSet(P) /\ Cardinality(P) \in Nat /\ Cardinality(Seeking(job)) \in Nat
    BY SeatsFinite, PromisedFinite
  <2>2. Enrolled \cup Held \in SUBSET P
    BY DEF Promised
  <2>3. Cardinality(P) + Cardinality(Seeking(job)) < Cap + Cardinality(Handlers)
    BY DEF Few
  <2> HIDE DEF P, Inv
  <2>4. Cardinality(Enrolled \cup Held) <= Cardinality(P) /\ Cardinality(Enrolled \cup Held) \in Nat
    BY <2>1, <2>2, FS_Subset, FS_CardinalityType
  <2>5. Cardinality(Handlers) \in Nat
    BY HandlersAssumption, FS_CardinalityType
  <2> QED BY <2>1, <2>3, <2>4, <2>5, CapAssumption
<1>4. CalmSpec => Spec
  BY PTL DEF CalmSpec, Spec
<1> QED BY <1>1, <1>2, <1>3, <1>4, TypeCorrect, PTL DEF CalmSpec

=============================================================================
