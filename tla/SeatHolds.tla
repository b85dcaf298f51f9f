----------------------------- MODULE SeatHolds -----------------------------
(***************************************************************************)
(* The seats of one cohort: who holds one (EnrollmentRequest, "seat_held"), *)
(* who is enrolled and who waits (Enrollment), and the orders that pay.     *)
(* The doors to a seat are the learner's request and its approval or        *)
(* rejection, the direct purchase (checkout), the settlement of a paid      *)
(* order, the staff's enrolment, and a withdrawal, which lets a waiter in.  *)
(*                                                                         *)
(* OrderPayments shows how an order comes to be paid or cancelled; here     *)
(* that is one step (the claim, the cancelling transaction).                *)
(*                                                                         *)
(* A handler reads, and writes later what it made of it: a write by a row's *)
(* id does not look at the row again.  The two counts of a check, of the    *)
(* enrolled and of the held, are two queries and two steps, in the order    *)
(* the code sends them (counted the other way round a seat that is being    *)
(* settled counts twice, never not at all).  Only checkout's transaction    *)
(* counts after its own write, under the lock on invoice numbers.           *)
(* Transactions are READ COMMITTED: a query inside one sees what others     *)
(* have committed since it began.                                           *)
(***************************************************************************)
EXTENDS Naturals, FiniteSets

CONSTANTS
  Users,      \* learners
  Orders,     \* order ids
  Buyer,      \* the learner an order is for
  Handlers,   \* requests being served at one time
  Doors,      \* the operations in use in an instance
  Cap,        \* the cohort's capacity; 0: no limit
  MaxStaff,   \* bound: enrolments by the staff
  None        \* no learner, no order

ASSUME UsersAssumption == IsFiniteSet(Users)
ASSUME HandlersAssumption == IsFiniteSet(Handlers)
ASSUME BuyerAssumption == Buyer \in [Orders -> Users]
ASSUME CapAssumption   == Cap \in Nat
ASSUME StaffAssumption == MaxStaff \in Nat
ASSUME NoneAssumption  == None \notin Users \cup Orders
ASSUME DoorsAssumption ==
  Doors \subseteq {"request", "plan", "approve", "reject", "checkout", "cancel", "settle",
                   "late", "staff", "override", "drop", "bar"}

VARIABLES
  status,    \* EnrollmentRequest.status of a learner for this cohort
  heldBy,    \* EnrollmentRequest.orderId
  enr,       \* Enrollment.status
  since,     \* Enrollment.createdAt
  joined,    \* when the learner was put on the waiting list (the code keeps no such field)
  label,     \* Cohort.status: "open" or "full"
  barred,    \* those whom enroll refuses: registration is closed to them
  order,     \* Order.status
  outcome,   \* what the settlement of an order reports of its seat
  job,       \* what each handler is doing
  clock,     \* the order in which enrolments are written
  staffed    \* enrolments by the staff so far

request    == <<status, heldBy>>
enrollment == <<enr, since, joined>>
vars == <<status, heldBy, enr, since, joined, label, barred, order, outcome, job, clock, staffed>>

Statuses    == {"none", "pending", "seat_held", "rejected", "cancelled", "converted"}
Enrollments == {"none", "enrolled", "waitlisted", "dropped"}
Outcomes    == {"none", "converted", "waitlisted", "refused", "failed"}
Places      == {"idle", "request", "plan", "reject", "approve", "hold", "cart", "checkout", "recount",
                "targets", "enroll", "decide", "write", "count", "label", "report",
                "fill", "room", "next", "reopen", "promote"}

\* user: the learner at hand; next: the waiter found; row: an enrolment or request row was
\* read; give: the enrolment decided on; open: Cohort.status as read; held: the order's hold
\* was found; force: capacity may be exceeded; count: the enrolled, as counted.
Job == [at : Places, user : Users \cup {None}, ord : Orders \cup {None}, next : Users \cup {None},
        row : BOOLEAN, give : Enrollments, open : BOOLEAN, held : BOOLEAN, force : BOOLEAN,
        count : Nat]

Idle == [at |-> "idle", user |-> None, ord |-> None, next |-> None,
         row |-> FALSE, give |-> "none", open |-> FALSE, held |-> FALSE, force |-> FALSE,
         count |-> 0]

TypeOK ==
  /\ status  \in [Users -> Statuses]
  /\ heldBy  \in [Users -> Orders \cup {None}]
  /\ enr     \in [Users -> Enrollments]
  /\ since   \in [Users -> Nat]
  /\ joined  \in [Users -> Nat]
  /\ label   \in {"open", "full"}
  /\ order   \in [Orders -> {"none", "pending_payment", "paid", "cancelled"}]
  /\ barred  \subseteq Users
  /\ outcome \in [Orders -> Outcomes]
  /\ job     \in [Handlers -> Job]
  /\ clock   \in Nat
  /\ staffed \in 0..MaxStaff

Init ==
  /\ status  = [u \in Users |-> "none"]
  /\ heldBy  = [u \in Users |-> None]
  /\ enr     = [u \in Users |-> "none"]
  /\ since   = [u \in Users |-> 0]
  /\ joined  = [u \in Users |-> 0]
  /\ label   = "open"
  /\ barred  = {}
  /\ order   = [o \in Orders |-> "none"]
  /\ outcome = [o \in Orders |-> "none"]
  /\ job     = [p \in Handlers |-> Idle]
  /\ clock   = 0
  /\ staffed = 0

----------------------------------------------------------------------------
(* What the handlers read, each with the slip a change could make of it. *)

Enrolled == {u \in Users : enr[u] = "enrolled"}
Held     == {u \in Users : status[u] = "seat_held"}
Waiting  == {u \in Users : enr[u] = "waitlisted"}

NoRoom(n) == Cap > 0 /\ n >= Cap

\* The seats taken, when n enrolled were counted before.
Taken(n) == n + Cardinality(Held)

\* requestEnrollment: one request of a learner at a time, and none over a seat of his.
Requestable(u) == status[u] \in {"none", "rejected", "cancelled"}

\* cohortBlocker: a hold tied to a live order stands in the way of a second one.
Blocked(u) ==
  \/ enr[u] = "enrolled"
  \/ /\ status[u] = "seat_held"
     /\ heldBy[u] # None
     /\ order[heldBy[u]] \in {"pending_payment", "paid"}

\* checkout's second count: n enrolled, and the held with its own hold among them.
Overfull_NotCounted(u, n) == FALSE
Overfull(u, n) == Cap > 0 /\ n + Cardinality(Held \cup {u}) > Cap

\* nextInvoiceNumber: its lock is kept from the order's creation to the commit.
NumbersFree == \A q \in Handlers : job[q].at # "recount"

Cancellable_AsRead(o) == order[o] \in {"pending_payment", "paid"}
Cancellable(o)        == order[o] = "pending_payment"

Released_None(o) == {}
Released(o)      == {u \in Held : heldBy[u] = o}

\* enroll's decision, n enrolled counted: the holds of others are taken seats; who holds
\* one gets his.
Decision_Pending(u, force, n) ==
  IF NoRoom(n + Cardinality(Held \ {u})) THEN "pending" ELSE "enrolled"
Decision_NoOwnHold(u, force, n) ==
  IF NoRoom(n + Cardinality(Held \ {u})) /\ ~force THEN "waitlisted" ELSE "enrolled"
Decision(u, force, n) ==
  IF NoRoom(n + Cardinality(Held \ {u})) /\ u \notin Held /\ ~force THEN "waitlisted" ELSE "enrolled"

At(p, place)   == job[p].at = place
Goto(p, place) == job' = [job EXCEPT ![p].at = place]
Finish(p)      == job' = [job EXCEPT ![p] = Idle]

----------------------------------------------------------------------------
(* The learner's request, alone (requestEnrollment) or as part of his plan   *)
(* (requestPlanEnrollment), and its rejection.  Each tests what it read and  *)
(* writes by the row's id.                                                   *)

Request(p, u) ==
  /\ "request" \in Doors /\ At(p, "idle")
  /\ Requestable(u) /\ u \notin barred
  /\ job' = [job EXCEPT ![p] = [Idle EXCEPT !.at = "request", !.user = u, !.row = status[u] # "none"]]
  /\ UNCHANGED <<request, enrollment, label, barred, order, outcome, clock, staffed>>

\* A row that appeared meanwhile makes the creation fail (the key is learner and cohort).
RequestWrite(p) ==
  LET u == job[p].user IN
  /\ At(p, "request")
  /\ status' = IF job[p].row \/ status[u] = "none" THEN [status EXCEPT ![u] = "pending"] ELSE status
  /\ Finish(p)
  /\ UNCHANGED <<heldBy, enrollment, label, barred, order, outcome, clock, staffed>>

RequestPlan(p, u) ==
  /\ "plan" \in Doors /\ At(p, "idle")
  /\ status[u] \notin {"pending", "seat_held"}
  /\ enr[u] \notin {"enrolled", "waitlisted"} /\ u \notin barred
  /\ job' = [job EXCEPT ![p] = [Idle EXCEPT !.at = "plan", !.user = u]]
  /\ UNCHANGED <<request, enrollment, label, barred, order, outcome, clock, staffed>>

RequestPlanWrite(p) ==
  LET u == job[p].user IN
  /\ At(p, "plan")
  /\ status' = [status EXCEPT ![u] = "pending"]
  /\ heldBy' = [heldBy EXCEPT ![u] = None]
  /\ Finish(p)
  /\ UNCHANGED <<enrollment, label, barred, order, outcome, clock, staffed>>

Reject(p, u) ==
  /\ "reject" \in Doors /\ At(p, "idle")
  /\ status[u] = "pending"
  /\ job' = [job EXCEPT ![p] = [Idle EXCEPT !.at = "reject", !.user = u]]
  /\ UNCHANGED <<request, enrollment, label, barred, order, outcome, clock, staffed>>

RejectWrite(p) ==
  /\ At(p, "reject")
  /\ status' = [status EXCEPT ![job[p].user] = "rejected"]
  /\ Finish(p)
  /\ UNCHANGED <<heldBy, enrollment, label, barred, order, outcome, clock, staffed>>

----------------------------------------------------------------------------
(* The two ways to a hold: the approval (approveEnrollmentRequest,           *)
(* approvePlanRequests) and the purchase (checkout).  Both create the order  *)
(* and the hold in one transaction; both count the seats before it.          *)

Hold(u, o) ==
  /\ order[o] = "none"
  /\ Buyer[o] = u
  /\ order'  = [order EXCEPT ![o] = "pending_payment"]
  /\ status' = [status EXCEPT ![u] = "seat_held"]
  /\ heldBy' = [heldBy EXCEPT ![u] = o]

Approve(p, u) ==
  /\ "approve" \in Doors /\ At(p, "idle")
  /\ status[u] = "pending"
  /\ job' = [job EXCEPT ![p] = [Idle EXCEPT !.at = "approve", !.user = u, !.count = Cardinality(Enrolled)]]
  /\ UNCHANGED <<request, enrollment, label, barred, order, outcome, clock, staffed>>

\* The second count of a check that goes on to a place when there is room.
CountHeld(p, place) ==
  /\ IF NoRoom(Taken(job[p].count)) THEN Finish(p)
     ELSE job' = [job EXCEPT ![p].at = place, ![p].count = 0]
  /\ UNCHANGED <<request, enrollment, label, barred, order, outcome, clock, staffed>>

ApproveHeld(p) == At(p, "approve") /\ CountHeld(p, "hold")

ApproveTx(p, o) ==
  /\ At(p, "hold")
  /\ NumbersFree
  /\ Hold(job[p].user, o)
  /\ Finish(p)
  /\ UNCHANGED <<enrollment, label, barred, outcome, clock, staffed>>

Checkout(p, u) ==
  /\ "checkout" \in Doors /\ At(p, "idle")
  /\ ~Blocked(u) /\ u \notin barred
  /\ job' = [job EXCEPT ![p] = [Idle EXCEPT !.at = "cart", !.user = u, !.count = Cardinality(Enrolled)]]
  /\ UNCHANGED <<request, enrollment, label, barred, order, outcome, clock, staffed>>

CheckoutHeld(p) == At(p, "cart") /\ CountHeld(p, "checkout")

\* The transaction has written its order and its hold, which no one else sees yet.
CheckoutCount(p) ==
  /\ At(p, "checkout")
  /\ NumbersFree
  /\ job' = [job EXCEPT ![p].at = "recount", ![p].count = Cardinality(Enrolled)]
  /\ UNCHANGED <<request, enrollment, label, barred, order, outcome, clock, staffed>>

CheckoutTx(p, o) ==
  /\ At(p, "recount")
  /\ ~Overfull(job[p].user, job[p].count)
  /\ Hold(job[p].user, o)
  /\ Finish(p)
  /\ UNCHANGED <<enrollment, label, barred, outcome, clock, staffed>>

\* The transaction is rolled back when the second count is over the capacity.
CheckoutRefused(p) ==
  /\ At(p, "recount")
  /\ Overfull(job[p].user, job[p].count)
  /\ Finish(p)
  /\ UNCHANGED <<request, enrollment, label, barred, order, outcome, clock, staffed>>

\* Bound: the model has a few orders for each buyer, and gives up when they are used.
NoOrderLeft(p) ==
  /\ At(p, "recount") \/ At(p, "hold")
  /\ \A o \in Orders : Buyer[o] = job[p].user => order[o] # "none"
  /\ Finish(p)
  /\ UNCHANGED <<request, enrollment, label, barred, order, outcome, clock, staffed>>

\* The cancelling transaction, the owner's or the worker's.
Cancel(o) ==
  /\ "cancel" \in Doors
  /\ Cancellable(o)
  /\ order'  = [order EXCEPT ![o] = "cancelled"]
  /\ status' = [u \in Users |-> IF u \in Released(o) THEN "cancelled" ELSE status[u]]
  /\ heldBy' = [u \in Users |-> IF u \in Released(o) THEN None ELSE heldBy[u]]
  /\ UNCHANGED <<enrollment, label, barred, outcome, job, clock, staffed>>

\* Registration closes to a learner or opens again: the cohort ends or is cancelled, its
\* window passes (one after another for all its learners), his account is suspended.
Bar(u) ==
  /\ "bar" \in Doors
  /\ barred' = IF u \in barred THEN barred \ {u} ELSE barred \cup {u}
  /\ UNCHANGED <<request, enrollment, label, order, outcome, job, clock, staffed>>

----------------------------------------------------------------------------
(* The settlement of an order (settleOrder): claim, find the hold, enrol, and *)
(* turn the hold into "converted".  Money may come late, for a cancelled order. *)

Settle(p, o) ==
  /\ "settle" \in Doors /\ At(p, "idle")
  /\ order[o] = "pending_payment" \/ (order[o] = "cancelled" /\ "late" \in Doors)
  /\ order' = [order EXCEPT ![o] = "paid"]
  /\ job'   = [job EXCEPT ![p] = [Idle EXCEPT !.at = "targets", !.user = Buyer[o], !.ord = o]]
  /\ UNCHANGED <<request, enrollment, label, barred, outcome, clock, staffed>>

\* Whether its hold is there or not, the order's item names the seat that was paid for.
SettleTargets(p) ==
  /\ At(p, "targets")
  /\ job' = [job EXCEPT ![p].at = "enroll", ![p].held = job[p].user \in Released(job[p].ord)]
  /\ UNCHANGED <<request, enrollment, label, barred, order, outcome, clock, staffed>>

\* The hold is converted whatever has become of it; a waitlisted buyer is a failure.
SettleReport(p) ==
  LET u == job[p].user IN
  /\ At(p, "report")
  /\ IF job[p].give = "waitlisted"
     THEN /\ outcome' = [outcome EXCEPT ![job[p].ord] = "waitlisted"]
          /\ UNCHANGED status
     ELSE /\ outcome' = [outcome EXCEPT ![job[p].ord] = "converted"]
          /\ status'  = IF job[p].held THEN [status EXCEPT ![u] = "converted"] ELSE status
  /\ Finish(p)
  /\ UNCHANGED <<heldBy, enrollment, label, barred, order, clock, staffed>>

----------------------------------------------------------------------------
(* enroll, for the settlement and for the staff: refuse whom registration   *)
(* is closed to, look for a row, count the seats, write the row, count      *)
(* again and mark the cohort full.                                          *)

StaffEnroll(p, u) ==
  /\ "staff" \in Doors /\ At(p, "idle")
  /\ staffed < MaxStaff
  /\ staffed' = staffed + 1
  /\ \E force \in BOOLEAN :
       /\ force => "override" \in Doors
       /\ job' = [job EXCEPT ![p] = [Idle EXCEPT !.at = "enroll", !.user = u, !.force = force]]
  /\ UNCHANGED <<request, enrollment, label, barred, order, outcome, clock>>

\* enroll throws: the settlement reports why and leaves the hold as it is.
Refuse(p, why) ==
  /\ outcome' = IF job[p].ord = None THEN outcome ELSE [outcome EXCEPT ![job[p].ord] = why]
  /\ Finish(p)

AfterEnroll(p) == IF job[p].ord = None THEN Finish(p) ELSE Goto(p, "report")

\* A learner with a row already, waitlisted or enrolled, is refused; the settlement
\* takes that for a seat that was given before.
EnrollRead(p) ==
  LET u == job[p].user IN
  /\ At(p, "enroll")
  /\ \/ /\ u \in barred
        /\ Refuse(p, "refused")
     \/ /\ u \notin barred /\ enr[u] \in {"enrolled", "waitlisted"}
        /\ AfterEnroll(p)
        /\ UNCHANGED outcome
     \/ /\ u \notin barred /\ enr[u] \in {"none", "dropped"}
        /\ job' = [job EXCEPT ![p].at = "decide", ![p].row = enr[u] # "none",
                              ![p].open = label = "open", ![p].count = Cardinality(Enrolled)]
        /\ UNCHANGED outcome
  /\ UNCHANGED <<request, enrollment, label, barred, order, clock, staffed>>

\* The holds of others, and whether the learner has one.
EnrollHeld(p) ==
  /\ At(p, "decide")
  /\ job' = [job EXCEPT ![p].at = "write", ![p].count = 0,
                        ![p].give = Decision(job[p].user, job[p].force, job[p].count)]
  /\ UNCHANGED <<request, enrollment, label, barred, order, outcome, clock, staffed>>

\* A row that appeared meanwhile makes the creation fail, and the settlement report it.
EnrollWrite(p) ==
  LET u == job[p].user IN
  /\ At(p, "write")
  /\ IF job[p].row \/ enr[u] = "none"
     THEN /\ clock'  = clock + 1
          /\ enr'    = [enr EXCEPT ![u] = job[p].give]
          /\ since'  = IF enr[u] = "none" THEN [since EXCEPT ![u] = clock'] ELSE since
          /\ joined' = [joined EXCEPT ![u] = clock']
          /\ Goto(p, "count")
          /\ UNCHANGED outcome
     ELSE /\ Refuse(p, "failed")
          /\ UNCHANGED <<enrollment, clock>>
  /\ UNCHANGED <<request, label, barred, order, staffed>>

EnrollCount(p) ==
  /\ At(p, "count")
  /\ IF NoRoom(Cardinality(Enrolled)) /\ job[p].open THEN Goto(p, "label") ELSE AfterEnroll(p)
  /\ UNCHANGED <<request, enrollment, label, barred, order, outcome, clock, staffed>>

EnrollLabel(p) ==
  /\ At(p, "label")
  /\ label' = "full"
  /\ AfterEnroll(p)
  /\ UNCHANGED <<request, enrollment, barred, order, outcome, clock, staffed>>

----------------------------------------------------------------------------
(* A withdrawal (drop), by the staff or with a refund, and the waiter it lets  *)
(* in (fillSeatFromWaitlist): count, find the first in line, promote by id.   *)

Drop(p, u) ==
  /\ "drop" \in Doors /\ At(p, "idle")
  /\ enr[u] # "none"
  /\ enr' = [enr EXCEPT ![u] = "dropped"]
  /\ job' = [job EXCEPT ![p] = [Idle EXCEPT !.at = "fill"]]
  /\ UNCHANGED <<request, since, joined, label, barred, order, outcome, clock, staffed>>

FillCount(p) ==
  /\ At(p, "fill")
  /\ job' = [job EXCEPT ![p].at = "room", ![p].open = label = "open", ![p].count = Cardinality(Enrolled)]
  /\ UNCHANGED <<request, enrollment, label, barred, order, outcome, clock, staffed>>

FillHeld(p) == At(p, "room") /\ CountHeld(p, "next")

FillNext(p) ==
  /\ At(p, "next")
  /\ \/ \E u \in Waiting :
          /\ \A v \in Waiting : since[u] <= since[v]
          /\ job' = [job EXCEPT ![p].at = "promote", ![p].next = u]
     \/ /\ Waiting = {}
        /\ IF job[p].open THEN Finish(p) ELSE Goto(p, "reopen")
  /\ UNCHANGED <<request, enrollment, label, barred, order, outcome, clock, staffed>>

FillReopen(p) ==
  /\ At(p, "reopen")
  /\ label' = "open"
  /\ Finish(p)
  /\ UNCHANGED <<request, enrollment, barred, order, outcome, clock, staffed>>

\* The label is written when it differs from the one read at the start.
FillPromote(p) ==
  /\ At(p, "promote")
  /\ enr' = [enr EXCEPT ![job[p].next] = "enrolled"]
  /\ LET full == NoRoom(Cardinality(Enrolled \cup {job[p].next})) IN
     label' = IF full = job[p].open THEN (IF full THEN "full" ELSE "open") ELSE label
  /\ Finish(p)
  /\ UNCHANGED <<request, since, joined, barred, order, outcome, clock, staffed>>

----------------------------------------------------------------------------
\* What a handler that has started goes on to do.
Continue(p) ==
  \/ RequestWrite(p) \/ RequestPlanWrite(p) \/ RejectWrite(p)
  \/ \E o \in Orders : ApproveTx(p, o) \/ CheckoutTx(p, o)
  \/ ApproveHeld(p) \/ CheckoutHeld(p) \/ CheckoutCount(p) \/ CheckoutRefused(p) \/ NoOrderLeft(p)
  \/ SettleTargets(p) \/ SettleReport(p)
  \/ EnrollRead(p) \/ EnrollHeld(p) \/ EnrollWrite(p) \/ EnrollCount(p) \/ EnrollLabel(p)
  \/ FillCount(p) \/ FillHeld(p) \/ FillNext(p) \/ FillReopen(p) \/ FillPromote(p)

Begin(p) ==
  \/ \E u \in Users : \/ Request(p, u) \/ RequestPlan(p, u) \/ Reject(p, u) \/ Approve(p, u)
                      \/ Checkout(p, u) \/ StaffEnroll(p, u) \/ Drop(p, u)
  \/ \E o \in Orders : Settle(p, o)

Next ==
  \/ \E p \in Handlers : Begin(p) \/ Continue(p)
  \/ \E o \in Orders : Cancel(o)
  \/ \E u \in Users : Bar(u)

Spec == Init /\ [][Next]_vars

\* A request once received runs on until it answers.
FairSpec == Spec /\ \A p \in Handlers : WF_vars(Continue(p))

\* Nobody is enrolled between the two counts of a check.
BetweenCounts(p) == job[p].at \in {"approve", "cart", "recount", "decide", "room"}
Calm == (\E p \in Handlers : BetweenCounts(p)) => Enrolled' \subseteq Enrolled
CalmSpec == Init /\ [][Next /\ Calm]_vars

----------------------------------------------------------------------------
(* Properties *)

\* A held seat is its holder's, for an order of his that is not cancelled, whichever
\* of the doors wrote the hold last and whatever they read before.
HeldForLiveOrder ==
  \A u \in Held :
    /\ heldBy[u] \in Orders
    /\ order[heldBy[u]] \in {"pending_payment", "paid"}
    /\ Buyer[heldBy[u]] = u

\* Two learners are never promised one seat: those enrolled and those who hold a seat
\* are within the capacity.
WithinCapacity == Cap > 0 => Cardinality(Enrolled \cup Held) <= Cap

\* No second order of a learner over a seat he already holds by one (cohortBlocker).
OneLiveOrder ==
  \A o, q \in Orders :
    order[o] = "pending_payment" /\ order[q] = "pending_payment" /\ Buyer[o] = Buyer[q] => o = q

\* The checks that nothing repeats after the write (approval, enrolment, promotion) may
\* pass several handlers at once; by the number of handlers, less one, is all they may
\* promise more than there is.
OverbookedByFew ==
  Cap > 0 => Cardinality(Enrolled \cup Held) < Cap + Cardinality(Handlers)

\* A buyer who paid for the seat he holds is enrolled, or he was refused by name (his
\* registration is closed) and the seat stays held for him by the order he paid: the
\* settlement never sends him to the waiting list, fails on his row or loses his seat.
PaidSeatGiven ==
  \A o \in Orders : outcome[o] # "none" =>
    \/ outcome[o] = "converted" /\ enr[Buyer[o]] = "enrolled"
    \/ /\ outcome[o] = "refused" /\ order[o] = "paid"
       /\ status[Buyer[o]] = "seat_held" /\ heldBy[Buyer[o]] = o

\* A hold ends with its order: by the cancelling of the order, or by its settlement.
HoldEndsWithOrder ==
  [][\A u \in Held :
       status'[u] # "seat_held" =>
         \/ status'[u] = "converted" /\ order[heldBy[u]] = "paid"
         \/ status'[u] = "cancelled" /\ order'[heldBy[u]] = "cancelled"
                                     /\ order[heldBy[u]] = "pending_payment"]_vars

\* The instances in which learners only buy, each with one order: for them PaidSeatGiven
\* and HoldEndsWithOrder hold of any number of learners, orders and handlers at once, and
\* WithinCapacity does in the steps of CalmSpec.
OnlyBuyers ==
  /\ Doors \subseteq {"checkout", "cancel", "settle", "bar"}
  /\ \A o, q \in Orders : Buyer[o] = Buyer[q] => o = q

\* What makes them inductive.  A settlement under way has its buyer's hold to itself,
\* finds no enrolment of his and decides on one.
Settling(p) == job[p].at \in {"targets", "enroll", "decide", "write", "count", "label", "report"}

SettlesOwnHold ==
  \A p \in Handlers : Settling(p) =>
    /\ job[p].ord \in Orders
    /\ job[p].user = Buyer[job[p].ord]
    /\ order[job[p].ord] = "paid"
    /\ outcome[job[p].ord] = "none"
    /\ status[job[p].user] = "seat_held"
    /\ heldBy[job[p].user] = job[p].ord
    /\ ~At(p, "targets") => job[p].held
    /\ job[p].at \in {"targets", "enroll", "decide", "write"} => enr[job[p].user] = "none" /\ ~job[p].row
    /\ job[p].at \in {"write", "count", "label", "report"} => job[p].give = "enrolled"
    /\ job[p].at \in {"count", "label", "report"} => enr[job[p].user] = "enrolled"
    /\ \A q \in Handlers : Settling(q) /\ job[q].ord = job[p].ord => q = p

\* Only those who paid are enrolled, and who has an order of his to pay holds a seat by it.
PaidOrHolding ==
  /\ \A p \in Handlers : job[p].at \in {"idle", "cart", "checkout", "recount"} \/ Settling(p)
  /\ \A u \in Users : enr[u] \in {"none", "enrolled"}
  /\ \A u \in Users : enr[u] = "enrolled" => \E o \in Orders : Buyer[o] = u /\ order[o] = "paid"
  /\ \A o \in Orders : order[o] = "pending_payment" =>
       status[Buyer[o]] = "seat_held" /\ heldBy[Buyer[o]] = o
  /\ \A o \in Orders : order[o] # "paid" => outcome[o] = "none"

BuyersInv == TypeOK /\ HeldForLiveOrder /\ SettlesOwnHold /\ PaidOrHolding /\ PaidSeatGiven

\* In calm steps no more are enrolled than a check under way has counted.
Counted == \A p \in Handlers : BetweenCounts(p) => Cardinality(Enrolled) <= job[p].count

\* When OneLiveOrder holds through every door: a learner's own calls, and what is done for
\* him, come one after another, whatever others do.
OwnTurns == \A p, q \in Handlers : p # q /\ job[p].user # None => job[p].user # job[q].user

\* What settleOrder says of itself: a buyer is told he has his seat only when he has it.
SeatReportedIsGiven ==
  [][\A o \in Orders :
       outcome[o] = "none" /\ outcome'[o] = "converted" => enr[Buyer[o]] # "waitlisted"]_vars

\* What fillSeatFromWaitlist says of itself: who waited first comes in first.
FirstToWaitIsFirst ==
  [][\A u, v \in Waiting : enr'[u] = "enrolled" /\ enr'[v] = "waitlisted" => joined[u] < joined[v]]_vars

\* What enroll tells a waiter: he hears as soon as a seat is free.
FreeSeat == ~NoRoom(Cardinality(Enrolled) + Cardinality(Held))
FreeSeatFindsWaiter == (FreeSeat /\ Waiting # {}) ~> (~FreeSeat \/ Waiting = {})

=============================================================================
