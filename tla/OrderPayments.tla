--------------------------- MODULE OrderPayments ---------------------------
(***************************************************************************)
(* The life of an order between its creation and its settlement, as the    *)
(* four doors that reach it see it: the buyer's payment (payOrder), the     *)
(* provider's signed event (handleWebhook), the question put to the         *)
(* provider (confirmWithProvider, asked by the returning buyer, by finance  *)
(* and by the worker) and the hand-recorded payment (recordManualPayment);  *)
(* against the two that cancel it: its owner (cancelOrder) and the worker   *)
(* (reclaimAbandonedOrders).                                                *)
(*                                                                         *)
(* The server takes no lock here.  A handler is a sequence of queries, and  *)
(* any other handler may run between two of them; only what the code puts   *)
(* in one $transaction, or in one conditional updateMany, is one step.  A   *)
(* step of a handler is an action below, its place in the handler is job.   *)
(* Reads that follow each other are one step where only the last can be     *)
(* stale by the time it is used.                                            *)
(***************************************************************************)
EXTENDS Naturals, FiniteSets

CONSTANTS
  Orders,       \* order ids; an order and its invoice are one to one
  Attempts,     \* payment rows and the provider's charges behind them
  Handlers,     \* HTTP requests being served at one time
  Worker,       \* the background worker: one instance, by an advisory lock
  TestAttempts, \* attempts made while the test provider is in force (a setting of the database)
  MaxCrashes,   \* bound: handlers that may be cut short
  None          \* no order, no attempt

ASSUME TestAssumption   == TestAttempts \subseteq Attempts
ASSUME CrashAssumption  == MaxCrashes \in Nat
ASSUME NoneAssumption   == None \notin Orders \cup Attempts
ASSUME WorkerAssumption == Worker \notin Handlers

VARIABLES
  order,     \* Order.status, and who cancelled it
  invoice,   \* Invoice.status
  hold,      \* EnrollmentRequest.status of the seat the order holds
  seat,      \* what the settlement made of it: an enrolment or a follow-up
  told,      \* "payment confirmed" messages sent to the buyer
  stale,     \* the order is older than the hold's term (CHECKOUT_HOLD_MS, TEAM_HOLD_MS)
  payFor,    \* the order an attempt pays for
  charge,    \* the provider's side of an attempt: its hosted page
  row,       \* Payment.status of an attempt
  fresh,     \* the pending payment row is younger than CHECKOUT_HOLD_MS
  event,     \* PaymentWebhookEvent of the attempt's success event
  job,       \* what each handler is doing
  crashes    \* handlers cut short so far

db       == <<order, invoice, hold, seat, told>>
payments == <<payFor, charge, row, fresh, event>>
vars     == <<order, invoice, hold, seat, told, stale, payFor, charge, row, fresh, event, job, crashes>>

Procs == Handlers \cup {Worker}

OrderStatus == {"none", "pending_payment", "paid", "cancelled"}
Places      == {"idle", "auto", "charge", "record", "match", "find", "move", "create", "finish",
                "confirm", "ask", "cancel", "manual", "settle", "seat", "notify"}
Doors       == {"none", "pay", "event", "confirm", "reclaim", "cancel", "manual"}

Job == [door : Doors, at : Places, ord : Orders \cup {None},
        att : Attempts \cup {None}, toAsk : SUBSET Attempts]

Idle == [door |-> "none", at |-> "idle", ord |-> None, att |-> None, toAsk |-> {}]

TypeOK ==
  /\ order   \in [Orders -> OrderStatus]
  /\ invoice \in [Orders -> {"none", "issued", "paid", "void"}]
  /\ hold    \in [Orders -> {"none", "seat_held", "converted", "cancelled"}]
  /\ seat    \in [Orders -> {"none", "enrolled", "failed"}]
  /\ told    \in [Orders -> Nat]
  /\ stale   \in [Orders -> BOOLEAN]
  /\ payFor  \in [Attempts -> Orders \cup {None}]
  /\ charge  \in [Attempts -> {"none", "open", "paid", "expired", "cash"}]
  /\ row     \in [Attempts -> {"none", "pending", "succeeded"}]
  /\ fresh   \in [Attempts -> BOOLEAN]
  /\ event   \in [Attempts -> {"none", "seen", "processed"}]
  /\ job     \in [Procs -> Job]
  /\ crashes \in 0..MaxCrashes

Init ==
  /\ order   = [o \in Orders |-> "none"]
  /\ invoice = [o \in Orders |-> "none"]
  /\ hold    = [o \in Orders |-> "none"]
  /\ seat    = [o \in Orders |-> "none"]
  /\ told    = [o \in Orders |-> 0]
  /\ stale   = [o \in Orders |-> FALSE]
  /\ payFor  = [a \in Attempts |-> None]
  /\ charge  = [a \in Attempts |-> "none"]
  /\ row     = [a \in Attempts |-> "none"]
  /\ fresh   = [a \in Attempts |-> FALSE]
  /\ event   = [a \in Attempts |-> "none"]
  /\ job     = [p \in Procs |-> Idle]
  /\ crashes = 0

----------------------------------------------------------------------------
(* Helpers *)

RowsOf(o, status) == {a \in Attempts : payFor[a] = o /\ row[a] = status}
Pending(o)        == RowsOf(o, "pending")
Succeeded(o)      == RowsOf(o, "succeeded")

\* Conditions the handlers test, each with the slip a change could make of it.
EventUnanswered_FirstOnly(a) == event[a] = "none"
EventUnanswered(a)           == event[a] # "processed"

SaysPaid_PageOpened(a) == charge[a] \in {"open", "paid"}
SaysPaid(a)            == charge[a] = "paid"

Claimable_Always(o) == TRUE
Claimable(o)        == invoice[o] # "paid"

Cancellable_AsRead(o) == TRUE
Cancellable(o)        == order[o] = "pending_payment"

HoldAfterCancel_Kept(o)    == hold[o]
HoldAfterCancel_Deleted(o) == IF hold[o] = "seat_held" THEN "deleted" ELSE hold[o]
HoldAfterCancel(o)         == IF hold[o] = "seat_held" THEN "cancelled" ELSE hold[o]

CanAsk_Never(o) == FALSE
CanAsk(o)       == Pending(o) # {}

Reclaimable_Unpaid(o) ==
  order[o] = "pending_payment" /\ stale[o] /\ Succeeded(o) = {} /\ \A a \in Pending(o) : ~fresh[a]
Reclaimable_Untried(o) ==
  order[o] = "pending_payment" /\ stale[o] /\ (Succeeded(o) = {} => Pending(o) = {})
Reclaimable(o) ==
  /\ order[o] = "pending_payment"
  /\ stale[o]
  /\ Succeeded(o) = {} => \A a \in Pending(o) : ~fresh[a]

At(p, place)    == job[p].at = place
Goto(p, place)  == job' = [job EXCEPT ![p].at = place]
Finish(p)       == job' = [job EXCEPT ![p] = Idle]
Start(p, door, place, o, a, asks) ==
  job' = [job EXCEPT ![p] = [door |-> door, at |-> place, ord |-> o, att |-> a, toAsk |-> asks]]

\* An event's handler marks the event processed after the settlement returns.
AfterSettling(p) == IF job[p].door = "event" THEN Goto(p, "finish") ELSE Finish(p)

----------------------------------------------------------------------------
(* Creating the order: the transaction of checkout, or of the approval by the team. *)

PlaceOrder(o) ==
  /\ order[o] = "none"
  /\ order'   = [order EXCEPT ![o] = "pending_payment"]
  /\ invoice' = [invoice EXCEPT ![o] = "issued"]
  /\ hold'    = [hold EXCEPT ![o] = "seat_held"]

Checkout(o) ==
  /\ PlaceOrder(o)
  /\ UNCHANGED <<seat, told, stale, payments, job, crashes>>

\* The approval goes on to charge the order itself when no real money is involved.
Approve(p, o, a) ==
  /\ At(p, "idle")
  /\ PlaceOrder(o)
  /\ IF a \in TestAttempts
     THEN /\ payFor[a] = None
          /\ payFor' = [payFor EXCEPT ![a] = o]
          /\ Start(p, "pay", "auto", o, a, {})
     ELSE UNCHANGED <<payFor, job>>
  /\ UNCHANGED <<seat, told, stale, charge, row, fresh, event, crashes>>

\* settleIfTestProvider reads the order again: one paid by now is left alone.
AutoRead(p) ==
  /\ At(p, "auto")
  /\ IF order[job[p].ord] = "paid" THEN Finish(p) ELSE Goto(p, "charge")
  /\ UNCHANGED <<db, stale, payments, crashes>>

\* The hold's term runs out.
OrderAges(o) ==
  /\ order[o] = "pending_payment"
  /\ ~stale[o]
  /\ stale' = [stale EXCEPT ![o] = TRUE]
  /\ UNCHANGED <<db, payments, job, crashes>>

----------------------------------------------------------------------------
(* payOrder: read the order, charge at the provider, write the payment row. *)

PayStart(p, o, a) ==
  /\ At(p, "idle")
  /\ order[o] = "pending_payment"
  /\ payFor[a] = None
  /\ payFor' = [payFor EXCEPT ![a] = o]
  /\ Start(p, "pay", "charge", o, a, {})
  /\ UNCHANGED <<db, stale, charge, row, fresh, event, crashes>>

PayCharge(p) ==
  /\ At(p, "charge")
  /\ charge' = [charge EXCEPT ![job[p].att] = IF job[p].att \in TestAttempts THEN "paid" ELSE "open"]
  /\ Goto(p, "record")
  /\ UNCHANGED <<db, stale, payFor, row, fresh, event, crashes>>

PayRecord(p) ==
  /\ At(p, "record")
  /\ IF job[p].att \in TestAttempts
     THEN /\ row' = [row EXCEPT ![job[p].att] = "succeeded"]
          /\ Goto(p, "settle")
          /\ UNCHANGED fresh
     ELSE /\ row'   = [row EXCEPT ![job[p].att] = "pending"]
          /\ fresh' = [fresh EXCEPT ![job[p].att] = TRUE]
          /\ Finish(p)
  /\ UNCHANGED <<db, stale, payFor, charge, event, crashes>>

----------------------------------------------------------------------------
(* The provider.  The page's address reaches the buyer with payOrder's answer, *)
(* hence after its row is written; the page closes an hour after it was opened, *)
(* hence before the row is an hour old.                                        *)

BuyerPays(a) ==
  /\ charge[a] = "open"
  /\ row[a] # "none"
  /\ charge' = [charge EXCEPT ![a] = "paid"]
  /\ UNCHANGED <<db, stale, payFor, row, fresh, event, job, crashes>>

PageExpires(a) ==
  /\ charge[a] = "open"
  /\ charge' = [charge EXCEPT ![a] = "expired"]
  /\ UNCHANGED <<db, stale, payFor, row, fresh, event, job, crashes>>

RowAges(a) ==
  /\ fresh[a]
  /\ row[a] = "pending"
  /\ charge[a] # "open"
  /\ fresh' = [fresh EXCEPT ![a] = FALSE]
  /\ UNCHANGED <<db, stale, payFor, charge, row, event, job, crashes>>

\* A charge that carries the invoice's number and no row of ours.
ChargeOutside(o, a) ==
  /\ a \notin TestAttempts
  /\ order[o] # "none"
  /\ payFor[a] = None
  /\ payFor' = [payFor EXCEPT ![a] = o]
  /\ charge' = [charge EXCEPT ![a] = "paid"]
  /\ UNCHANGED <<db, stale, row, fresh, event, job, crashes>>

----------------------------------------------------------------------------
(* handleWebhook.  The provider repeats an event until it is answered, so a   *)
(* delivery may come again, also while the first one is being handled.        *)

Deliver(p, a) ==
  /\ a \notin TestAttempts
  /\ At(p, "idle")
  /\ charge[a] = "paid"
  /\ EventUnanswered(a)
  /\ event' = [event EXCEPT ![a] = "seen"]
  /\ Start(p, "event", "match", payFor[a], a, {})
  /\ UNCHANGED <<db, stale, payFor, charge, row, fresh, crashes>>

EventMatch(p) ==
  /\ At(p, "match")
  /\ Goto(p, IF invoice[job[p].ord] = "paid" THEN "finish" ELSE "find")
  /\ UNCHANGED <<db, stale, payments, crashes>>

\* Of the invoice's pending rows, the one with the event's reference if it is
\* among them, else another one (the newest, here any of them).
EventFind(p) ==
  LET o == job[p].ord  a == job[p].att IN
  /\ At(p, "find")
  /\ \/ \E b \in Pending(o) :
          /\ a \in Pending(o) => b = a
          /\ job' = [job EXCEPT ![p].at = "move", ![p].toAsk = {b}]
     \/ /\ Pending(o) = {}
        /\ Goto(p, IF Succeeded(o) = {} THEN "create" ELSE "settle")
  /\ UNCHANGED <<db, stale, payments, crashes>>

\* updateMany on (row, pending); whoever moved it, a succeeded row is settled.
EventMove(p) ==
  /\ At(p, "move")
  /\ job[p].door = "event"
  /\ row' = [b \in Attempts |->
               IF b \in job[p].toAsk /\ row[b] = "pending" THEN "succeeded" ELSE row[b]]
  /\ Goto(p, "settle")
  /\ UNCHANGED <<db, stale, payFor, charge, fresh, event, crashes>>

\* The row's key is the event's id: the second of two deliveries cannot write it.
EventCreate(p) ==
  LET a == job[p].att IN
  /\ At(p, "create")
  /\ IF row[a] = "none"
     THEN /\ row' = [row EXCEPT ![a] = "succeeded"]
          /\ Goto(p, "settle")
     ELSE /\ Finish(p)
          /\ UNCHANGED row
  /\ UNCHANGED <<db, stale, payFor, charge, fresh, event, crashes>>

EventFinish(p) ==
  /\ At(p, "finish")
  /\ event' = [event EXCEPT ![job[p].att] = "processed"]
  /\ Finish(p)
  /\ UNCHANGED <<db, stale, payFor, charge, row, fresh, crashes>>

----------------------------------------------------------------------------
(* confirmWithProvider, from the buyer's return or finance's button, and from *)
(* the worker, which goes on to cancel when the answer is not "paid".         *)

\* Where the reads of confirmWithProvider lead.
ConfirmFrom(p, door, o) ==
  \/ /\ order[o] # "paid"
     /\ Succeeded(o) # {}
     /\ Start(p, "confirm", "settle", o, None, {})
  \/ /\ order[o] # "paid"
     /\ Succeeded(o) = {}
     /\ CanAsk(o)
     /\ Start(p, door, "ask", o, None, Pending(o))
  \/ /\ order[o] # "paid"
     /\ Succeeded(o) = {}
     /\ ~CanAsk(o)
     /\ IF door = "reclaim" THEN Start(p, door, "cancel", o, None, {}) ELSE Finish(p)
  \/ /\ order[o] = "paid"
     /\ Finish(p)

Confirm(p, o) ==
  /\ At(p, "idle")
  /\ order[o] # "none"
  /\ ConfirmFrom(p, "confirm", o)
  /\ UNCHANGED <<db, stale, payments, crashes>>

\* The worker's own reads: orders past their term, save those with a page that may
\* still be open; one with a successful payment it will settle but never cancel.
Reclaim(o) ==
  /\ At(Worker, "idle")
  /\ Reclaimable(o)
  /\ Start(Worker, IF Succeeded(o) = {} THEN "reclaim" ELSE "confirm", "confirm", o, None, {})
  /\ UNCHANGED <<db, stale, payments, crashes>>

ReclaimAsks(p) ==
  /\ At(p, "confirm")
  /\ ConfirmFrom(p, job[p].door, job[p].ord)
  /\ UNCHANGED <<db, stale, payments, crashes>>

AskNext(p, b) ==
  /\ At(p, "ask")
  /\ b \in job[p].toAsk
  /\ \/ /\ SaysPaid(b)
        /\ job' = [job EXCEPT ![p].at = "move", ![p].toAsk = {b}]
     \/ /\ ~SaysPaid(b)
        /\ job[p].toAsk # {b}
        /\ job' = [job EXCEPT ![p].toAsk = @ \ {b}]
     \/ /\ ~SaysPaid(b)
        /\ job[p].toAsk = {b}
        /\ IF job[p].door = "reclaim" THEN Goto(p, "cancel") ELSE Finish(p)
  /\ UNCHANGED <<db, stale, payments, crashes>>

\* A row another door moved is left to that door.  (The invoice is read again
\* before the settlement; its claim tests the same thing, so that read is left out.)
ConfirmMove(p) ==
  /\ At(p, "move")
  /\ job[p].door # "event"
  /\ \E b \in job[p].toAsk :
       IF row[b] = "pending"
       THEN /\ row' = [row EXCEPT ![b] = "succeeded"]
            /\ Goto(p, "settle")
       ELSE Finish(p) /\ UNCHANGED row
  /\ UNCHANGED <<db, stale, payFor, charge, fresh, event, crashes>>

----------------------------------------------------------------------------
(* Cancelling: the owner's reads; then the transaction both cancellers share. *)

CancelStart(p, o) ==
  /\ At(p, "idle")
  /\ order[o] = "pending_payment"
  /\ Succeeded(o) = {}
  /\ Start(p, "cancel", "cancel", o, None, {})
  /\ UNCHANGED <<db, stale, payments, crashes>>

CancelTx(p) ==
  LET o == job[p].ord IN
  /\ At(p, "cancel")
  /\ IF Cancellable(o)
     THEN /\ order'   = [order EXCEPT ![o] = "cancelled"]
          /\ invoice' = [invoice EXCEPT ![o] = "void"]
          /\ hold'    = [hold EXCEPT ![o] = HoldAfterCancel(o)]
     ELSE UNCHANGED <<order, invoice, hold>>
  /\ Finish(p)
  /\ UNCHANGED <<seat, told, stale, payments, crashes>>

----------------------------------------------------------------------------
(* recordManualPayment: the money came by bank transfer or in cash. *)

ManualStart(p, o, a) ==
  /\ At(p, "idle")
  /\ invoice[o] \in {"issued", "void"}
  /\ payFor[a] = None
  /\ payFor' = [payFor EXCEPT ![a] = o]
  /\ charge' = [charge EXCEPT ![a] = "cash"]
  /\ Start(p, "manual", "manual", o, a, {})
  /\ UNCHANGED <<db, stale, row, fresh, event, crashes>>

ManualRecord(p) ==
  /\ At(p, "manual")
  /\ row' = [row EXCEPT ![job[p].att] = "succeeded"]
  /\ Goto(p, "settle")
  /\ UNCHANGED <<db, stale, payFor, charge, fresh, event, crashes>>

----------------------------------------------------------------------------
(* settleOrder, called from all four doors. *)

\* The claim: one transaction moves the invoice, if it is not paid, and the order.
SettleClaim(p) ==
  LET o == job[p].ord IN
  /\ At(p, "settle")
  /\ IF Claimable(o)
     THEN /\ invoice' = [invoice EXCEPT ![o] = "paid"]
          /\ order'   = [order EXCEPT ![o] = "paid"]
          /\ Goto(p, "seat")
     ELSE /\ AfterSettling(p)
          /\ UNCHANGED <<invoice, order>>
  /\ UNCHANGED <<hold, seat, told, stale, payments, crashes>>

\* What becomes of a hold when its order's buyer is served.
HoldServed(o, outcome) == IF hold[o] = "seat_held" /\ outcome = "enrolled" THEN "converted" ELSE hold[o]

SettleSeat_HoldsOnly(p) ==
  LET o == job[p].ord IN
  /\ At(p, "seat")
  /\ IF hold[o] = "seat_held"
     THEN \E outcome \in {"enrolled", "failed"} :
            /\ seat' = [seat EXCEPT ![o] = outcome]
            /\ hold' = [hold EXCEPT ![o] = HoldServed(o, outcome)]
     ELSE UNCHANGED <<seat, hold>>
  /\ Goto(p, "notify")
  /\ UNCHANGED <<order, invoice, told, stale, payments, crashes>>

\* The buyer is enrolled, or noted for follow-up: enroll may refuse him, or find no seat
\* when his hold was released.  A hold is converted only with an enrolment; the hold of a
\* buyer who was refused stays held by his paid order.
SettleSeat(p) ==
  LET o == job[p].ord IN
  /\ At(p, "seat")
  /\ \E outcome \in {"enrolled", "failed"} :
       /\ seat' = [seat EXCEPT ![o] = outcome]
       /\ hold' = [hold EXCEPT ![o] = HoldServed(o, outcome)]
  /\ Goto(p, "notify")
  /\ UNCHANGED <<order, invoice, told, stale, payments, crashes>>

SettleNotify(p) ==
  /\ At(p, "notify")
  /\ told' = [told EXCEPT ![job[p].ord] = @ + 1]
  /\ AfterSettling(p)
  /\ UNCHANGED <<order, invoice, hold, seat, stale, payments, crashes>>

----------------------------------------------------------------------------
\* A handler is cut short: the process dies, the connection drops, a call throws.
Crash(p) ==
  /\ ~At(p, "idle")
  /\ crashes < MaxCrashes
  /\ crashes' = crashes + 1
  /\ Finish(p)
  /\ UNCHANGED <<db, stale, payments>>

----------------------------------------------------------------------------
\* What a handler that has started goes on to do.
Continue(p) ==
  \/ AutoRead(p) \/ PayCharge(p) \/ PayRecord(p)
  \/ EventMatch(p) \/ EventFind(p) \/ EventMove(p) \/ EventCreate(p) \/ EventFinish(p)
  \/ ReclaimAsks(p)
  \/ \E b \in Attempts : AskNext(p, b)
  \/ ConfirmMove(p)
  \/ CancelTx(p)
  \/ ManualRecord(p)
  \/ SettleClaim(p) \/ SettleSeat(p) \/ SettleNotify(p)

World ==
  \/ \E o \in Orders : Checkout(o) \/ OrderAges(o)
  \/ \E a \in Attempts : BuyerPays(a) \/ PageExpires(a) \/ RowAges(a)
  \/ \E o \in Orders, a \in Attempts : ChargeOutside(o, a)

Request(p) ==
  \/ \E o \in Orders, a \in Attempts : Approve(p, o, a) \/ PayStart(p, o, a) \/ ManualStart(p, o, a)
  \/ \E a \in Attempts : Deliver(p, a)
  \/ \E o \in Orders : Confirm(p, o) \/ CancelStart(p, o)

Next ==
  \/ World
  \/ \E p \in Handlers : Request(p)
  \/ \E o \in Orders : Reclaim(o)
  \/ \E p \in Procs : Continue(p) \/ Crash(p)

Spec == Init /\ [][Next]_vars

(* Fairness.  A request once received runs on until it answers or is cut     *)
(* short; the worker's loop comes back to every order it has not dealt with   *)
(* (it works through all of them at each turn, hence strong fairness: it is   *)
(* busy with another order in between); time passes.  Nothing obliges a buyer *)
(* to pay or to cancel.                                                       *)
Fairness ==
  /\ \A p \in Procs : WF_vars(Continue(p))
  /\ \A o \in Orders : SF_vars(Reclaim(o)) /\ WF_vars(OrderAges(o))
  /\ \A a \in Attempts : WF_vars(PageExpires(a)) /\ WF_vars(RowAges(a))

\* Events may be lost for good: only the worker's question is sure to come.
LossySpec == Spec /\ Fairness

\* The provider repeats an event until a handler answers it.
Repeated == \A a \in Attempts : SF_vars(\E p \in Handlers : Deliver(p, a))
FairSpec == Spec /\ Fairness /\ Repeated

----------------------------------------------------------------------------
(* Properties *)

\* An order is settled once whatever doors reach it together: the buyer is told
\* of his payment at most once (settleOrder's claim).
SettledOnce == \A o \in Orders : told[o] <= 1

\* Order, invoice and hold never part: an invoice is paid or void with its order,
\* and a cancelled order keeps no seat, though five handlers write them.
LedgerAgrees ==
  \A o \in Orders :
    /\ invoice[o] = "paid" <=> order[o] = "paid"
    /\ invoice[o] = "void" <=> order[o] = "cancelled"
    /\ hold[o] = "seat_held" => order[o] \in {"pending_payment", "paid"}

\* No order is settled unless money for it arrived: by its page, outside, or in cash.
Money(o) == \E a \in Attempts : payFor[a] = o /\ charge[a] \in {"paid", "cash"}

SettledOnMoney == \A o \in Orders : order[o] = "paid" => Money(o)

\* What makes the three above inductive.  Handlers work on orders that were placed.
Placed ==
  /\ \A p \in Procs : ~At(p, "idle") => job[p].ord \in Orders /\ order[job[p].ord] # "none"
  /\ \A p \in Procs : job[p].at \in {"auto", "charge"} =>
       job[p].att \in Attempts /\ payFor[job[p].att] = job[p].ord /\ charge[job[p].att] = "none"
  /\ \A p, q \in Procs :
       job[p].at \in {"auto", "charge"} /\ job[q].at \in {"auto", "charge"} /\ p # q
       => job[p].att # job[q].att
  /\ \A a \in Attempts : payFor[a] # None => order[payFor[a]] # "none"
  /\ \A a \in Attempts : charge[a] # "none" => payFor[a] # None

\* A handler past the settlement's claim of order o, and not yet done with it.
Claimed(p, o) == job[p].ord = o /\ job[p].at \in {"seat", "notify"}

\* At most one handler is past the claim of an order, and what it has left to do is
\* what was not done: no second handler enrols the buyer or tells him.
OneSettler ==
  \A o \in Orders :
    /\ \A p, q \in Procs : Claimed(p, o) /\ Claimed(q, o) => p = q
    /\ \A p \in Procs : Claimed(p, o) =>
         told[o] = 0 /\ invoice[o] = "paid" /\ (At(p, "seat") <=> seat[o] = "none")
    /\ invoice[o] # "paid" => told[o] = 0 /\ seat[o] = "none"
    /\ told[o] <= 1

\* The hold follows its order: held while it may be paid, and turned into an
\* enrolment only by the settlement.
HoldFollows ==
  \A o \in Orders :
    /\ order[o] = "none" <=> invoice[o] = "none"
    /\ order[o] = "none" <=> hold[o] = "none"
    /\ order[o] = "pending_payment" <=> invoice[o] = "issued"
    /\ order[o] = "pending_payment" => hold[o] = "seat_held"
    /\ order[o] = "cancelled" <=> invoice[o] = "void"
    /\ order[o] = "cancelled" => hold[o] = "cancelled"
    /\ hold[o] = "converted" => seat[o] = "enrolled"

IndInv == TypeOK /\ Placed /\ OneSettler /\ HoldFollows

\* What makes SettledOnMoney inductive: money stands behind every successful row and
\* behind every handler on its way to the settlement, though the row it moved may be
\* another page's.
MoneyBehind ==
  /\ SettledOnMoney
  /\ \A a \in Attempts, o \in Orders : row[a] = "succeeded" /\ payFor[a] = o => Money(o)
  /\ \A a \in Attempts : row[a] = "succeeded" => payFor[a] # None
  /\ \A p \in Procs, o \in Orders :
       job[p].at \in {"move", "settle", "seat", "notify"} /\ job[p].ord = o => Money(o)
  /\ \A p \in Procs : job[p].at \in {"ask", "move"} => \A b \in job[p].toAsk : payFor[b] = job[p].ord
  /\ \A p \in Procs :
       /\ job[p].at = "record" /\ job[p].att \in TestAttempts
       => job[p].att \in Attempts /\ payFor[job[p].att] = job[p].ord /\ charge[job[p].att] = "paid"
  /\ \A p \in Procs : job[p].at = "manual" =>
       job[p].att \in Attempts /\ payFor[job[p].att] = job[p].ord /\ charge[job[p].att] = "cash"
  /\ \A p \in Procs : job[p].at \in {"match", "find", "create"} =>
       job[p].att \in Attempts /\ payFor[job[p].att] = job[p].ord /\ charge[job[p].att] = "paid"

Lifecycle == INSTANCE OrderLifecycle WITH
               order <- order, invoice <- invoice, hold <- hold, seat <- seat, told <- told

\* What the doors do together is what an order promises: it is cancelled only while
\* it awaits payment, settled once, served after that, and its buyer told once.
KeepsLifecycle == Lifecycle!Spec

Cancelling(p, o) == job[p].ord = o /\ job[p].door \in {"cancel", "reclaim"}

\* Money booked on a pending order is settled although the handler that booked it
\* was cut short: the worker finds it (reclaimAbandonedOrders, confirmWithProvider).
BookedMoneySettles ==
  \A a \in Attempts, o \in Orders :
    (/\ payFor[a] = o /\ row[a] = "succeeded" /\ order[o] = "pending_payment"
     /\ \A p \in Procs : ~Cancelling(p, o))
    ~> order[o] = "paid"

\* A page that was paid while its order was pending is settled although its event
\* never came, unless the owner cancels: the worker asks before it cancels.
PaidPageSettlesWithoutEvent ==
  \A a \in Attempts, o \in Orders :
    (/\ payFor[a] = o /\ charge[a] = "paid" /\ row[a] = "pending"
     /\ order[o] = "pending_payment"
     /\ \A p \in Procs : ~Cancelling(p, o))
    ~> (order[o] = "paid" \/ \E p \in Handlers : Cancelling(p, o))

\* With events repeated until answered, a charge on a hosted page settles its order,
\* cancelled or not, although handlers are cut short.
ChargedOrderSettles ==
  Repeated => \A a \in Attempts \ TestAttempts, o \in Orders :
                (payFor[a] = o /\ charge[a] = "paid") ~> order[o] = "paid"

\* No order waits for ever: past its term it is settled or cancelled.
StaleOrderEnds ==
  \A o \in Orders : order[o] = "pending_payment" ~> order[o] # "pending_payment"

\* A settled order's buyer gets his seat, or a follow-up, and is told, unless a handler
\* was cut short.
SettledIsServed ==
  \A o \in Orders : order[o] = "paid" ~> (seat[o] # "none" /\ told[o] = 1) \/ crashes > 0

\* What handleWebhook says of itself: an event left unfinished is handled again,
\* so money the provider charged does not stay without its seat.
ChargedOrderServed ==
  \A a \in Attempts, o \in Orders :
    (payFor[a] = o /\ charge[a] = "paid") ~> seat[o] # "none"

\* What payOrder says of itself: no charge but for an order that awaits payment.
ChargesOnlyPending ==
  [][\A a \in Attempts :
       charge[a] = "none" /\ charge'[a] = "open" => order[payFor[a]] = "pending_payment"]_vars

\* What reclaimAbandonedOrders says of itself: an order whose payment page is still
\* open is not cancelled by the worker.
OpenPageKeepsOrder ==
  [][\A o \in Orders :
       (/\ order[o] = "pending_payment" /\ order'[o] = "cancelled"
        /\ job[Worker].at = "cancel" /\ job'[Worker].at = "idle")
       => \A a \in Pending(o) : charge[a] # "open"]_vars

\* What handleWebhook says of itself: handling an event again adds nothing.  Books
\* show no more successful payments for an order than charges that were made.
BooksMatchCharges ==
  \A o \in Orders :
    Cardinality(Succeeded(o))
      <= Cardinality({a \in Attempts : payFor[a] = o /\ charge[a] \in {"paid", "cash"}})

=============================================================================
