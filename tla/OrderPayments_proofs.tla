------------------------ MODULE OrderPayments_proofs ------------------------
(***************************************************************************)
(* Proofs about OrderPayments, for any sets of orders, attempts and         *)
(* handlers, whichever attempts are the test provider's, any number of cuts.*)
(***************************************************************************)
EXTENDS OrderPayments, TLAPS

\* An update inside its domain keeps a function's type, one outside changes nothing.
LEMMA UpdateTyped ==
  ASSUME NEW S, NEW T, NEW f \in [S -> T], NEW x, NEW v, x \in S => v \in T
  PROVE  [f EXCEPT ![x] = v] \in [S -> T]
  OBVIOUS

\* Every variable keeps its type: in particular a handler past its first step
\* never holds anything but orders and attempts of the system.
THEOREM TypeCorrect == Spec => []TypeOK
<1>1. Init => TypeOK
  BY CrashAssumption DEF Init, TypeOK, Job, Idle, Places, Doors, OrderStatus, Procs
<1>2. TypeOK /\ [Next]_vars => TypeOK'
  <2> SUFFICES ASSUME TypeOK, [Next]_vars PROVE TypeOK'
    OBVIOUS
  <2> USE DEF TypeOK, Job, Idle, Places, Doors, OrderStatus, Procs, db, payments,
              At, Goto, Finish, Start, AfterSettling
  <2>1. ASSUME NEW o \in Orders, Checkout(o) PROVE TypeOK'
    BY <2>1 DEF Checkout, PlaceOrder
  <2>2. ASSUME NEW o \in Orders, OrderAges(o) PROVE TypeOK'
    BY <2>2 DEF OrderAges
  <2>3. ASSUME NEW a \in Attempts, BuyerPays(a) PROVE TypeOK'
    BY <2>3 DEF BuyerPays
  <2>4. ASSUME NEW a \in Attempts, PageExpires(a) PROVE TypeOK'
    BY <2>4 DEF PageExpires
  <2>5. ASSUME NEW a \in Attempts, RowAges(a) PROVE TypeOK'
    BY <2>5 DEF RowAges
  <2>6. ASSUME NEW o \in Orders, NEW a \in Attempts, ChargeOutside(o, a) PROVE TypeOK'
    BY <2>6 DEF ChargeOutside
  <2>7. ASSUME NEW p \in Handlers, NEW o \in Orders, NEW a \in Attempts, Approve(p, o, a) PROVE TypeOK'
    <3>1. CASE a \in TestAttempts BY <2>7, <3>1 DEF Approve, PlaceOrder
    <3>2. CASE a \notin TestAttempts BY <2>7, <3>2 DEF Approve, PlaceOrder
    <3> QED BY <3>1, <3>2
  <2>8. ASSUME NEW p \in Handlers, NEW o \in Orders, NEW a \in Attempts, PayStart(p, o, a) PROVE TypeOK'
    BY <2>8 DEF PayStart
  <2>9. ASSUME NEW p \in Handlers, NEW o \in Orders, NEW a \in Attempts, ManualStart(p, o, a) PROVE TypeOK'
    BY <2>9 DEF ManualStart
  <2>10. ASSUME NEW p \in Handlers, NEW a \in Attempts, Deliver(p, a) PROVE TypeOK'
    BY <2>10 DEF Deliver
  <2>11. ASSUME NEW p \in Procs, NEW o \in Orders, NEW door \in Doors, ConfirmFrom(p, door, o),
                UNCHANGED <<db, stale, payments, crashes>>
         PROVE TypeOK'
    BY <2>11 DEF ConfirmFrom, Pending, RowsOf
  <2>12. ASSUME NEW p \in Handlers, NEW o \in Orders, Confirm(p, o) PROVE TypeOK'
    BY <2>11, <2>12 DEF Confirm
  <2>13. ASSUME NEW p \in Handlers, NEW o \in Orders, CancelStart(p, o) PROVE TypeOK'
    BY <2>13 DEF CancelStart
  <2>14. ASSUME NEW o \in Orders, Reclaim(o) PROVE TypeOK'
    BY <2>14 DEF Reclaim
  <2>15. ASSUME NEW p \in Procs, Continue(p) PROVE TypeOK'
    <3>1. CASE AutoRead(p) BY <3>1 DEF AutoRead
    <3>2. CASE PayCharge(p)
      <4>1. charge' \in [Attempts -> {"none", "open", "paid", "expired", "cash"}]
        BY <3>2, UpdateTyped DEF PayCharge
      <4> QED BY <3>2, <4>1 DEF PayCharge
    <3>3. CASE PayRecord(p)
      <4>1. CASE job[p].att \in TestAttempts BY <3>3, <4>1 DEF PayRecord
      <4>2. CASE job[p].att \notin TestAttempts
        <5>1. fresh' \in [Attempts -> BOOLEAN]
          <6>1. fresh' = [fresh EXCEPT ![job[p].att] = TRUE]
            BY <3>3, <4>2 DEF PayRecord
          <6> QED BY <6>1, UpdateTyped
        <5>2. row' \in [Attempts -> {"none", "pending", "succeeded"}]
          <6>1. row' = [row EXCEPT ![job[p].att] = "pending"]
            BY <3>3, <4>2 DEF PayRecord
          <6> QED BY <6>1, UpdateTyped
        <5> QED BY <3>3, <4>2, <5>1, <5>2 DEF PayRecord
      <4> QED BY <4>1, <4>2
    <3>4. CASE EventMatch(p) BY <3>4 DEF EventMatch
    <3>5. CASE EventFind(p) BY <3>5 DEF EventFind, Pending, RowsOf
    <3>6. CASE EventMove(p) BY <3>6 DEF EventMove
    <3>7. CASE EventCreate(p) BY <3>7 DEF EventCreate
    <3>8. CASE EventFinish(p) BY <3>8 DEF EventFinish
    <3>9. CASE ReclaimAsks(p) BY <3>9 DEF ReclaimAsks, ConfirmFrom, Pending, RowsOf
    <3>10. ASSUME NEW b \in Attempts, AskNext(p, b) PROVE TypeOK' BY <3>10 DEF AskNext
    <3>11. CASE ConfirmMove(p) BY <3>11 DEF ConfirmMove
    <3>12. CASE CancelTx(p) BY <3>12 DEF CancelTx, HoldAfterCancel
    <3>13. CASE ManualRecord(p)
      <4>1. row' \in [Attempts -> {"none", "pending", "succeeded"}]
        BY <3>13, UpdateTyped DEF ManualRecord
      <4> QED BY <3>13, <4>1 DEF ManualRecord
    <3>14. CASE SettleClaim(p) BY <3>14 DEF SettleClaim
    <3>15. CASE SettleSeat(p)
      <4>1. PICK o : o = job[p].ord
        OBVIOUS
      <4>2. PICK outcome \in {"enrolled", "failed"} :
               seat' = [seat EXCEPT ![o] = outcome] /\ hold' = [hold EXCEPT ![o] = HoldServed(o, outcome)]
        BY <3>15, <4>1 DEF SettleSeat
      <4>3. o \in Orders => HoldServed(o, outcome) \in {"none", "seat_held", "converted", "cancelled"}
        BY DEF HoldServed
      <4>4. hold' \in [Orders -> {"none", "seat_held", "converted", "cancelled"}]
        BY <4>2, <4>3, UpdateTyped
      <4> QED BY <3>15, <4>2, <4>4 DEF SettleSeat
    <3>16. CASE SettleNotify(p)
      <4>1. told' \in [Orders -> Nat]
        BY <3>16, UpdateTyped DEF SettleNotify
      <4> QED BY <3>16, <4>1 DEF SettleNotify
    <3> QED
      BY <2>15, <3>1, <3>2, <3>3, <3>4, <3>5, <3>6, <3>7, <3>8, <3>9, <3>10,
         <3>11, <3>12, <3>13, <3>14, <3>15, <3>16 DEF Continue
  <2>16. ASSUME NEW p \in Procs, Crash(p) PROVE TypeOK'
    BY <2>16, CrashAssumption DEF Crash
  <2>17. CASE UNCHANGED vars
    BY <2>17 DEF vars
  <2> QED
    BY <2>1, <2>2, <2>3, <2>4, <2>5, <2>6, <2>7, <2>8, <2>9, <2>10, <2>12, <2>13, <2>14,
       <2>15, <2>16, <2>17 DEF Next, World, Request
<1> QED
  BY <1>1, <1>2, PTL DEF Spec

----------------------------------------------------------------------------
(* The inductive invariant.  A step in which no handler comes to stand past a *)
(* claim, and the order's tables stay as they are, cannot disturb OneSettler. *)

Strengthened == Placed /\ OneSettler /\ HoldFollows

LEMMA QuietStep ==
  ASSUME OneSettler, UNCHANGED db, NEW p \in Procs,
         job'[p].at \notin {"seat", "notify"}, \A q \in Procs \ {p} : job'[q] = job[q]
  PROVE  OneSettler'
  BY DEF OneSettler, Claimed, At, db

LEMMA ApproveKeepsOneSettler ==
  ASSUME IndInv, NEW p \in Handlers, NEW o \in Orders, NEW a \in Attempts, Approve(p, o, a)
  PROVE  OneSettler'
<1> USE DEF IndInv
<1>1. /\ order[o] = "none" /\ UNCHANGED <<seat, told>>
      /\ invoice' = [invoice EXCEPT ![o] = "issued"]
  BY DEF Approve, PlaceOrder
<1>2. job'[p].at \notin {"seat", "notify"} /\ \A q \in Procs \ {p} : job'[q] = job[q]
  <2>1. CASE a \in TestAttempts BY <2>1 DEF Approve, Start, TypeOK, Procs
  <2>2. CASE a \notin TestAttempts BY <2>2 DEF Approve, At, Procs
  <2> QED BY <2>1, <2>2
<1>3. told[o] = 0 /\ seat[o] = "none" /\ \A q \in Procs : ~Claimed(q, o)
  BY <1>1 DEF OneSettler, HoldFollows
<1>4. \A q \in Procs, x \in Orders : Claimed(q, x)' => Claimed(q, x)
  BY <1>2 DEF Claimed
<1> QED
  BY <1>1, <1>2, <1>3, <1>4 DEF OneSettler, TypeOK, Claimed, At

\* The claim: it succeeds only where no handler has claimed the order before.
LEMMA ClaimKeepsOneSettler ==
  ASSUME IndInv, NEW p \in Procs, SettleClaim(p)
  PROVE  OneSettler'
<1> USE DEF IndInv
<1>0. PICK o \in Orders : o = job[p].ord BY DEF SettleClaim, At, Placed
<1>1. CASE Claimable(o)
  <2>1. \A q \in Procs : ~Claimed(q, o)
    BY <1>0, <1>1 DEF Claimable, OneSettler
  <2>2. job'[p] = [job[p] EXCEPT !.at = "seat"] /\ \A q \in Procs \ {p} : job'[q] = job[q]
    BY <1>0, <1>1 DEF SettleClaim, Goto, TypeOK
  <2>3. job'[p].at = "seat" /\ job'[p].ord = o
    BY <1>0, <2>2 DEF TypeOK, Job
  <2>4. invoice' = [invoice EXCEPT ![o] = "paid"] /\ UNCHANGED <<seat, told>>
    BY <1>0, <1>1 DEF SettleClaim
  <2>5. told[o] = 0 /\ seat[o] = "none"
    BY <1>0, <1>1 DEF Claimable, OneSettler
  <2>6. \A q \in Procs, x \in Orders : Claimed(q, x)' => (x = o /\ q = p) \/ (x # o /\ q # p /\ Claimed(q, x))
    <3> TAKE q \in Procs, x \in Orders
    <3>1. CASE q = p BY <3>1, <2>3 DEF Claimed
    <3>2. CASE q # p BY <3>2, <2>1, <2>2 DEF Claimed
    <3> QED BY <3>1, <3>2
  <2>7. ASSUME NEW x \in Orders, x # o
        PROVE  invoice'[x] = invoice[x] /\ \A q \in Procs : Claimed(q, x)' => Claimed(q, x) /\ job'[q] = job[q]
    BY <2>2, <2>4, <2>6, <2>7 DEF TypeOK
  <2>8. invoice'[o] = "paid"
    BY <2>4 DEF TypeOK
  <2> QED BY <2>3, <2>4, <2>5, <2>6, <2>7, <2>8 DEF OneSettler, At
<1>2. CASE ~Claimable(o)
  <2>1. UNCHANGED db /\ job'[p].at \notin {"seat", "notify"} /\ \A q \in Procs \ {p} : job'[q] = job[q]
    BY <1>0, <1>2 DEF SettleClaim, AfterSettling, Goto, Finish, Idle, TypeOK, Job, db
  <2> QED BY <2>1, QuietStep
<1> QED BY <1>1, <1>2

\* The message goes out from the one handler that claimed the order.
LEMMA NotifyKeepsOneSettler ==
  ASSUME IndInv, NEW p \in Procs, SettleNotify(p)
  PROVE  OneSettler'
<1> USE DEF IndInv
<1>0. PICK o \in Orders : o = job[p].ord BY DEF SettleNotify, At, Placed
<1>1. /\ Claimed(p, o) /\ \A q \in Procs : Claimed(q, o) => q = p
      /\ told[o] = 0 /\ invoice[o] = "paid" /\ seat[o] # "none"
  BY <1>0 DEF SettleNotify, Claimed, OneSettler, At
<1>2. told' = [told EXCEPT ![o] = told[o] + 1] /\ UNCHANGED <<invoice, seat>>
  BY <1>0 DEF SettleNotify
<1>3. told'[o] = 1 /\ \A x \in Orders \ {o} : told'[x] = told[x]
  BY <1>1, <1>2 DEF TypeOK
<1>4. job'[p].at \notin {"seat", "notify"} /\ \A q \in Procs \ {p} : job'[q] = job[q]
  BY DEF SettleNotify, AfterSettling, Goto, Finish, Idle, TypeOK, Job
<1>5. \A q \in Procs, x \in Orders : Claimed(q, x)' => x # o /\ Claimed(q, x) /\ job'[q] = job[q]
  BY <1>1, <1>4 DEF Claimed
<1> QED BY <1>1, <1>2, <1>3, <1>5 DEF OneSettler, At

LEMMA StrengthenedStep == IndInv /\ [Next]_vars => Strengthened'
<1> SUFFICES ASSUME IndInv, [Next]_vars PROVE Strengthened'
  OBVIOUS
<1> USE DEF IndInv, TypeOK, Job, Idle, Procs, db, payments, At, Goto, Finish, Start, AfterSettling
<1>1. ASSUME NEW o \in Orders, Checkout(o)
      PROVE  Strengthened'
  BY <1>1 DEF Checkout, PlaceOrder, Strengthened, Placed, OneSettler, HoldFollows, Claimed
<1>2. ASSUME NEW o \in Orders, OrderAges(o)
      PROVE  Strengthened'
  BY <1>2 DEF OrderAges, Strengthened, Placed, OneSettler, HoldFollows, Claimed
<1>3. ASSUME NEW a \in Attempts, BuyerPays(a)
      PROVE  Strengthened'
  BY <1>3 DEF BuyerPays, Strengthened, Placed, OneSettler, HoldFollows, Claimed
<1>4. ASSUME NEW a \in Attempts, PageExpires(a)
      PROVE  Strengthened'
  BY <1>4 DEF PageExpires, Strengthened, Placed, OneSettler, HoldFollows, Claimed
<1>5. ASSUME NEW a \in Attempts, RowAges(a)
      PROVE  Strengthened'
  BY <1>5 DEF RowAges, Strengthened, Placed, OneSettler, HoldFollows, Claimed
<1>6. ASSUME NEW o \in Orders, NEW a \in Attempts, ChargeOutside(o, a)
      PROVE  Strengthened'
  <2>1. Placed'
    BY <1>6, NoneAssumption DEF ChargeOutside, Placed
  <2>2. OneSettler'
    BY <1>6 DEF ChargeOutside, OneSettler, Claimed
  <2>3. HoldFollows'
    BY <1>6 DEF ChargeOutside, HoldFollows
  <2> QED BY <2>1, <2>2, <2>3 DEF Strengthened
<1>7. ASSUME NEW p \in Handlers, NEW o \in Orders, NEW a \in Attempts, Approve(p, o, a)
      PROVE  Strengthened'
  <2>1. Placed'
    BY <1>7, NoneAssumption DEF Approve, PlaceOrder, Placed
  <2>2. OneSettler'
    BY <1>7, ApproveKeepsOneSettler
  <2>3. HoldFollows'
    BY <1>7 DEF Approve, PlaceOrder, HoldFollows
  <2> QED BY <2>1, <2>2, <2>3 DEF Strengthened
<1>8. ASSUME NEW p \in Handlers, NEW o \in Orders, NEW a \in Attempts, PayStart(p, o, a)
      PROVE  Strengthened'
  <2>1. Placed'
    BY <1>8, NoneAssumption DEF PayStart, Placed
  <2>2. OneSettler'
    BY <1>8 DEF PayStart, OneSettler, Claimed
  <2>3. HoldFollows'
    BY <1>8 DEF PayStart, HoldFollows
  <2> QED BY <2>1, <2>2, <2>3 DEF Strengthened
<1>9. ASSUME NEW p \in Handlers, NEW o \in Orders, NEW a \in Attempts, ManualStart(p, o, a)
      PROVE  Strengthened'
  <2>1. Placed'
    BY <1>9, NoneAssumption DEF ManualStart, Placed, HoldFollows
  <2>2. OneSettler'
    BY <1>9 DEF ManualStart, OneSettler, Claimed
  <2>3. HoldFollows'
    BY <1>9 DEF ManualStart, HoldFollows
  <2> QED BY <2>1, <2>2, <2>3 DEF Strengthened
<1>10. ASSUME NEW p \in Handlers, NEW a \in Attempts, Deliver(p, a)
      PROVE  Strengthened'
  BY <1>10 DEF Deliver, Strengthened, Placed, OneSettler, HoldFollows, Claimed
<1>11. ASSUME NEW p \in Procs, NEW o \in Orders, NEW door \in Doors, ConfirmFrom(p, door, o),
                order[o] # "none", UNCHANGED <<db, stale, payments, crashes>>
      PROVE  Strengthened'
  <2>1. Placed'
    BY <1>11, NoneAssumption DEF ConfirmFrom, Placed
  <2>2. OneSettler'
    BY <1>11 DEF ConfirmFrom, OneSettler, Claimed
  <2>3. HoldFollows'
    BY <1>11 DEF ConfirmFrom, HoldFollows
  <2> QED BY <2>1, <2>2, <2>3 DEF Strengthened
<1>12. ASSUME NEW p \in Handlers, NEW o \in Orders, Confirm(p, o)
      PROVE  Strengthened'
  BY <1>11, <1>12 DEF Confirm, Doors
<1>13. ASSUME NEW p \in Handlers, NEW o \in Orders, CancelStart(p, o)
      PROVE  Strengthened'
  BY <1>13 DEF CancelStart, Strengthened, Placed, OneSettler, HoldFollows, Claimed
<1>14. ASSUME NEW o \in Orders, Reclaim(o)
      PROVE  Strengthened'
  <2>1. Placed'
    BY <1>14, NoneAssumption DEF Reclaim, Placed, Reclaimable
  <2>2. OneSettler'
    BY <1>14 DEF Reclaim, OneSettler, Claimed
  <2>3. HoldFollows'
    BY <1>14 DEF Reclaim, HoldFollows
  <2> QED BY <2>1, <2>2, <2>3 DEF Strengthened
<1>15. ASSUME NEW p \in Procs, Continue(p)
      PROVE  Strengthened'
  <2>1. CASE AutoRead(p)
    BY <2>1 DEF AutoRead, Strengthened, Placed, OneSettler, HoldFollows, Claimed
  <2>2. CASE PayCharge(p)
    <3>1. Placed'
      BY <2>2, NoneAssumption DEF PayCharge, Placed
    <3>2. OneSettler'
      BY <2>2 DEF PayCharge, OneSettler, Claimed
    <3>3. HoldFollows'
      BY <2>2 DEF PayCharge, HoldFollows
    <3> QED BY <3>1, <3>2, <3>3 DEF Strengthened
  <2>3. CASE PayRecord(p)
    <3>1. Placed'
      <4>1. CASE job[p].att \in TestAttempts BY <2>3, <4>1, NoneAssumption DEF PayRecord, Placed
      <4>2. CASE job[p].att \notin TestAttempts BY <2>3, <4>2, NoneAssumption DEF PayRecord, Placed
      <4> QED BY <4>1, <4>2
    <3>2. OneSettler'
      <4>1. UNCHANGED db /\ job'[p].at \notin {"seat", "notify"} /\ \A q \in Procs \ {p} : job'[q] = job[q]
        BY <2>3 DEF PayRecord
      <4> QED BY <4>1, QuietStep DEF Procs
    <3>3. HoldFollows'
      BY <2>3 DEF PayRecord, HoldFollows
    <3> QED BY <3>1, <3>2, <3>3 DEF Strengthened
  <2>4. CASE EventMatch(p)
    BY <2>4 DEF EventMatch, Strengthened, Placed, OneSettler, HoldFollows, Claimed
  <2>5. CASE EventFind(p)
    <3>1. Placed'
      BY <2>5, NoneAssumption DEF EventFind, Placed
    <3>2. OneSettler'
      <4>1. UNCHANGED db /\ job'[p].at \notin {"seat", "notify"} /\ \A q \in Procs \ {p} : job'[q] = job[q]
        BY <2>5 DEF EventFind
      <4> QED BY <4>1, QuietStep DEF Procs
    <3>3. HoldFollows'
      BY <2>5 DEF EventFind, HoldFollows
    <3> QED BY <3>1, <3>2, <3>3 DEF Strengthened
  <2>6. CASE EventMove(p)
    BY <2>6 DEF EventMove, Strengthened, Placed, OneSettler, HoldFollows, Claimed
  <2>7. CASE EventCreate(p)
    <3>1. Placed'
      BY <2>7, NoneAssumption DEF EventCreate, Placed
    <3>2. OneSettler'
      <4>1. UNCHANGED db /\ job'[p].at \notin {"seat", "notify"} /\ \A q \in Procs \ {p} : job'[q] = job[q]
        BY <2>7 DEF EventCreate
      <4> QED BY <4>1, QuietStep DEF Procs
    <3>3. HoldFollows'
      BY <2>7 DEF EventCreate, HoldFollows
    <3> QED BY <3>1, <3>2, <3>3 DEF Strengthened
  <2>8. CASE EventFinish(p)
    BY <2>8 DEF EventFinish, Strengthened, Placed, OneSettler, HoldFollows, Claimed
  <2>9. CASE ReclaimAsks(p)
    BY <1>11, <2>9 DEF ReclaimAsks, Placed
  <2>10. ASSUME NEW b \in Attempts, AskNext(p, b)
        PROVE  Strengthened'
    BY <2>10 DEF AskNext, Strengthened, Placed, OneSettler, HoldFollows, Claimed
  <2>11. CASE ConfirmMove(p)
    <3>1. Placed'
      <4>1. \/ job' = [job EXCEPT ![p].at = "settle"]
            \/ job' = [job EXCEPT ![p] = Idle]
        BY <2>11 DEF ConfirmMove
      <4>2. job[p].at = "move" /\ UNCHANGED <<order, payFor, charge>>
        BY <2>11 DEF ConfirmMove
      <4> QED BY <4>1, <4>2 DEF Placed
    <3>2. OneSettler'
      <4>1. UNCHANGED db /\ job'[p].at \notin {"seat", "notify"} /\ \A q \in Procs \ {p} : job'[q] = job[q]
        BY <2>11 DEF ConfirmMove
      <4> QED BY <4>1, QuietStep DEF Procs
    <3>3. HoldFollows'
      BY <2>11 DEF ConfirmMove, HoldFollows
    <3> QED BY <3>1, <3>2, <3>3 DEF Strengthened
  <2>12. CASE CancelTx(p)
    BY <2>12 DEF CancelTx, HoldAfterCancel, Cancellable, Strengthened, Placed, OneSettler, HoldFollows, Claimed
  <2>13. CASE ManualRecord(p)
    BY <2>13 DEF ManualRecord, Strengthened, Placed, OneSettler, HoldFollows, Claimed
  <2>14. CASE SettleClaim(p)
    <3>1. Placed'
      BY <2>14, NoneAssumption DEF SettleClaim, Claimable, Placed
    <3>2. OneSettler'
      BY <2>14, ClaimKeepsOneSettler
    <3>3. HoldFollows'
      <4>1. PICK o \in Orders : o = job[p].ord /\ order[o] # "none"
        BY <2>14 DEF SettleClaim, Placed
      <4>2. CASE Claimable(o)
        BY <2>14, <4>1, <4>2 DEF SettleClaim, Claimable, HoldFollows
      <4>3. CASE ~Claimable(o)
        BY <2>14, <4>1, <4>3 DEF SettleClaim, Claimable, HoldFollows
      <4> QED BY <4>2, <4>3
    <3> QED BY <3>1, <3>2, <3>3 DEF Strengthened
  <2>15. CASE SettleSeat(p)
    BY <2>15 DEF SettleSeat, HoldServed, Strengthened, Placed, OneSettler, HoldFollows, Claimed
  <2>16. CASE SettleNotify(p)
    <3>1. Placed'
      BY <2>16, NoneAssumption DEF SettleNotify, Placed
    <3>2. OneSettler'
      BY <2>16, NotifyKeepsOneSettler
    <3>3. HoldFollows'
      BY <2>16 DEF SettleNotify, HoldFollows
    <3> QED BY <3>1, <3>2, <3>3 DEF Strengthened
  <2> QED
    BY <1>15, <2>1, <2>2, <2>3, <2>4, <2>5, <2>6, <2>7, <2>8, <2>9, <2>10, <2>11, <2>12, <2>13, <2>14, <2>15, <2>16 DEF Continue
<1>16. ASSUME NEW p \in Procs, Crash(p)
      PROVE  Strengthened'
  BY <1>16 DEF Crash, Strengthened, Placed, OneSettler, HoldFollows, Claimed
<1>17. CASE UNCHANGED vars
  BY <1>17 DEF vars, Strengthened, Placed, OneSettler, HoldFollows, Claimed
<1> QED
  BY <1>1, <1>2, <1>3, <1>4, <1>5, <1>6, <1>7, <1>8, <1>9, <1>10, <1>12, <1>13, <1>14,
     <1>15, <1>16, <1>17 DEF Next, World, Request

\* The inductive invariant holds in every state.
THEOREM Inductive == Spec => []IndInv
<1>1. Init => Placed /\ OneSettler /\ HoldFollows
  BY DEF Init, Placed, OneSettler, HoldFollows, Claimed, At, Idle
<1>2. TypeOK /\ Placed /\ OneSettler /\ HoldFollows <=> IndInv
  BY DEF IndInv
<1>3. TypeOK /\ TypeOK' /\ IndInv /\ [Next]_vars => IndInv'
  BY StrengthenedStep DEF Strengthened, IndInv
<1>4. Init /\ TypeOK => IndInv
  BY <1>1 DEF IndInv
<1> QED
  BY <1>3, <1>4, TypeCorrect, PTL DEF Spec

\* However many doors reach an order together, whatever is cut short, its buyer is
\* told of his payment at most once.
THEOREM SettlesOnce == Spec => []SettledOnce
<1>1. IndInv => SettledOnce
  BY DEF IndInv, OneSettler, SettledOnce
<1> QED
  BY <1>1, Inductive, PTL

\* Order, invoice and hold agree at every moment.
THEOREM LedgerSound == Spec => []LedgerAgrees
<1>1. IndInv => LedgerAgrees
  BY DEF IndInv, TypeOK, OrderStatus, HoldFollows, LedgerAgrees
<1> QED
  BY <1>1, Inductive, PTL

----------------------------------------------------------------------------
\* The doors together implement what an order promises: a step of theirs is a step
\* of OrderLifecycle, or one it does not see.
THEOREM ImplementsLifecycle == Spec => KeepsLifecycle
<1>1. Init => Lifecycle!Init
  BY DEF Init, Lifecycle!Init
<1>2. IndInv /\ [Next]_vars => [Lifecycle!Next]_(Lifecycle!vars)
  <2> SUFFICES ASSUME IndInv, [Next]_vars PROVE Lifecycle!Next \/ UNCHANGED Lifecycle!vars
    OBVIOUS
  <2> USE DEF IndInv, db
  <2>1. UNCHANGED db => UNCHANGED Lifecycle!vars
    BY DEF Lifecycle!vars
  <2>2. ASSUME NEW o \in Orders, PlaceOrder(o), UNCHANGED <<seat, told>>
        PROVE  Lifecycle!Next
    BY <2>2 DEF PlaceOrder, Lifecycle!Next, Lifecycle!Place
  <2>3. CASE World
    <3>1. ASSUME NEW o \in Orders, Checkout(o) PROVE Lifecycle!Next
      BY <2>2, <3>1 DEF Checkout
    <3> QED
      BY <2>1, <2>3, <3>1 DEF World, OrderAges, BuyerPays, PageExpires, RowAges, ChargeOutside
  <2>4. ASSUME NEW p \in Handlers, Request(p)
        PROVE  Lifecycle!Next \/ UNCHANGED Lifecycle!vars
    <3>1. ASSUME NEW o \in Orders, NEW a \in Attempts, Approve(p, o, a) PROVE Lifecycle!Next
      BY <2>2, <3>1 DEF Approve
    <3> QED
      BY <2>1, <2>4, <3>1 DEF Request, PayStart, ManualStart, Deliver, Confirm, CancelStart
  <2>5. ASSUME NEW o \in Orders, Reclaim(o) PROVE UNCHANGED Lifecycle!vars
    BY <2>1, <2>5 DEF Reclaim
  <2>6. ASSUME NEW p \in Procs, Continue(p)
        PROVE  Lifecycle!Next \/ UNCHANGED Lifecycle!vars
    <3>1. CASE CancelTx(p)
      <4>1. PICK o \in Orders : o = job[p].ord
        BY <3>1 DEF CancelTx, Placed, At
      <4>2. CASE Cancellable(o)
        <5>1. hold[o] = "seat_held" /\ HoldAfterCancel(o) = "cancelled"
          BY <4>2 DEF Cancellable, HoldFollows, HoldAfterCancel
        <5>2. Lifecycle!Cancel(o)
          BY <3>1, <4>1, <4>2, <5>1 DEF CancelTx, Cancellable, Lifecycle!Cancel
        <5> QED BY <5>2 DEF Lifecycle!Next
      <4>3. CASE ~Cancellable(o)
        BY <2>1, <3>1, <4>1, <4>3 DEF CancelTx
      <4> QED BY <4>2, <4>3
    <3>2. CASE SettleClaim(p)
      <4>1. PICK o \in Orders : o = job[p].ord /\ order[o] # "none"
        BY <3>2 DEF SettleClaim, Placed, At
      <4>2. CASE Claimable(o)
        <5>1. order[o] \in {"pending_payment", "cancelled"}
          BY <4>1, <4>2 DEF Claimable, HoldFollows, TypeOK
        <5>2. Lifecycle!Settle(o)
          BY <3>2, <4>1, <4>2, <5>1 DEF SettleClaim, Lifecycle!Settle
        <5> QED BY <5>2 DEF Lifecycle!Next
      <4>3. CASE ~Claimable(o)
        BY <2>1, <3>2, <4>1, <4>3 DEF SettleClaim
      <4> QED BY <4>2, <4>3
    <3>3. CASE SettleSeat(p)
      <4>1. PICK o \in Orders : o = job[p].ord
        BY <3>3 DEF SettleSeat, Placed, At
      <4>2. order[o] = "paid" /\ seat[o] = "none" /\ hold[o] \in {"seat_held", "cancelled"}
        <5>1. invoice[o] = "paid" /\ seat[o] = "none"
          BY <3>3, <4>1 DEF SettleSeat, At, OneSettler, Claimed
        <5> QED BY <5>1 DEF HoldFollows, TypeOK, OrderStatus
      <4>3. Lifecycle!Serve(o)
        <5>1. PICK outcome \in {"enrolled", "failed"} :
                 seat' = [seat EXCEPT ![o] = outcome] /\ hold' = [hold EXCEPT ![o] = HoldServed(o, outcome)]
          BY <3>3, <4>1 DEF SettleSeat
        <5>2. UNCHANGED <<order, invoice, told>>
          BY <3>3 DEF SettleSeat
        <5>3. CASE outcome = "enrolled"
          BY <4>2, <5>1, <5>2, <5>3 DEF HoldServed, Lifecycle!Serve
        <5>4. CASE outcome = "failed"
          <6>1. hold' = hold
            BY <5>1, <5>4 DEF HoldServed, TypeOK
          <6> QED BY <4>2, <5>1, <5>2, <5>4, <6>1 DEF Lifecycle!Serve
        <5> QED BY <5>1, <5>3, <5>4
      <4> QED BY <4>3 DEF Lifecycle!Next
    <3>4. CASE SettleNotify(p)
      <4>1. PICK o \in Orders : o = job[p].ord
        BY <3>4 DEF SettleNotify, Placed, At
      <4>2. told[o] = 0 /\ seat[o] # "none"
        BY <3>4, <4>1 DEF SettleNotify, At, OneSettler, Claimed
      <4>3. Lifecycle!Tell(o)
        BY <3>4, <4>1, <4>2 DEF SettleNotify, Lifecycle!Tell
      <4> QED BY <4>3 DEF Lifecycle!Next
    <3> QED
      BY <2>1, <2>6, <3>1, <3>2, <3>3, <3>4
         DEF Continue, AutoRead, PayCharge, PayRecord, EventMatch, EventFind, EventMove, EventCreate,
             EventFinish, ReclaimAsks, AskNext, ConfirmMove, ManualRecord
  <2>7. ASSUME NEW p \in Procs, Crash(p) PROVE UNCHANGED Lifecycle!vars
    BY <2>1, <2>7 DEF Crash
  <2>8. CASE UNCHANGED vars
    BY <2>1, <2>8 DEF vars
  <2> QED
    BY <2>3, <2>4, <2>5, <2>6, <2>7, <2>8 DEF Next
<1> QED
  BY <1>1, <1>2, Inductive, PTL DEF Spec, KeepsLifecycle, Lifecycle!Spec

----------------------------------------------------------------------------
(* No settlement without money.                                              *)

\* Money that is there stays there.
LEMMA MoneyStays ==
  ASSUME TypeOK,
         \A a \in Attempts : payFor[a] # None => payFor'[a] = payFor[a],
         \A a \in Attempts : charge[a] \in {"paid", "cash"} => charge'[a] = charge[a]
  PROVE  \A o \in Orders : Money(o) => Money(o)'
  BY NoneAssumption DEF Money, TypeOK

\* A handler that settles or ends, and leaves the payments alone.
LEMMA SettlingKeepsMoney ==
  ASSUME IndInv, MoneyBehind, NEW p \in Procs,
         UNCHANGED <<row, payFor, charge>>,
         \A o \in Orders : order'[o] = "paid" => order[o] = "paid" \/ Money(o),
         \A q \in Procs \ {p} : job'[q] = job[q],
         \/ job'[p].at \in {"idle", "finish"}
         \/ /\ job'[p].at \in {"seat", "notify"} /\ job'[p].ord = job[p].ord
            /\ job[p].at \in {"settle", "seat"}
  PROVE  MoneyBehind'
<1>1. \A x \in Orders : Money(x)' <=> Money(x)
  BY DEF Money
<1>2. SettledOnMoney'
  BY <1>1 DEF MoneyBehind, SettledOnMoney
<1>3. ASSUME NEW q \in Procs, NEW o \in Orders,
             job'[q].at \in {"move", "settle", "seat", "notify"}, job'[q].ord = o
      PROVE  Money(o)
  <2>1. job[q].at \in {"move", "settle", "seat", "notify"} /\ job[q].ord = o
    BY <1>3
  <2> QED BY <2>1 DEF MoneyBehind
<1>4. \A q \in Procs : job'[q].at \in {"ask", "move", "record", "manual", "match", "find", "create"}
                      => job'[q] = job[q]
  OBVIOUS
<1> QED BY <1>1, <1>2, <1>3, <1>4 DEF MoneyBehind

\* A handler books the money of its own attempt.
LEMMA BookingKeepsMoney ==
  ASSUME IndInv, MoneyBehind, NEW p \in Procs, NEW a \in Attempts, NEW o \in Orders,
         a = job[p].att, o = job[p].ord, payFor[a] = o, charge[a] \in {"paid", "cash"},
         row' = [row EXCEPT ![a] = "succeeded"], job' = [job EXCEPT ![p].at = "settle"],
         UNCHANGED <<order, payFor, charge>>
  PROVE  MoneyBehind'
<1>1. Money(o) /\ \A x \in Orders : Money(x) <=> Money(x)'
  BY DEF Money
<1>2. \A b \in Attempts : row'[b] = "succeeded" => b = a \/ row[b] = "succeeded"
  BY DEF IndInv, TypeOK
<1>3. job'[p].at = "settle" /\ job'[p].ord = o /\ \A q \in Procs \ {p} : job'[q] = job[q]
  BY DEF IndInv, TypeOK, Job
<1> QED BY <1>1, <1>2, <1>3, NoneAssumption DEF MoneyBehind, SettledOnMoney

LEMMA ApproveKeepsMoney ==
  ASSUME IndInv, MoneyBehind, NEW p \in Handlers, NEW o \in Orders, NEW a \in Attempts, Approve(p, o, a)
  PROVE  MoneyBehind'
<1>1. \A x \in Orders : Money(x) => Money(x)'
  <2>1. /\ \A b \in Attempts : payFor[b] # None => payFor'[b] = payFor[b]
        /\ \A b \in Attempts : charge[b] \in {"paid", "cash"} => charge'[b] = charge[b]
    BY DEF IndInv, TypeOK, Approve
  <2> QED BY <2>1, MoneyStays DEF IndInv
<1>2. /\ order' = [order EXCEPT ![o] = "pending_payment"] /\ UNCHANGED <<row, charge>>
      /\ \A b \in Attempts : payFor'[b] # payFor[b] => payFor[b] = None
  BY DEF Approve, PlaceOrder, IndInv, TypeOK
<1>3. /\ job'[p].at \in {"idle", "auto"} /\ \A q \in Procs \ {p} : job'[q] = job[q]
  <2>1. CASE a \in TestAttempts BY <2>1 DEF Approve, Start, IndInv, TypeOK, Procs
  <2>2. CASE a \notin TestAttempts BY <2>2 DEF Approve, At, Procs
  <2> QED BY <2>1, <2>2
<1>4. \A q \in Procs : job'[q].at \notin {"idle", "auto"} => job'[q] = job[q]
  BY <1>3
<1>5. \A x \in Orders : order'[x] = "paid" => order[x] = "paid"
  BY <1>2 DEF IndInv, TypeOK
<1>6. SettledOnMoney'
  BY <1>1, <1>5 DEF MoneyBehind, SettledOnMoney
<1>7. \A b \in Attempts : charge[b] # "none" => payFor[b] # None
  BY DEF IndInv, Placed
<1>8. \A q \in Procs : job[q].at \in {"ask", "move", "record", "manual", "match", "find", "create"} => job[q].ord \in Orders
  BY DEF IndInv, Placed, At
<1>9. \A q \in Procs : job[q].toAsk \subseteq Attempts
  BY DEF IndInv, TypeOK, Job
<1> QED BY <1>1, <1>2, <1>4, <1>6, <1>8, <1>9, NoneAssumption DEF MoneyBehind

LEMMA PayRecordKeepsMoney ==
  ASSUME IndInv, MoneyBehind, NEW p \in Procs, PayRecord(p)
  PROVE  MoneyBehind'
<1>1. CASE job[p].att \in TestAttempts
  <2>1. /\ job[p].att \in Attempts /\ job[p].ord \in Orders
        /\ payFor[job[p].att] = job[p].ord /\ charge[job[p].att] = "paid"
    BY <1>1 DEF PayRecord, At, MoneyBehind, IndInv, Placed
  <2> QED BY <1>1, <2>1, BookingKeepsMoney DEF PayRecord, Goto, db
<1>2. CASE job[p].att \notin TestAttempts
  <2>1. \A o \in Orders : Money(o) <=> Money(o)'
    BY DEF PayRecord, Money
  <2>2. job'[p].at = "idle" /\ \A q \in Procs \ {p} : job'[q] = job[q]
    BY <1>2 DEF PayRecord, Finish, Idle, IndInv, TypeOK
  <2>3. \A b \in Attempts : row'[b] = "succeeded" => row[b] = "succeeded"
    BY <1>2 DEF PayRecord, IndInv, TypeOK
  <2> QED BY <1>2, <2>1, <2>2, <2>3 DEF PayRecord, db, MoneyBehind, SettledOnMoney
<1> QED BY <1>1, <1>2

LEMMA ManualRecordKeepsMoney ==
  ASSUME IndInv, MoneyBehind, NEW p \in Procs, ManualRecord(p)
  PROVE  MoneyBehind'
<1>1. /\ job[p].att \in Attempts /\ job[p].ord \in Orders
      /\ payFor[job[p].att] = job[p].ord /\ charge[job[p].att] = "cash"
  BY DEF ManualRecord, At, MoneyBehind, IndInv, Placed
<1> QED BY <1>1, BookingKeepsMoney DEF ManualRecord, Goto, db

LEMMA EventCreateKeepsMoney ==
  ASSUME IndInv, MoneyBehind, NEW p \in Procs, EventCreate(p)
  PROVE  MoneyBehind'
<1>0. /\ job[p].att \in Attempts /\ job[p].ord \in Orders
        /\ payFor[job[p].att] = job[p].ord /\ charge[job[p].att] = "paid"
    BY DEF EventCreate, At, MoneyBehind, IndInv, Placed
<1>1. CASE row[job[p].att] = "none"
  BY <1>0, <1>1, BookingKeepsMoney DEF EventCreate, Goto, db
<1>2. CASE row[job[p].att] # "none"
  <2>1. \A o \in Orders : Money(o) <=> Money(o)'
    BY DEF EventCreate, Money
  <2>2. job'[p].at = "idle" /\ \A q \in Procs \ {p} : job'[q] = job[q]
    BY <1>2 DEF EventCreate, Finish, Idle, IndInv, TypeOK
  <2> QED BY <1>2, <2>1, <2>2 DEF EventCreate, db, MoneyBehind, SettledOnMoney
<1> QED BY <1>1, <1>2

LEMMA EventFindKeepsMoney ==
  ASSUME IndInv, MoneyBehind, NEW p \in Procs, EventFind(p)
  PROVE  MoneyBehind'
<1>1. UNCHANGED <<order, payFor, charge, row>> /\ \A o \in Orders : Money(o) <=> Money(o)'
  BY DEF EventFind, db, payments, Money
<1>2. /\ job[p].att \in Attempts /\ job[p].ord \in Orders /\ payFor[job[p].att] = job[p].ord
      /\ charge[job[p].att] = "paid" /\ Money(job[p].ord)
  BY DEF EventFind, At, IndInv, Placed, MoneyBehind, Money
<1>3. ASSUME NEW b \in Pending(job[p].ord), job' = [job EXCEPT ![p].at = "move", ![p].toAsk = {b}]
      PROVE  MoneyBehind'
  <2>1. payFor[b] = job[p].ord
    BY DEF Pending, RowsOf
  <2>2. job'[p].at = "move" /\ job'[p].ord = job[p].ord /\ job'[p].toAsk = {b}
    BY <1>3 DEF IndInv, TypeOK, Job
  <2>3. \A q \in Procs \ {p} : job'[q] = job[q]
    BY <1>3 DEF IndInv, TypeOK
  <2> QED BY <1>1, <1>2, <2>1, <2>2, <2>3 DEF MoneyBehind, SettledOnMoney
<1>4. ASSUME Pending(job[p].ord) = {}, Goto(p, IF Succeeded(job[p].ord) = {} THEN "create" ELSE "settle")
      PROVE  MoneyBehind'
  <2>1. job'[p].at \in {"create", "settle"} /\ job'[p].ord = job[p].ord /\ job'[p].att = job[p].att
    BY <1>4 DEF IndInv, TypeOK, Job, Goto
  <2>2. \A q \in Procs \ {p} : job'[q] = job[q]
    BY <1>4 DEF IndInv, TypeOK, Goto
  <2> QED BY <1>1, <1>2, <2>1, <2>2 DEF MoneyBehind, SettledOnMoney
<1> QED BY <1>3, <1>4 DEF EventFind

LEMMA AskNextKeepsMoney ==
  ASSUME IndInv, MoneyBehind, NEW p \in Procs, NEW b \in Attempts, AskNext(p, b)
  PROVE  MoneyBehind'
<1>1. UNCHANGED <<order, payFor, charge, row>> /\ \A o \in Orders : Money(o) <=> Money(o)'
  BY DEF AskNext, db, payments, Money
<1>2. job[p].ord \in Orders /\ payFor[b] = job[p].ord /\ \A c \in job[p].toAsk : payFor[c] = job[p].ord
  BY DEF AskNext, At, IndInv, Placed, MoneyBehind
<1>3. \A q \in Procs \ {p} : job'[q] = job[q]
  BY DEF AskNext, Goto, Finish, IndInv, TypeOK
<1>4. job'[p].ord = job[p].ord \/ job'[p].at = "idle"
  BY DEF AskNext, Goto, Finish, Idle, IndInv, TypeOK, Job
<1>5. job'[p].toAsk \subseteq job[p].toAsk
  BY DEF AskNext, Goto, Finish, Idle, IndInv, TypeOK, Job
<1>6. job'[p].at \in {"idle", "ask", "cancel"} \/ (job'[p].at = "move" /\ SaysPaid(b))
  BY DEF AskNext, At, Goto, Finish, Idle, IndInv, TypeOK, Job
<1>7. SaysPaid(b) => Money(job[p].ord)
  BY <1>2 DEF SaysPaid, Money
<1> QED BY <1>1, <1>2, <1>3, <1>4, <1>5, <1>6, <1>7 DEF MoneyBehind, SettledOnMoney
\* Steps that write neither rows nor jobs beyond what their own line says.
LEMMA MoneyStep == IndInv /\ MoneyBehind /\ [Next]_vars => MoneyBehind'
<1> SUFFICES ASSUME IndInv, MoneyBehind, [Next]_vars PROVE MoneyBehind'
  OBVIOUS
<1> USE NoneAssumption DEF IndInv, TypeOK, Job, Idle, Procs, db, payments, At, Goto, Finish, Start, AfterSettling
<1>1. ASSUME NEW o \in Orders, Checkout(o)
      PROVE  MoneyBehind'
  <2>1. \A x \in Orders : Money(x) => Money(x)'
    <3>1. /\ \A b \in Attempts : payFor[b] # None => payFor'[b] = payFor[b]
          /\ \A b \in Attempts : charge[b] \in {"paid", "cash"} => charge'[b] = charge[b]
      BY <1>1 DEF Checkout, PlaceOrder, Placed
    <3> QED BY <3>1, MoneyStays
  <2> QED
    BY <1>1, <2>1 DEF Checkout, PlaceOrder, Placed, MoneyBehind, SettledOnMoney
<1>2. ASSUME NEW o \in Orders, OrderAges(o)
      PROVE  MoneyBehind'
  <2>1. \A x \in Orders : Money(x) => Money(x)'
    <3>1. /\ \A b \in Attempts : payFor[b] # None => payFor'[b] = payFor[b]
          /\ \A b \in Attempts : charge[b] \in {"paid", "cash"} => charge'[b] = charge[b]
      BY <1>2 DEF OrderAges, Placed
    <3> QED BY <3>1, MoneyStays
  <2> QED
    BY <1>2, <2>1 DEF OrderAges, Placed, MoneyBehind, SettledOnMoney
<1>3. ASSUME NEW a \in Attempts, BuyerPays(a)
      PROVE  MoneyBehind'
  <2>1. \A x \in Orders : Money(x) => Money(x)'
    <3>1. /\ \A b \in Attempts : payFor[b] # None => payFor'[b] = payFor[b]
          /\ \A b \in Attempts : charge[b] \in {"paid", "cash"} => charge'[b] = charge[b]
      BY <1>3 DEF BuyerPays, Placed
    <3> QED BY <3>1, MoneyStays
  <2> QED
    BY <1>3, <2>1 DEF BuyerPays, Placed, MoneyBehind, SettledOnMoney
<1>4. ASSUME NEW a \in Attempts, PageExpires(a)
      PROVE  MoneyBehind'
  <2>1. \A x \in Orders : Money(x) => Money(x)'
    <3>1. /\ \A b \in Attempts : payFor[b] # None => payFor'[b] = payFor[b]
          /\ \A b \in Attempts : charge[b] \in {"paid", "cash"} => charge'[b] = charge[b]
      BY <1>4 DEF PageExpires, Placed
    <3> QED BY <3>1, MoneyStays
  <2> QED
    BY <1>4, <2>1 DEF PageExpires, Placed, MoneyBehind, SettledOnMoney
<1>5. ASSUME NEW a \in Attempts, RowAges(a)
      PROVE  MoneyBehind'
  <2>1. \A x \in Orders : Money(x) => Money(x)'
    <3>1. /\ \A b \in Attempts : payFor[b] # None => payFor'[b] = payFor[b]
          /\ \A b \in Attempts : charge[b] \in {"paid", "cash"} => charge'[b] = charge[b]
      BY <1>5 DEF RowAges, Placed
    <3> QED BY <3>1, MoneyStays
  <2> QED
    BY <1>5, <2>1 DEF RowAges, Placed, MoneyBehind, SettledOnMoney
<1>6. ASSUME NEW o \in Orders, NEW a \in Attempts, ChargeOutside(o, a)
      PROVE  MoneyBehind'
  <2>1. \A x \in Orders : Money(x) => Money(x)'
    <3>1. /\ \A b \in Attempts : payFor[b] # None => payFor'[b] = payFor[b]
          /\ \A b \in Attempts : charge[b] \in {"paid", "cash"} => charge'[b] = charge[b]
      BY <1>6 DEF ChargeOutside, Placed
    <3> QED BY <3>1, MoneyStays
  <2> QED
    BY <1>6, <2>1 DEF ChargeOutside, Placed, MoneyBehind, SettledOnMoney
<1>7. ASSUME NEW p \in Handlers, NEW o \in Orders, NEW a \in Attempts, Approve(p, o, a)
      PROVE  MoneyBehind'
  BY <1>7, ApproveKeepsMoney
<1>8. ASSUME NEW p \in Handlers, NEW o \in Orders, NEW a \in Attempts, PayStart(p, o, a)
      PROVE  MoneyBehind'
  <2>1. \A x \in Orders : Money(x) => Money(x)'
    <3>1. /\ \A b \in Attempts : payFor[b] # None => payFor'[b] = payFor[b]
          /\ \A b \in Attempts : charge[b] \in {"paid", "cash"} => charge'[b] = charge[b]
      BY <1>8 DEF PayStart, Placed
    <3> QED BY <3>1, MoneyStays
  <2> QED
    BY <1>8, <2>1 DEF PayStart, Placed, MoneyBehind, SettledOnMoney
<1>9. ASSUME NEW p \in Handlers, NEW o \in Orders, NEW a \in Attempts, ManualStart(p, o, a)
      PROVE  MoneyBehind'
  <2>1. \A x \in Orders : Money(x) => Money(x)'
    <3>1. /\ \A b \in Attempts : payFor[b] # None => payFor'[b] = payFor[b]
          /\ \A b \in Attempts : charge[b] \in {"paid", "cash"} => charge'[b] = charge[b]
      BY <1>9 DEF ManualStart, Placed
    <3> QED BY <3>1, MoneyStays
  <2> QED
    BY <1>9, <2>1 DEF ManualStart, Placed, MoneyBehind, SettledOnMoney
<1>10. ASSUME NEW p \in Handlers, NEW a \in Attempts, Deliver(p, a)
      PROVE  MoneyBehind'
  <2>1. \A x \in Orders : Money(x) => Money(x)'
    <3>1. /\ \A b \in Attempts : payFor[b] # None => payFor'[b] = payFor[b]
          /\ \A b \in Attempts : charge[b] \in {"paid", "cash"} => charge'[b] = charge[b]
      BY <1>10 DEF Deliver, Placed
    <3> QED BY <3>1, MoneyStays
  <2> QED
    BY <1>10, <2>1 DEF Deliver, Placed, MoneyBehind, SettledOnMoney
<1>11. ASSUME NEW p \in Procs, NEW o \in Orders, NEW door \in Doors, ConfirmFrom(p, door, o),
                order[o] # "none", UNCHANGED <<db, stale, payments, crashes>>
      PROVE  MoneyBehind'
  <2>1. \A x \in Orders : Money(x) => Money(x)'
    <3>1. /\ \A b \in Attempts : payFor[b] # None => payFor'[b] = payFor[b]
          /\ \A b \in Attempts : charge[b] \in {"paid", "cash"} => charge'[b] = charge[b]
      BY <1>11 DEF ConfirmFrom, Placed
    <3> QED BY <3>1, MoneyStays
  <2>2. \A b \in Pending(o) : payFor[b] = o
    BY DEF Pending, RowsOf
  <2>3. /\ job'[p].ord \in {o, None}
        /\ job'[p].at \in {"idle", "ask", "settle", "cancel"}
        /\ job'[p].at = "ask" => job'[p].ord = o /\ job'[p].toAsk = Pending(o)
        /\ job'[p].at = "settle" => job'[p].ord = o /\ Succeeded(o) # {}
    BY <1>11 DEF ConfirmFrom
  <2>4. \A q \in Procs \ {p} : job'[q] = job[q]
    BY <1>11 DEF ConfirmFrom
  <2>5. Succeeded(o) # {} => Money(o)
    BY DEF Succeeded, RowsOf, MoneyBehind
  <2> HIDE DEF TypeOK, Job, Idle, Start, Finish, Goto, AfterSettling
  <2> QED
    BY <1>11, <2>1, <2>2, <2>3, <2>4, <2>5 DEF MoneyBehind, SettledOnMoney
<1>12. ASSUME NEW p \in Handlers, NEW o \in Orders, Confirm(p, o)
      PROVE  MoneyBehind'
  BY <1>11, <1>12 DEF Confirm, Doors
<1>13. ASSUME NEW p \in Handlers, NEW o \in Orders, CancelStart(p, o)
      PROVE  MoneyBehind'
  <2>1. \A x \in Orders : Money(x) => Money(x)'
    <3>1. /\ \A b \in Attempts : payFor[b] # None => payFor'[b] = payFor[b]
          /\ \A b \in Attempts : charge[b] \in {"paid", "cash"} => charge'[b] = charge[b]
      BY <1>13 DEF CancelStart, Placed
    <3> QED BY <3>1, MoneyStays
  <2> QED
    BY <1>13, <2>1 DEF CancelStart, Placed, MoneyBehind, SettledOnMoney
<1>14. ASSUME NEW o \in Orders, Reclaim(o)
      PROVE  MoneyBehind'
  <2>1. \A x \in Orders : Money(x) => Money(x)'
    <3>1. /\ \A b \in Attempts : payFor[b] # None => payFor'[b] = payFor[b]
          /\ \A b \in Attempts : charge[b] \in {"paid", "cash"} => charge'[b] = charge[b]
      BY <1>14 DEF Reclaim, Placed
    <3> QED BY <3>1, MoneyStays
  <2> QED
    BY <1>14, <2>1 DEF Reclaim, Placed, MoneyBehind, SettledOnMoney
<1>15. ASSUME NEW p \in Procs, Continue(p)
      PROVE  MoneyBehind'
  <2>1. CASE AutoRead(p)
    <3>1. \A x \in Orders : Money(x) => Money(x)'
      <4>1. /\ \A b \in Attempts : payFor[b] # None => payFor'[b] = payFor[b]
            /\ \A b \in Attempts : charge[b] \in {"paid", "cash"} => charge'[b] = charge[b]
        BY <2>1 DEF AutoRead, Placed
      <4> QED BY <4>1, MoneyStays
    <3> QED
      BY <2>1, <3>1 DEF AutoRead, Placed, MoneyBehind, SettledOnMoney
  <2>2. CASE PayCharge(p)
    <3>1. \A x \in Orders : Money(x) => Money(x)'
      <4>1. /\ \A b \in Attempts : payFor[b] # None => payFor'[b] = payFor[b]
            /\ \A b \in Attempts : charge[b] \in {"paid", "cash"} => charge'[b] = charge[b]
        BY <2>2 DEF PayCharge, Placed
      <4> QED BY <4>1, MoneyStays
    <3> QED
      BY <2>2, <3>1 DEF PayCharge, Placed, MoneyBehind, SettledOnMoney
  <2>3. CASE PayRecord(p)
    BY <2>3, PayRecordKeepsMoney
  <2>4. CASE EventMatch(p)
    <3>1. \A x \in Orders : Money(x) => Money(x)'
      <4>1. /\ \A b \in Attempts : payFor[b] # None => payFor'[b] = payFor[b]
            /\ \A b \in Attempts : charge[b] \in {"paid", "cash"} => charge'[b] = charge[b]
        BY <2>4 DEF EventMatch, Placed
      <4> QED BY <4>1, MoneyStays
    <3> QED
      BY <2>4, <3>1 DEF EventMatch, Placed, MoneyBehind, SettledOnMoney
  <2>5. CASE EventFind(p)
    BY <2>5, EventFindKeepsMoney
  <2>6. CASE EventMove(p)
    <3>1. \A x \in Orders : Money(x) => Money(x)'
      <4>1. /\ \A b \in Attempts : payFor[b] # None => payFor'[b] = payFor[b]
            /\ \A b \in Attempts : charge[b] \in {"paid", "cash"} => charge'[b] = charge[b]
        BY <2>6 DEF EventMove, Placed
      <4> QED BY <4>1, MoneyStays
    <3> QED
      BY <2>6, <3>1 DEF EventMove, Placed, MoneyBehind, SettledOnMoney
  <2>7. CASE EventCreate(p)
    BY <2>7, EventCreateKeepsMoney
  <2>8. CASE EventFinish(p)
    <3>1. /\ job'[p].at = "idle"
          /\ \A q \in Procs \ {p} : job'[q] = job[q]
      BY <2>8 DEF EventFinish
    <3> QED BY <2>8, <3>1, SettlingKeepsMoney DEF EventFinish
  <2>9. CASE ReclaimAsks(p)
    BY <1>11, <2>9 DEF ReclaimAsks, Placed
  <2>10. ASSUME NEW b \in Attempts, AskNext(p, b)
        PROVE  MoneyBehind'
    BY <2>10, AskNextKeepsMoney
  <2>11. CASE ConfirmMove(p)
    <3>1. \A x \in Orders : Money(x) => Money(x)'
      <4>1. /\ \A b \in Attempts : payFor[b] # None => payFor'[b] = payFor[b]
            /\ \A b \in Attempts : charge[b] \in {"paid", "cash"} => charge'[b] = charge[b]
        BY <2>11 DEF ConfirmMove, Placed
      <4> QED BY <4>1, MoneyStays
    <3>2. PICK b \in job[p].toAsk : ConfirmMove(p)!3!(b)
      BY <2>11 DEF ConfirmMove
    <3>3. CASE row[b] # "pending"
      BY <2>11, <3>1, <3>2, <3>3 DEF ConfirmMove, Placed, MoneyBehind, SettledOnMoney
    <3>4. CASE row[b] = "pending"
      <4>1. payFor[b] = job[p].ord /\ b \in Attempts /\ Money(job[p].ord) /\ job[p].ord \in Orders
        BY <2>11, <3>2 DEF ConfirmMove, MoneyBehind, Placed, At
      <4>2. \A a \in Attempts : row'[a] = "succeeded" => a = b \/ row[a] = "succeeded"
        BY <3>2, <3>4
      <4>3. job'[p].at = "settle" /\ job'[p].ord = job[p].ord /\ \A q \in Procs \ {p} : job'[q] = job[q]
        BY <3>2, <3>4
      <4>4. UNCHANGED <<order, payFor, charge>>
        BY <2>11 DEF ConfirmMove
      <4> QED BY <3>1, <4>1, <4>2, <4>3, <4>4, NoneAssumption DEF MoneyBehind, SettledOnMoney
    <3> QED BY <3>3, <3>4
  <2>12. CASE CancelTx(p)
    <3>1. /\ job'[p].at = "idle"
          /\ \A q \in Procs \ {p} : job'[q] = job[q]
          /\ \A o \in Orders : order'[o] = "paid" => order[o] = "paid"
      BY <2>12 DEF CancelTx, Placed
    <3> QED BY <2>12, <3>1, SettlingKeepsMoney DEF CancelTx
  <2>13. CASE ManualRecord(p)
    BY <2>13, ManualRecordKeepsMoney
  <2>14. CASE SettleClaim(p)
    <3>1. job[p].at = "settle" /\ job[p].ord \in Orders /\ Money(job[p].ord)
      BY <2>14 DEF SettleClaim, Placed, MoneyBehind
    <3>2. \A o \in Orders : order'[o] = "paid" => order[o] = "paid" \/ Money(o)
      BY <2>14, <3>1 DEF SettleClaim
    <3>3. /\ \A q \in Procs \ {p} : job'[q] = job[q]
          /\ job'[p].at \in {"idle", "finish"} \/ (job'[p].at = "seat" /\ job'[p].ord = job[p].ord)
      BY <2>14 DEF SettleClaim
    <3> QED BY <2>14, <3>1, <3>2, <3>3, SettlingKeepsMoney DEF SettleClaim
  <2>15. CASE SettleSeat(p)
    <3>1. /\ job[p].at = "seat"
          /\ job'[p].at = "notify" /\ job'[p].ord = job[p].ord
          /\ \A q \in Procs \ {p} : job'[q] = job[q]
      BY <2>15 DEF SettleSeat
    <3> QED BY <2>15, <3>1, SettlingKeepsMoney DEF SettleSeat
  <2>16. CASE SettleNotify(p)
    <3>1. /\ job'[p].at \in {"idle", "finish"}
          /\ \A q \in Procs \ {p} : job'[q] = job[q]
      BY <2>16 DEF SettleNotify
    <3> QED BY <2>16, <3>1, SettlingKeepsMoney DEF SettleNotify
  <2> QED
    BY <1>15, <2>1, <2>2, <2>3, <2>4, <2>5, <2>6, <2>7, <2>8, <2>9, <2>10, <2>11, <2>12, <2>13, <2>14, <2>15, <2>16 DEF Continue
<1>16. ASSUME NEW p \in Procs, Crash(p)
      PROVE  MoneyBehind'
  <2>1. \A x \in Orders : Money(x) => Money(x)'
    <3>1. /\ \A b \in Attempts : payFor[b] # None => payFor'[b] = payFor[b]
          /\ \A b \in Attempts : charge[b] \in {"paid", "cash"} => charge'[b] = charge[b]
      BY <1>16 DEF Crash, Placed
    <3> QED BY <3>1, MoneyStays
  <2> QED
    BY <1>16, <2>1 DEF Crash, Placed, MoneyBehind, SettledOnMoney
<1>17. CASE UNCHANGED vars
  <2>1. \A x \in Orders : Money(x) => Money(x)'
    <3>1. /\ \A b \in Attempts : payFor[b] # None => payFor'[b] = payFor[b]
          /\ \A b \in Attempts : charge[b] \in {"paid", "cash"} => charge'[b] = charge[b]
      BY <1>17 DEF vars, Placed
    <3> QED BY <3>1, MoneyStays
  <2> QED
    BY <1>17, <2>1 DEF vars, Placed, MoneyBehind, SettledOnMoney
<1> QED
  BY <1>1, <1>2, <1>3, <1>4, <1>5, <1>6, <1>7, <1>8, <1>9, <1>10, <1>12, <1>13, <1>14,
     <1>15, <1>16, <1>17 DEF Next, World, Request

\* Whatever door an order is settled through, money for it arrived: by its page, from
\* outside, or in cash.
THEOREM SettlesOnMoney == Spec => []SettledOnMoney
<1>1. Init => MoneyBehind
  BY DEF Init, MoneyBehind, SettledOnMoney, Idle
<1>2. IndInv /\ MoneyBehind /\ [Next]_vars => MoneyBehind'
  BY MoneyStep
<1>3. MoneyBehind => SettledOnMoney
  BY DEF MoneyBehind
<1> QED
  BY <1>1, <1>2, <1>3, Inductive, PTL DEF Spec

=============================================================================
