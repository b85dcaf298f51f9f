--------------------------- MODULE Refunds_proofs ---------------------------
(***************************************************************************)
(* Proofs about Refunds, for any orders, payments, refunds and handlers,   *)
(* any price and any number of lost answers.                               *)
(***************************************************************************)
EXTENDS Refunds, FiniteSetTheorems, TLAPS

\* Units over any table of refunds, so that a fact about it holds before a step and after.
UnitsOf(f, p, statuses) ==
  {u \in Refunds \X (1..Price) :
     f[u[1]].pay = p /\ f[u[1]].status \in statuses /\ u[2] <= f[u[1]].amount}

LEMMA UnitsNow ==
  ASSUME NEW p, NEW statuses
  PROVE  Units(p, statuses) = UnitsOf(refund, p, statuses)
  BY DEF Units, UnitsOf

LEMMA UnitsNext ==
  ASSUME NEW CONSTANT p, NEW CONSTANT statuses
  PROVE  Units(p, statuses)' = UnitsOf(refund', p, statuses)
  BY DEF Units, UnitsOf

\* A total is a number.
LEMMA UnitsFinite ==
  ASSUME NEW f, NEW p, NEW statuses
  PROVE  IsFiniteSet(UnitsOf(f, p, statuses)) /\ Cardinality(UnitsOf(f, p, statuses)) \in Nat
<1>1. IsFiniteSet(1..Price)
  BY PriceAssumption, FS_Interval
<1>2. IsFiniteSet(Refunds \X (1..Price))
  BY <1>1, RefundsAssumption, FS_Product
<1>3. UnitsOf(f, p, statuses) \subseteq Refunds \X (1..Price)
  BY DEF UnitsOf
<1> QED BY <1>2, <1>3, FS_Subset, FS_CardinalityType

\* A refund of n units adds n units to what is processed of its payment.
LEMMA UnitsOfOne ==
  ASSUME NEW r, NEW n \in 0..Price
  PROVE  IsFiniteSet({r} \X (1..n)) /\ Cardinality({r} \X (1..n)) = n
<1>1. IsFiniteSet({r}) /\ Cardinality({r}) = 1
  BY FS_Singleton
<1>2. IsFiniteSet(1..n) /\ Cardinality(1..n) = n
  BY PriceAssumption, FS_Interval
<1>3. IsFiniteSet({r} \X (1..n)) /\ Cardinality({r} \X (1..n)) = Cardinality({r}) * Cardinality(1..n)
  BY <1>1, <1>2, FS_Product
<1>4. 1 * n = n
  BY PriceAssumption
<1> QED BY <1>1, <1>2, <1>3, <1>4

LEMMA BookedUnits ==
  ASSUME NEW f \in [Refunds -> Refund], NEW r \in Refunds, f[r].status = "pending", NEW p,
         NEW g, g = [f EXCEPT ![r].status = "processed"]
  PROVE  Cardinality(UnitsOf(g, p, {"processed"}))
         = Cardinality(UnitsOf(f, p, {"processed"})) + (IF f[r].pay = p THEN f[r].amount ELSE 0)
<1>1. \A q \in Refunds \ {r} : g[q] = f[q]
  OBVIOUS
<1>2. g[r].status = "processed" /\ g[r].pay = f[r].pay /\ g[r].amount = f[r].amount
  BY DEF Refund
<1>3. CASE f[r].pay # p
  <2>1. UnitsOf(g, p, {"processed"}) = UnitsOf(f, p, {"processed"})
    BY <1>1, <1>2, <1>3 DEF UnitsOf
  <2> QED BY <2>1, <1>3, UnitsFinite
<1>4. CASE f[r].pay = p
  <2>1. f[r].amount \in 0..Price
    BY DEF Refund
  <2>2. UnitsOf(g, p, {"processed"}) = UnitsOf(f, p, {"processed"}) \cup ({r} \X (1..f[r].amount))
    BY <1>1, <1>2, <1>4, <2>1, PriceAssumption DEF UnitsOf
  <2>3. UnitsOf(f, p, {"processed"}) \cap ({r} \X (1..f[r].amount)) = {}
    BY DEF UnitsOf
  <2>4. Cardinality({r} \X (1..f[r].amount)) = f[r].amount /\ IsFiniteSet({r} \X (1..f[r].amount))
    BY <2>1, UnitsOfOne
  <2>5. Cardinality({}) = 0
    BY FS_EmptySet
  <2>6. Cardinality(UnitsOf(g, p, {"processed"}))
        = Cardinality(UnitsOf(f, p, {"processed"})) + Cardinality({r} \X (1..f[r].amount))
          - Cardinality(UnitsOf(f, p, {"processed"}) \cap ({r} \X (1..f[r].amount)))
    BY <2>2, <2>4, UnitsFinite, FS_Union
  <2> DEFINE a == Cardinality(UnitsOf(f, p, {"processed"}))
             b == Cardinality(UnitsOf(g, p, {"processed"}))
  <2>7. b = a + f[r].amount - 0
    BY <2>3, <2>4, <2>5, <2>6
  <2>8. a \in Nat
    BY UnitsFinite
  <2> HIDE DEF a, b
  <2>9. b = a + f[r].amount
    BY <2>1, <2>7, <2>8, PriceAssumption
  <2> QED BY <2>9, <1>4 DEF a, b
<1> QED BY <1>3, <1>4

\* What is not processed before and after a step does not count.
LEMMA UnitsKept ==
  ASSUME NEW f, NEW g, NEW p,
         \A r \in Refunds : g[r] = f[r] \/ (f[r].status # "processed" /\ g[r].status # "processed")
  PROVE  UnitsOf(g, p, {"processed"}) = UnitsOf(f, p, {"processed"})
<1>1. \A u \in Refunds \X (1..Price) : u[1] \in Refunds
  OBVIOUS
<1>2. \A u \in Refunds \X (1..Price) :
        g[u[1]].status = "processed" \/ f[u[1]].status = "processed" => g[u[1]] = f[u[1]]
  BY <1>1
<1> QED BY <1>2 DEF UnitsOf

LEMMA TotalNow ==
  ASSUME NEW p, NEW statuses
  PROVE  Total(p, statuses) = Cardinality(UnitsOf(refund, p, statuses)) /\ Total(p, statuses) \in Nat
  BY UnitsNow, UnitsFinite DEF Total

LEMMA TotalNext ==
  ASSUME NEW CONSTANT p, NEW CONSTANT statuses
  PROVE  Total(p, statuses)' = Cardinality(UnitsOf(refund', p, statuses))
  BY UnitsNext DEF Total

----------------------------------------------------------------------------
LEMMA IdleTyped == Idle \in Job
  BY PriceAssumption DEF Idle, Job, Places

\* What one handler does with itself keeps the type of job.
LEMMA JobTyped ==
  ASSUME TypeOK, NEW h \in Handlers, NEW j \in Job, job' = [job EXCEPT ![h] = j]
  PROVE  job' \in [Handlers -> Job]
  BY DEF TypeOK

LEMMA FinishTyped ==
  ASSUME TypeOK, NEW h \in Handlers, Finish(h)
  PROVE  job' \in [Handlers -> Job]
  BY IdleTyped DEF TypeOK, Finish

LEMMA PlaceTyped ==
  ASSUME NEW j \in Job, NEW place \in Places
  PROVE  [j EXCEPT !.at = place] \in Job
  BY DEF Job

LEMMA BeginTyped ==
  ASSUME NEW place \in Places, NEW r \in Refunds, NEW p \in Payments \cup {None}
  PROVE  [Idle EXCEPT !.at = place, !.ref = r, !.pay = p] \in Job /\ [Idle EXCEPT !.at = place, !.ref = r] \in Job
  BY IdleTyped DEF Job

LEMMA AskTyped ==
  ASSUME NEW p \in Payments, NEW n \in 1..Price
  PROVE  [Idle EXCEPT !.at = "request", !.pay = p, !.amount = n] \in Job
<1>1. n \in 0..Price
  BY PriceAssumption
<1> QED BY <1>1, IdleTyped DEF Job, Places

----------------------------------------------------------------------------
(* The invariant: types, and a handler's place with what it works on. *)

LEMMA InvInit == Init => TypeOK /\ Placed /\ TxAlone
<1>1. Init => TypeOK
  BY IdleTyped, PriceAssumption DEF Init, TypeOK, Refund, Paid
<1>2. Init => Placed /\ TxAlone
  BY DEF Init, Placed, TxAlone, InTx, At, Idle
<1> QED BY <1>1, <1>2

LEMMA TypeStep ==
  ASSUME TypeOK, Placed, [Next]_vars
  PROVE  TypeOK'
<1> USE DEF TypeOK
<1>1. ASSUME NEW h \in Handlers, NEW p \in Payments, NEW n \in 1..Price, RequestRead(h, p, n) PROVE TypeOK'
  <2>2. job' \in [Handlers -> Job]
    BY <1>1, AskTyped, JobTyped DEF RequestRead
  <2> QED BY <1>1, <2>2 DEF RequestRead
<1>2. ASSUME NEW h \in Handlers, NEW r \in Refunds, RequestWrite(h, r) PROVE TypeOK'
  <2>1. job[h] \in Job
    OBVIOUS
  <2>2. [pay |-> job[h].pay, amount |-> job[h].amount, status |-> "pending"] \in Refund
    BY <2>1 DEF Job, Refund
  <2> QED BY <1>2, <2>2, FinishTyped DEF RequestWrite
<1>3. ASSUME NEW h \in Handlers, NEW r \in Refunds, RejectRead(h, r) \/ ApproveRead(h, r) PROVE TypeOK'
  <2>1. refund[r].pay \in Payments \cup {None}
    BY DEF Refund
  <2>2. job' \in [Handlers -> Job]
    BY <1>3, <2>1, BeginTyped, JobTyped DEF RejectRead, ApproveRead, Places
  <2> QED BY <1>3, <2>2 DEF RejectRead, ApproveRead
<1>4. ASSUME NEW h \in Handlers, NoRefundLeft(h) \/ ProviderRefuses(h) PROVE TypeOK'
  BY <1>4, FinishTyped DEF NoRefundLeft, ProviderRefuses
<1>5. ASSUME NEW h \in Handlers, RejectWrite(h) PROVE TypeOK'
  <2>1. [refund EXCEPT ![job[h].ref].status = "rejected"] \in [Refunds -> Refund]
    BY DEF Refund
  <2> QED BY <1>5, <2>1, FinishTyped DEF RejectWrite
<1>6. ASSUME NEW h \in Handlers, NEW place \in Places, job' = [job EXCEPT ![h].at = place]
      PROVE  job' \in [Handlers -> Job]
  <2>1. job[h] \in Job
    OBVIOUS
  <2>2. job' = [job EXCEPT ![h] = [job[h] EXCEPT !.at = place]]
    BY <1>6
  <2> QED BY <2>1, <2>2, PlaceTyped, JobTyped
<1>7. ASSUME NEW h \in Handlers, ApproveLock(h) PROVE TypeOK'
  <2>1. job' \in [Handlers -> Job]
    BY <1>6, <1>7, FinishTyped DEF ApproveLock, Places
  <2> QED BY <1>7, <2>1 DEF ApproveLock
<1>8. ASSUME NEW h \in Handlers, ProviderSends(h) PROVE TypeOK'
  <2>1. job' \in [Handlers -> Job]
    BY <1>6, <1>8 DEF ProviderSends, Places
  <2>2. sent' = [sent EXCEPT ![job[h].ref] = sent[job[h].ref] + 1]
    BY <1>8 DEF ProviderSends
  <2>3. job[h].ref \in Refunds
    BY <1>8 DEF ProviderSends, Placed, At
  <2>4. sent' \in [Refunds -> Nat]
    BY <2>2, <2>3
  <2> QED BY <1>8, <2>1, <2>4 DEF ProviderSends
<1>9. ASSUME NEW h \in Handlers, Book(h) PROVE TypeOK'
  <2> DEFINE total == Total(job[h].pay, {"processed"}) + refund[job[h].ref].amount
  <2>1. job[h].ref \in Refunds /\ job[h].pay \in Payments
    BY <1>9 DEF Book, At, Placed
  <2>2. refund[job[h].ref].amount \in Nat
    BY <2>1, PriceAssumption DEF Refund
  <2>3. total \in Nat
    BY <2>2, TotalNow
  <2> HIDE DEF total
  <2>4. job[h] \in Job
    OBVIOUS
  <2>5. [job[h] EXCEPT !.at = "ledger", !.total = total] \in Job
    BY <2>3, <2>4 DEF Job, Places
  <2>6. job' = [job EXCEPT ![h] = [job[h] EXCEPT !.at = "ledger", !.total = total]]
    BY <1>9 DEF Book, total
  <2>7. job' \in [Handlers -> Job]
    BY <2>5, <2>6, JobTyped
  <2>8. [refund EXCEPT ![job[h].ref].status = "processed"] \in [Refunds -> Refund]
    BY DEF Refund
  <2>9. StatusOf(total, refund[job[h].ref].amount) \in Paid
    BY DEF StatusOf, Paid
  <2> QED BY <1>9, <2>7, <2>8, <2>9 DEF Book, total
<1>10. ASSUME NEW h \in Handlers, LedgerRead(h) PROVE TypeOK'
  <2> DEFINE o == OrderOf[job[h].pay]
  <2>1. o \in Orders
    BY <1>10, OrderOfAssumption DEF LedgerRead, At, Placed
  <2>2. job[h] \in Job /\ applied[o] \in Nat
    BY <2>1
  <2>3. [job[h] EXCEPT !.at = "apply", !.read = applied[o]] \in Job
    BY <2>2 DEF Job, Places
  <2>4. Finish(h) \/ job' = [job EXCEPT ![h] = [job[h] EXCEPT !.at = "apply", !.read = applied[o]]]
    BY <1>10 DEF LedgerRead
  <2>5. job' \in [Handlers -> Job]
    BY <2>3, <2>4, JobTyped, FinishTyped
  <2> QED BY <1>10, <2>5 DEF LedgerRead
<1>11. ASSUME NEW h \in Handlers, LedgerWrite(h) PROVE TypeOK'
  <2>1. job[h].total \in Nat
    BY DEF Job
  <2> QED BY <1>11, <2>1, FinishTyped DEF LedgerWrite
<1>12. ASSUME NEW h \in Handlers, Cut(h) PROVE TypeOK'
  <2>1. cut' \in [Refunds -> Nat]
    BY <1>12 DEF Cut
  <2> QED BY <1>12, <2>1, FinishTyped DEF Cut
<1>13. CASE UNCHANGED vars
  BY <1>13 DEF vars
<1> QED BY <1>1, <1>2, <1>3, <1>4, <1>5, <1>7, <1>8, <1>9, <1>10, <1>11, <1>12, <1>13 DEF Next

\* Placed, for one handler's job over a table of refunds.
WellPlaced(j, f) ==
  /\ j.at \notin {"idle", "reject"} => j.pay \in Payments
  /\ j.at = "request" => j.amount > 0
  /\ j.at \in {"reject", "lock", "call", "book"} => j.ref \in Refunds /\ f[j.ref].status # "none"
  /\ j.at \in {"lock", "call", "book"} => j.pay = f[j.ref].pay

\* Once asked for, a refund stays of its payment and its amount.
LEMMA RowsKept ==
  ASSUME TypeOK, Placed, [Next]_vars, NEW r \in Refunds, refund[r].status # "none"
  PROVE  refund'[r].status # "none" /\ refund'[r].pay = refund[r].pay /\ refund'[r].amount = refund[r].amount
<1>1. refund[r] \in Refund
  BY DEF TypeOK
<1>2. CASE refund' = refund
  BY <1>2
<1>3. CASE \E h \in Handlers, q \in Refunds : RequestWrite(h, q)
  BY <1>1, <1>3 DEF RequestWrite, TypeOK
<1>4. CASE \E h \in Handlers : RejectWrite(h)
  BY <1>1, <1>4 DEF RejectWrite, TypeOK, Refund
<1>5. CASE \E h \in Handlers : Book(h)
  BY <1>1, <1>5 DEF Book, TypeOK, Refund
<1> QED BY <1>2, <1>3, <1>4, <1>5 DEF Next, vars, RequestRead, NoRefundLeft, RejectRead, ApproveRead,
           ApproveLock, ProviderSends, ProviderRefuses, LedgerRead, LedgerWrite, Cut

LEMMA PlacedStep ==
  ASSUME TypeOK, Placed, [Next]_vars
  PROVE  Placed'
<1>1. \A r \in Refunds : refund'[r].status # "none" => refund'[r].pay \in Payments /\ refund'[r].amount > 0
  <2> SUFFICES ASSUME NEW r \in Refunds, refund'[r].status # "none"
               PROVE  refund'[r].pay \in Payments /\ refund'[r].amount > 0
    OBVIOUS
  <2>1. CASE refund[r].status # "none"
    BY <2>1, RowsKept DEF Placed
  <2>2. CASE refund[r].status = "none"
    <3>1. CASE \E h \in Handlers : RequestWrite(h, r)
      BY <3>1 DEF RequestWrite, Placed, At, TypeOK
    <3>2. CASE refund'[r] = refund[r]
      BY <2>2, <3>2
    <3>3. CASE \E h \in Handlers, q \in Refunds : RequestWrite(h, q) /\ q # r
      BY <2>2, <3>3 DEF RequestWrite, TypeOK
    <3>4. CASE \E h \in Handlers : RejectWrite(h)
      BY <2>2, <3>4 DEF RejectWrite, Rejectable, Placed, At, TypeOK
    <3>5. CASE \E h \in Handlers : Book(h)
      BY <2>2, <3>5 DEF Book, Placed, At, TypeOK
    <3> QED BY <3>1, <3>2, <3>3, <3>4, <3>5 DEF Next, vars, RequestRead, NoRefundLeft, RejectRead, ApproveRead,
           ApproveLock, ProviderSends, ProviderRefuses, LedgerRead, LedgerWrite, Cut
  <2> QED BY <2>1, <2>2
<1>2. \A j : WellPlaced(j, refund) => WellPlaced(j, refund')
  BY RowsKept DEF WellPlaced
<1>3. \A h \in Handlers : WellPlaced(job[h], refund)
  BY DEF Placed, WellPlaced, At
<1>4. \A h \in Handlers : WellPlaced(job'[h], refund) => WellPlaced(job'[h], refund')
  BY <1>2
<1>5. ASSUME NEW h \in Handlers, NEW j, job' = [job EXCEPT ![h] = j], WellPlaced(j, refund)
      PROVE  \A g \in Handlers : WellPlaced(job'[g], refund)
  BY <1>3, <1>5 DEF TypeOK
<1>6. ASSUME NEW h \in Handlers, Finish(h)
      PROVE  \A g \in Handlers : WellPlaced(job'[g], refund)
  <2>1. WellPlaced(Idle, refund)
    BY DEF WellPlaced, Idle
  <2> QED BY <1>5, <1>6, <2>1 DEF Finish
<1>7. \A g \in Handlers : WellPlaced(job'[g], refund)
  <2>1. ASSUME NEW h \in Handlers, NEW p \in Payments, NEW n \in 1..Price, RequestRead(h, p, n)
        PROVE  \A g \in Handlers : WellPlaced(job'[g], refund)
    <3>1. WellPlaced([Idle EXCEPT !.at = "request", !.pay = p, !.amount = n], refund)
      BY DEF WellPlaced, Idle
    <3> QED BY <1>5, <2>1, <3>1 DEF RequestRead
  <2>2. ASSUME NEW h \in Handlers, NEW r \in Refunds, RejectRead(h, r)
        PROVE  \A g \in Handlers : WellPlaced(job'[g], refund)
    <3>1. WellPlaced([Idle EXCEPT !.at = "reject", !.ref = r], refund)
      BY <2>2 DEF WellPlaced, Idle, RejectRead
    <3> QED BY <1>5, <2>2, <3>1 DEF RejectRead
  <2>3. ASSUME NEW h \in Handlers, NEW r \in Refunds, ApproveRead(h, r)
        PROVE  \A g \in Handlers : WellPlaced(job'[g], refund)
    <3>1. WellPlaced([Idle EXCEPT !.at = "lock", !.ref = r, !.pay = refund[r].pay], refund)
      BY <2>3 DEF WellPlaced, Idle, ApproveRead, Placed
    <3> QED BY <1>5, <2>3, <3>1 DEF ApproveRead
  <2>4. ASSUME NEW h \in Handlers, NEW r \in Refunds,
               RequestWrite(h, r)
        PROVE  \A g \in Handlers : WellPlaced(job'[g], refund)
    BY <1>6, <2>4 DEF RequestWrite
  <2>5. ASSUME NEW h \in Handlers, ApproveLock(h) \/ ProviderSends(h) \/ Book(h) \/ LedgerRead(h)
        PROVE  \A g \in Handlers : WellPlaced(job'[g], refund)
    <3>1. job[h] \in Job /\ WellPlaced(job[h], refund) /\ job[h].at \in {"lock", "call", "book", "ledger"}
      BY <1>3, <2>5 DEF TypeOK, ApproveLock, ProviderSends, Book, LedgerRead, At
    <3>2. CASE ApproveLock(h) \/ ProviderSends(h)
      <4>1. PICK place \in {"call", "book"} : Finish(h) \/ job' = [job EXCEPT ![h] = [job[h] EXCEPT !.at = place]]
        BY <3>2 DEF ApproveLock, ProviderSends
      <4>2. job[h].at \in {"lock", "call"}
        BY <3>2 DEF ApproveLock, ProviderSends, At
      <4>3. WellPlaced([job[h] EXCEPT !.at = place], refund)
        BY <3>1, <4>2 DEF WellPlaced, Job
      <4> QED BY <1>5, <1>6, <4>1, <4>3
    <3>3. CASE Book(h)
      <4>1. PICK n : job' = [job EXCEPT ![h] = [job[h] EXCEPT !.at = "ledger", !.total = n]]
        BY <3>3 DEF Book
      <4>2. WellPlaced([job[h] EXCEPT !.at = "ledger", !.total = n], refund)
        BY <3>1, <3>3 DEF WellPlaced, Job, Book, At
      <4> QED BY <1>5, <4>1, <4>2
    <3>4. CASE LedgerRead(h)
      <4>1. PICK n : Finish(h) \/ job' = [job EXCEPT ![h] = [job[h] EXCEPT !.at = "apply", !.read = n]]
        BY <3>4 DEF LedgerRead
      <4>2. WellPlaced([job[h] EXCEPT !.at = "apply", !.read = n], refund)
        BY <3>1, <3>4 DEF WellPlaced, Job, LedgerRead, At
      <4> QED BY <1>5, <1>6, <4>1, <4>2
    <3> QED BY <2>5, <3>2, <3>3, <3>4
  <2>6. CASE UNCHANGED vars
    BY <1>3, <2>6 DEF vars
  <2>7. ASSUME NEW h \in Handlers,
               NoRefundLeft(h) \/ RejectWrite(h) \/ ProviderRefuses(h) \/ LedgerWrite(h) \/ Cut(h)
        PROVE  \A g \in Handlers : WellPlaced(job'[g], refund)
    BY <1>6, <2>7 DEF NoRefundLeft, RejectWrite, ProviderRefuses, LedgerWrite, Cut
  <2> QED BY <2>1, <2>2, <2>3, <2>4, <2>5, <2>6, <2>7 DEF Next
<1> QED BY <1>1, <1>4, <1>7 DEF Placed, WellPlaced, At

\* A step that touches no money and leaves every transaction where it is.
Quiet ==
  /\ UNCHANGED <<refund, pay, order, sent, cut>>
  /\ \A g \in Handlers : InTx(g)' => job'[g] = job[g]
  /\ \A g \in Handlers : At(g, "book") => job'[g] = job[g]

\* A cut in a transaction, after the money was sent.
CutTx(h) == Cut(h) /\ At(h, "book")

LEMMA QuietOrMoney ==
  ASSUME TypeOK, [Next]_vars
  PROVE  Quiet \/ \E h \in Handlers :
           (\E r \in Refunds : RequestWrite(h, r)) \/ RejectWrite(h) \/ ApproveLock(h)
           \/ ProviderSends(h) \/ Book(h) \/ CutTx(h)
<1>1. ASSUME NEW h \in Handlers, NEW j, job' = [job EXCEPT ![h] = j], j.at \notin {"call", "book"},
             ~At(h, "book"), UNCHANGED <<refund, pay, order, sent, cut>>
      PROVE  Quiet
  BY <1>1 DEF Quiet, InTx, At, TypeOK
<1>2. ASSUME NEW h \in Handlers, NEW p \in Payments, NEW n \in 1..Price, RequestRead(h, p, n) PROVE Quiet
  <2>1. [Idle EXCEPT !.at = "request", !.pay = p, !.amount = n].at = "request"
    BY DEF Idle
  <2> QED BY <1>1, <1>2, <2>1 DEF RequestRead, At
<1>3. ASSUME NEW h \in Handlers, NEW r \in Refunds, RejectRead(h, r) \/ ApproveRead(h, r) PROVE Quiet
  <2>1. [Idle EXCEPT !.at = "reject", !.ref = r].at = "reject"
    BY DEF Idle
  <2>2. [Idle EXCEPT !.at = "lock", !.ref = r, !.pay = refund[r].pay].at = "lock"
    BY DEF Idle
  <2> QED BY <1>1, <1>3, <2>1, <2>2 DEF RejectRead, ApproveRead, At
<1>4. ASSUME NEW h \in Handlers, NoRefundLeft(h) \/ ProviderRefuses(h) \/ LedgerWrite(h) \/ (Cut(h) /\ ~At(h, "book"))
      PROVE  Quiet
  <2>1. Idle.at = "idle"
    BY DEF Idle
  <2>2. ~At(h, "book") /\ Finish(h) /\ UNCHANGED <<refund, pay, order, sent, cut>>
    BY <1>4 DEF NoRefundLeft, ProviderRefuses, LedgerWrite, Cut, At
  <2> QED BY <1>1, <2>1, <2>2 DEF Finish
<1>5. ASSUME NEW h \in Handlers, LedgerRead(h) PROVE Quiet
  <2>1. PICK n : Finish(h) \/ job' = [job EXCEPT ![h] = [job[h] EXCEPT !.at = "apply", !.read = n]]
    BY <1>5 DEF LedgerRead
  <2>2. Idle.at = "idle" /\ [job[h] EXCEPT !.at = "apply", !.read = n].at = "apply"
    BY DEF Idle, TypeOK, Job
  <2> QED BY <1>1, <1>5, <2>1, <2>2 DEF LedgerRead, At, Finish
<1>6. CASE UNCHANGED vars
  BY <1>6 DEF Quiet, vars
<1> QED BY <1>2, <1>3, <1>4, <1>5, <1>6 DEF Next, CutTx

\* What a transaction in job j found, over a table of refunds.
TxGood(j, f) ==
  /\ f[j.ref].status = "pending"
  /\ Cardinality(UnitsOf(f, j.pay, {"processed"})) + f[j.ref].amount <= Price

TxApart(jobs) ==
  \A g, h \in Handlers :
    jobs[g].at \in {"call", "book"} /\ jobs[h].at \in {"call", "book"} /\ jobs[g].pay = jobs[h].pay => g = h

LEMMA TxNow == TxAlone <=> TxApart(job) /\ \A h \in Handlers : job[h].at \in {"call", "book"} => TxGood(job[h], refund)
  BY DEF TxAlone, TxApart, TxGood, InTx, Fits, Total, Units, UnitsOf

LEMMA TxNext ==
  TxAlone' <=> TxApart(job') /\ \A h \in Handlers : job'[h].at \in {"call", "book"} => TxGood(job'[h], refund')
  BY DEF TxAlone, TxApart, TxGood, InTx, Fits, Total, Units, UnitsOf

\* A change to rows that are not processed, other than its own, leaves what it found.
LEMMA GoodKept ==
  ASSUME NEW f, NEW g, NEW j, TxGood(j, f), j.ref \in Refunds, g[j.ref] = f[j.ref],
         \A r \in Refunds : g[r] = f[r] \/ (f[r].status # "processed" /\ g[r].status # "processed")
  PROVE  TxGood(j, g)
<1>1. UnitsOf(g, j.pay, {"processed"}) = UnitsOf(f, j.pay, {"processed"})
  BY UnitsKept
<1> QED BY <1>1 DEF TxGood

LEMMA TxStep ==
  ASSUME TypeOK, Placed, TxAlone, [Next]_vars
  PROVE  TxAlone'
<1>1. TxApart(job) /\ \A h \in Handlers : job[h].at \in {"call", "book"} => TxGood(job[h], refund)
  BY TxNow
<1>2. \A h \in Handlers : job[h].at \in {"call", "book"} =>
        job[h].ref \in Refunds /\ job[h].pay \in Payments /\ job[h].pay = refund[job[h].ref].pay
  BY DEF Placed
<1>3. CASE Quiet
  <2>1. \A h \in Handlers : job'[h].at \in {"call", "book"} => job'[h] = job[h]
    BY <1>3 DEF Quiet, InTx
  <2>2. refund' = refund
    BY <1>3 DEF Quiet
  <2>3. TxApart(job')
    BY <1>1, <2>1 DEF TxApart
  <2>4. \A h \in Handlers : job'[h].at \in {"call", "book"} => TxGood(job'[h], refund')
    BY <1>1, <2>1, <2>2
  <2> QED BY <2>3, <2>4, TxNext
<1>4. ASSUME NEW h \in Handlers, Finish(h),
             \A g \in Handlers \ {h} : job[g].at \in {"call", "book"} => TxGood(job[g], refund')
      PROVE  TxAlone'
  <2>1. \A g \in Handlers : job'[g].at \in {"call", "book"} => job'[g] = job[g] /\ g # h
    BY <1>4 DEF Finish, Idle, TypeOK
  <2>2. TxApart(job')
    BY <1>1, <2>1 DEF TxApart
  <2>3. \A g \in Handlers : job'[g].at \in {"call", "book"} => TxGood(job'[g], refund')
    BY <1>4, <2>1
  <2> QED BY <2>2, <2>3, TxNext
<1>5. ASSUME NEW h \in Handlers, NEW r \in Refunds, RequestWrite(h, r) PROVE TxAlone'
  <2>1. refund[r].status = "none" /\ refund'[r].status = "pending" /\ \A q \in Refunds \ {r} : refund'[q] = refund[q]
    BY <1>5 DEF RequestWrite, TypeOK
  <2>2. \A q \in Refunds : refund'[q] = refund[q] \/ (refund[q].status # "processed" /\ refund'[q].status # "processed")
    BY <2>1
  <2>3. ASSUME NEW g \in Handlers, job[g].at \in {"call", "book"} PROVE TxGood(job[g], refund')
    <3>1. TxGood(job[g], refund) /\ job[g].ref \in Refunds
      BY <1>1, <1>2, <2>3
    <3>2. refund'[job[g].ref] = refund[job[g].ref]
      BY <2>1, <3>1 DEF TxGood
    <3> QED BY <2>2, <3>1, <3>2, GoodKept
  <2> QED BY <1>4, <1>5, <2>3 DEF RequestWrite
<1>6. ASSUME NEW h \in Handlers, RejectWrite(h) PROVE TxAlone'
  <2> DEFINE r == job[h].ref
  <2>1. r \in Refunds
    BY <1>6 DEF RejectWrite, Placed, At
  <2>2. refund' = refund \/ (refund[r].status = "pending" /\ refund' = [refund EXCEPT ![r].status = "rejected"])
    BY <1>6 DEF RejectWrite, Rejectable
  <2>3. \A q \in Refunds : refund'[q] = refund[q] \/ (refund[q].status # "processed" /\ refund'[q].status # "processed")
    BY <2>1, <2>2 DEF TypeOK, Refund
  <2>4. ASSUME NEW g \in Handlers, job[g].at \in {"call", "book"} PROVE TxGood(job[g], refund')
    <3>1. TxGood(job[g], refund) /\ job[g].ref \in Refunds
      BY <1>1, <1>2, <2>4
    <3>2. job[g].ref # r
      BY <1>6, <2>4 DEF RejectWrite, RowFree, InTx
    <3>3. refund'[job[g].ref] = refund[job[g].ref]
      BY <2>2, <3>1, <3>2 DEF TypeOK
    <3> QED BY <2>3, <3>1, <3>3, GoodKept
  <2> QED BY <1>4, <1>6, <2>4 DEF RejectWrite
<1>7. ASSUME NEW h \in Handlers, ApproveLock(h) PROVE TxAlone'
  <2>1. refund' = refund
    BY <1>7 DEF ApproveLock
  <2>2. CASE Finish(h)
    BY <1>1, <1>4, <2>1, <2>2
  <2>3. CASE StillPending(job[h].ref) /\ Fits(job[h].pay, job[h].ref) /\ job' = [job EXCEPT ![h].at = "call"]
    <3>1. job[h] \in Job /\ job'[h] = [job[h] EXCEPT !.at = "call"] /\ \A g \in Handlers \ {h} : job'[g] = job[g]
      BY <2>3 DEF TypeOK
    <3>2. job'[h].pay = job[h].pay /\ job'[h].ref = job[h].ref
      BY <3>1 DEF Job
    <3>3. \A g \in Handlers : job[g].at \in {"call", "book"} => job[g].pay # job[h].pay
      BY <1>7 DEF ApproveLock, LockFree, InTx
    <3>4. TxApart(job')
      <4>1. \A g \in Handlers : job'[g].pay = job[g].pay /\ (g # h => job'[g].at = job[g].at)
        BY <3>1, <3>2
      <4> QED BY <1>1, <3>3, <4>1 DEF TxApart
    <3>5. TxGood(job[h], refund)
      BY <2>3, TotalNow DEF TxGood, StillPending, Fits
    <3>6. TxGood(job'[h], refund')
      BY <2>1, <3>2, <3>5 DEF TxGood
    <3>7. \A g \in Handlers \ {h} : job'[g].at \in {"call", "book"} => TxGood(job'[g], refund')
      BY <1>1, <2>1, <3>1
    <3> QED BY <3>4, <3>6, <3>7, TxNext
  <2> QED BY <1>7, <2>2, <2>3 DEF ApproveLock
<1>8. ASSUME NEW h \in Handlers, ProviderSends(h) PROVE TxAlone'
  <2>1. refund' = refund /\ job[h].at = "call"
    BY <1>8 DEF ProviderSends, At
  <2>2. job[h] \in Job /\ job'[h] = [job[h] EXCEPT !.at = "book"] /\ \A g \in Handlers \ {h} : job'[g] = job[g]
    BY <1>8 DEF TypeOK, ProviderSends
  <2>3. job'[h].pay = job[h].pay /\ job'[h].ref = job[h].ref
    BY <2>2 DEF Job
  <2>4. TxApart(job')
    <3>1. \A g \in Handlers : job'[g].pay = job[g].pay /\ (g # h => job'[g].at = job[g].at)
      BY <2>2, <2>3
    <3> QED BY <1>1, <2>1, <3>1 DEF TxApart
  <2>5. TxGood(job'[h], refund')
    BY <1>1, <2>1, <2>3 DEF TxGood
  <2>6. \A g \in Handlers \ {h} : job'[g].at \in {"call", "book"} => TxGood(job'[g], refund')
    BY <1>1, <2>1, <2>2
  <2> QED BY <2>4, <2>5, <2>6, TxNext
<1>9. ASSUME NEW h \in Handlers, Book(h) PROVE TxAlone'
  <2> DEFINE r == job[h].ref
             p == job[h].pay
  <2>1. r \in Refunds /\ p = refund[r].pay /\ refund[r].status = "pending" /\ job[h].at = "book"
    BY <1>1, <1>2, <1>9 DEF Book, At, TxGood
  <2>2. refund' = [refund EXCEPT ![r].status = "processed"]
    BY <1>9 DEF Book
  <2>3. job[h] \in Job /\ job'[h].at = "ledger" /\ \A g \in Handlers \ {h} : job'[g] = job[g]
    <3>1. job[h] \in Job
      BY DEF TypeOK
    <3> QED BY <1>9, <3>1 DEF TypeOK, Job, Book
  <2>4. TxApart(job')
    BY <1>1, <2>3 DEF TxApart
  <2>5. ASSUME NEW g \in Handlers \ {h}, job[g].at \in {"call", "book"} PROVE TxGood(job[g], refund')
    <3>1. TxGood(job[g], refund) /\ job[g].ref \in Refunds /\ job[g].pay = refund[job[g].ref].pay
      BY <1>1, <1>2, <2>5
    <3>2. job[g].pay # p
      BY <1>1, <2>1, <2>5 DEF TxApart
    <3>3. refund'[job[g].ref] = refund[job[g].ref]
      BY <2>1, <2>2, <3>1, <3>2 DEF TypeOK
    <3>4. refund \in [Refunds -> Refund]
      BY DEF TypeOK
    <3>5. Cardinality(UnitsOf(refund', job[g].pay, {"processed"}))
          = Cardinality(UnitsOf(refund, job[g].pay, {"processed"})) + (IF refund[r].pay = job[g].pay THEN refund[r].amount ELSE 0)
      BY <2>1, <2>2, <3>4, BookedUnits
    <3>6. Cardinality(UnitsOf(refund, job[g].pay, {"processed"})) \in Nat
      BY UnitsFinite
    <3>7. Cardinality(UnitsOf(refund', job[g].pay, {"processed"})) = Cardinality(UnitsOf(refund, job[g].pay, {"processed"}))
      BY <2>1, <3>2, <3>5, <3>6
    <3> QED BY <3>1, <3>3, <3>7 DEF TxGood
  <2>6. \A g \in Handlers : job'[g].at \in {"call", "book"} => TxGood(job'[g], refund')
    BY <2>3, <2>5
  <2> QED BY <2>4, <2>6, TxNext
<1>10. ASSUME NEW h \in Handlers, CutTx(h) PROVE TxAlone'
  BY <1>1, <1>4, <1>10 DEF CutTx, Cut
<1> QED BY <1>3, <1>5, <1>6, <1>7, <1>8, <1>9, <1>10, QuietOrMoney

LEMMA InvAlways == Spec => [](TypeOK /\ Placed /\ TxAlone)
<1>1. TypeOK /\ Placed /\ TxAlone /\ [Next]_vars => (TypeOK /\ Placed /\ TxAlone)'
  BY TypeStep, PlacedStep, TxStep
<1> QED BY <1>1, InvInit, PTL DEF Spec

----------------------------------------------------------------------------
\* Every variable of the refunds' bookkeeping keeps its type (processRefund, applyCodeRefund).
THEOREM TypeCorrect == Spec => []TypeOK
  BY InvAlways, PTL

\* What a booking does: the one refund, pending until now, is processed.
LEMMA BookStep ==
  ASSUME TypeOK, Placed, TxAlone, NEW h \in Handlers, Book(h)
  PROVE  LET r == job[h].ref IN
         /\ r \in Refunds /\ job[h].pay \in Payments /\ job[h].pay = refund[r].pay
         /\ refund[r].status = "pending" /\ refund[r].amount \in 1..Price
         /\ refund' = [refund EXCEPT ![r].status = "processed"]
         /\ Total(job[h].pay, {"processed"}) + refund[r].amount <= Price
<1>1. job[h].ref \in Refunds /\ job[h].pay \in Payments /\ job[h].pay = refund[job[h].ref].pay
  BY DEF Book, Placed, At
<1>2. refund[job[h].ref].status = "pending" /\ Fits(job[h].pay, job[h].ref)
  BY DEF Book, TxAlone, InTx, At
<1>3. refund[job[h].ref].amount \in 1..Price
  BY <1>1, <1>2, PriceAssumption DEF Placed, TypeOK, Refund
<1> QED BY <1>1, <1>2, <1>3 DEF Book, Fits

\* What every step does to what is processed of a payment.
LEMMA TotalStep ==
  ASSUME TypeOK, Placed, TxAlone, [Next]_vars, NEW CONSTANT p \in Payments
  PROVE  \/ Total(p, {"processed"})' = Total(p, {"processed"})
            /\ \A h \in Handlers : Book(h) => job[h].pay # p
         \/ \E h \in Handlers :
              /\ Book(h) /\ job[h].pay = p
              /\ Total(p, {"processed"})' = Total(p, {"processed"}) + refund[job[h].ref].amount
<1>1. ASSUME NEW h \in Handlers, Book(h)
      PROVE  Total(p, {"processed"})'
             = Total(p, {"processed"}) + (IF job[h].pay = p THEN refund[job[h].ref].amount ELSE 0)
  <2>1. job[h].ref \in Refunds /\ refund[job[h].ref].status = "pending" /\ job[h].pay = refund[job[h].ref].pay
        /\ refund' = [refund EXCEPT ![job[h].ref].status = "processed"]
    BY <1>1, BookStep
  <2>2. refund \in [Refunds -> Refund]
    BY DEF TypeOK
  <2>3. Cardinality(UnitsOf(refund', p, {"processed"}))
        = Cardinality(UnitsOf(refund, p, {"processed"}))
          + (IF refund[job[h].ref].pay = p THEN refund[job[h].ref].amount ELSE 0)
    BY <2>1, <2>2, BookedUnits
  <2> QED BY <2>1, <2>3, TotalNow, TotalNext
<1>2. Total(p, {"processed"}) \in Nat
  BY TotalNow
<1>3. CASE \E h \in Handlers : Book(h)
  <2>1. PICK h \in Handlers : Book(h)
    BY <1>3
  <2>2. CASE job[h].pay = p
    BY <1>1, <2>1, <2>2
  <2>3. CASE job[h].pay # p
    <3>1. Total(p, {"processed"})' = Total(p, {"processed"})
      BY <1>1, <1>2, <2>1, <2>3
    <3>2. ASSUME NEW g \in Handlers, Book(g) PROVE g = h
      <4>1. \A k \in {g, h} : job[k] \in Job /\ job[k].at = "book" /\ \A n :
              [job EXCEPT ![k].at = "ledger", ![k].total = n][k].at = "ledger"
        BY <2>1, <3>2 DEF Book, At, TypeOK, Job
      <4>2. job'[g].at = "ledger"
        <5>1. PICK n : job' = [job EXCEPT ![g].at = "ledger", ![g].total = n]
          BY <3>2 DEF Book
        <5> QED BY <4>1, <5>1
      <4>3. g # h => job'[g] = job[g]
        BY <2>1 DEF Book, TypeOK
      <4> QED BY <4>1, <4>2, <4>3
    <3> QED BY <2>3, <3>1, <3>2
  <2> QED BY <2>2, <2>3
<1>4. CASE ~\E h \in Handlers : Book(h)
  <2>1. \A r \in Refunds : refund'[r] = refund[r] \/ (refund[r].status # "processed" /\ refund'[r].status # "processed")
    <3>1. CASE refund' = refund
      BY <3>1
    <3>2. CASE \E h \in Handlers, q \in Refunds : RequestWrite(h, q)
      BY <3>2 DEF RequestWrite, TypeOK
    <3>3. CASE \E h \in Handlers : RejectWrite(h)
      BY <3>3 DEF RejectWrite, Rejectable, TypeOK, Refund
    <3> QED BY <1>4, <3>1, <3>2, <3>3, QuietOrMoney DEF Quiet, ApproveLock, ProviderSends, CutTx, Cut
  <2>2. UnitsOf(refund', p, {"processed"}) = UnitsOf(refund, p, {"processed"})
    BY <2>1, UnitsKept
  <2> QED BY <1>4, <2>2, TotalNow, TotalNext
<1> QED BY <1>3, <1>4

\* No payment is booked as refunded beyond what was paid, although requests are counted
\* without a lock (requestRefund) and approvals run at once (processRefund).
THEOREM NeverOverRefunded == Spec => []BooksWithinPayment
<1>1. Init => BooksWithinPayment
  <2> SUFFICES ASSUME Init, NEW p \in Payments PROVE Total(p, {"processed"}) <= Price
    BY DEF BooksWithinPayment
  <2>1. UnitsOf(refund, p, {"processed"}) = {}
    BY DEF Init, UnitsOf
  <2> QED BY <2>1, TotalNow, FS_EmptySet, PriceAssumption
<1>2. TypeOK /\ Placed /\ TxAlone /\ BooksWithinPayment /\ [Next]_vars => BooksWithinPayment'
  <2> SUFFICES ASSUME TypeOK, Placed, TxAlone, BooksWithinPayment, [Next]_vars, NEW CONSTANT p \in Payments
               PROVE  Total(p, {"processed"})' <= Price
    BY DEF BooksWithinPayment
  <2>1. Total(p, {"processed"}) <= Price
    BY DEF BooksWithinPayment
  <2>2. CASE Total(p, {"processed"})' = Total(p, {"processed"})
    BY <2>1, <2>2
  <2>3. ASSUME NEW h \in Handlers, Book(h), job[h].pay = p,
               Total(p, {"processed"})' = Total(p, {"processed"}) + refund[job[h].ref].amount
        PROVE  Total(p, {"processed"})' <= Price
    <3>1. Total(job[h].pay, {"processed"}) + refund[job[h].ref].amount <= Price
      BY <2>3, BookStep
    <3> QED BY <2>3, <3>1
  <2> QED BY <2>2, <2>3, TotalStep
<1> QED BY <1>1, <1>2, InvAlways, PTL DEF Spec

\* A refund once processed or rejected is never decided again (processRefund's conditions).
THEOREM DecisionsStand == Spec => DecidedOnce
<1>1. TypeOK /\ Placed /\ TxAlone /\ [Next]_vars
      => [\A r \in Refunds : refund[r].status \in {"processed", "rejected"} => refund'[r] = refund[r]]_vars
  <2> SUFFICES ASSUME TypeOK, Placed, TxAlone, [Next]_vars,
                      NEW r \in Refunds, refund[r].status \in {"processed", "rejected"}
               PROVE  refund'[r] = refund[r]
    OBVIOUS
  <2>1. CASE refund' = refund
    BY <2>1
  <2>2. CASE \E h \in Handlers, q \in Refunds : RequestWrite(h, q)
    BY <2>2 DEF RequestWrite, TypeOK
  <2>3. CASE \E h \in Handlers : RejectWrite(h)
    BY <2>3 DEF RejectWrite, Rejectable, TypeOK
  <2>4. CASE \E h \in Handlers : Book(h)
    BY <2>4, BookStep DEF TypeOK
  <2> QED BY <2>1, <2>2, <2>3, <2>4, QuietOrMoney DEF Quiet, ApproveLock, ProviderSends, CutTx, Cut
<1> QED BY <1>1, InvAlways, PTL DEF Spec, DecidedOnce

\* The refund's money has left once for its booking and once for each lost one: two
\* approvals at once, or an approval and a rejection, send nothing twice (processRefund's
\* lock and the question asked again under it).
THEOREM MoneyAccounted == Spec => []SentAccounted
<1> DEFINE Booking(r) == refund[r].status = "processed" \/ \E h \in Handlers : At(h, "book") /\ job[h].ref = r
<1>1. Init => SentAccounted
  BY DEF Init, SentAccounted, At, Idle
<1>2. TypeOK /\ Placed /\ TxAlone /\ SentAccounted /\ [Next]_vars => SentAccounted'
  <2> SUFFICES ASSUME TypeOK, Placed, TxAlone, SentAccounted, [Next]_vars, NEW CONSTANT r \in Refunds
               PROVE  (sent[r] = cut[r] + (IF Booking(r) THEN 1 ELSE 0))'
    BY DEF SentAccounted
  <2>1. sent[r] = cut[r] + (IF Booking(r) THEN 1 ELSE 0) /\ sent[r] \in Nat /\ cut[r] \in Nat
    BY DEF SentAccounted, TypeOK
  <2>2. ASSUME sent'[r] = sent[r], cut'[r] = cut[r], Booking(r)' <=> Booking(r)
        PROVE  (sent[r] = cut[r] + (IF Booking(r) THEN 1 ELSE 0))'
    BY <2>1, <2>2
  <2>3. CASE Quiet
    <3>1. Booking(r)' <=> Booking(r)
      BY <2>3 DEF Quiet, InTx, At
    <3> QED BY <2>2, <2>3, <3>1 DEF Quiet
  <2>4. ASSUME NEW h \in Handlers, ~At(h, "book"), job'[h].at # "book", \A g \in Handlers \ {h} : job'[g] = job[g],
               refund'[r].status = "processed" <=> refund[r].status = "processed"
        PROVE  Booking(r)' <=> Booking(r)
    BY <2>4 DEF At
  <2>5. ASSUME NEW h \in Handlers, NEW q \in Refunds, RequestWrite(h, q)
        PROVE  (sent[r] = cut[r] + (IF Booking(r) THEN 1 ELSE 0))'
    <3>1. refund'[r].status = "processed" <=> refund[r].status = "processed"
      BY <2>5 DEF RequestWrite, TypeOK
    <3>2. ~At(h, "book") /\ job'[h].at # "book" /\ \A g \in Handlers \ {h} : job'[g] = job[g]
      BY <2>5 DEF RequestWrite, At, Finish, Idle, TypeOK
    <3> QED BY <2>2, <2>4, <2>5, <3>1, <3>2 DEF RequestWrite
  <2>6. ASSUME NEW h \in Handlers, RejectWrite(h)
        PROVE  (sent[r] = cut[r] + (IF Booking(r) THEN 1 ELSE 0))'
    <3>1. refund'[r].status = "processed" <=> refund[r].status = "processed"
      BY <2>6 DEF RejectWrite, Rejectable, TypeOK, Refund
    <3>2. ~At(h, "book") /\ job'[h].at # "book" /\ \A g \in Handlers \ {h} : job'[g] = job[g]
      BY <2>6 DEF RejectWrite, At, Finish, Idle, TypeOK
    <3> QED BY <2>2, <2>4, <2>6, <3>1, <3>2 DEF RejectWrite
  <2>7. ASSUME NEW h \in Handlers, ApproveLock(h)
        PROVE  (sent[r] = cut[r] + (IF Booking(r) THEN 1 ELSE 0))'
    <3>1. ~At(h, "book") /\ job'[h].at # "book" /\ \A g \in Handlers \ {h} : job'[g] = job[g]
      BY <2>7 DEF ApproveLock, At, Finish, Idle, TypeOK, Job
    <3> QED BY <2>2, <2>4, <2>7, <3>1 DEF ApproveLock
  <2>8. ASSUME NEW h \in Handlers, ProviderSends(h)
        PROVE  (sent[r] = cut[r] + (IF Booking(r) THEN 1 ELSE 0))'
    <3>1. job[h] \in Job /\ job[h].at = "call" /\ job'[h] = [job[h] EXCEPT !.at = "book"]
          /\ \A g \in Handlers \ {h} : job'[g] = job[g]
      BY <2>8 DEF ProviderSends, At, TypeOK
    <3>2. job'[h].at = "book" /\ job'[h].ref = job[h].ref
      BY <3>1 DEF Job
    <3>3. refund' = refund /\ cut' = cut /\ sent' = [sent EXCEPT ![job[h].ref] = sent[job[h].ref] + 1]
      BY <2>8 DEF ProviderSends
    <3>4. CASE job[h].ref = r
      <4>1. refund[r].status = "pending"
        BY <3>1, <3>4 DEF TxAlone, InTx
      <4>2. \A g \in Handlers : ~(At(g, "book") /\ job[g].ref = r)
        <5> SUFFICES ASSUME NEW g \in Handlers, At(g, "book"), job[g].ref = r PROVE FALSE
          OBVIOUS
        <5>1. job[g].pay = refund[r].pay /\ job[h].pay = refund[r].pay
          BY <3>1, <3>4 DEF Placed, At
        <5> QED BY <3>1, <5>1 DEF TxAlone, InTx, At
      <4>3. ~Booking(r)
        BY <4>1, <4>2
      <4>4. Booking(r)'
        BY <3>2, <3>4 DEF At
      <4>5. sent'[r] = sent[r] + 1 /\ cut'[r] = cut[r]
        BY <3>3, <3>4 DEF TypeOK
      <4> HIDE DEF Booking
      <4> QED BY <2>1, <4>3, <4>4, <4>5
    <3>5. CASE job[h].ref # r
      <4>1. Booking(r)' <=> Booking(r)
        BY <3>1, <3>2, <3>3, <3>5 DEF At
      <4> QED BY <2>2, <3>3, <3>5, <4>1 DEF TypeOK
    <3> QED BY <3>4, <3>5
  <2>9. ASSUME NEW h \in Handlers, Book(h)
        PROVE  (sent[r] = cut[r] + (IF Booking(r) THEN 1 ELSE 0))'
    <3>1. job[h] \in Job /\ job[h].at = "book" /\ \A g \in Handlers \ {h} : job'[g] = job[g]
      BY <2>9 DEF Book, At, TypeOK
    <3>2. job'[h].at # "book"
      BY <2>9, <3>1 DEF Book, TypeOK, Job
    <3>3. refund' = [refund EXCEPT ![job[h].ref].status = "processed"] /\ sent' = sent /\ cut' = cut
      BY <2>9 DEF Book
    <3>4. CASE job[h].ref = r
      <4>1. Booking(r) /\ Booking(r)'
        BY <3>1, <3>3, <3>4 DEF At, TypeOK, Refund
      <4> QED BY <2>2, <3>3, <4>1
    <3>5. CASE job[h].ref # r
      <4>1. Booking(r)' <=> Booking(r)
        BY <3>1, <3>2, <3>3, <3>5 DEF At, TypeOK
      <4> QED BY <2>2, <3>3, <4>1
    <3> QED BY <3>4, <3>5
  <2>10. ASSUME NEW h \in Handlers, CutTx(h)
         PROVE  (sent[r] = cut[r] + (IF Booking(r) THEN 1 ELSE 0))'
    <3>1. job[h].at = "book" /\ job'[h].at # "book" /\ \A g \in Handlers \ {h} : job'[g] = job[g]
      BY <2>10 DEF CutTx, Cut, Finish, Idle, At, TypeOK
    <3>2. refund' = refund /\ sent' = sent /\ cut' = [cut EXCEPT ![job[h].ref] = cut[job[h].ref] + 1]
      BY <2>10 DEF CutTx, Cut, At
    <3>3. CASE job[h].ref = r
      <4>1. refund[r].status = "pending"
        BY <3>1, <3>3 DEF TxAlone, InTx
      <4>2. \A g \in Handlers \ {h} : ~(At(g, "book") /\ job[g].ref = r)
        <5> SUFFICES ASSUME NEW g \in Handlers \ {h}, At(g, "book"), job[g].ref = r PROVE FALSE
          OBVIOUS
        <5>1. job[g].pay = refund[r].pay /\ job[h].pay = refund[r].pay
          BY <3>1, <3>3 DEF Placed, At
        <5> QED BY <3>1, <5>1 DEF TxAlone, InTx, At
      <4>3. Booking(r)
        BY <3>1, <3>3 DEF At
      <4>4. ~Booking(r)'
        BY <3>1, <3>2, <4>1, <4>2 DEF At
      <4>5. cut'[r] = cut[r] + 1 /\ sent'[r] = sent[r]
        BY <3>2, <3>3 DEF TypeOK
      <4> HIDE DEF Booking
      <4> QED BY <2>1, <4>3, <4>4, <4>5
    <3>4. CASE job[h].ref # r
      <4>1. Booking(r)' <=> Booking(r)
        BY <3>1, <3>2, <3>4 DEF At
      <4> QED BY <2>2, <3>2, <3>4, <4>1 DEF TypeOK
    <3> QED BY <3>3, <3>4
  <2> QED BY <2>3, <2>5, <2>6, <2>7, <2>8, <2>9, <2>10, QuietOrMoney
<1> QED BY <1>1, <1>2, InvAlways, PTL DEF Spec

\* A payment says of itself what its refunds add up to, and so does the order it alone pays.
THEOREM StatusSound == Spec => []StatusFollowsRefunds
<1> DEFINE Says(total) == IF total = 0 THEN "succeeded" ELSE IF total >= Price THEN "refunded" ELSE "partially_refunded"
<1>1. Init => StatusFollowsRefunds
  <2> SUFFICES ASSUME Init, NEW p \in Payments
               PROVE  pay[p] = Says(Total(p, {"processed"})) /\ order[OrderOf[p]] = pay[p]
    BY DEF StatusFollowsRefunds
  <2>1. UnitsOf(refund, p, {"processed"}) = {}
    BY DEF Init, UnitsOf
  <2>2. Total(p, {"processed"}) = 0
    BY <2>1, TotalNow, FS_EmptySet
  <2> QED BY <2>2, OrderOfAssumption DEF Init
<1>2. TypeOK /\ Placed /\ TxAlone /\ StatusFollowsRefunds /\ [Next]_vars => StatusFollowsRefunds'
  <2> SUFFICES ASSUME TypeOK, Placed, TxAlone, StatusFollowsRefunds, [Next]_vars, NEW CONSTANT p \in Payments
               PROVE  /\ pay'[p] = Says(Total(p, {"processed"})')
                      /\ (\A q \in Payments : OrderOf[q] = OrderOf[p] => q = p) => order'[OrderOf[p]] = pay'[p]
    BY DEF StatusFollowsRefunds
  <2>1. /\ pay[p] = Says(Total(p, {"processed"}))
        /\ (\A q \in Payments : OrderOf[q] = OrderOf[p] => q = p) => order[OrderOf[p]] = pay[p]
    BY DEF StatusFollowsRefunds
  <2>2. OrderOf[p] \in Orders
    BY OrderOfAssumption
  <2> HIDE DEF Says
  <2>3. ASSUME NEW h \in Handlers, Book(h), job[h].pay = p,
               Total(p, {"processed"})' = Total(p, {"processed"}) + refund[job[h].ref].amount
        PROVE  pay'[p] = Says(Total(p, {"processed"})') /\ order'[OrderOf[p]] = pay'[p]
    <3> DEFINE total == Total(p, {"processed"}) + refund[job[h].ref].amount
    <3>1. total \in Nat \ {0}
      <4>1. refund[job[h].ref].amount \in 1..Price
        BY <2>3, BookStep
      <4>2. Total(p, {"processed"}) \in Nat
        BY TotalNow
      <4> QED BY <4>1, <4>2, PriceAssumption
    <3>2. pay'[p] = StatusOf(total, refund[job[h].ref].amount)
          /\ order'[OrderOf[p]] = StatusOf(total, refund[job[h].ref].amount)
      BY <2>2, <2>3 DEF Book, TypeOK
    <3> HIDE DEF total
    <3>3. StatusOf(total, refund[job[h].ref].amount) = Says(total)
      BY <3>1 DEF StatusOf, Says
    <3>4. Total(p, {"processed"})' = total
      BY <2>3 DEF total
    <3> QED BY <3>2, <3>3, <3>4
  <2>4. ASSUME Total(p, {"processed"})' = Total(p, {"processed"}), \A h \in Handlers : Book(h) => job[h].pay # p
        PROVE  /\ pay'[p] = Says(Total(p, {"processed"})')
               /\ (\A q \in Payments : OrderOf[q] = OrderOf[p] => q = p) => order'[OrderOf[p]] = pay'[p]
    <3>1. CASE UNCHANGED <<pay, order>>
      BY <2>1, <2>4, <3>1
    <3>2. CASE \E h \in Handlers : Book(h)
      <4>1. PICK h \in Handlers : Book(h)
        BY <3>2
      <4>2. job[h].pay \in Payments /\ job[h].pay # p
        BY <2>4, <4>1, BookStep
      <4>3. pay'[p] = pay[p]
        BY <4>1, <4>2 DEF Book, TypeOK
      <4>4. (\A q \in Payments : OrderOf[q] = OrderOf[p] => q = p) => order'[OrderOf[p]] = order[OrderOf[p]]
        BY <2>2, <4>1, <4>2 DEF Book, TypeOK
      <4> QED BY <2>1, <2>4, <4>3, <4>4
    <3> QED BY <3>1, <3>2, QuietOrMoney DEF Quiet, RequestWrite, RejectWrite, ApproveLock, ProviderSends, CutTx, Cut
  <2> QED BY <2>3, <2>4, TotalStep
<1> QED BY <1>1, <1>2, InvAlways, PTL DEF Spec

=============================================================================
