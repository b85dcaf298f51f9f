------------------------ MODULE CohortSchedule_proofs ------------------------
(***************************************************************************)
(* Proofs about CohortSchedule, for any offers, requests and strands at     *)
(* once, terms of any lengths and any shift.                                *)
(***************************************************************************)
EXTENDS CohortSchedule, FiniteSetTheorems, TLAPS

----------------------------------------------------------------------------
(* The inductive invariant, part by part. *)

\* A strand's place says what kind of paper it has in hand.
PapersInHand ==
  \A s \in Strands :
    /\ job[s].at \in {"send", "accept", "decline", "expire"} => job[s].item \in Offers
    /\ job[s].at \in {"ask", "weigh", "approve", "reject", "withdraw"} => job[s].item \in Moves
    /\ At(s, "shift") => job[s].item \in Items
    /\ job[s].at \in {"change", "write"} => job[s].item \notin Moves /\ job[s].to # "none"

\* A paper about to be written for the first time is in no other hand that would, and a
\* request in the hand of one who answers it has been written.
FreshIsAlone ==
  /\ \A s \in Strands : At(s, "send") => offer[job[s].item] = "none"
  /\ \A s \in Strands : At(s, "ask") => move[job[s].item] = "none"
  /\ \A r, s \in Strands :
       /\ job[r].at \in {"send", "ask"} /\ job[s].at \in {"send", "ask"}
       /\ job[r].item = job[s].item
       => r = s
  /\ \A s \in Strands : job[s].item \in Moves /\ job[s].at \in {"weigh", "approve", "shift", "reject", "withdraw"} =>
       move[job[s].item] # "none"

\* The row of an offer or a request is held by one open transaction, and an offer so
\* held waits for its answer.
OneHolder ==
  /\ \A r, s \in Strands : At(r, "shift") /\ At(s, "shift") /\ job[r].item = job[s].item => r = s
  /\ \A s \in Strands : At(s, "shift") /\ job[s].item \in Offers => offer[job[s].item] = "pending"

\* Who goes on to stop the cohort of an offer has answered no to it, or found it due.
StoppersHaveCause ==
  \A s \in Strands : job[s].at \in {"change", "write"} /\ job[s].item \in Offers =>
    offer[job[s].item] \in {"declined", "expired"}

\* As long as nothing has overlapped, a transaction still has the dates as it read them,
\* and an answer to a request finds it as it was read, the shift reckoned from the
\* sessions as they stand.
ReadIsFresh ==
  calm =>
    /\ \A s \in Strands : At(s, "shift") => job[s].base = period
    /\ \A s \in Strands : job[s].at \in {"approve", "shift", "reject", "withdraw"} /\ job[s].item \in Moves =>
         move[job[s].item] = "pending"
    /\ \A s \in Strands : job[s].at \in {"approve", "shift"} /\ job[s].item \in Moves =>
         job[s].date = Weeks(TermOf(session), target[job[s].item])

\* Those who move the cohort for one request began while it waited, when no one had yet.
Approving(m) == {s \in Strands : job[s].item = m /\ job[s].at \in {"approve", "shift"}}
FewApprove ==
  \A m \in Moves : applied[m] \in Nat /\ applied[m] + Cardinality(Approving(m)) <= Cardinality(Strands)

Safe == OfferActsOnce /\ DatesAccounted /\ MoveActsOnce

IInv ==
  TypeOK /\ PapersInHand /\ FreshIsAlone /\ OneHolder /\ StoppersHaveCause /\ ReadIsFresh
  /\ FewApprove /\ Safe

----------------------------------------------------------------------------
(* Types *)

LEMMA IdleTyped == Idle \in Job
  BY DEF Idle, Job, Places, Doors

LEMMA NamesTyped ==
  /\ "idle" \in Places /\ "send" \in Places /\ "accept" \in Places /\ "decline" \in Places
  /\ "expire" \in Places /\ "change" \in Places /\ "write" \in Places /\ "ask" \in Places
  /\ "weigh" \in Places /\ "approve" \in Places /\ "reject" \in Places /\ "withdraw" \in Places
  /\ "shift" \in Places
  /\ "request" \in Doors /\ "staff" \in Doors /\ "round" \in Doors /\ "reopen" \in Doors
  /\ "open" \in Status /\ "active" \in Status /\ "completed" \in Status /\ "cancelled" \in Status
  /\ "draft" \in Status
  /\ Offers \subseteq Items /\ Moves \subseteq Items
  BY DEF Places, Doors, Status, Items

\* What one strand does with itself keeps the type of job.
LEMMA JobTyped ==
  ASSUME TypeOK, NEW s \in Strands, NEW j \in Job, job' = [job EXCEPT ![s] = j]
  PROVE  job' \in [Strands -> Job]
  BY DEF TypeOK

LEMMA FinishTyped ==
  ASSUME TypeOK, NEW s \in Strands, Finish(s)
  PROVE  job' \in [Strands -> Job]
  BY IdleTyped DEF TypeOK, Finish

LEMMA BeginTyped ==
  ASSUME TypeOK, NEW s \in Strands, NEW j \in Job, Begin(s, j)
  PROVE  job' \in [Strands -> Job]
  BY JobTyped DEF Begin

LEMMA CountTyped ==
  ASSUME TypeOK, Count
  PROVE  requests' \in 0..MaxRequests
  BY DatesAssumption DEF TypeOK, Count

\* Terms and shifts are whole numbers.
LEMMA TermTyped ==
  ASSUME NEW d \in Int
  PROVE  TermOf(d) \in Int
<1>1. d % Year \in 0..(Year - 1) /\ d \div Year \in Int
  BY TermsAssumption
<1>2. \E i \in 0..3 : Season[i] <= d % Year /\ (i < 3 => d % Year < Season[i + 1])
  <2>1. PICK day \in Nat : day = d % Year
    BY <1>1, TermsAssumption
  <2>2. PICK b1 \in Int, b2 \in Int, b3 \in Int : b1 = Season[1] /\ b2 = Season[2] /\ b3 = Season[3]
    BY TermsAssumption
  <2>3. CASE day < b1
    <3>1. Season[0] <= day /\ day < Season[0 + 1]
      BY <2>2, <2>3, TermsAssumption
    <3> QED BY <2>1, <3>1
  <2>4. CASE b1 <= day /\ day < b2
    <3>1. Season[1] <= day /\ day < Season[1 + 1]
      BY <2>2, <2>4
    <3> QED BY <2>1, <3>1
  <2>5. CASE b2 <= day /\ day < b3
    <3>1. Season[2] <= day /\ day < Season[2 + 1]
      BY <2>2, <2>5
    <3> QED BY <2>1, <3>1
  <2>6. CASE b3 <= day
    <3>1. Season[3] <= day /\ ~(3 < 3)
      BY <2>2, <2>6
    <3> QED BY <2>1, <3>1
  <2>7. day < b1 \/ (b1 <= day /\ day < b2) \/ (b2 <= day /\ day < b3) \/ b3 <= day
    OBVIOUS
  <2> QED BY <2>3, <2>4, <2>5, <2>6, <2>7
<1>3. SeasonOf(d % Year) \in 0..3
  BY <1>2 DEF SeasonOf
<1> QED BY <1>1, <1>3 DEF TermOf

LEMMA TermBeginsTyped ==
  ASSUME NEW t \in Int
  PROVE  TermBegins(t) \in Int
<1>1. t % 4 \in 0..3 /\ t \div 4 \in Int
  OBVIOUS
<1>2. Season[t % 4] \in Int /\ Year \in Int
  BY <1>1, TermsAssumption
<1>3. \A a, b \in Int : a * b \in Int
  OBVIOUS
<1> QED BY <1>1, <1>2, <1>3 DEF TermBegins

\* What division rounds to.
LEMMA QuotientBelow ==
  ASSUME NEW x \in Int, NEW y \in Nat, y > 0
  PROVE  x \div y \in Int /\ y * (x \div y) <= x
  OBVIOUS

LEMMA QuotientAbove ==
  ASSUME NEW x \in Int, NEW y \in Nat, y > 0
  PROVE  x \div y \in Int /\ x < y * (x \div y) + y
  OBVIOUS

\* A shift is of whole weeks, the nearest to the way between the beginnings of two terms.
LEMMA WeeksNearest ==
  ASSUME NEW from \in Int, NEW to \in Int
  PROVE  /\ Weeks(from, to) \in Int
         /\ 2 * (Weeks(from, to) - (TermBegins(to) - TermBegins(from))) <= Week
         /\ -2 * (Weeks(from, to) - (TermBegins(to) - TermBegins(from))) <= Week
<1>1. PICK d \in Int : d = TermBegins(to) - TermBegins(from)
  BY TermBeginsTyped
<1>2. Week \in Nat \ {0}
  BY TermsAssumption
<1> DEFINE n == 2 * d + Week
           w == 2 * Week
           q == n \div w
<1>3. n \in Int /\ w \in Nat \ {0}
  BY <1>1, <1>2
<1>4. q \in Int /\ w * q <= n /\ n < w * q + w
  <2> HIDE DEF n, w
  <2> QED BY <1>3, QuotientBelow, QuotientAbove
<1>5. PICK r \in 0..(w - 1) : n = q * w + r
  <2>1. PICK c \in Int : c = w * q /\ c = q * w
    <3> HIDE DEF n, w, q
    <3> QED BY <1>3, <1>4
  <2> HIDE DEF n, w, q
  <2>2. n - c \in 0..(w - 1) /\ n = c + (n - c)
    BY <1>3, <1>4, <2>1
  <2> QED BY <2>1, <2>2
<1>6. PICK s \in Int : s = q * Week /\ q * w = 2 * s
  <2>1. \A a, b \in Int : a * b \in Int /\ a * (2 * b) = 2 * (a * b)
    OBVIOUS
  <2> HIDE DEF q
  <2> QED BY <1>2, <1>4, <2>1
<1>7. Weeks(from, to) = s
  BY <1>1, <1>6 DEF Weeks
<1> HIDE DEF q
<1>8. 2 * d + Week = 2 * s + r /\ 0 <= r /\ r < 2 * Week
  BY <1>2, <1>5, <1>6
<1>9. 2 * (s - d) <= Week /\ -2 * (s - d) <= Week
  BY <1>1, <1>2, <1>6, <1>8
<1> QED BY <1>1, <1>7, <1>9

LEMMA ShiftTyped ==
  ASSUME TypeOK, NEW m \in Moves
  PROVE  Weeks(TermNow, target[m]) \in Int
<1>1. session \in Int /\ target[m] \in Int
  BY DEF TypeOK
<1> QED BY <1>1, TermTyped, WeeksNearest DEF TermNow

LEMMA WeighTyped ==
  ASSUME TypeOK, NEW s \in Strands, NEW m \in Moves
  PROVE  Weigh(s, m) \in Job
<1> DEFINE d == Weeks(TermNow, target[m])
<1>1. d \in Int
  BY ShiftTyped
<1>2. job[s].door \in Doors
  BY DEF TypeOK, Job
<1> HIDE DEF d
<1>3. [Idle EXCEPT !.at = "approve", !.door = job[s].door, !.item = m, !.date = d] \in Job
  BY <1>1, <1>2, IdleTyped, NamesTyped DEF Job
<1> QED BY <1>3 DEF Weigh, d

LEMMA StepTyped ==
  ASSUME TypeOK, PapersInHand, [Next]_vars
  PROVE  TypeOK'
<1> USE DEF cohort, papers, effect
<1>1. CASE Tick
  BY <1>1, DatesAssumption DEF Tick, TypeOK
<1>2. ASSUME NEW s \in Strands, NEW p \in Offers, SendLook(s, p) PROVE TypeOK'
  <2>1. PICK d \in now + 1 .. First - 1 :
          Receive(s, [Idle EXCEPT !.at = "send", !.door = "request", !.item = p, !.date = d])
    BY <1>2 DEF SendLook
  <2>2. d \in Int
    BY <2>1 DEF TypeOK
  <2>4. [Idle EXCEPT !.at = "send", !.door = "request", !.item = p, !.date = d] \in Job
    BY <2>2, IdleTyped, NamesTyped DEF Job
  <2>3. job' \in [Strands -> Job]
    BY <2>1, <2>4, BeginTyped DEF Receive
  <2> QED BY <1>2, <2>1, <2>3, CountTyped DEF SendLook, Receive, TypeOK
<1>3. ASSUME NEW s \in Strands, SendWrite(s) PROVE TypeOK'
  <2>1. job[s].date \in Int
    BY DEF TypeOK, Job
  <2> QED BY <1>3, <2>1, FinishTyped DEF SendWrite, TypeOK
<1>4. ASSUME NEW s \in Strands, NEW p \in Offers, NEW place \in {"accept", "decline"},
             Answer(s, p, place)
      PROVE TypeOK'
  <2>1. job' \in [Strands -> Job]
    <3>1. [Idle EXCEPT !.at = place, !.door = "request", !.item = p] \in Job
      BY IdleTyped, NamesTyped DEF Job
    <3> QED BY <1>4, <3>1, BeginTyped DEF Answer, Receive
  <2> QED BY <1>4, <2>1, CountTyped DEF Answer, Receive, TypeOK
<1>5. ASSUME NEW s \in Strands, AcceptOpens(s) PROVE TypeOK'
  <2>1. CASE Open(job[s].item)
    <3>1. [job[s] EXCEPT !.at = "shift", !.date = Month, !.base = period] \in Job
      BY DatesAssumption, NamesTyped DEF TypeOK, Job
    <3>2. job' = [job EXCEPT ![s] = [job[s] EXCEPT !.at = "shift", !.date = Month, !.base = period]]
      BY <1>5, <2>1 DEF AcceptOpens
    <3>3. job' \in [Strands -> Job]
      BY <3>1, <3>2, JobTyped
    <3> QED BY <1>5, <3>3 DEF AcceptOpens, TypeOK
  <2>2. CASE ~Open(job[s].item)
    BY <1>5, <2>2, FinishTyped DEF AcceptOpens, TypeOK
  <2> QED BY <2>1, <2>2
<1>6. ASSUME NEW s \in Strands, DeclineClaim(s) PROVE TypeOK'
  <2>1. CASE Open(job[s].item)
    <3>1. [job[s] EXCEPT !.at = "change", !.to = "cancelled"] \in Job
      BY NamesTyped DEF TypeOK, Job
    <3>2. job' = [job EXCEPT ![s] = [job[s] EXCEPT !.at = "change", !.to = "cancelled"]]
      BY <1>6, <2>1 DEF DeclineClaim
    <3>3. job' \in [Strands -> Job]
      BY <3>1, <3>2, JobTyped
    <3> QED BY <1>6, <2>1, <3>3 DEF DeclineClaim, TypeOK
  <2>2. CASE ~Open(job[s].item)
    BY <1>6, <2>2, FinishTyped DEF DeclineClaim, TypeOK
  <2> QED BY <2>1, <2>2
<1>7. ASSUME NEW p \in Offers, WithdrawOffer(p) PROVE TypeOK'
  BY <1>7, CountTyped DEF WithdrawOffer, TypeOK
<1>8. ASSUME NEW s \in Strands, NEW p \in Offers, NEW door \in {"request", "round"},
             ExpireLook(s, p, door)
      PROVE TypeOK'
  <2>1. status \in Status
    BY DEF TypeOK
  <2>2. job' \in [Strands -> Job]
    <3>1. [Idle EXCEPT !.at = "expire", !.door = door, !.item = p, !.saw = status] \in Job
      BY <2>1, IdleTyped, NamesTyped DEF Job
    <3> QED BY <1>8, <3>1, BeginTyped DEF ExpireLook
  <2>3. requests' \in 0..MaxRequests
    BY <1>8, CountTyped DEF ExpireLook, TypeOK
  <2> QED BY <1>8, <2>2, <2>3 DEF ExpireLook, TypeOK
<1>9. ASSUME NEW s \in Strands, ExpireClaim(s) PROVE TypeOK'
  <2>1. job' \in [Strands -> Job]
    <3>1. ASSUME job' = [job EXCEPT ![s].at = "change", ![s].to = "cancelled"]
          PROVE job' \in [Strands -> Job]
      <4>1. [job[s] EXCEPT !.at = "change", !.to = "cancelled"] \in Job
        BY NamesTyped DEF TypeOK, Job
      <4>2. job' = [job EXCEPT ![s] = [job[s] EXCEPT !.at = "change", !.to = "cancelled"]]
        BY <3>1
      <4> QED BY <4>1, <4>2, JobTyped
    <3> QED BY <1>9, <3>1, FinishTyped DEF ExpireClaim
  <2> QED BY <1>9, <2>1 DEF ExpireClaim, TypeOK
<1>10. ASSUME NEW s \in Strands, NEW m \in Moves, NEW t \in Targets,
              NEW door \in {"request", "staff"}, AskLook(s, m, t, door)
       PROVE TypeOK'
  <2>1. job' \in [Strands -> Job]
    <3>1. [Idle EXCEPT !.at = "ask", !.door = door, !.item = m, !.date = t] \in Job
      BY DatesAssumption, IdleTyped, NamesTyped DEF Job
    <3> QED BY <1>10, <3>1, BeginTyped DEF AskLook, Receive
  <2> QED BY <1>10, <2>1, CountTyped DEF AskLook, Receive, TypeOK
<1>11. ASSUME NEW s \in Strands, AskWrite(s) PROVE TypeOK'
  <2>1. job[s].date \in Int
    BY DEF TypeOK, Job
  <2>2. job' \in [Strands -> Job]
    <3>1. ASSUME Goto(s, "weigh") PROVE job' \in [Strands -> Job]
      <4>1. [job[s] EXCEPT !.at = "weigh"] \in Job
        BY NamesTyped DEF TypeOK, Job
      <4>2. job' = [job EXCEPT ![s] = [job[s] EXCEPT !.at = "weigh"]]
        BY <3>1 DEF Goto
      <4> QED BY <4>1, <4>2, JobTyped
    <3> QED BY <1>11, <3>1, FinishTyped DEF AskWrite
  <2> QED BY <1>11, <2>1, <2>2 DEF AskWrite, TypeOK
<1>12. ASSUME NEW s \in Strands, NEW m \in Moves, ApproveLook(s, m) PROVE TypeOK'
  <2>1. job' \in [Strands -> Job]
    BY <1>12, WeighTyped, JobTyped DEF ApproveLook, Receive, Begin
  <2> QED BY <1>12, <2>1, CountTyped DEF ApproveLook, Receive, TypeOK
<1>13. ASSUME NEW s \in Strands, job[s].item \in Moves, StaffWeighs(s) PROVE TypeOK'
  <2>1. job' \in [Strands -> Job]
    <3>1. ASSUME job' = [job EXCEPT ![s] = Weigh(s, job[s].item)] PROVE job' \in [Strands -> Job]
      BY <1>13, <3>1, WeighTyped, JobTyped
    <3> QED BY <1>13, <3>1, FinishTyped DEF StaffWeighs
  <2> QED BY <1>13, <2>1 DEF StaffWeighs, TypeOK
<1>14. ASSUME NEW s \in Strands, ApproveOpens(s) PROVE TypeOK'
  <2>1. [job[s] EXCEPT !.at = "shift", !.base = period] \in Job
    BY NamesTyped DEF TypeOK, Job
  <2>2. job' = [job EXCEPT ![s] = [job[s] EXCEPT !.at = "shift", !.base = period]]
    BY <1>14 DEF ApproveOpens
  <2>3. job' \in [Strands -> Job]
    BY <2>1, <2>2, JobTyped
  <2> QED BY <1>14, <2>3 DEF ApproveOpens, TypeOK
<1>15. ASSUME NEW s \in Strands, NEW m \in Moves, NEW place \in {"reject", "withdraw"},
              RefuseLook(s, m, place)
       PROVE TypeOK'
  <2>1. job' \in [Strands -> Job]
    <3>1. [Idle EXCEPT !.at = place, !.door = "request", !.item = m] \in Job
      BY IdleTyped, NamesTyped DEF Job
    <3> QED BY <1>15, <3>1, BeginTyped DEF RefuseLook, Receive
  <2> QED BY <1>15, <2>1, CountTyped DEF RefuseLook, Receive, TypeOK
<1>16. ASSUME NEW s \in Strands, RefuseWrite(s) PROVE TypeOK'
  <2>1. calm' \in BOOLEAN
    BY <1>16 DEF RefuseWrite, TypeOK
  <2>2. move' \in [Moves -> {"none", "pending", "approved", "rejected", "withdrawn"}]
    BY <1>16 DEF RefuseWrite, TypeOK
  <2> QED BY <1>16, <2>1, <2>2, FinishTyped DEF RefuseWrite, TypeOK
<1>17. ASSUME NEW s \in Strands, job[s].item \in Items, ShiftCommits(s) PROVE TypeOK'
  <2>1. /\ job[s].date \in Int /\ job[s].base \in Int
        /\ session \in Int /\ shifts \in Int /\ applied \in [Items -> Nat]
    BY DEF TypeOK, Job
  <2>2. period' \in Int /\ session' \in Int /\ shifts' \in Int
    BY <1>17, <2>1 DEF ShiftCommits, SessionAfter
  <2>3. applied' \in [Items -> Nat]
    <3>1. applied' = [applied EXCEPT ![job[s].item] = applied[job[s].item] + 1]
      BY <1>17 DEF ShiftCommits
    <3> QED BY <1>17, <2>1, <3>1
  <2>4. /\ offer' \in [Offers -> {"none", "pending", "accepted", "declined", "expired", "withdrawn"}]
        /\ move' \in [Moves -> {"none", "pending", "approved", "rejected", "withdrawn"}]
    BY <1>17 DEF ShiftCommits, TypeOK
  <2>5. calm' \in BOOLEAN
    BY <1>17 DEF ShiftCommits, TypeOK
  <2> QED BY <1>17, <2>2, <2>3, <2>4, <2>5, FinishTyped DEF ShiftCommits, TypeOK
<1>18. ASSUME NEW s \in Strands, NEW to \in {"open", "active", "completed", "cancelled"},
              StaffReads(s, to)
       PROVE TypeOK'
  <2>1. [Idle EXCEPT !.at = "write", !.door = "request", !.saw = status, !.to = to] \in Job
    BY IdleTyped, NamesTyped DEF TypeOK, Job
  <2>2. job' \in [Strands -> Job]
    BY <1>18, <2>1, BeginTyped DEF StaffReads, Receive
  <2> QED BY <1>18, <2>2, CountTyped DEF StaffReads, Receive, TypeOK
<1>19. ASSUME NEW s \in Strands, ReopenReads(s) PROVE TypeOK'
  <2>1. [Idle EXCEPT !.at = "write", !.door = "reopen", !.saw = status, !.to = before] \in Job
    BY IdleTyped, NamesTyped DEF TypeOK, Job
  <2>2. job' \in [Strands -> Job]
    BY <1>19, <2>1, BeginTyped DEF ReopenReads, Receive
  <2> QED BY <1>19, <2>2, CountTyped DEF ReopenReads, Receive, TypeOK
<1>20. ASSUME NEW s \in Strands, SyncLook(s) PROVE TypeOK'
  <2> DEFINE d == IF DueStatus = "open" THEN now ELSE 0
  <2>1. d \in Int /\ DueStatus \in Status
    BY DEF TypeOK, DueStatus, Status
  <2> HIDE DEF d
  <2>2. [Idle EXCEPT !.at = "change", !.door = "round", !.to = DueStatus, !.date = d] \in Job
    BY <2>1, IdleTyped, NamesTyped DEF Job
  <2>3. job' \in [Strands -> Job]
    BY <1>20, <2>2, BeginTyped DEF SyncLook, d
  <2> QED BY <1>20, <2>3 DEF SyncLook, TypeOK
<1>21. ASSUME NEW s \in Strands, ChangeReads(s) PROVE TypeOK'
  <2>1. [job[s] EXCEPT !.at = "write", !.saw = status] \in Job
    BY NamesTyped DEF TypeOK, Job
  <2>2. job' = [job EXCEPT ![s] = [job[s] EXCEPT !.at = "write", !.saw = status]]
        => job' \in [Strands -> Job]
    BY <2>1, JobTyped
  <2>3. job' \in [Strands -> Job]
    BY <1>21, <2>2, FinishTyped DEF ChangeReads
  <2>4. stopped' \in SUBSET Offers
    BY <1>21 DEF ChangeReads, Stops, TypeOK
  <2> QED BY <1>21, <2>3, <2>4 DEF ChangeReads, TypeOK
<1>22. ASSUME NEW s \in Strands, job[s].to # "none", ChangeWrites(s) PROVE TypeOK'
  <2>1. job[s].to \in Status
    BY <1>22 DEF ChangeWrites, TypeOK, Job
  <2>2. stopped' \in SUBSET Offers
    BY <1>22 DEF ChangeWrites, Stops, TypeOK
  <2> QED BY <1>22, <2>1, <2>2, FinishTyped DEF ChangeWrites, ReopenAs, TypeOK
<1>23. ASSUME NEW s \in Strands, Crash(s) PROVE TypeOK'
  <2>1. crashes' \in 0..MaxCrashes
    BY <1>23, DatesAssumption DEF Crash, TypeOK
  <2> QED BY <1>23, <2>1, FinishTyped DEF Crash, TypeOK
<1>24. CASE UNCHANGED vars
  BY <1>24 DEF vars, TypeOK
<1>25. ASSUME NEW s \in Strands, Request(s) PROVE TypeOK'
  BY <1>25, <1>2, <1>4, <1>8, <1>10, <1>12, <1>15, <1>18, <1>19 DEF Request
<1>26. ASSUME NEW s \in Strands, Continue(s) PROVE TypeOK'
  <2>1. /\ StaffWeighs(s) => job[s].item \in Moves
        /\ ShiftCommits(s) => job[s].item \in Items
        /\ ChangeWrites(s) => job[s].to # "none"
    BY DEF PapersInHand, StaffWeighs, ShiftCommits, ChangeWrites, At
  <2> QED
    BY <1>26, <2>1, <1>3, <1>5, <1>6, <1>9, <1>11, <1>13, <1>14, <1>16, <1>17, <1>21, <1>22 DEF Continue
<1>27. ASSUME NEW p \in Offers, RoundExpires(p) PROVE TypeOK'
  BY <1>27, <1>8 DEF RoundExpires
<1>28. CASE RoundSyncs
  BY <1>28, <1>20 DEF RoundSyncs
<1> QED
  BY <1>1, <1>7, <1>23, <1>24, <1>25, <1>26, <1>27, <1>28 DEF Next

----------------------------------------------------------------------------
(* What a step leaves a strand with. *)

Becomes(s, place, x) ==
  /\ job'[s].at = place
  /\ job'[s].item = x
  /\ \A r \in Strands \ {s} : job'[r] = job[r]

LEMMA FinishBecomes ==
  ASSUME TypeOK, NEW s \in Strands, Finish(s)
  PROVE  Becomes(s, "idle", None)
  BY DEF TypeOK, Finish, Idle, Becomes

\* A strand that starts.
LEMMA StartBecomes ==
  ASSUME TypeOK, NEW s \in Strands
  PROVE  /\ \A p \in Offers : SendLook(s, p) => Becomes(s, "send", p)
         /\ \A p \in Offers, place \in {"accept", "decline"} : Answer(s, p, place) => Becomes(s, place, p)
         /\ \A p \in Offers, door \in Doors : ExpireLook(s, p, door) => Becomes(s, "expire", p)
         /\ \A m \in Moves, t \in Targets, door \in Doors : AskLook(s, m, t, door) => Becomes(s, "ask", m)
         /\ \A m \in Moves : ApproveLook(s, m) =>
              Becomes(s, "approve", m) /\ job'[s].date = Weeks(TermNow, target[m])
         /\ \A m \in Moves, place \in {"reject", "withdraw"} : RefuseLook(s, m, place) => Becomes(s, place, m)
         /\ \A to \in Status : StaffReads(s, to) => Becomes(s, "write", None) /\ job'[s].to = to
         /\ ReopenReads(s) => Becomes(s, "write", None) /\ job'[s].to \in Status
         /\ SyncLook(s) => Becomes(s, "change", None) /\ job'[s].to \in Status
<1> USE DEF TypeOK, Becomes, Receive, Begin, Idle
<1>1. ASSUME NEW p \in Offers, SendLook(s, p) PROVE Becomes(s, "send", p)
  BY <1>1 DEF SendLook
<1>2. ASSUME NEW p \in Offers, NEW place \in {"accept", "decline"}, Answer(s, p, place)
      PROVE  Becomes(s, place, p)
  BY <1>2 DEF Answer
<1>3. ASSUME NEW p \in Offers, NEW door \in Doors, ExpireLook(s, p, door) PROVE Becomes(s, "expire", p)
  BY <1>3 DEF ExpireLook
<1>4. ASSUME NEW m \in Moves, NEW t \in Targets, NEW door \in Doors, AskLook(s, m, t, door)
      PROVE  Becomes(s, "ask", m)
  BY <1>4 DEF AskLook
<1>5. ASSUME NEW m \in Moves, ApproveLook(s, m)
      PROVE  Becomes(s, "approve", m) /\ job'[s].date = Weeks(TermNow, target[m])
  BY <1>5 DEF ApproveLook, Weigh
<1>6. ASSUME NEW m \in Moves, NEW place \in {"reject", "withdraw"}, RefuseLook(s, m, place)
      PROVE  Becomes(s, place, m)
  BY <1>6 DEF RefuseLook
<1>7. ASSUME NEW to \in Status, StaffReads(s, to) PROVE Becomes(s, "write", None) /\ job'[s].to = to
  BY <1>7 DEF StaffReads
<1>8. ASSUME ReopenReads(s) PROVE Becomes(s, "write", None) /\ job'[s].to \in Status
  BY <1>8 DEF ReopenReads, Status
<1>9. ASSUME SyncLook(s) PROVE Becomes(s, "change", None) /\ job'[s].to \in Status
  BY <1>9 DEF SyncLook, DueStatus, Status
<1> QED BY <1>1, <1>2, <1>3, <1>4, <1>5, <1>6, <1>7, <1>8, <1>9

\* A strand that goes on.
LEMMA ContinueBecomes ==
  ASSUME TypeOK, NEW s \in Strands
  PROVE  /\ SendWrite(s) \/ RefuseWrite(s) \/ ShiftCommits(s) \/ ChangeWrites(s) \/ Crash(s) =>
              Becomes(s, "idle", None)
         /\ AcceptOpens(s) => \/ Becomes(s, "idle", None)
                              \/ /\ Becomes(s, "shift", job[s].item)
                                 /\ Open(job[s].item) /\ job'[s].base = period
         /\ job[s].item \in Offers /\ (DeclineClaim(s) \/ ExpireClaim(s)) =>
              \/ Becomes(s, "idle", None)
              \/ /\ Becomes(s, "change", job[s].item) /\ job'[s].to = "cancelled"
                 /\ offer'[job[s].item] \in {"declined", "expired"}
         /\ AskWrite(s) => Becomes(s, "idle", None) \/ Becomes(s, "weigh", job[s].item)
         /\ StaffWeighs(s) => \/ Becomes(s, "idle", None)
                              \/ /\ Becomes(s, "approve", job[s].item) /\ move[job[s].item] = "pending"
                                 /\ job'[s].date = Weeks(TermNow, target[job[s].item])
         /\ ApproveOpens(s) => /\ Becomes(s, "shift", job[s].item)
                               /\ job'[s].base = period /\ job'[s].date = job[s].date
         /\ ChangeReads(s) => \/ Becomes(s, "idle", None)
                              \/ Becomes(s, "write", job[s].item) /\ job'[s].to = job[s].to
<1> USE DEF Becomes
<1>0. job \in [Strands -> Job] /\ job[s] \in Job
  BY DEF TypeOK
<1>1. ASSUME SendWrite(s) \/ RefuseWrite(s) \/ ShiftCommits(s) \/ ChangeWrites(s) \/ Crash(s)
      PROVE  Becomes(s, "idle", None)
  BY <1>1, FinishBecomes DEF SendWrite, RefuseWrite, ShiftCommits, ChangeWrites, Crash
<1>2. ASSUME AcceptOpens(s)
      PROVE  \/ Becomes(s, "idle", None)
             \/ /\ Becomes(s, "shift", job[s].item) /\ Open(job[s].item) /\ job'[s].base = period
  BY <1>0, <1>2, FinishBecomes DEF AcceptOpens, Job
<1>3. ASSUME DeclineClaim(s) \/ ExpireClaim(s), job[s].item \in Offers
      PROVE  \/ Becomes(s, "idle", None)
             \/ /\ Becomes(s, "change", job[s].item) /\ job'[s].to = "cancelled"
                /\ offer'[job[s].item] \in {"declined", "expired"}
  BY <1>0, <1>3, FinishBecomes DEF DeclineClaim, ExpireClaim, Job, TypeOK
<1>4. ASSUME AskWrite(s)
      PROVE  Becomes(s, "idle", None) \/ Becomes(s, "weigh", job[s].item)
  BY <1>0, <1>4, FinishBecomes DEF AskWrite, Goto, Job
<1>5. ASSUME StaffWeighs(s)
      PROVE  \/ Becomes(s, "idle", None)
             \/ /\ Becomes(s, "approve", job[s].item) /\ move[job[s].item] = "pending"
                /\ job'[s].date = Weeks(TermNow, target[job[s].item])
  BY <1>0, <1>5, FinishBecomes DEF StaffWeighs, Weigh, Idle, Reviewable
<1>6. ASSUME ApproveOpens(s)
      PROVE  /\ Becomes(s, "shift", job[s].item)
             /\ job'[s].base = period /\ job'[s].date = job[s].date
  BY <1>0, <1>6 DEF ApproveOpens, Job
<1>7. ASSUME ChangeReads(s)
      PROVE  \/ Becomes(s, "idle", None)
             \/ Becomes(s, "write", job[s].item) /\ job'[s].to = job[s].to
  BY <1>0, <1>7, FinishBecomes DEF ChangeReads, Job
<1> QED BY <1>1, <1>2, <1>3, <1>4, <1>5, <1>6, <1>7

\* The steps of a strand, by the strand.
StepOf(s) ==
  \/ Request(s) \/ Continue(s) \/ Crash(s) \/ SyncLook(s)
  \/ \E p \in Offers : ExpireLook(s, p, "round")

LEMMA Steps ==
  ASSUME [Next]_vars
  PROVE  \/ UNCHANGED vars \/ Tick
         \/ \E p \in Offers : WithdrawOffer(p)
         \/ \E s \in Strands : StepOf(s)
  BY DEF Next, StepOf, RoundExpires, RoundSyncs

----------------------------------------------------------------------------
(* The parts of the invariant. *)

LEMMA PapersStep ==
  ASSUME TypeOK, PapersInHand, [Next]_vars
  PROVE  PapersInHand'
<1> USE DEF PapersInHand, At
<1>1. ASSUME UNCHANGED job PROVE PapersInHand'
  BY <1>1
<1>2. ASSUME NEW s \in Strands, Request(s) \/ SyncLook(s) \/ \E p \in Offers : ExpireLook(s, p, "round")
      PROVE  PapersInHand'
  <2>1. \/ \E place \in {"send", "accept", "decline", "expire"}, p \in Offers : Becomes(s, place, p)
        \/ \E place \in {"ask", "approve", "reject", "withdraw"}, m \in Moves : Becomes(s, place, m)
        \/ \E place \in {"change", "write"} : Becomes(s, place, None) /\ job'[s].to \in Status
    BY <1>2, StartBecomes, NamesTyped DEF Request
  <2> QED BY <2>1, ItemsAssumption DEF Becomes, Status
<1>3. ASSUME NEW s \in Strands, Continue(s) \/ Crash(s) PROVE PapersInHand'
  <2>1. CASE Becomes(s, "idle", None)
    BY <2>1 DEF Becomes
  <2>2. CASE SendWrite(s) \/ RefuseWrite(s) \/ ShiftCommits(s) \/ ChangeWrites(s) \/ Crash(s)
    BY <2>1, <2>2, ContinueBecomes
  <2>3. CASE AcceptOpens(s)
    <3>1. job[s].item \in Items
      BY <2>3, NamesTyped DEF AcceptOpens
    <3> QED BY <2>1, <2>3, <3>1, ContinueBecomes DEF Becomes
  <2>4. CASE DeclineClaim(s) \/ ExpireClaim(s)
    <3>1. job[s].item \in Offers
      BY <2>4 DEF DeclineClaim, ExpireClaim
    <3> QED BY <2>1, <2>4, <3>1, ContinueBecomes, ItemsAssumption DEF Becomes
  <2>5. CASE AskWrite(s) \/ StaffWeighs(s)
    <3>1. job[s].item \in Moves
      BY <2>5 DEF AskWrite, StaffWeighs
    <3> QED BY <2>1, <2>5, <3>1, ContinueBecomes DEF Becomes
  <2>6. CASE ApproveOpens(s)
    <3>1. job[s].item \in Items
      BY <2>6, NamesTyped DEF ApproveOpens
    <3> QED BY <2>6, <3>1, ContinueBecomes DEF Becomes
  <2>7. CASE ChangeReads(s)
    <3>1. job[s].item \notin Moves /\ job[s].to # "none"
      BY <2>7 DEF ChangeReads
    <3> QED BY <2>1, <2>7, <3>1, ContinueBecomes DEF Becomes
  <2> QED BY <1>3, <2>2, <2>3, <2>4, <2>5, <2>6, <2>7 DEF Continue
<1>4. ASSUME Tick \/ (\E p \in Offers : WithdrawOffer(p)) \/ UNCHANGED vars PROVE UNCHANGED job
  BY <1>4 DEF Tick, WithdrawOffer, vars
<1> QED BY <1>1, <1>2, <1>3, <1>4, Steps DEF StepOf

\* Nobody else has in hand a paper not used yet, so the first to write it finds it so.
LEMMA FreshStep ==
  ASSUME TypeOK, PapersInHand, FreshIsAlone, OneHolder, [Next]_vars
  PROVE  FreshIsAlone'
<1> USE DEF FreshIsAlone, At
<1>1. ASSUME NEW s \in Strands,
             \E p \in Offers : SendLook(s, p)
      PROVE  FreshIsAlone'
  <2>1. PICK p \in Offers : SendLook(s, p)
    BY <1>1
  <2>2. /\ Becomes(s, "send", p)
        /\ offer[p] = "none" /\ UNCHANGED <<offer, move>>
        /\ \A r \in Strands : job[r].at \in {"send", "ask"} => job[r].item # p
    BY <2>1, StartBecomes, ItemsAssumption DEF SendLook, Unused, papers
  <2> QED BY <2>2 DEF Becomes
<1>2. ASSUME NEW s \in Strands,
             \E m \in Moves, t \in Targets, door \in {"request", "staff"} : AskLook(s, m, t, door)
      PROVE  FreshIsAlone'
  <2>1. PICK m \in Moves, t \in Targets, door \in {"request", "staff"} : AskLook(s, m, t, door)
    BY <1>2
  <2>2. /\ Becomes(s, "ask", m)
        /\ move[m] = "none" /\ UNCHANGED <<offer, move>>
        /\ \A r \in Strands : job[r].at \in {"send", "ask"} => job[r].item # m
    BY <2>1, StartBecomes, NamesTyped, ItemsAssumption DEF AskLook, Unused, papers
  <2> QED BY <2>2 DEF Becomes
\* A step that takes up no such paper, and leaves those not used yet as they are.
<1>3. ASSUME NEW s \in Strands, NEW place \in Places \ {"send", "ask"}, NEW x, Becomes(s, place, x),
             \A r \in Strands \ {s} : At(r, "send") => offer'[job[r].item] = "none",
             \A r \in Strands \ {s} : At(r, "ask") => move'[job[r].item] = "none",
             \A m \in Moves : move[m] # "none" => move'[m] # "none",
             x \in Moves /\ place \in {"weigh", "approve", "shift", "reject", "withdraw"} => move'[x] # "none"
      PROVE  FreshIsAlone'
  BY <1>3 DEF Becomes, PapersInHand
<1>4. ASSUME NEW s \in Strands, StepOf(s) PROVE FreshIsAlone'
  <2>1. CASE \/ \E p \in Offers, door \in Doors : ExpireLook(s, p, door)
             \/ \E p \in Offers, place \in {"accept", "decline"} : Answer(s, p, place)
             \/ \E m \in Moves : ApproveLook(s, m)
             \/ \E m \in Moves, place \in {"reject", "withdraw"} : RefuseLook(s, m, place)
             \/ \E to \in Status : StaffReads(s, to)
             \/ ReopenReads(s) \/ SyncLook(s)
    <3>1. UNCHANGED <<offer, move>>
      BY <2>1 DEF ExpireLook, Answer, ApproveLook, RefuseLook, StaffReads, ReopenReads, SyncLook, papers
    <3>2. \/ \E place \in {"accept", "decline", "expire", "change", "write"}, x \in Offers \cup {None} :
               Becomes(s, place, x)
          \/ \E place \in {"approve", "reject", "withdraw"}, m \in Moves :
               Becomes(s, place, m) /\ move[m] # "none"
      <4>1. ASSUME NEW m \in Moves, ApproveLook(s, m) \/ \E place \in {"reject", "withdraw"} : RefuseLook(s, m, place)
            PROVE move[m] # "none"
        BY <4>1 DEF ApproveLook, RefuseLook, Reviewable
      <4> QED BY <2>1, <4>1, StartBecomes
    <3> QED BY <1>3, <3>1, <3>2, NamesTyped, ItemsAssumption
  <2>2. CASE SendWrite(s)
    BY <1>3, <2>2, ContinueBecomes, NamesTyped, ItemsAssumption DEF SendWrite, TypeOK, PapersInHand
  <2>3. CASE AskWrite(s)
    BY <1>3, <2>3, ContinueBecomes, NamesTyped, ItemsAssumption DEF AskWrite, TypeOK, PapersInHand
  <2>4. CASE AcceptOpens(s) \/ ApproveOpens(s) \/ StaffWeighs(s) \/ ChangeReads(s) \/ ChangeWrites(s) \/ Crash(s)
    <3>1. UNCHANGED <<offer, move>>
      BY <2>4 DEF AcceptOpens, ApproveOpens, StaffWeighs, ChangeReads, ChangeWrites, Crash, papers
    <3>2. \/ Becomes(s, "idle", None)
          \/ Becomes(s, "shift", job[s].item) /\ (job[s].item \in Moves => move[job[s].item] # "none")
          \/ Becomes(s, "approve", job[s].item) /\ move[job[s].item] # "none"
          \/ Becomes(s, "write", job[s].item)
      <4>1. AcceptOpens(s) => job[s].item \notin Moves
        BY ItemsAssumption DEF AcceptOpens, PapersInHand
      <4>2. ApproveOpens(s) => job[s].item \in Moves /\ move[job[s].item] # "none"
        BY DEF ApproveOpens, PapersInHand
      <4> QED BY <2>4, <4>1, <4>2, ContinueBecomes
    <3> QED BY <1>3, <3>1, <3>2, NamesTyped, ItemsAssumption DEF PapersInHand
  <2>5. CASE DeclineClaim(s) \/ ExpireClaim(s)
    <3>1. job[s].item \in Offers
      BY <2>5 DEF DeclineClaim, ExpireClaim, PapersInHand
    <3>2. UNCHANGED move /\ \A p \in Offers : offer[p] = "none" => offer'[p] = "none"
      BY <2>5, <3>1 DEF DeclineClaim, ExpireClaim, Open, TypeOK
    <3> QED BY <1>3, <2>5, <3>1, <3>2, ContinueBecomes, NamesTyped, ItemsAssumption DEF PapersInHand
  <2>6. CASE RefuseWrite(s)
    <3>1. job[s].item \in Moves /\ move[job[s].item] # "none" /\ UNCHANGED offer
      BY <2>6 DEF RefuseWrite, PapersInHand
    <3>2. \A m \in Moves : move[m] # "none" => move'[m] # "none"
      BY <2>6 DEF RefuseWrite, TypeOK
    <3>3. \A r \in Strands \ {s} : At(r, "ask") => move'[job[r].item] = "none"
      BY <2>6, <3>1 DEF RefuseWrite, PapersInHand, TypeOK
    <3> QED BY <1>3, <2>6, <3>1, <3>2, <3>3, ContinueBecomes, NamesTyped, ItemsAssumption DEF PapersInHand
  <2>7. CASE ShiftCommits(s)
    <3>1. job[s].item \in Items
      BY <2>7 DEF ShiftCommits, PapersInHand
    <3>2. \A m \in Moves : move[m] # "none" => move'[m] # "none"
      BY <2>7 DEF ShiftCommits, TypeOK
    <3>3. \A r \in Strands \ {s} : At(r, "ask") => move'[job[r].item] = "none"
      BY <2>7, <3>1 DEF ShiftCommits, PapersInHand, TypeOK, Items
    <3>4. \A r \in Strands \ {s} : At(r, "send") => offer'[job[r].item] = "none"
      BY <2>7, <3>1 DEF ShiftCommits, PapersInHand, TypeOK, Items, OneHolder
    <3> QED BY <1>3, <2>7, <3>2, <3>3, <3>4, ContinueBecomes, NamesTyped, ItemsAssumption
  <2> QED BY <1>1, <1>2, <1>4, <2>1, <2>2, <2>3, <2>4, <2>5, <2>6, <2>7, NamesTyped DEF StepOf, Request, Continue
<1>5. ASSUME NEW p \in Offers, WithdrawOffer(p) PROVE FreshIsAlone'
  BY <1>5 DEF WithdrawOffer, TypeOK, PapersInHand
<1>6. ASSUME Tick \/ UNCHANGED vars PROVE FreshIsAlone'
  BY <1>6 DEF Tick, papers, vars
<1> QED BY <1>4, <1>5, <1>6, Steps

\* One open transaction holds a paper's row, and meanwhile nobody answers the offer.
LEMMA HolderStep ==
  ASSUME TypeOK, PapersInHand, FreshIsAlone, OneHolder, [Next]_vars
  PROVE  OneHolder'
<1> USE DEF OneHolder, At
<1>1. ASSUME NEW s \in Strands, NEW place \in Places \ {"shift"}, NEW x, Becomes(s, place, x),
             \A r \in Strands \ {s} : At(r, "shift") /\ job[r].item \in Offers => offer'[job[r].item] = "pending"
      PROVE  OneHolder'
  BY <1>1 DEF Becomes
<1>2. ASSUME NEW s \in Strands, Becomes(s, "shift", job[s].item), ~Held(job[s].item), UNCHANGED offer,
             job[s].item \in Offers => offer[job[s].item] = "pending"
      PROVE  OneHolder'
  BY <1>2 DEF Becomes, Held
<1>3. ASSUME NEW s \in Strands, StepOf(s) PROVE OneHolder'
  <2>1. CASE Request(s) \/ SyncLook(s) \/ \E p \in Offers : ExpireLook(s, p, "round")
    <3>1. UNCHANGED offer
      BY <2>1 DEF Request, SendLook, Answer, ExpireLook, AskLook, ApproveLook, RefuseLook, StaffReads,
                  ReopenReads, SyncLook, papers
    <3>2. \E place \in Places \ {"shift"}, x \in Items \cup {None} : Becomes(s, place, x)
      <4>1. ASSUME NEW place \in Places \ {"shift"}, NEW x \in Items \cup {None}, Becomes(s, place, x)
            PROVE  \E at \in Places \ {"shift"}, y \in Items \cup {None} : Becomes(s, at, y)
        BY <4>1
      <4> QED BY <2>1, <4>1, StartBecomes, NamesTyped DEF Request
    <3> QED BY <1>1, <3>1, <3>2
  <2>2. CASE AcceptOpens(s) \/ ApproveOpens(s)
    <3>1. ~Held(job[s].item) /\ UNCHANGED offer
      BY <2>2 DEF AcceptOpens, ApproveOpens, papers
    <3>2. \/ Becomes(s, "idle", None)
          \/ /\ Becomes(s, "shift", job[s].item)
             /\ job[s].item \in Offers => offer[job[s].item] = "pending"
      <4>1. ApproveOpens(s) => job[s].item \notin Offers
        BY ItemsAssumption DEF ApproveOpens, PapersInHand
      <4> QED BY <2>2, <4>1, ContinueBecomes DEF Open
    <3> QED BY <1>1, <1>2, <3>1, <3>2, NamesTyped
  <2>3. CASE \/ AskWrite(s) \/ StaffWeighs(s) \/ ChangeReads(s) \/ ChangeWrites(s) \/ Crash(s)
             \/ RefuseWrite(s)
    <3>1. UNCHANGED offer
      BY <2>3 DEF AskWrite, StaffWeighs, ChangeReads, ChangeWrites, Crash, RefuseWrite, papers
    <3>2. \E place \in Places \ {"shift"}, x \in Items \cup {None} : Becomes(s, place, x)
      <4>1. job[s].item \in Items \cup {None}
        BY DEF TypeOK, Job
      <4> QED BY <2>3, <4>1, ContinueBecomes, NamesTyped
    <3> QED BY <1>1, <3>1, <3>2
  <2>4. CASE SendWrite(s)
    <3>1. \A p \in Offers : offer[p] = "pending" => offer'[p] = "pending"
      BY <2>4 DEF SendWrite, TypeOK
    <3> QED BY <1>1, <2>4, <3>1, ContinueBecomes, NamesTyped
  <2>5. CASE DeclineClaim(s) \/ ExpireClaim(s)
    <3>1. job[s].item \in Offers
      BY <2>5 DEF DeclineClaim, ExpireClaim, PapersInHand
    <3>2. \A r \in Strands : At(r, "shift") /\ job[r].item \in Offers => offer'[job[r].item] = "pending"
      BY <2>5 DEF DeclineClaim, ExpireClaim, Held, TypeOK
    <3> QED BY <1>1, <2>5, <3>1, <3>2, ContinueBecomes, NamesTyped
  <2>6. CASE ShiftCommits(s)
    <3>1. \A r \in Strands \ {s} : At(r, "shift") /\ job[r].item \in Offers => offer'[job[r].item] = "pending"
      BY <2>6 DEF ShiftCommits, TypeOK
    <3> QED BY <1>1, <2>6, <3>1, ContinueBecomes, NamesTyped
  <2> QED BY <1>3, <2>1, <2>2, <2>3, <2>4, <2>5, <2>6 DEF StepOf, Continue
<1>4. ASSUME NEW p \in Offers, WithdrawOffer(p) PROVE OneHolder'
  BY <1>4 DEF WithdrawOffer, Held, TypeOK
<1>5. ASSUME Tick \/ UNCHANGED vars PROVE OneHolder'
  BY <1>5 DEF Tick, papers, vars
<1> QED BY <1>3, <1>4, <1>5, Steps

\* An offer is made once and answered once: what it has become, it stays.
LEMMA OfferSteps ==
  ASSUME TypeOK, PapersInHand, FreshIsAlone, OneHolder, [Next]_vars, NEW p \in Offers
  PROVE  \/ offer'[p] = offer[p]
         \/ offer[p] = "none" /\ offer'[p] = "pending"
         \/ offer[p] = "pending" /\ offer'[p] \in {"declined", "expired", "withdrawn"}
         \/ /\ offer[p] = "pending" /\ offer'[p] = "accepted"
            /\ \E s \in Strands : ShiftCommits(s) /\ job[s].item = p
<1>1. ASSUME Tick \/ UNCHANGED vars PROVE UNCHANGED offer
  BY <1>1 DEF Tick, papers, vars
<1>2. ASSUME NEW q \in Offers, WithdrawOffer(q)
      PROVE  offer'[p] = offer[p] \/ (offer[p] = "pending" /\ offer'[p] = "withdrawn")
  BY <1>2 DEF WithdrawOffer, TypeOK
<1>3. ASSUME NEW s \in Strands, Request(s) \/ SyncLook(s) \/ \E q \in Offers : ExpireLook(s, q, "round")
      PROVE UNCHANGED offer
  BY <1>3 DEF Request, SendLook, Answer, ExpireLook, AskLook, ApproveLook, RefuseLook, StaffReads,
              ReopenReads, SyncLook, papers
<1>4. ASSUME NEW s \in Strands,
             \/ AcceptOpens(s) \/ ApproveOpens(s) \/ AskWrite(s) \/ StaffWeighs(s) \/ RefuseWrite(s)
             \/ ChangeReads(s) \/ ChangeWrites(s) \/ Crash(s)
      PROVE UNCHANGED offer
  BY <1>4 DEF AcceptOpens, ApproveOpens, AskWrite, StaffWeighs, RefuseWrite, ChangeReads, ChangeWrites,
              Crash, papers
<1>5. ASSUME NEW s \in Strands, SendWrite(s)
      PROVE  offer'[p] = offer[p] \/ (offer[p] = "none" /\ offer'[p] = "pending")
  BY <1>5 DEF SendWrite, TypeOK, FreshIsAlone
<1>6. ASSUME NEW s \in Strands, DeclineClaim(s) \/ ExpireClaim(s)
      PROVE  \/ offer'[p] = offer[p]
             \/ offer[p] = "pending" /\ offer'[p] \in {"declined", "expired", "withdrawn"}
  BY <1>6 DEF DeclineClaim, ExpireClaim, Open, TypeOK
<1>7. ASSUME NEW s \in Strands, ShiftCommits(s)
      PROVE  \/ offer'[p] = offer[p]
             \/ offer[p] = "pending" /\ offer'[p] = "accepted" /\ job[s].item = p
  BY <1>7 DEF ShiftCommits, TypeOK, OneHolder
<1> QED BY <1>1, <1>2, <1>3, <1>4, <1>5, <1>6, <1>7, Steps DEF StepOf, Continue

LEMMA StoppersStep ==
  ASSUME TypeOK, PapersInHand, FreshIsAlone, OneHolder, StoppersHaveCause, [Next]_vars
  PROVE  StoppersHaveCause'
<1> USE DEF StoppersHaveCause
<1>1. \A p \in Offers : offer[p] \in {"declined", "expired"} => offer'[p] = offer[p]
  BY OfferSteps
<1>2. ASSUME NEW s \in Strands, NEW place, NEW x, Becomes(s, place, x),
             place \in {"change", "write"} /\ x \in Offers => offer'[x] \in {"declined", "expired"}
      PROVE  StoppersHaveCause'
  BY <1>1, <1>2 DEF Becomes
<1>3. ASSUME NEW s \in Strands, Request(s) \/ SyncLook(s) \/ \E p \in Offers : ExpireLook(s, p, "round")
      PROVE  StoppersHaveCause'
  <2>1. \/ \E place \in Places \ {"change", "write"}, x \in Items : Becomes(s, place, x)
        \/ \E place \in {"change", "write"} : Becomes(s, place, None)
    BY <1>3, StartBecomes, NamesTyped DEF Request
  <2> QED BY <1>2, <2>1, ItemsAssumption
<1>4. ASSUME NEW s \in Strands, Continue(s) \/ Crash(s) PROVE StoppersHaveCause'
  <2>1. CASE Becomes(s, "idle", None)
    BY <1>2, <2>1
  <2>2. CASE \/ AcceptOpens(s) \/ ApproveOpens(s) \/ AskWrite(s) \/ StaffWeighs(s)
             \/ SendWrite(s) \/ RefuseWrite(s) \/ ShiftCommits(s) \/ ChangeWrites(s) \/ Crash(s)
    BY <1>2, <2>2, ContinueBecomes
  <2>3. CASE DeclineClaim(s) \/ ExpireClaim(s)
    <3>1. job[s].item \in Offers
      BY <2>3 DEF DeclineClaim, ExpireClaim, PapersInHand, At
    <3> QED BY <1>2, <2>1, <2>3, <3>1, ContinueBecomes
  <2>4. CASE ChangeReads(s)
    BY <1>1, <1>2, <2>1, <2>4, ContinueBecomes DEF ChangeReads, At
  <2> QED BY <1>4, <2>2, <2>3, <2>4 DEF Continue
<1>5. ASSUME Tick \/ (\E p \in Offers : WithdrawOffer(p)) \/ UNCHANGED vars PROVE UNCHANGED job
  BY <1>5 DEF Tick, WithdrawOffer, vars
<1> QED BY <1>1, <1>3, <1>4, <1>5, Steps DEF StepOf

----------------------------------------------------------------------------
(* Each answer has one effect. *)

\* What only two steps change: the record of what was carried out, and of what was stopped.
LEMMA EffectSteps ==
  ASSUME [Next]_vars
  PROVE  /\ \/ UNCHANGED <<applied, session, period, shifts>>
            \/ \E s \in Strands : ShiftCommits(s)
         /\ UNCHANGED stopped \/ \E s \in Strands : ChangeReads(s) \/ ChangeWrites(s)
<1>1. ASSUME NEW s \in Strands, Request(s) \/ SyncLook(s) \/ \E q \in Offers : ExpireLook(s, q, "round")
      PROVE UNCHANGED <<applied, session, period, shifts, stopped>>
  BY <1>1 DEF Request, SendLook, Answer, ExpireLook, AskLook, ApproveLook, RefuseLook, StaffReads,
              ReopenReads, SyncLook, effect, cohort
<1>2. ASSUME NEW s \in Strands, Continue(s) \/ Crash(s)
      PROVE  /\ UNCHANGED <<applied, session, period, shifts>> \/ ShiftCommits(s)
             /\ UNCHANGED stopped \/ ChangeReads(s) \/ ChangeWrites(s)
  BY <1>2 DEF Continue, SendWrite, AcceptOpens, DeclineClaim, ExpireClaim, AskWrite, StaffWeighs, ApproveOpens,
              RefuseWrite, ShiftCommits, ChangeReads, ChangeWrites, Crash, effect, cohort
<1>3. ASSUME Tick \/ (\E p \in Offers : WithdrawOffer(p)) \/ UNCHANGED vars
      PROVE UNCHANGED <<applied, session, period, shifts, stopped>>
  BY <1>3 DEF Tick, WithdrawOffer, vars, effect, cohort
<1> QED BY <1>1, <1>2, <1>3, Steps DEF StepOf

LEMMA OfferActsStep ==
  ASSUME TypeOK, PapersInHand, FreshIsAlone, OneHolder, StoppersHaveCause, OfferActsOnce, [Next]_vars
  PROVE  OfferActsOnce'
<1> SUFFICES ASSUME NEW p \in Offers
             PROVE  /\ applied'[p] = IF offer'[p] = "accepted" THEN 1 ELSE 0
                    /\ p \in stopped' => offer'[p] \in {"declined", "expired"}
  BY DEF OfferActsOnce
<1>1. /\ applied[p] = IF offer[p] = "accepted" THEN 1 ELSE 0
      /\ p \in stopped => offer[p] \in {"declined", "expired"}
  BY DEF OfferActsOnce
<1>2. ASSUME NEW s \in Strands, ShiftCommits(s), job[s].item = p
      PROVE  applied'[p] = 1 /\ offer'[p] = "accepted"
  <2>1. offer[p] = "pending"
    BY <1>2 DEF ShiftCommits, OneHolder, At
  <2> QED BY <1>1, <1>2, <2>1 DEF ShiftCommits, TypeOK, Items
<1>3. ASSUME NEW s \in Strands, ShiftCommits(s), job[s].item # p
      PROVE  UNCHANGED <<applied[p], offer[p]>>
  BY <1>3 DEF ShiftCommits, TypeOK, Items
<1>4. applied'[p] = IF offer'[p] = "accepted" THEN 1 ELSE 0
  <2>1. CASE UNCHANGED applied
    <3>1. ASSUME NEW s \in Strands, ShiftCommits(s), job[s].item = p PROVE FALSE
      <4>1. offer[p] = "pending"
        BY <3>1 DEF ShiftCommits, OneHolder, At
      <4>2. applied[p] = 0 /\ applied'[p] = 1
        BY <1>1, <1>2, <3>1, <4>1
      <4> QED BY <2>1, <4>2
    <3> QED BY <1>1, <2>1, <3>1, OfferSteps
  <2> QED BY <1>1, <1>2, <1>3, <2>1, EffectSteps
<1>5. p \in stopped' => offer'[p] \in {"declined", "expired"}
  <2>1. ASSUME NEW s \in Strands, ChangeReads(s) \/ ChangeWrites(s), p \in stopped'
        PROVE  offer[p] \in {"declined", "expired"}
    BY <1>1, <2>1 DEF ChangeReads, ChangeWrites, Stops, StoppersHaveCause, At
  <2> QED BY <1>1, <2>1, OfferSteps, EffectSteps
<1> QED BY <1>4, <1>5

----------------------------------------------------------------------------
(* The dates, and the requests to move, as long as nothing has overlapped.   *)

\* calm is never restored; it ends when a transaction commits, or an answer no is
\* written, over what another strand has read.
LEMMA CalmSteps ==
  ASSUME TypeOK, [Next]_vars
  PROVE  /\ calm' => calm
         /\ \A s \in Strands : ShiftCommits(s) /\ calm' =>
              /\ \A r \in Strands \ {s} : job[r].at \notin {"approve", "shift"}
              /\ \A r \in Strands \ {s} : job[r].at \in {"reject", "withdraw"} => job[r].item # job[s].item
         /\ \A s \in Strands : RefuseWrite(s) /\ calm' =>
              \A r \in Strands \ {s} :
                job[r].at \in {"approve", "shift", "reject", "withdraw"} => job[r].item # job[s].item
<1>1. ASSUME NEW s \in Strands, Request(s) \/ SyncLook(s) \/ \E q \in Offers : ExpireLook(s, q, "round")
      PROVE UNCHANGED calm
  BY <1>1 DEF Request, SendLook, Answer, ExpireLook, AskLook, ApproveLook, RefuseLook, StaffReads,
              ReopenReads, SyncLook, effect
<1>2. ASSUME NEW s \in Strands, Continue(s) \/ Crash(s)
      PROVE  calm' => calm
  BY <1>2 DEF Continue, SendWrite, AcceptOpens, DeclineClaim, ExpireClaim, AskWrite, StaffWeighs, ApproveOpens,
              RefuseWrite, ShiftCommits, ChangeReads, ChangeWrites, Crash, effect
<1>3. ASSUME Tick \/ (\E p \in Offers : WithdrawOffer(p)) \/ UNCHANGED vars
      PROVE UNCHANGED calm
  BY <1>3 DEF Tick, WithdrawOffer, vars, effect
<1>4. calm' => calm
  BY <1>1, <1>2, <1>3, Steps DEF StepOf
<1> QED BY <1>4 DEF ShiftCommits, RefuseWrite, Contested

\* A request answered or in the hand of one who answers it changes by that answer only.
LEMMA MoveSteps ==
  ASSUME TypeOK, PapersInHand, FreshIsAlone, [Next]_vars, NEW m \in Moves
  PROVE  /\ \/ UNCHANGED <<move[m], target[m]>>
            \/ move[m] = "none" /\ move'[m] = "pending"
            \/ \E s \in Strands : /\ ShiftCommits(s) \/ RefuseWrite(s)
                                  /\ job[s].item = m /\ UNCHANGED target[m]
<1>1. ASSUME Tick \/ UNCHANGED vars \/ \E p \in Offers : WithdrawOffer(p) PROVE UNCHANGED <<move, target>>
  BY <1>1 DEF Tick, WithdrawOffer, papers, vars
<1>2. ASSUME NEW s \in Strands, Request(s) \/ SyncLook(s) \/ \E q \in Offers : ExpireLook(s, q, "round")
      PROVE UNCHANGED <<move, target>>
  BY <1>2 DEF Request, SendLook, Answer, ExpireLook, AskLook, ApproveLook, RefuseLook, StaffReads,
              ReopenReads, SyncLook, papers
<1>3. ASSUME NEW s \in Strands,
             \/ SendWrite(s) \/ AcceptOpens(s) \/ DeclineClaim(s) \/ ExpireClaim(s) \/ ApproveOpens(s)
             \/ StaffWeighs(s) \/ ChangeReads(s) \/ ChangeWrites(s) \/ Crash(s)
      PROVE UNCHANGED <<move, target>>
  BY <1>3 DEF SendWrite, AcceptOpens, DeclineClaim, ExpireClaim, ApproveOpens, StaffWeighs, ChangeReads,
              ChangeWrites, Crash, papers
<1>4. ASSUME NEW s \in Strands, AskWrite(s)
      PROVE  UNCHANGED <<move[m], target[m]>> \/ (move[m] = "none" /\ move'[m] = "pending")
  BY <1>4 DEF AskWrite, FreshIsAlone, TypeOK
<1>5. ASSUME NEW s \in Strands, ShiftCommits(s) \/ RefuseWrite(s)
      PROVE  UNCHANGED target[m] /\ (job[s].item # m => UNCHANGED move[m])
  BY <1>5, ItemsAssumption DEF ShiftCommits, RefuseWrite, TypeOK
<1> QED BY <1>1, <1>2, <1>3, <1>4, <1>5, Steps DEF StepOf, Continue

LEMMA FreshReadStep ==
  ASSUME TypeOK, PapersInHand, FreshIsAlone, OneHolder, ReadIsFresh, [Next]_vars
  PROVE  ReadIsFresh'
<1> SUFFICES ASSUME calm'
             PROVE  /\ \A r \in Strands : At(r, "shift")' => job'[r].base = period'
                    /\ \A r \in Strands :
                         job'[r].at \in {"approve", "shift", "reject", "withdraw"} /\ job'[r].item \in Moves =>
                           move'[job'[r].item] = "pending"
                    /\ \A r \in Strands :
                         job'[r].at \in {"approve", "shift"} /\ job'[r].item \in Moves =>
                           job'[r].date = Weeks(TermOf(session'), target'[job'[r].item])
  BY DEF ReadIsFresh, TermOf
<1>1. /\ \A r \in Strands : At(r, "shift") => job[r].base = period
      /\ \A r \in Strands :
           job[r].at \in {"approve", "shift", "reject", "withdraw"} /\ job[r].item \in Moves =>
             move[job[r].item] = "pending"
      /\ \A r \in Strands :
           job[r].at \in {"approve", "shift"} /\ job[r].item \in Moves =>
             job[r].date = Weeks(TermOf(session), target[job[r].item])
  BY CalmSteps DEF ReadIsFresh
<1> DEFINE Kept(r) ==
             \A m \in Moves :
               job[r].at \in {"approve", "shift", "reject", "withdraw"} /\ job[r].item = m =>
                 UNCHANGED <<move[m], target[m]>>
           Goal(r) ==
             /\ job'[r].at = "shift" => job'[r].base = period'
             /\ job'[r].at \in {"approve", "shift", "reject", "withdraw"} /\ job'[r].item \in Moves =>
                  move'[job'[r].item] = "pending"
             /\ job'[r].at \in {"approve", "shift"} /\ job'[r].item \in Moves =>
                  job'[r].date = Weeks(TermOf(session'), target'[job'[r].item])
<1>2. ASSUME NEW r \in Strands, job'[r] = job[r], Kept(r), UNCHANGED <<period, session>> PROVE Goal(r)
  BY <1>1, <1>2 DEF At
<1>3. ASSUME NEW r \in Strands, job'[r] = job[r], Kept(r), job[r].at \notin {"approve", "shift"} PROVE Goal(r)
  BY <1>1, <1>3
<1>4. ASSUME NEW r \in Strands,
             ~ \E s \in Strands : (ShiftCommits(s) \/ RefuseWrite(s)) /\ job[s].item = job[r].item
      PROVE  Kept(r)
  <2>1. SUFFICES ASSUME NEW m \in Moves, job[r].item = m,
                        job[r].at \in {"approve", "shift", "reject", "withdraw"}
                 PROVE  UNCHANGED <<move[m], target[m]>>
    OBVIOUS
  <2>2. move[m] = "pending"
    BY <1>1, <2>1
  <2>3. \/ UNCHANGED <<move[m], target[m]>>
        \/ \E s \in Strands : (ShiftCommits(s) \/ RefuseWrite(s)) /\ job[s].item = m
    BY <2>2, MoveSteps
  <2> QED BY <1>4, <2>1, <2>3
\* The two steps that change what others may have read.
<1>5. ASSUME NEW s \in Strands, ShiftCommits(s), NEW r \in Strands PROVE Goal(r)
  <2>1. Becomes(s, "idle", None)
    BY <1>5, ContinueBecomes
  <2>2. CASE r = s
    BY <2>1, <2>2 DEF Becomes
  <2>3. CASE r # s
    <3>1. /\ job'[r] = job[r] /\ job[r].at \notin {"approve", "shift"}
          /\ job[r].at \in {"reject", "withdraw"} => job[r].item # job[s].item
      BY <1>5, <2>1, <2>3, CalmSteps DEF Becomes
    <3>2. Kept(r)
      BY <1>5, <3>1 DEF ShiftCommits, TypeOK
    <3> QED BY <1>3, <3>1, <3>2
  <2> QED BY <2>2, <2>3
<1>6. ASSUME NEW s \in Strands, RefuseWrite(s), NEW r \in Strands PROVE Goal(r)
  <2>1. Becomes(s, "idle", None)
    BY <1>6, ContinueBecomes
  <2>2. CASE r = s
    BY <2>1, <2>2 DEF Becomes
  <2>3. CASE r # s
    <3>1. /\ job'[r] = job[r]
          /\ job[r].at \in {"approve", "shift", "reject", "withdraw"} => job[r].item # job[s].item
      BY <1>6, <2>1, <2>3, CalmSteps DEF Becomes
    <3>2. Kept(r) /\ UNCHANGED <<period, session>>
      BY <1>6, <3>1 DEF RefuseWrite, TypeOK, cohort
    <3> QED BY <1>2, <3>1, <3>2
  <2> QED BY <2>2, <2>3
\* Any other.
<1>7. ASSUME ~ \E s \in Strands : ShiftCommits(s) \/ RefuseWrite(s)
      PROVE  /\ \A r \in Strands : Kept(r)
             /\ UNCHANGED <<period, session>>
  BY <1>4, <1>7, EffectSteps
<1>8. ASSUME ~ \E s \in Strands : ShiftCommits(s) \/ RefuseWrite(s),
             NEW s \in Strands, NEW place \in Places \ {"approve", "shift", "reject", "withdraw"}, NEW x,
             Becomes(s, place, x), NEW r \in Strands
      PROVE  Goal(r)
  BY <1>2, <1>7, <1>8 DEF Becomes
<1>9. ASSUME ~ \E s \in Strands : ShiftCommits(s) \/ RefuseWrite(s),
             NEW s \in Strands, StepOf(s), NEW r \in Strands
      PROVE  Goal(r)
  <2>1. \A q \in Strands \ {s} : job'[q] = job[q] => Goal(q)
    BY <1>2, <1>7, <1>9
  <2>2. CASE \/ \E p \in Offers : SendLook(s, p)
             \/ \E p \in Offers, door \in Doors : ExpireLook(s, p, door)
             \/ \E p \in Offers, place \in {"accept", "decline"} : Answer(s, p, place)
             \/ \E m \in Moves, t \in Targets, door \in Doors : AskLook(s, m, t, door)
             \/ \E to \in Status : StaffReads(s, to)
             \/ ReopenReads(s) \/ SyncLook(s)
    <3>1. \/ Becomes(s, "idle", None)
          \/ \E place \in {"send", "accept", "decline", "expire", "ask"}, x \in Items : Becomes(s, place, x)
          \/ \E place \in {"change", "write"} : Becomes(s, place, None)
      BY <2>2, StartBecomes, NamesTyped
    <3> QED BY <1>8, <1>9, <3>1, NamesTyped
  <2>3. ASSUME NEW m \in Moves, NEW place \in {"reject", "withdraw"}, RefuseLook(s, m, place) PROVE Goal(r)
    <3>1. Becomes(s, place, m) /\ move'[m] = "pending"
      BY <2>3, StartBecomes DEF RefuseLook, Reviewable, papers
    <3> QED BY <2>1, <3>1 DEF Becomes
  <2>4. ASSUME NEW m \in Moves, ApproveLook(s, m) PROVE Goal(r)
    <3>1. /\ Becomes(s, "approve", m) /\ move'[m] = "pending" /\ UNCHANGED <<target, session>>
          /\ job'[s].date = Weeks(TermNow, target[m])
      BY <2>4, StartBecomes DEF ApproveLook, Reviewable, papers, cohort
    <3>2. job'[s].date = Weeks(TermOf(session'), target'[m])
      BY <3>1 DEF TermNow, TermOf
    <3> QED BY <2>1, <3>1, <3>2 DEF Becomes
  <2>5. CASE StaffWeighs(s)
    <3>1. CASE Becomes(s, "idle", None)
      BY <1>8, <1>9, <3>1, NamesTyped
    <3>2. CASE ~Becomes(s, "idle", None)
      <4>1. /\ Becomes(s, "approve", job[s].item) /\ move'[job[s].item] = "pending" /\ UNCHANGED <<target, session>>
            /\ job'[s].date = Weeks(TermNow, target[job[s].item])
        BY <2>5, <3>2, ContinueBecomes DEF StaffWeighs, papers, cohort
      <4>2. job'[s].date = Weeks(TermOf(session'), target'[job[s].item])
        BY <4>1 DEF TermNow, TermOf
      <4> QED BY <2>1, <4>1, <4>2 DEF Becomes
    <3> QED BY <3>1, <3>2
  <2>6. CASE ApproveOpens(s)
    <3>1. /\ Becomes(s, "shift", job[s].item) /\ job'[s].base = period' /\ job'[s].date = job[s].date
          /\ UNCHANGED <<move, target, session>> /\ job[s].at = "approve"
      BY <2>6, ContinueBecomes DEF ApproveOpens, papers, cohort, At
    <3> QED BY <1>1, <2>1, <3>1 DEF Becomes
  <2>7. CASE AcceptOpens(s)
    <3>1. job[s].item \notin Moves /\ UNCHANGED period
      BY <2>7, ItemsAssumption DEF AcceptOpens, PapersInHand, At, cohort
    <3>2. CASE Becomes(s, "idle", None)
      BY <1>8, <1>9, <3>2, NamesTyped
    <3>3. CASE ~Becomes(s, "idle", None)
      BY <2>1, <2>7, <3>1, <3>3, ContinueBecomes DEF Becomes
    <3> QED BY <3>2, <3>3
  <2>8. CASE \/ SendWrite(s) \/ DeclineClaim(s) \/ ExpireClaim(s) \/ AskWrite(s)
             \/ ChangeReads(s) \/ ChangeWrites(s) \/ Crash(s)
    <3>1. \/ Becomes(s, "idle", None)
          \/ \E place \in {"change", "weigh", "write"} : Becomes(s, place, job[s].item)
      <4>1. DeclineClaim(s) \/ ExpireClaim(s) => job[s].item \in Offers
        BY DEF DeclineClaim, ExpireClaim, PapersInHand, At
      <4> QED BY <2>8, <4>1, ContinueBecomes
    <3> QED BY <1>8, <1>9, <3>1, NamesTyped
  <2> QED
    BY <1>9, <2>2, <2>3, <2>4, <2>5, <2>6, <2>7, <2>8, NamesTyped DEF StepOf, Request, Continue
<1>10. ASSUME Tick \/ UNCHANGED vars \/ (\E p \in Offers : WithdrawOffer(p)), NEW r \in Strands
       PROVE  Goal(r)
  <2>1. job' = job /\ UNCHANGED <<period, session, move, target>>
    BY <1>10 DEF Tick, WithdrawOffer, vars, cohort, papers
  <2> QED BY <1>1, <2>1 DEF At
<1> QED BY <1>5, <1>6, <1>9, <1>10, Steps DEF At

LEMMA DatesStep ==
  ASSUME TypeOK, PapersInHand, FreshIsAlone, OneHolder, ReadIsFresh, DatesAccounted, [Next]_vars
  PROVE  DatesAccounted'
<1>1. CASE UNCHANGED <<session, period, shifts>>
  BY <1>1, CalmSteps DEF DatesAccounted
<1>2. ASSUME NEW s \in Strands, ShiftCommits(s) PROVE DatesAccounted'
  <2>1. /\ session \in Int /\ shifts \in Int /\ period \in Int
        /\ job[s].date \in Int /\ job[s].base \in Int /\ Start \in Int
    BY DatesAssumption DEF TypeOK, Job
  <2>2. /\ session' = session + job[s].date /\ shifts' = shifts + job[s].date
        /\ period' = job[s].base + job[s].date
    BY <1>2 DEF ShiftCommits, SessionAfter
  <2>3. calm' => job[s].base = period /\ period = session
    BY <1>2, CalmSteps DEF ReadIsFresh, DatesAccounted, ShiftCommits
  <2>4. session' = Start + shifts'
    BY <2>1, <2>2 DEF DatesAccounted
  <2>5. calm' => period' = session'
    BY <2>2, <2>3
  <2> QED BY <2>4, <2>5 DEF DatesAccounted
<1> QED BY <1>1, <1>2, EffectSteps

\* Answers that do not overlap act once.
LEMMA CalmMoveActs ==
  ASSUME TypeOK, PapersInHand, FreshIsAlone, OneHolder, ReadIsFresh, MoveActsOnce, [Next]_vars
  PROVE  calm' => \A m \in Moves : applied'[m] = IF move'[m] = "approved" THEN 1 ELSE 0
<1>0. SUFFICES ASSUME calm', NEW m \in Moves
               PROVE  applied'[m] = IF move'[m] = "approved" THEN 1 ELSE 0
  OBVIOUS
<1>1. calm /\ applied[m] = IF move[m] = "approved" THEN 1 ELSE 0
  BY <1>0, CalmSteps DEF MoveActsOnce
<1>2. ASSUME NEW s \in Strands, ShiftCommits(s), job[s].item = m
      PROVE  applied'[m] = 1 /\ move'[m] = "approved"
  <2>1. move[m] = "pending"
    BY <1>1, <1>2 DEF ShiftCommits, ReadIsFresh, At
  <2> QED BY <1>1, <1>2, <2>1, ItemsAssumption DEF ShiftCommits, TypeOK, Items
<1>3. ASSUME NEW s \in Strands, ShiftCommits(s), job[s].item # m
      PROVE  UNCHANGED <<applied[m], move[m]>>
  BY <1>3, ItemsAssumption DEF ShiftCommits, TypeOK, Items
<1>4. ASSUME NEW s \in Strands, RefuseWrite(s), job[s].item = m
      PROVE  move[m] # "approved" /\ move'[m] # "approved"
  <2>1. move[m] = "pending"
    BY <1>1, <1>4 DEF RefuseWrite, ReadIsFresh, At
  <2> QED BY <1>4, <2>1 DEF RefuseWrite, TypeOK
<1>5. CASE \E s \in Strands : ShiftCommits(s)
  BY <1>1, <1>2, <1>3, <1>5
<1>6. CASE ~ \E s \in Strands : ShiftCommits(s)
  <2>1. UNCHANGED applied
    BY <1>6, EffectSteps
  <2>2. (move[m] = "approved") <=> (move'[m] = "approved")
    BY <1>4, <1>6, MoveSteps
  <2> QED BY <1>1, <2>1, <2>2
<1> QED BY <1>5, <1>6

LEMMA ApprovingFinite ==
  /\ IsFiniteSet(Strands) /\ Cardinality(Strands) \in Nat
  /\ \A m \in Moves : /\ IsFiniteSet(Approving(m)) /\ Cardinality(Approving(m)) \in Nat
                      /\ Cardinality(Approving(m)) <= Cardinality(Strands)
  BY StrandsAssumption, FS_Subset, FS_CardinalityType DEF Approving

\* Only a request that waits is taken up for approval.
LEMMA ApprovingSteps ==
  ASSUME TypeOK, PapersInHand, [Next]_vars, NEW m \in Moves, move[m] # "pending"
  PROVE  Approving(m)' \subseteq Approving(m)
<1>1. ASSUME NEW r \in Strands, job'[r] = job[r], r \in Approving(m)' PROVE r \in Approving(m)
  BY <1>1 DEF Approving
<1>2. ASSUME UNCHANGED job PROVE Approving(m)' \subseteq Approving(m)
  BY <1>2 DEF Approving
<1>3. ASSUME NEW s \in Strands, NEW place, NEW x, Becomes(s, place, x),
             x = m /\ place \in {"approve", "shift"} => s \in Approving(m)
      PROVE  Approving(m)' \subseteq Approving(m)
  BY <1>3 DEF Becomes, Approving
<1>4. ASSUME NEW s \in Strands, Request(s) \/ SyncLook(s) \/ \E p \in Offers : ExpireLook(s, p, "round")
      PROVE  Approving(m)' \subseteq Approving(m)
  <2>1. CASE \E n \in Moves : ApproveLook(s, n)
    <3>1. PICK n \in Moves : ApproveLook(s, n)
      BY <2>1
    <3>2. Becomes(s, "approve", n) /\ n # m
      BY <3>1, StartBecomes DEF ApproveLook, Reviewable
    <3> QED BY <1>3, <3>2
  <2>2. CASE ~\E n \in Moves : ApproveLook(s, n)
    <3>1. \/ \E place \in {"send", "accept", "decline", "expire", "ask", "reject", "withdraw"}, x \in Items :
               Becomes(s, place, x)
          \/ \E place \in {"change", "write"} : Becomes(s, place, None)
      BY <1>4, <2>2, StartBecomes, NamesTyped DEF Request
    <3> QED BY <1>3, <3>1
  <2> QED BY <2>1, <2>2
<1>5. ASSUME NEW s \in Strands, Continue(s) \/ Crash(s) PROVE Approving(m)' \subseteq Approving(m)
  <2>1. CASE Becomes(s, "idle", None)
    BY <1>3, <2>1
  <2>2. CASE StaffWeighs(s)
    <3>1. CASE Becomes(s, "approve", job[s].item) /\ move[job[s].item] = "pending"
      BY <1>3, <3>1
    <3> QED BY <2>1, <2>2, <3>1, ContinueBecomes
  <2>3. CASE AcceptOpens(s)
    <3>1. job[s].item # m
      BY <2>3, ItemsAssumption DEF AcceptOpens, PapersInHand, At
    <3> QED BY <1>3, <2>1, <2>3, <3>1, ContinueBecomes
  <2>4. CASE ApproveOpens(s)
    <3>1. Becomes(s, "shift", job[s].item) /\ job[s].at = "approve"
      BY <2>4, ContinueBecomes DEF ApproveOpens, At
    <3> QED BY <1>3, <3>1 DEF Approving
  <2>5. CASE DeclineClaim(s) \/ ExpireClaim(s)
    <3>1. job[s].item \in Offers
      BY <2>5 DEF DeclineClaim, ExpireClaim, PapersInHand, At
    <3> QED BY <1>3, <2>1, <2>5, <3>1, ContinueBecomes
  <2>6. CASE AskWrite(s) \/ ChangeReads(s)
    BY <1>3, <2>1, <2>6, ContinueBecomes
  <2>7. CASE SendWrite(s) \/ RefuseWrite(s) \/ ShiftCommits(s) \/ ChangeWrites(s) \/ Crash(s)
    BY <2>1, <2>7, ContinueBecomes
  <2> QED BY <1>5, <2>2, <2>3, <2>4, <2>5, <2>6, <2>7 DEF Continue
<1>6. ASSUME Tick \/ (\E p \in Offers : WithdrawOffer(p)) \/ UNCHANGED vars PROVE UNCHANGED job
  BY <1>6 DEF Tick, WithdrawOffer, vars
<1> QED BY <1>2, <1>4, <1>5, <1>6, Steps DEF StepOf

LEMMA MoveActsStep ==
  ASSUME TypeOK, PapersInHand, FreshIsAlone, OneHolder, ReadIsFresh, FewApprove, MoveActsOnce, [Next]_vars
  PROVE  MoveActsOnce' /\ FewApprove'
<1> SUFFICES ASSUME NEW m \in Moves
             PROVE  /\ move'[m] \in {"none", "pending"} => applied'[m] = 0
                    /\ move'[m] = "approved" => applied'[m] > 0
                    /\ applied'[m] \in Nat /\ applied'[m] + Cardinality(Approving(m)') <= Cardinality(Strands)
                    /\ applied'[m] <= Cardinality(Strands)
  BY CalmMoveActs DEF MoveActsOnce, FewApprove
<1>1. /\ move[m] \in {"none", "pending"} => applied[m] = 0
      /\ move[m] = "approved" => applied[m] > 0
      /\ applied[m] \in Nat /\ applied[m] + Cardinality(Approving(m)) <= Cardinality(Strands)
  BY DEF MoveActsOnce, FewApprove
<1>2. /\ IsFiniteSet(Approving(m)) /\ Cardinality(Approving(m)) \in Nat /\ Cardinality(Strands) \in Nat
      /\ IsFiniteSet(Approving(m)') /\ Cardinality(Approving(m)') \in Nat
      /\ Cardinality(Approving(m)') <= Cardinality(Strands)
  <2>1. Approving(m)' \subseteq Strands
    BY DEF Approving
  <2> QED BY <2>1, ApprovingFinite, FS_Subset, FS_CardinalityType
<1>3. ASSUME NEW s \in Strands, ShiftCommits(s), job[s].item = m
      PROVE  /\ applied'[m] = applied[m] + 1 /\ move'[m] = "approved"
             /\ Cardinality(Approving(m)') <= Cardinality(Approving(m)) - 1
  <2>1. applied'[m] = applied[m] + 1 /\ move'[m] = "approved"
    BY <1>3, ItemsAssumption DEF ShiftCommits, TypeOK, Items
  <2>2. Becomes(s, "idle", None)
    BY <1>3, ContinueBecomes
  <2>3. Approving(m)' = Approving(m) \ {s} /\ s \in Approving(m)
    BY <1>3, <2>2 DEF Becomes, Approving, ShiftCommits, At
  <2>4. Cardinality(Approving(m) \ {s}) = Cardinality(Approving(m)) - 1
    BY <1>2, <2>3, FS_RemoveElement
  <2> QED BY <1>2, <2>1, <2>3, <2>4
<1>4. ASSUME ~\E s \in Strands : ShiftCommits(s) /\ job[s].item = m
      PROVE  UNCHANGED applied[m]
  <2>1. CASE \E s \in Strands : ShiftCommits(s)
    <3>1. PICK s \in Strands : ShiftCommits(s)
      BY <2>1
    <3>2. job[s].item # m
      BY <1>4, <3>1
    <3> QED BY <3>1, <3>2 DEF ShiftCommits, TypeOK
  <2>2. CASE ~\E s \in Strands : ShiftCommits(s)
    BY <2>2, EffectSteps
  <2> QED BY <2>1, <2>2
<1>5. ASSUME ~\E s \in Strands : ShiftCommits(s) /\ job[s].item = m
      PROVE  /\ move'[m] \in {"none", "pending"} => move[m] \in {"none", "pending"}
             /\ move'[m] = "approved" => move[m] = "approved"
  <2>1. ASSUME NEW s \in Strands, RefuseWrite(s), job[s].item = m PROVE move'[m] \in {"rejected", "withdrawn"}
    BY <2>1 DEF RefuseWrite, TypeOK
  <2> QED BY <1>5, <2>1, MoveSteps
<1>6. ASSUME ~\E s \in Strands : ShiftCommits(s) /\ job[s].item = m
      PROVE  applied[m] + Cardinality(Approving(m)') <= Cardinality(Strands)
  <2>1. CASE move[m] = "pending"
    BY <1>1, <1>2, <2>1
  <2>2. CASE move[m] # "pending"
    <3>1. Cardinality(Approving(m)') <= Cardinality(Approving(m))
      BY <1>2, <2>2, ApprovingSteps, FS_Subset
    <3> QED BY <1>1, <1>2, <3>1
  <2> QED BY <2>1, <2>2
<1>7. CASE \E s \in Strands : ShiftCommits(s) /\ job[s].item = m
  BY <1>1, <1>2, <1>3, <1>7
<1>8. CASE ~\E s \in Strands : ShiftCommits(s) /\ job[s].item = m
  BY <1>1, <1>2, <1>4, <1>5, <1>6, <1>8
<1> QED BY <1>7, <1>8

----------------------------------------------------------------------------
(* The theorems *)

\* The invariant is inductive: no step of any strand, nor a strand cut short, breaks a part of it.
THEOREM ScheduleInductive == Spec => []IInv
<1>1. Init => IInv
  <2> SUFFICES ASSUME Init PROVE IInv
    OBVIOUS
  <2>1. TypeOK
    BY IdleTyped, DatesAssumption DEF Init, TypeOK, Status
  <2>2. \A s \in Strands : job[s].at = "idle"
    BY DEF Init, Idle
  <2>3. PapersInHand /\ FreshIsAlone /\ OneHolder /\ StoppersHaveCause /\ ReadIsFresh
    BY <2>2 DEF PapersInHand, FreshIsAlone, OneHolder, StoppersHaveCause, ReadIsFresh, At
  <2>4. Safe
    <3>1. Cardinality(Strands) \in Nat
      BY StrandsAssumption, FS_CardinalityType
    <3> QED BY <3>1, DatesAssumption DEF Init, Safe, OfferActsOnce, DatesAccounted, MoveActsOnce, Items
  <2>5. FewApprove
    <3>1. \A m \in Moves : Approving(m) = {}
      BY <2>2 DEF Approving
    <3>2. \A m \in Moves : applied[m] = 0
      BY DEF Init, Items
    <3>3. Cardinality({}) = 0 /\ Cardinality(Strands) \in Nat
      BY StrandsAssumption, FS_CardinalityType, FS_EmptySet
    <3> QED BY <3>1, <3>2, <3>3 DEF FewApprove
  <2> QED BY <2>1, <2>3, <2>4, <2>5 DEF IInv
<1>2. IInv /\ [Next]_vars => IInv'
  BY StepTyped, PapersStep, FreshStep, HolderStep, StoppersStep, FreshReadStep, OfferActsStep, DatesStep,
     MoveActsStep DEF IInv, Safe
<1> QED BY <1>1, <1>2, PTL DEF Spec

\* Every variable keeps its type.
THEOREM TypeCorrect == Spec => []TypeOK
<1>1. IInv => TypeOK
  BY DEF IInv
<1> QED BY <1>1, ScheduleInductive, PTL

\* An offer has one effect, its answer's, whoever answers it together (decide, withdraw,
\* expireDue): accepted it shifts the dates once, declined or left unanswered it may stop
\* the cohort, and otherwise it does neither.
THEOREM OffersActOnce == Spec => []OfferActsOnce
<1>1. IInv => OfferActsOnce
  BY DEF IInv, Safe
<1> QED BY <1>1, ScheduleInductive, PTL

\* No shift of the sessions is lost, however many overlap; the cohort's own dates keep
\* step with them as long as none do (applyShift).
THEOREM ShiftsAddUp == Spec => []DatesAccounted
<1>1. IInv => DatesAccounted
  BY DEF IInv, Safe
<1> QED BY <1>1, ScheduleInductive, PTL

\* Whatever overlapped or was cut short, an approved request has moved the cohort, one that
\* waits has not, and one request moves it no more often than there are strands to answer at
\* once; where no two answers or shifts overlapped, once if approved and never if not (review).
THEOREM MovesActOnce == Spec => []MoveActsOnce
<1>1. IInv => MoveActsOnce
  BY DEF IInv, Safe
<1> QED BY <1>1, ScheduleInductive, PTL

\* An approved request keeps the first session's place in its term, to half a week, in terms
\* of any lengths, whatever shifts came before it, unless two overlapped (review, applyShift).
THEOREM MovesKeepPlace == Spec => MoveKeepsPlace
<1> DEFINE strays(m) == (session' - TermBegins(target[m])) - (session - TermBegins(TermOf(session)))
<1>1. IInv /\ [Next]_vars
      => [\A m \in Moves : applied'[m] # applied[m] /\ calm' => 2 * strays(m) <= Week /\ -2 * strays(m) <= Week]_vars
  <2> SUFFICES ASSUME IInv, [Next]_vars, NEW m \in Moves, applied'[m] # applied[m], calm'
               PROVE  2 * strays(m) <= Week /\ -2 * strays(m) <= Week
    OBVIOUS
  <2>0. TypeOK /\ PapersInHand /\ ReadIsFresh
    BY DEF IInv
  <2>1. PICK s \in Strands : ShiftCommits(s)
    BY EffectSteps
  <2>2. job[s].item = m
    BY <2>0, <2>1 DEF ShiftCommits, TypeOK
  <2>3. calm /\ job[s].at = "shift"
    BY <2>0, <2>1, CalmSteps DEF ShiftCommits, At
  <2>4. job[s].date = Weeks(TermOf(session), target[m])
    BY <2>0, <2>2, <2>3 DEF ReadIsFresh
  <2>5. session' = session + job[s].date
    BY <2>1 DEF ShiftCommits, SessionAfter
  <2>6. session \in Int /\ target[m] \in Int /\ TermOf(session) \in Int
    BY <2>0, TermTyped DEF TypeOK
  <2>7. PICK a \in Int, b \in Int, w \in Int :
           a = TermBegins(target[m]) /\ b = TermBegins(TermOf(session)) /\ w = Weeks(TermOf(session), target[m])
    BY <2>6, TermBeginsTyped, WeeksNearest
  <2>8. 2 * (w - (a - b)) <= Week /\ -2 * (w - (a - b)) <= Week
    BY <2>6, <2>7, WeeksNearest
  <2>9. strays(m) = w - (a - b)
    BY <2>4, <2>5, <2>6, <2>7
  <2> QED BY <2>8, <2>9
<1> QED BY <1>1, ScheduleInductive, PTL DEF Spec, MoveKeepsPlace

\* An answer to an offer stands: once it is accepted, declined, expired or withdrawn, no
\* other answer, and no round of the worker, ever changes it.
THEOREM AnswersStand ==
  Spec => [][\A p \in Offers : offer[p] \notin {"none", "pending"} => offer'[p] = offer[p]]_vars
<1>1. IInv /\ [Next]_vars
      => [\A p \in Offers : offer[p] \notin {"none", "pending"} => offer'[p] = offer[p]]_vars
  BY OfferSteps DEF IInv
<1> QED BY <1>1, ScheduleInductive, PTL DEF Spec

=============================================================================
