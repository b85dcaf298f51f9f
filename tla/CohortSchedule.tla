--------------------------- MODULE CohortSchedule ---------------------------
(***************************************************************************)
(* The dates and the status of one cohort, and those who change them at     *)
(* once: the staff's offer to postpone it (cohort-postpone.service), which  *)
(* its trainer accepts, declines or leaves until the worker stops the       *)
(* cohort; the request to move it to another term (cohort-move.service);    *)
(* the staff's buttons, and the worker that keeps the status up with the    *)
(* dates (cohort.service).                                                  *)
(*                                                                         *)
(* A strand serves one request, or one round of the worker, at a time.  The *)
(* transactions run at READ COMMITTED and no key refuses a second pending   *)
(* offer or request: a transaction that shifts the dates first writes the   *)
(* row of its offer or request, which holds it until the end, and reads the *)
(* cohort; only then does it write the cohort and its sessions.  Dates are  *)
(* ticks; "open" stands for open and full, which differ in free seats.      *)
(***************************************************************************)
EXTENDS Integers, FiniteSets

CONSTANTS
  Offers,      \* offers to postpone
  Moves,       \* requests to move to another term
  Strands,     \* activities under way at one time
  Start,       \* the date the cohort begins with
  Length,      \* from the start of its first session to the end of its last one
  Year,        \* the length of a year, of four terms
  Season,      \* where in the year each term begins: they are not of one length
  Week,        \* a move shifts by whole weeks
  Targets,     \* terms a cohort may be asked to move to
  Month,       \* what an offer shifts the dates by
  Horizon,     \* bound: time stops here
  MaxRequests, \* bound: requests made; the worker's rounds are not counted
  MaxCrashes,  \* bound: activities that may be cut short
  None

ASSUME DatesAssumption ==
  /\ Start \in Int /\ Length \in Nat /\ Targets \subseteq Int
  /\ Month \in Int /\ Horizon \in Nat /\ MaxRequests \in Nat /\ MaxCrashes \in Nat
ASSUME TermsAssumption ==
  /\ Year \in Nat \ {0} /\ Week \in Nat \ {0}
  /\ Season \in [0..3 -> 0..(Year - 1)]
  /\ Season[0] = 0 /\ \A i \in 0..2 : Season[i] < Season[i + 1]
ASSUME StrandsAssumption == IsFiniteSet(Strands)
ASSUME ItemsAssumption == Offers \cap Moves = {} /\ None \notin Offers \cup Moves

VARIABLES
  now,        \* the clock
  status,     \* Cohort.status
  before,     \* what the last status event says the status was ("open" for any but draft)
  period,     \* Cohort.startsAt, and endsAt, joinClosesAt, scheduleWindow with it
  session,    \* the first CohortSession's startsAt, and the rest of the schedule with it
  offer,      \* CohortPostponeOffer.status
  deadline,   \* CohortPostponeOffer.deadlineAt
  move,       \* CohortMoveRequest.status
  target,     \* CohortMoveRequest.toYear, toSeason
  applied,    \* times the shift of an offer or a request was carried out
  stopped,    \* offers whose cohort was stopped for want of a yes
  shifts,     \* the sum of all shifts carried out
  calm,       \* no two decisions about the dates have overlapped so far
  job,        \* what each strand is doing
  requests,   \* requests made so far
  crashes     \* strands cut short so far

cohort == <<status, before, period, session>>
papers == <<offer, deadline, move, target>>
effect == <<applied, stopped, shifts, calm>>
vars   == <<now, status, before, period, session, offer, deadline, move, target, applied, stopped, shifts,
            calm, job, requests, crashes>>

Items  == Offers \cup Moves
Status == {"draft", "open", "active", "completed", "cancelled"}
Places == {"idle", "send", "accept", "decline", "expire", "change", "write", "ask", "weigh",
           "approve", "reject", "withdraw", "shift"}
Doors  == {"none", "request", "staff", "round", "reopen"}

\* date: a deadline, a term, a shift or the hour of a round; base: the period a
\* transaction read; saw: the status a strand read; to: the one it means to write.
Job == [at : Places, door : Doors, item : Items \cup {None}, date : Int, base : Int,
        saw : Status \cup {"none"}, to : Status \cup {"none"}]

Idle == [at |-> "idle", door |-> "none", item |-> None, date |-> 0, base |-> 0,
         saw |-> "none", to |-> "none"]

TypeOK ==
  /\ now      \in 0..Horizon
  /\ status   \in Status
  /\ before   \in {"draft", "open"}
  /\ period   \in Int
  /\ session  \in Int
  /\ offer    \in [Offers -> {"none", "pending", "accepted", "declined", "expired", "withdrawn"}]
  /\ deadline \in [Offers -> Int]
  /\ move     \in [Moves -> {"none", "pending", "approved", "rejected", "withdrawn"}]
  /\ target   \in [Moves -> Int]
  /\ applied  \in [Items -> Nat]
  /\ stopped  \in SUBSET Offers
  /\ shifts   \in Int
  /\ calm     \in BOOLEAN
  /\ job      \in [Strands -> Job]
  /\ requests \in 0..MaxRequests
  /\ crashes  \in 0..MaxCrashes

Init ==
  /\ now      = 0
  /\ status   = "draft"
  /\ before   = "draft"
  /\ period   = Start
  /\ session  = Start
  /\ offer    = [p \in Offers |-> "none"]
  /\ deadline = [p \in Offers |-> 0]
  /\ move     = [m \in Moves |-> "none"]
  /\ target   = [m \in Moves |-> 0]
  /\ applied  = [x \in Items |-> 0]
  /\ stopped  = {}
  /\ shifts   = 0
  /\ calm     = TRUE
  /\ job      = [s \in Strands |-> Idle]
  /\ requests = 0
  /\ crashes  = 0

----------------------------------------------------------------------------
(* Helpers *)

At(s, place)   == job[s].at = place
Goto(s, place) == job' = [job EXCEPT ![s].at = place]
Finish(s)      == job' = [job EXCEPT ![s] = Idle]
Begin(s, j)    == At(s, "idle") /\ job' = [job EXCEPT ![s] = j]
Count          == requests < MaxRequests /\ requests' = requests + 1
Receive(s, j)  == Begin(s, j) /\ Count

First      == IF period < session THEN period ELSE session
Over       == session + Length < now
NotStarted == status \in {"draft", "open"}

\* Terms are numbered through the years, four in each.
TermBegins(t) == Year * (t \div 4) + Season[t % 4]
SeasonOf(day) == CHOOSE i \in 0..3 : Season[i] <= day /\ (i < 3 => day < Season[i + 1])
TermOf(d)     == 4 * (d \div Year) + SeasonOf(d % Year)

\* moveShiftMs: the weeks nearest to the way from one term's beginning to the other's.
Weeks(from, to) == ((2 * (TermBegins(to) - TermBegins(from)) + Week) \div (2 * Week)) * Week

\* A row that another strand's transaction has written and not yet committed.
Held(x) == \E s \in Strands : At(s, "shift") /\ job[s].item = x

Allowed_NoStopOnceActive ==
  [draft |-> {"open", "cancelled"}, open |-> {"active", "cancelled"},
   active |-> {"completed", "open"}, completed |-> {}, cancelled |-> {}]
Allowed == [draft     |-> {"open", "cancelled"},
            open      |-> {"active", "cancelled"},
            active    |-> {"completed", "cancelled", "open"},
            completed |-> {},
            cancelled |-> {}]

\* What moveProblemAr lets through, of the cohort as it is now.
Movable(t) ==
  /\ NotStarted /\ session > now
  /\ t > TermOf(now) /\ t # TermOf(session)
  /\ Cardinality((TermOf(now) + 1 .. t) \ {TermOf(session)}) <= 4

\* What the claim of an answer asks of the offer, and the start of a review of the request.
Open_Any(p) == TRUE
Open(p)     == offer[p] = "pending"

Reviewable_Any(m) == move[m] # "none"
Reviewable(m)     == move[m] = "pending"

\* The offers expireDue reads.
Due_NotStarted(p) == offer[p] = "pending" /\ deadline[p] <= now /\ NotStarted
Due(p)            == offer[p] = "pending" /\ deadline[p] <= now

\* The term a move is reckoned from: the one of the dates, not the one of the term row.
TermNow_OfTheRow == TermOf(Start)
TermNow          == TermOf(session)

\* What a cancelled cohort is reopened as: what it was, unless it had begun.
ReopenAs_WhatItWas(was) == was
ReopenAs(was)           == IF was = "draft" THEN "draft" ELSE "open"

\* What applyShift writes of the sessions: they are read once the cohort's row is its own.
SessionAfter_AsRead(s) == job[s].base + job[s].date
SessionAfter(s)        == session + job[s].date

\* Another strand has read the same item for an answer of its own.
Contested(s, places) ==
  \E r \in Strands \ {s} : job[r].item = job[s].item /\ job[r].at \in places

\* An item not used yet, nor taken by a strand about to write it.
Unused(x) ==
  /\ IF x \in Offers THEN offer[x] = "none" ELSE move[x] = "none"
  /\ \A s \in Strands : At(s, "send") \/ At(s, "ask") => job[s].item # x

----------------------------------------------------------------------------
(* The clock. *)

Tick ==
  /\ now < Horizon
  /\ now' = now + 1
  /\ UNCHANGED <<cohort, papers, effect, job, requests, crashes>>

----------------------------------------------------------------------------
(* The offer to postpone: send looks, then creates. *)

SendLook(s, p) ==
  /\ NotStarted
  /\ \A q \in Offers : offer[q] # "pending"
  /\ Unused(p)
  /\ \E d \in now + 1 .. First - 1 :
       Receive(s, [Idle EXCEPT !.at = "send", !.door = "request", !.item = p, !.date = d])
  /\ UNCHANGED <<now, cohort, papers, effect, crashes>>

SendWrite(s) ==
  /\ At(s, "send")
  /\ offer'    = [offer EXCEPT ![job[s].item] = "pending"]
  /\ deadline' = [deadline EXCEPT ![job[s].item] = job[s].date]
  /\ Finish(s)
  /\ UNCHANGED <<now, cohort, move, target, effect, requests, crashes>>

\* decide: an answer in time goes on to its claim.
Answer(s, p, place) ==
  /\ offer[p] = "pending"
  /\ deadline[p] > now
  /\ Receive(s, [Idle EXCEPT !.at = place, !.door = "request", !.item = p])
  /\ UNCHANGED <<now, cohort, papers, effect, crashes>>

\* The transaction's first half: the claim, then the read of the cohort's dates.
AcceptOpens(s) ==
  LET p == job[s].item IN
  /\ At(s, "accept")
  /\ ~Held(p)
  /\ IF Open(p)
     THEN job' = [job EXCEPT ![s].at = "shift", ![s].date = Month, ![s].base = period]
     ELSE Finish(s)
  /\ UNCHANGED <<now, cohort, papers, effect, requests, crashes>>

DeclineClaim(s) ==
  LET p == job[s].item IN
  /\ At(s, "decline")
  /\ ~Held(p)
  /\ IF Open(p)
     THEN /\ offer' = [offer EXCEPT ![p] = "declined"]
          /\ job' = [job EXCEPT ![s].at = "change", ![s].to = "cancelled"]
     ELSE Finish(s) /\ UNCHANGED offer
  /\ UNCHANGED <<now, cohort, deadline, move, target, effect, requests, crashes>>

WithdrawOffer(p) ==
  /\ Count
  /\ offer[p] = "pending"
  /\ ~Held(p)
  /\ offer' = [offer EXCEPT ![p] = "withdrawn"]
  /\ UNCHANGED <<now, cohort, deadline, move, target, effect, job, crashes>>

\* expireDue, called by the worker and by an answer that came late: it reads the due
\* offers with the status of their cohort, then takes them one by one.
ExpireLook(s, p, door) ==
  /\ Due(p)
  /\ IF door = "request" THEN Count ELSE UNCHANGED requests
  /\ Begin(s, [Idle EXCEPT !.at = "expire", !.door = door, !.item = p, !.saw = status])
  /\ UNCHANGED <<now, cohort, papers, effect, crashes>>

ExpireClaim(s) ==
  LET p == job[s].item IN
  /\ At(s, "expire")
  /\ ~Held(p)
  /\ \/ /\ Open(p)
        /\ job[s].saw \in {"draft", "open"}
        /\ offer' = [offer EXCEPT ![p] = "expired"]
        /\ job' = [job EXCEPT ![s].at = "change", ![s].to = "cancelled"]
     \/ /\ Open(p)
        /\ job[s].saw \notin {"draft", "open"}
        /\ offer' = [offer EXCEPT ![p] = "withdrawn"]
        /\ Finish(s)
     \/ /\ ~Open(p)
        /\ Finish(s)
        /\ UNCHANGED offer
  /\ UNCHANGED <<now, cohort, deadline, move, target, effect, requests, crashes>>

----------------------------------------------------------------------------
(* The request to move: its trainer asks, or the staff ask and approve at once. *)

AskLook(s, m, t, door) ==
  /\ Movable(t)
  /\ \A n \in Moves : move[n] # "pending"
  /\ Unused(m)
  /\ Receive(s, [Idle EXCEPT !.at = "ask", !.door = door, !.item = m, !.date = t])
  /\ UNCHANGED <<now, cohort, papers, effect, crashes>>

AskWrite(s) ==
  /\ At(s, "ask")
  /\ move'   = [move EXCEPT ![job[s].item] = "pending"]
  /\ target' = [target EXCEPT ![job[s].item] = job[s].date]
  /\ IF job[s].door = "staff" THEN Goto(s, "weigh") ELSE Finish(s)
  /\ UNCHANGED <<now, cohort, offer, deadline, effect, requests, crashes>>

\* review, approving: the request and the cohort are read, the shift computed.
Weigh(s, m) ==
  [Idle EXCEPT !.at = "approve", !.door = job[s].door, !.item = m,
               !.date = Weeks(TermNow, target[m])]

ApproveLook(s, m) ==
  /\ Reviewable(m)
  /\ Movable(target[m])
  /\ Receive(s, Weigh(s, m))
  /\ UNCHANGED <<now, cohort, papers, effect, crashes>>

StaffWeighs(s) ==
  LET m == job[s].item IN
  /\ At(s, "weigh")
  /\ IF Reviewable(m) /\ Movable(target[m])
     THEN job' = [job EXCEPT ![s] = Weigh(s, m)]
     ELSE Finish(s)
  /\ UNCHANGED <<now, cohort, papers, effect, requests, crashes>>

\* The request is written by its id, whatever it has become since.
ApproveOpens(s) ==
  /\ At(s, "approve")
  /\ ~Held(job[s].item)
  /\ job' = [job EXCEPT ![s].at = "shift", ![s].base = period]
  /\ UNCHANGED <<now, cohort, papers, effect, requests, crashes>>

\* A request found pending is answered no, or withdrawn, by its id.
RefuseLook(s, m, place) ==
  /\ Reviewable(m)
  /\ Receive(s, [Idle EXCEPT !.at = place, !.door = "request", !.item = m])
  /\ UNCHANGED <<now, cohort, papers, effect, crashes>>

RefuseWrite(s) ==
  /\ At(s, "reject") \/ At(s, "withdraw")
  /\ ~Held(job[s].item)
  /\ move' = [move EXCEPT ![job[s].item] = IF At(s, "reject") THEN "rejected" ELSE "withdrawn"]
  /\ calm' = (calm /\ ~Contested(s, {"approve", "shift", "reject", "withdraw"}))
  /\ Finish(s)
  /\ UNCHANGED <<now, cohort, offer, deadline, target, applied, stopped, shifts, requests, crashes>>

----------------------------------------------------------------------------
\* applyShift and the commit: the cohort's own dates are written from what the
\* transaction read of them before.
ShiftCommits(s) ==
  LET x == job[s].item IN
  /\ At(s, "shift")
  /\ period'  = job[s].base + job[s].date
  /\ session' = SessionAfter(s)
  /\ IF x \in Offers
     THEN offer' = [offer EXCEPT ![x] = "accepted"] /\ UNCHANGED move
     ELSE move' = [move EXCEPT ![x] = "approved"] /\ UNCHANGED offer
  /\ applied' = [applied EXCEPT ![x] = @ + 1]
  /\ shifts'  = shifts + job[s].date
  /\ calm'    = /\ calm
                 /\ \A r \in Strands \ {s} : job[r].at \notin {"approve", "shift"}
                 /\ ~Contested(s, {"reject", "withdraw"})
  /\ Finish(s)
  /\ UNCHANGED <<now, status, before, deadline, target, stopped, requests, crashes>>

----------------------------------------------------------------------------
(* The status: transition reads it, asks the table, and writes it by the id. *)

\* Refused are the same status, one the table does not allow, and the way back to
\* "open" of a cohort that has begun.
Refused(to, time) ==
  \/ to \notin Allowed[status]
  \/ status = "active" /\ to = "open" /\ First <= time

\* The staff's buttons.
StaffReads(s, to) ==
  /\ ~Refused(to, now)
  /\ Receive(s, [Idle EXCEPT !.at = "write", !.door = "request", !.saw = status, !.to = to])
  /\ UNCHANGED <<now, cohort, papers, effect, crashes>>

ReopenReads(s) ==
  /\ status = "cancelled"
  /\ First > now
  /\ Receive(s, [Idle EXCEPT !.at = "write", !.door = "reopen", !.saw = status, !.to = before])
  /\ UNCHANGED <<now, cohort, papers, effect, crashes>>

\* syncStatusesByDate: what the dates ask of the status.
DueStatus_BegunFirst ==
  IF First <= now THEN "active" ELSE IF Over THEN "completed" ELSE "open"
DueStatus ==
  IF Over THEN "completed" ELSE IF First <= now THEN "active" ELSE "open"

SyncLook(s) ==
  /\ status \in {"open", "active"}
  /\ DueStatus # status
  /\ Begin(s, [Idle EXCEPT !.at = "change", !.door = "round", !.to = DueStatus,
                           !.date = IF DueStatus = "open" THEN now ELSE 0])
  /\ UNCHANGED <<now, cohort, papers, effect, requests, crashes>>

\* A strand that means to stop the cohort of an offer leaves it, or finds it, stopped.
Stops(s) ==
  stopped' = IF status' \in {"cancelled", "completed"}
             THEN stopped \cup ({job[s].item} \cap Offers) ELSE stopped

ChangeReads(s) ==
  /\ At(s, "change")
  /\ IF Refused(job[s].to, job[s].date)
     THEN Finish(s)
     ELSE job' = [job EXCEPT ![s].at = "write", ![s].saw = status]
  /\ UNCHANGED cohort
  /\ Stops(s)
  /\ UNCHANGED <<now, papers, applied, shifts, calm, requests, crashes>>

ChangeWrites(s) ==
  /\ At(s, "write")
  /\ status' = job[s].to
  /\ before' = IF job[s].door = "reopen" THEN before ELSE ReopenAs(job[s].saw)
  /\ Stops(s)
  /\ Finish(s)
  /\ UNCHANGED <<now, period, session, papers, applied, shifts, calm, requests, crashes>>

----------------------------------------------------------------------------
\* A strand is cut short; an open transaction is rolled back.
Crash(s) ==
  /\ ~At(s, "idle")
  /\ crashes < MaxCrashes
  /\ crashes' = crashes + 1
  /\ Finish(s)
  /\ UNCHANGED <<now, cohort, papers, effect, requests>>

Request(s) ==
  \/ \E p \in Offers : \/ SendLook(s, p) \/ Answer(s, p, "accept") \/ Answer(s, p, "decline")
                       \/ ExpireLook(s, p, "request")
  \/ \E m \in Moves : \/ \E t \in Targets : AskLook(s, m, t, "request") \/ AskLook(s, m, t, "staff")
                      \/ ApproveLook(s, m) \/ RefuseLook(s, m, "reject") \/ RefuseLook(s, m, "withdraw")
  \/ \E to \in {"open", "active", "completed", "cancelled"} : StaffReads(s, to)
  \/ ReopenReads(s)

\* The worker runs its jobs one after the other.
NoRound == \A s \in Strands : job[s].door # "round"
RoundExpires(p) == NoRound /\ \E s \in Strands : ExpireLook(s, p, "round")
RoundSyncs      == NoRound /\ \E s \in Strands : SyncLook(s)

Continue(s) ==
  \/ SendWrite(s) \/ AcceptOpens(s) \/ DeclineClaim(s) \/ ExpireClaim(s)
  \/ AskWrite(s) \/ StaffWeighs(s) \/ ApproveOpens(s) \/ RefuseWrite(s)
  \/ ShiftCommits(s)
  \/ ChangeReads(s) \/ ChangeWrites(s)

Next ==
  \/ Tick
  \/ \E p \in Offers : WithdrawOffer(p) \/ RoundExpires(p)
  \/ RoundSyncs
  \/ \E s \in Strands : Request(s) \/ Continue(s) \/ Crash(s)

Spec == Init /\ [][Next]_vars

(* Fairness.  Time passes, a strand goes on until it ends or is cut short, and  *)
(* the worker comes back to every due offer and to the dates (strong fairness:  *)
(* all strands may be busy in between).  Nothing obliges anyone to press a      *)
(* button.                                                                      *)
FairSpec ==
  /\ Spec
  /\ WF_vars(Tick)
  /\ \A s \in Strands : WF_vars(Continue(s))
  /\ \A p \in Offers : SF_vars(RoundExpires(p))
  /\ SF_vars(RoundSyncs)

----------------------------------------------------------------------------
(* Properties *)

\* The answer to an offer has one effect, its own: the dates are shifted once by an
\* accepted offer and by no other, the cohort is stopped only by one declined or left
\* unanswered, though the trainer, the staff and the worker answer it together.
OfferActsOnce ==
  \A p \in Offers :
    /\ applied[p] = IF offer[p] = "accepted" THEN 1 ELSE 0
    /\ p \in stopped => offer[p] \in {"declined", "expired"}

\* The sessions stand where all the shifts carried out put them, whatever overlapped;
\* the cohort's own dates go with them unless two shifts overlapped.
DatesAccounted ==
  /\ session = Start + shifts
  /\ calm => period = session

\* Whatever overlapped, an approved request has moved the cohort and one that waits has
\* not, and one request moves it no more often than there are strands to answer at once.
\* Unless two answers to it, or two shifts, overlapped, an approved one moved it once, and
\* no other did.
MoveActsOnce ==
  \A m \in Moves :
    /\ move[m] \in {"none", "pending"} => applied[m] = 0
    /\ move[m] = "approved" => applied[m] > 0
    /\ applied[m] <= Cardinality(Strands)
    /\ calm => applied[m] = IF move[m] = "approved" THEN 1 ELSE 0

\* An approved request puts the first session where it stood in its term, give or take
\* half a week, though offers shift the dates before and after the request and the terms
\* are not of one length, unless two shifts overlapped.
MoveKeepsPlace ==
  [][\A m \in Moves :
       LET strays == (session' - TermBegins(target[m])) - (session - TermBegins(TermOf(session)))
       IN  applied'[m] # applied[m] /\ calm' => 2 * strays <= Week /\ -2 * strays <= Week]_vars

\* An offer whose deadline has passed does not wait for ever, also when a handler or
\* the worker is cut short over it.
DueOfferEnds ==
  \A p \in Offers : (offer[p] = "pending" /\ deadline[p] <= now) ~> offer[p] # "pending"

\* An offer declined, or left unanswered until its deadline, stops its cohort (or
\* finds it stopped, or completed), unless a strand was cut short.
UnansweredStops ==
  \A p \in Offers : offer[p] \in {"declined", "expired"} ~> (p \in stopped \/ crashes > 0)

\* The status does not stay behind the dates: a cohort is not left open while its sessions
\* run, nor active once they are over.  (One that is over before it was ever active is
\* another matter, OverIsNotOpen.)
StatusKeepsUp ==
  /\ []<>~(status = "open" /\ First <= now /\ ~Over)
  /\ []<>~(status = "active" /\ Over)

\* What syncStatusesByDate says of itself: it repairs what is late.  A cohort whose
\* sessions are over is not left open.
OverIsNotOpen == (status = "open" /\ Over) ~> (status # "open" \/ ~Over)

\* What where says of itself, and the tests of a move: the sessions fall into the term that
\* was asked for, and in no other.
MoveLands ==
  [][\A m \in Moves : applied'[m] # applied[m] /\ calm' => TermOf(session') = target[m]]_vars

\* What the header of cohort-move.service says: the approval of a request moves the
\* whole cohort, and once.
RequestMovesOnce == \A m \in Moves : applied[m] <= 1

\* What send says of itself: a cohort with an offer that waits for its answer gets no
\* second one.
OneOfferWaits == \A p, q \in Offers : offer[p] = "pending" /\ offer[q] = "pending" => p = q

=============================================================================
