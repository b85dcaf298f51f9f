---------------------------- MODULE MessageQueues ----------------------------
(***************************************************************************)
(* The two queues of outgoing mail and the background worker that empties   *)
(* them.  A Notification row is written and tried in one request, and what  *)
(* is left queued is tried by the worker; an OutboxMail row is only ever    *)
(* sent by the worker.  The lock of the database lets one worker run.  It    *)
(* works in rounds: First is the round main starts with, and Timer are the   *)
(* rounds of its interval, one at a time.  The flag that keeps the rounds    *)
(* of the interval apart is not set by the first one.                       *)
(*                                                                         *)
(* Rows are numbers, given in the order the rows are written, which is the  *)
(* order the worker takes them in.  Notices are those of the mail channel:  *)
(* the bell inside the platform is written and sent by the same row.        *)
(* asked, delivered and overlapped belong to no table: they say what really *)
(* happened.                                                                *)
(***************************************************************************)
EXTENDS Integers, FiniteSets

CONSTANTS
  Notices,      \* Notification rows
  Mails,        \* OutboxMail rows
  First, Timer, \* the rounds of the worker
  Requests,     \* requests of the server being served at one time
  MaxAttempts,  \* MAX_ATTEMPTS, OUTBOX_MAX_ATTEMPTS
  BatchSize,    \* LIMITS.notifications, LIMITS.outbox
  MaxTroubles   \* bound: how often something goes another way than usual

Rows     == Notices \cup Mails
Rounds   == {First, Timer}
Handlers == Rounds \cup Requests

ASSUME RowsAssumption     == Rows \subseteq Nat /\ Notices \cap Mails = {}
ASSUME HandlersAssumption == IsFiniteSet(Requests) /\ First # Timer /\ Rounds \cap Requests = {}
ASSUME BoundsAssumption   == MaxAttempts \in Nat \ {0} /\ BatchSize \in Nat \ {0} /\ MaxTroubles \in Nat

VARIABLES
  status,     \* Notification.status, OutboxMail.status
  tries,      \* attempts
  live,       \* the mail channel has its key and is switched on
  worker,     \* the worker's process; stopping is its own flag
  job,        \* what each round and each request is doing
  asked,      \* how often the provider was asked to deliver a mail, up to MaxAttempts
  delivered,  \* how often it delivered a row, and told one who could still write it down
  overlapped, \* two rounds have been under way at one time
  troubles

row     == <<status, tries>>
outside == <<asked, delivered>>
history == <<overlapped, troubles>>
vars    == <<row, live, worker, job, outside, history>>

\* batch: the rows still to do, the oldest of them first; seen: their attempts as read.
Job == [at : {"idle", "due", "requeue", "notices", "mails", "send", "write"},
        batch : SUBSET Rows, seen : [Rows -> 0..(MaxAttempts - 1)],
        answer : {"none", "ok", "failed", "closed"}]

Resting == [at |-> "idle", batch |-> {}, seen |-> [r \in Rows |-> 0], answer |-> "none"]

\* Handlers that read a row before its last attempt try it together: no more than one each.
TypeOK ==
  /\ status     \in [Rows -> {"none", "queued", "sent", "failed"}]
  /\ tries      \in [Rows -> 0..(MaxAttempts + Cardinality(Handlers) - 1)]
  /\ live       \in BOOLEAN
  /\ worker     \in {"off", "on", "stopping"}
  /\ job        \in [Handlers -> Job]
  /\ asked      \in [Mails -> 0..MaxAttempts]
  /\ delivered  \in [Rows -> Nat]
  /\ overlapped \in BOOLEAN
  /\ troubles   \in 0..MaxTroubles

Init ==
  /\ status  = [r \in Rows |-> "none"]
  /\ tries   = [r \in Rows |-> 0]
  /\ live \in BOOLEAN
  /\ worker  = "off"
  /\ job     = [p \in Handlers |-> Resting]
  /\ asked     = [m \in Mails |-> 0]
  /\ delivered = [r \in Rows |-> 0]
  /\ overlapped = FALSE
  /\ troubles   = 0

At(p, place) == job[p].at = place
Go(p, place) == job' = [job EXCEPT ![p].at = place]
Doing(p, r)  == r \in job[p].batch /\ \A q \in job[p].batch : r <= q
Trouble      == troubles < MaxTroubles /\ troubles' = troubles + 1

\* The row is done with: a round goes on with its batch, a request ends.
Return(p, r) ==
  LET j     == job[p]
      place == IF r \in Notices THEN "notices" ELSE "mails"
      left  == [j EXCEPT !.at = place, !.batch = j.batch \ {r},
                         !.seen = [j.seen EXCEPT ![r] = 0], !.answer = "none"]
  IN job' = [job EXCEPT ![p] = IF p \in Requests THEN Resting ELSE left]

----------------------------------------------------------------------------
(* The rows are written.                                                    *)

Unwritten(S) == {r \in S : status[r] = "none" /\ \A q \in S : q < r => status[q] # "none"}

\* notifyOne: the row, queued by default, and the attempt at once.
Notify(q) ==
  /\ At(q, "idle")
  /\ \E n \in Unwritten(Notices) :
       /\ status' = [status EXCEPT ![n] = "queued"]
       /\ job'    = [job EXCEPT ![q].at = "notices", ![q].batch = {n}]
  /\ UNCHANGED <<tries, live, worker, outside, history>>

\* enqueueMail.
Enqueue ==
  /\ \E m \in Unwritten(Mails) : status' = [status EXCEPT ![m] = "queued"]
  /\ UNCHANGED <<tries, live, worker, job, outside, history>>

\* retry: the staff's second attempt at what failed.
RetryRead(q, n) ==
  /\ At(q, "idle") /\ status[n] = "failed" /\ tries[n] < MaxAttempts
  /\ job' = [job EXCEPT ![q].at = "requeue", ![q].batch = {n}]
  /\ UNCHANGED <<row, live, worker, outside, history>>

Requeue(q, n) ==
  /\ At(q, "requeue") /\ Doing(q, n)
  /\ status' = [status EXCEPT ![n] = "queued"]
  /\ Go(q, "notices")
  /\ UNCHANGED <<tries, live, worker, outside, history>>

----------------------------------------------------------------------------
(* One row is tried.                                                        *)

\* attemptSend's look at the row: what was sent is not sent again.
Settled(n) == status[n] = "sent" \/ tries[n] >= MaxAttempts

Read(p, n) ==
  /\ At(p, "notices") /\ Doing(p, n)
  /\ IF Settled(n) THEN Return(p, n)
     ELSE job' = [job EXCEPT ![p].at = "send", ![p].seen[n] = tries[n]]
  /\ UNCHANGED <<row, live, worker, outside, history>>

Ask(r) == asked' = [m \in Mails |-> IF m = r /\ asked[m] < MaxAttempts THEN asked[m] + 1 ELSE asked[m]]

\* The provider delivers or not, and its answer arrives or not; a mail is sent as it was read.
\* Without a channel there is no provider (UnwiredExternalProvider, not_configured).
Send(p, r) ==
  LET Answer(a) == job' = [job EXCEPT ![p].at = "write", ![p].answer = a] IN
  /\ At(p, "send") \/ At(p, "mails")
  /\ Doing(p, r)
  /\ \/ ~live /\ Answer("closed") /\ UNCHANGED outside
     \/ live /\ Ask(r) /\ Answer("ok") /\ delivered' = [delivered EXCEPT ![r] = @ + 1]
     \/ live /\ Ask(r) /\ Answer("failed") /\ UNCHANGED delivered
  /\ UNCHANGED <<row, live, worker, history>>

\* attemptSend counts on the row as it is, and a channel that is closed counts as a failure.
NoticeTries_AsRead(p, n) == job[p].seen[n] + 1
NoticeTries(p, n)        == tries[n] + 1

WriteNotice(p, n) ==
  /\ At(p, "write") /\ Doing(p, n) /\ n \in Notices
  /\ status' = [status EXCEPT ![n] = IF job[p].answer = "ok" THEN "sent" ELSE "failed"]
  /\ tries'  = [tries EXCEPT ![n] = NoticeTries(p, n)]
  /\ Return(p, n)
  /\ UNCHANGED <<live, worker, outside, history>>

\* A mail that met no channel stays as it was.
Untouched_Never(p) == FALSE
Untouched(p)       == job[p].answer = "closed"

LeaveMail(p, m) ==
  /\ At(p, "write") /\ Doing(p, m) /\ m \in Mails /\ Untouched(p)
  /\ Return(p, m)
  /\ UNCHANGED <<row, live, worker, outside, history>>

\* drainOutbox counts a failure on the row as it was read.
WriteMail(p, m) ==
  LET count == job[p].seen[m] + 1 IN
  /\ At(p, "write") /\ Doing(p, m) /\ m \in Mails /\ ~Untouched(p)
  /\ IF job[p].answer = "ok"
     THEN /\ status' = [status EXCEPT ![m] = "sent"]
          /\ tries'  = [tries EXCEPT ![m] = @ + 1]
     ELSE /\ status' = [status EXCEPT ![m] = IF count >= MaxAttempts THEN "failed" ELSE "queued"]
          /\ tries'  = [tries EXCEPT ![m] = count]
  /\ Return(p, m)
  /\ UNCHANGED <<live, worker, outside, history>>

----------------------------------------------------------------------------
(* The worker's round: the notices first, then the mails, the oldest first. *)

DueNotice(n) == status[n] = "queued"

DueMail_Any(m)   == status[m] # "none"
DueMail_Fresh(m) == status[m] = "queued" /\ tries[m] = 0
DueMail(m)       == status[m] = "queued" /\ tries[m] < MaxAttempts

Oldest(S) == {r \in S : Cardinality({q \in S : q < r}) < BatchSize}
Batch(S)  == IF live THEN Oldest(S) ELSE {}

Sweep(w, place, S) ==
  job' = [job EXCEPT ![w].at = place, ![w].batch = Batch(S),
                     ![w].seen = [r \in Rows |-> IF r \in Batch(S) \cap Mails THEN tries[r] ELSE 0]]

\* main: the first round is started with the process.
Start ==
  /\ worker = "off"
  /\ worker' = "on"
  /\ job' = [job EXCEPT ![First].at = "due"]
  /\ UNCHANGED <<row, live, outside, history>>

\* The interval: no round of its own is under way, and nobody stopped it.
Due == At(Timer, "idle") /\ worker = "on"

Tick ==
  /\ Due
  /\ Go(Timer, "due")
  /\ IF At(First, "idle") THEN UNCHANGED history ELSE Trouble /\ overlapped' = TRUE
  /\ UNCHANGED <<row, live, worker, outside>>

\* dispatchQueuedNotifications: the channel, then the rows.
Dispatch(w) ==
  /\ At(w, "due")
  /\ Sweep(w, "notices", {n \in Notices : DueNotice(n)})
  /\ UNCHANGED <<row, live, worker, outside, history>>

\* dispatchOutboxMail, when the notices are done.
Drain(w) ==
  /\ At(w, "notices") /\ job[w].batch = {}
  /\ Sweep(w, "mails", {m \in Mails : DueMail(m)})
  /\ UNCHANGED <<row, live, worker, outside, history>>

EndRound(w) ==
  /\ At(w, "mails") /\ job[w].batch = {}
  /\ job' = [job EXCEPT ![w] = Resting]
  /\ UNCHANGED <<row, live, worker, outside, history>>

----------------------------------------------------------------------------
(* What comes from outside.                                                 *)

InFlight(r) == {p \in Handlers : At(p, "write") /\ Doing(p, r) /\ job[p].answer = "ok"}

\* SIGTERM: no round is begun any more, and those under way go on.
Stop ==
  /\ worker = "on" /\ Trouble
  /\ worker' = "stopping"
  /\ UNCHANGED <<row, live, job, outside, overlapped>>

Exit ==
  /\ worker = "stopping" /\ \A w \in Rounds : At(w, "idle")
  /\ worker' = "off"
  /\ UNCHANGED <<row, live, job, outside, history>>

\* The worker's process, or a request, ends in the middle of what it does.
Cut(P) ==
  /\ \E p \in P : ~At(p, "idle")
  /\ Trouble
  /\ delivered' = [r \in Rows |-> delivered[r] - Cardinality(InFlight(r) \cap P)]
  /\ worker' = IF P = Rounds THEN "off" ELSE worker
  /\ job'    = [p \in Handlers |-> IF p \in P THEN Resting ELSE job[p]]
  /\ UNCHANGED <<row, live, asked, overlapped>>

\* We give the mail channel its key, or take it away.
Switch ==
  /\ Trouble
  /\ live' = ~live
  /\ UNCHANGED <<row, worker, job, outside, overlapped>>

----------------------------------------------------------------------------
Try(p, r) == Read(p, r) \/ Send(p, r) \/ WriteNotice(p, r) \/ WriteMail(p, r) \/ LeaveMail(p, r)
Work(w)   == Dispatch(w) \/ Drain(w) \/ EndRound(w) \/ \E r \in Rows : Try(w, r)
Serve(q)  == \E n \in Notices : Requeue(q, n) \/ Try(q, n)

Next ==
  \/ Start \/ Tick \/ Stop \/ Exit \/ Cut(Rounds)
  \/ \E w \in Rounds : Work(w)
  \/ \E q \in Requests : Serve(q) \/ Notify(q) \/ Cut({q}) \/ \E n \in Notices : RetryRead(q, n)
  \/ Enqueue \/ Switch

Spec == Init /\ [][Next]_vars

\* The worker's loop runs, its container is started again, and the server answers requests.
Fairness ==
  /\ WF_vars(Start) /\ WF_vars(Exit)
  /\ WF_vars(At(First, "idle") /\ Tick)
  /\ \A w \in Rounds : WF_vars(Work(w))
  /\ \A q \in Requests : WF_vars(Serve(q))

FairSpec == Spec /\ Fairness

----------------------------------------------------------------------------
(* Properties.                                                              *)

(* No mail is delivered twice, but where the provider's answer or the worker itself was lost     *)
(* after the first, as long as one round is under way at a time (drainOutbox).                   *)
MailSentOnce ==
  \A m \in Mails :
    ~overlapped => delivered[m] = IF status[m] = "sent" \/ InFlight(m) # {} THEN 1 ELSE 0

(* However many try a notice at once, none of its deliveries goes uncounted: attempts is what   *)
(* bounds how often a learner is written to (attemptSend counts in the database).                *)
NoticeCounted == \A n \in Notices : delivered[n] <= tries[n] + Cardinality(InFlight(n))

(* A mail is given up after so many calls of the provider, and never because the channel was    *)
(* closed, also when it is closed in the middle of a round (outbox.service.ts:166-169).          *)
MailNotBurnt == \A m \in Mails : status[m] = "failed" => asked[m] = MaxAttempts

(* A queued row that still has an attempt has it while the channel is open, and so leaves the    *)
(* queue: also the notice of a request that was cut short, left to the worker.  A notice put      *)
(* back without an attempt left is never taken out again, nor what stands behind it in a batch.   *)
Waits(r) == status[r] = "queued" /\ tries[r] < MaxAttempts
Stuck(n) == status[n] = "queued" /\ tries[n] >= MaxAttempts

RowsLeaveQueue ==
  \A r \in Rows : Waits(r) ~> ~Waits(r) \/ ~live \/ \E n \in Notices : Stuck(n)

\* Promises of the comments that the code does not keep; see the README.

(* No row is delivered twice, whatever the worker does («تشغيلُها مرّتين لا يُرسل إشعارا مرّتين»). *)
SentOnce == \A r \in Rows : delivered[r] <= 1

(* No two rounds are under way at a time (index.ts:141).                                         *)
RoundsApart == \E w \in Rounds : At(w, "idle")

(* Nothing stays in the queue that no one will try again (worker/jobs.ts:105-109).              *)
NothingStuck == \A n \in Notices : ~Stuck(n)

(* A notice is not given up because the channel was closed (notification.service.ts:144-162).    *)
NoticeNotBurnt ==
  [][\A p \in Handlers, n \in Notices : WriteNotice(p, n) => job[p].answer # "closed"]_vars

=============================================================================
