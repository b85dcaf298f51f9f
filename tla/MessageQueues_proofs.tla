------------------------ MODULE MessageQueues_proofs ------------------------
(***************************************************************************)
(* Proofs about MessageQueues, for any rows, any requests at once, any      *)
(* number of attempts and any length of a batch.                            *)
(***************************************************************************)
EXTENDS MessageQueues, FiniteSetTheorems, TLAPS

----------------------------------------------------------------------------
(* The inductive invariant, part by part. *)

\* Who holds which rows at which place: a request holds notices, a round the notices or
\* the mails of its batch, and one that rests, or is about to begin, nothing.
Placed(p) ==
  /\ job[p].at \in {"idle", "due"} => job[p].batch = {}
  /\ job[p].at \in {"requeue", "notices", "send"} \/ p \in Requests => job[p].batch \subseteq Notices
  /\ At(p, "mails") => job[p].batch \subseteq Mails
  /\ At(p, "write") => job[p].batch \subseteq Notices \/ job[p].batch \subseteq Mails
  /\ job[p].at \in {"due", "mails"} => p \in Rounds
  /\ At(p, "requeue") => p \in Requests

BatchesPlaced == \A p \in Handlers : Placed(p)

\* A worker that is off has no round under way, and two are under way only if they overlapped.
RoundsKnown ==
  /\ worker = "off" => \A w \in Rounds : At(w, "idle")
  /\ ~overlapped => \E w \in Rounds : At(w, "idle")

\* The mails of the only round under way still wait as it found them.
MailsWait ==
  ~overlapped => \A w \in Rounds : \A m \in job[w].batch \cap Mails : status[m] = "queued"

\* Each delivery on its way to be written down is among those counted.
FlightsDelivered == \A r \in Rows : Cardinality(InFlight(r)) <= delivered[r]

\* Who will still count an attempt of a row: a round with the mail in its batch, or a
\* handler that has looked at the notice.
Holding(r) ==
  {p \in Handlers : IF r \in Mails THEN r \in job[p].batch
                    ELSE job[p].at \in {"send", "write"} /\ Doing(p, r)}

TriesBounded ==
  \A r \in Rows : tries[r] + Cardinality(Holding(r)) <= MaxAttempts - 1 + Cardinality(Handlers)

\* The provider has been asked for every attempt of a mail that is counted, read, or
\* about to be counted.
Asking(m) == {p \in Handlers : At(p, "write") /\ Doing(p, m) /\ job[p].answer # "closed"}

AskedEnough ==
  \A m \in Mails :
    \/ asked[m] = MaxAttempts
    \/ /\ tries[m] + Cardinality(Asking(m)) <= asked[m]
       /\ \A p \in Handlers : job[p].seen[m] + Cardinality(Asking(m)) <= asked[m]

IInv ==
  /\ TypeOK /\ BatchesPlaced /\ RoundsKnown /\ MailsWait /\ FlightsDelivered /\ TriesBounded /\ AskedEnough
  /\ MailSentOnce /\ NoticeCounted /\ MailNotBurnt

----------------------------------------------------------------------------
(* Counting handlers *)

LEMMA HandlersFinite ==
  IsFiniteSet(Handlers) /\ Cardinality(Handlers) \in Nat \ {0}
<1>1. IsFiniteSet(Requests \cup {First}) /\ IsFiniteSet((Requests \cup {First}) \cup {Timer})
  BY HandlersAssumption, FS_AddElement
<1>2. Handlers = (Requests \cup {First}) \cup {Timer}
  BY DEF Handlers, Rounds
<1>3. Handlers # {}
  BY DEF Handlers, Rounds
<1> QED BY <1>1, <1>2, <1>3, FS_CardinalityType, FS_EmptySet

\* Two sets of handlers that differ in one of them at most.
LEMMA DifferInOne ==
  ASSUME NEW S \in SUBSET Handlers, NEW T \in SUBSET Handlers, NEW p, S \ {p} = T \ {p}
  PROVE  /\ Cardinality(S) \in Nat /\ Cardinality(T) \in Nat
         /\ Cardinality(T) <= Cardinality(Handlers)
         /\ p \notin T \/ p \in S => Cardinality(T) <= Cardinality(S)
         /\ p \in S /\ p \notin T => Cardinality(S) = Cardinality(T) + 1
         /\ p \in T /\ p \notin S => Cardinality(T) = Cardinality(S) + 1
<1>1. IsFiniteSet(S) /\ IsFiniteSet(T) /\ Cardinality(T) <= Cardinality(Handlers)
  BY HandlersFinite, FS_Subset
<1>2. Cardinality(S) \in Nat /\ Cardinality(T) \in Nat
  BY <1>1, FS_CardinalityType
<1>3. p \in S /\ p \notin T => Cardinality(S) = Cardinality(T) + 1
  <2>1. p \in S /\ p \notin T => S = T \cup {p}
    OBVIOUS
  <2> QED BY <1>1, <2>1, FS_AddElement
<1>4. p \in T /\ p \notin S => Cardinality(T) = Cardinality(S) + 1
  <2>1. p \in T /\ p \notin S => T = S \cup {p}
    OBVIOUS
  <2> QED BY <1>1, <2>1, FS_AddElement
<1>5. (p \in S <=> p \in T) => S = T
  OBVIOUS
<1> QED BY <1>1, <1>2, <1>3, <1>4, <1>5

LEMMA SubsetBound ==
  ASSUME NEW S \in SUBSET Handlers, NEW T \in SUBSET S
  PROVE  /\ Cardinality(S) \in Nat /\ Cardinality(T) \in Nat
         /\ Cardinality(T) <= Cardinality(S) /\ Cardinality(S) <= Cardinality(Handlers)
<1>1. IsFiniteSet(S) /\ IsFiniteSet(T) /\ Cardinality(S) <= Cardinality(Handlers) /\ Cardinality(T) <= Cardinality(S)
  BY HandlersFinite, FS_Subset
<1> QED BY <1>1, FS_CardinalityType

----------------------------------------------------------------------------
(* What a step leaves a handler with. *)

Others(p) == \A q \in Handlers \ {p} : job'[q] = job[q]

LEMMA RestingTyped == Resting \in Job
  BY BoundsAssumption DEF Resting, Job

\* A row is one handler's to do at a time: the oldest of its batch.
LEMMA OneInHand ==
  ASSUME NEW p \in Handlers, NEW r \in Rows, NEW q \in Rows, Doing(p, r), Doing(p, q)
  PROVE  r = q
  BY RowsAssumption DEF Doing

\* A row is given back.
LEMMA ReturnLeaves ==
  ASSUME job \in [Handlers -> Job], NEW p \in Handlers, NEW r \in Rows, Return(p, r)
  PROVE  /\ Others(p) /\ job'[p] \in Job /\ job' \in [Handlers -> Job]
         /\ p \in Requests => job'[p] = Resting
         /\ p \notin Requests =>
              /\ job'[p].at = IF r \in Notices THEN "notices" ELSE "mails"
              /\ job'[p].batch = job[p].batch \ {r}
              /\ job'[p].seen = [job[p].seen EXCEPT ![r] = 0]
              /\ job'[p].answer = "none"
<1>1. CASE p \in Requests
  BY <1>1, RestingTyped DEF Return, Others
<1>2. CASE p \notin Requests
  <2> DEFINE place == IF r \in Notices THEN "notices" ELSE "mails"
             seen  == [job[p].seen EXCEPT ![r] = 0]
             j     == [job[p] EXCEPT !.at = place, !.batch = job[p].batch \ {r}, !.seen = seen, !.answer = "none"]
  <2>1. job[p] \in Job
    OBVIOUS
  <2>2. seen \in [Rows -> 0..(MaxAttempts - 1)]
    BY <2>1, BoundsAssumption DEF Job
  <2>3. job' = [job EXCEPT ![p] = j]
    BY <1>2 DEF Return
  <2>5. j.at = place /\ j.batch = job[p].batch \ {r} /\ j.seen = seen /\ j.answer = "none"
    BY <2>1 DEF Job
  <2>4. j \in Job
    BY <2>1, <2>2 DEF Job
  <2> HIDE DEF seen
  <2> HIDE DEF j
  <2> QED BY <1>2, <2>3, <2>4, <2>5 DEF Others, seen
<1> QED BY <1>1, <1>2

\* The handler p goes on with j.
LEMMA JobGoesOn ==
  ASSUME job \in [Handlers -> Job], NEW p \in Handlers, NEW j \in Job, job' = [job EXCEPT ![p] = j]
  PROVE  Others(p) /\ job'[p] = j /\ job' \in [Handlers -> Job]
BY DEF Others

LEMMA GoLeaves ==
  ASSUME job \in [Handlers -> Job], NEW p \in Handlers, NEW place \in {"due", "notices"}, Go(p, place)
  PROVE  /\ Others(p) /\ job' \in [Handlers -> Job]
         /\ job'[p].at = place /\ job'[p].batch = job[p].batch /\ job'[p].seen = job[p].seen
<1> DEFINE j == [job[p] EXCEPT !.at = place]
<1>1. job[p] \in Job
  OBVIOUS
<1>2. j \in Job /\ j.at = place /\ j.batch = job[p].batch /\ j.seen = job[p].seen
  BY <1>1 DEF Job
<1>3. job' = [job EXCEPT ![p] = j]
  BY DEF Go
<1> HIDE DEF j
<1> QED BY <1>2, <1>3, JobGoesOn

\* A request takes a notice in hand.
LEMMA TakenInHand ==
  ASSUME job \in [Handlers -> Job], NEW p \in Handlers, NEW n \in Notices, NEW place \in {"requeue", "notices"},
         job' = [job EXCEPT ![p].at = place, ![p].batch = {n}]
  PROVE  /\ Others(p) /\ job' \in [Handlers -> Job]
         /\ job'[p].at = place /\ job'[p].batch = {n} /\ job'[p].seen = job[p].seen
<1> DEFINE j == [job[p] EXCEPT !.at = place, !.batch = {n}]
<1>1. job[p] \in Job /\ {n} \subseteq Rows
  BY DEF Rows
<1>2. j \in Job /\ j.at = place /\ j.batch = {n} /\ j.seen = job[p].seen
  BY <1>1 DEF Job
<1>3. job' = [job EXCEPT ![p] = j]
  OBVIOUS
<1> HIDE DEF j
<1> QED BY <1>2, <1>3, JobGoesOn

\* A row that may still be tried has been looked at.
LEMMA ReadLeaves ==
  ASSUME TypeOK, NEW p \in Handlers, NEW n \in Rows, tries[n] < MaxAttempts,
         job' = [job EXCEPT ![p].at = "send", ![p].seen[n] = tries[n]]
  PROVE  /\ Others(p) /\ job' \in [Handlers -> Job]
         /\ job'[p].at = "send" /\ job'[p].batch = job[p].batch
         /\ job'[p].seen = [job[p].seen EXCEPT ![n] = tries[n]]
<1> DEFINE seen == [job[p].seen EXCEPT ![n] = tries[n]]
           j    == [job[p] EXCEPT !.at = "send", !.seen = seen]
<1>1. job \in [Handlers -> Job] /\ job[p] \in Job
  BY DEF TypeOK
<1>2. tries[n] \in 0..(MaxAttempts - 1)
  BY HandlersFinite, BoundsAssumption DEF TypeOK
<1>3. seen \in [Rows -> 0..(MaxAttempts - 1)]
  BY <1>1, <1>2 DEF Job
<1>4. job' = [job EXCEPT ![p] = j]
  BY <1>1
<1> HIDE DEF seen
<1>5. j \in Job /\ j.at = "send" /\ j.batch = job[p].batch /\ j.seen = seen
  BY <1>1, <1>3 DEF Job
<1> HIDE DEF j
<1> QED BY <1>1, <1>4, <1>5, JobGoesOn DEF seen

\* The provider has answered.
LEMMA AnswerLeaves ==
  ASSUME job \in [Handlers -> Job], NEW p \in Handlers, NEW a \in {"ok", "failed", "closed"},
         job' = [job EXCEPT ![p].at = "write", ![p].answer = a]
  PROVE  /\ Others(p) /\ job' \in [Handlers -> Job]
         /\ job'[p].at = "write" /\ job'[p].answer = a
         /\ job'[p].batch = job[p].batch /\ job'[p].seen = job[p].seen
<1> DEFINE j == [job[p] EXCEPT !.at = "write", !.answer = a]
<1>1. job[p] \in Job
  OBVIOUS
<1>2. j \in Job /\ j.at = "write" /\ j.answer = a /\ j.batch = job[p].batch /\ j.seen = job[p].seen
  BY <1>1 DEF Job
<1>3. job' = [job EXCEPT ![p] = j]
  OBVIOUS
<1> HIDE DEF j
<1> QED BY <1>2, <1>3, JobGoesOn

\* A round takes its batch; each of its mails is seen as it is, below the limit.
LEMMA SweepLeaves ==
  ASSUME TypeOK, NEW w \in Handlers, NEW place \in {"notices", "mails"}, NEW S \in SUBSET Rows,
         Sweep(w, place, S), \A m \in S \cap Mails : tries[m] < MaxAttempts
  PROVE  /\ Others(w) /\ job' \in [Handlers -> Job]
         /\ job'[w].at = place /\ job'[w].batch \subseteq S
         /\ \A m \in Mails : job'[w].seen[m] \in {0, tries[m]}
<1> DEFINE seen == [r \in Rows |-> IF r \in Batch(S) \cap Mails THEN tries[r] ELSE 0]
           j    == [job[w] EXCEPT !.at = place, !.batch = Batch(S), !.seen = seen]
<1>1. job \in [Handlers -> Job] /\ job[w] \in Job
  BY DEF TypeOK
<1>2. Batch(S) \subseteq S
  BY DEF Batch, Oldest
<1>3. \A m \in S \cap Mails : tries[m] \in 0..(MaxAttempts - 1)
  BY HandlersFinite, BoundsAssumption DEF TypeOK
<1>4. seen \in [Rows -> 0..(MaxAttempts - 1)] /\ \A m \in Mails : seen[m] \in {0, tries[m]}
  BY <1>2, <1>3, BoundsAssumption DEF Rows
<1>5. job' = [job EXCEPT ![w] = j]
  BY <1>1 DEF Sweep
<1> HIDE DEF seen
<1>6. j \in Job /\ j.at = place /\ j.batch = Batch(S) /\ j.seen = seen
  BY <1>1, <1>2, <1>4 DEF Job
<1> HIDE DEF j
<1> QED BY <1>1, <1>2, <1>4, <1>5, <1>6, JobGoesOn

----------------------------------------------------------------------------
(* The kinds of steps. *)

\* The handler p goes on, takes no mail but one that waits, and is no round that begins
\* while the other is under way, but by overlapping.
StepOf(p) ==
  /\ Others(p) /\ job' \in [Handlers -> Job] /\ Placed(p)'
  /\ \A m \in job'[p].batch \cap Mails : m \in job[p].batch \/ status[m] = "queued"
  /\ overlapped => overlapped'
  /\ worker' \in {worker, "on"}
  /\ p \in Rounds /\ At(p, "idle") =>
       worker' = "on" /\ (overlapped' \/ \A w \in Rounds \ {p} : At(w, "idle"))

\* No delivery is made or written down, and what is read is read as it is.
QuietStep(p) ==
  /\ StepOf(p) /\ job[p].at # "write" /\ job'[p].at # "write"
  /\ status' \in [Rows -> {"none", "queued", "sent", "failed"}]
  /\ \A m \in Mails : status'[m] = status[m] /\ job'[p].seen[m] \in {0, job[p].seen[m], tries[m]}
  /\ \A r \in Rows : p \in Holding(r)' => p \in Holding(r) \/ tries[r] < MaxAttempts
  /\ UNCHANGED <<tries, live, outside>>
  /\ overlapped' \in BOOLEAN /\ troubles' \in 0..MaxTroubles

Looking ==
  \/ Start \/ Tick
  \/ \E w \in Rounds : Dispatch(w) \/ Drain(w) \/ EndRound(w)
  \/ \E q \in Requests : Notify(q) \/ \E n \in Notices : RetryRead(q, n) \/ Requeue(q, n)
  \/ \E p \in Handlers, r \in Rows : Read(p, r)

LEMMA QuietSteps ==
  ASSUME TypeOK, BatchesPlaced, RoundsKnown, Looking
  PROVE  \E p \in Handlers : QuietStep(p)
<1>0. /\ job \in [Handlers -> Job] /\ status \in [Rows -> {"none", "queued", "sent", "failed"}]
      /\ \A p \in Handlers : job[p] \in Job /\ Placed(p)
      /\ overlapped \in BOOLEAN /\ troubles \in 0..MaxTroubles /\ MaxTroubles \in Nat
  BY BoundsAssumption DEF TypeOK, BatchesPlaced
<1>i. /\ First \in Handlers /\ Timer \in Handlers /\ Rounds = {First, Timer} /\ Rounds \cap Requests = {}
      /\ Rounds \subseteq Handlers /\ Requests \subseteq Handlers
  BY HandlersAssumption DEF Handlers, Rounds
<1>r. Notices \cap Mails = {} /\ Rows = Notices \cup Mails
  BY RowsAssumption DEF Rows
<1> USE DEF QuietStep, StepOf, Placed, At, outside, history, row, Holding, Doing
<1>1. CASE Start
  <2>1. job[First].at = "idle" /\ job' = [job EXCEPT ![First].at = "due"]
    BY <1>1, <1>i DEF Start, RoundsKnown
  <2>2. Go(First, "due")
    BY <2>1 DEF Go
  <2>3. /\ Others(First) /\ job' \in [Handlers -> Job]
        /\ job'[First].at = "due" /\ job'[First].batch = job[First].batch /\ job'[First].seen = job[First].seen
    BY <1>0, <1>i, <2>2, GoLeaves
  <2>4. QuietStep(First)
    BY <1>0, <1>i, <1>r, <1>1, <2>1, <2>3 DEF Start, RoundsKnown
  <2> QED BY <1>i, <2>4
<1>2. CASE Tick
  <2>1. job[Timer].at = "idle" /\ Go(Timer, "due")
    BY <1>2 DEF Tick, Due
  <2>2. /\ Others(Timer) /\ job' \in [Handlers -> Job]
        /\ job'[Timer].at = "due" /\ job'[Timer].batch = job[Timer].batch /\ job'[Timer].seen = job[Timer].seen
    BY <1>0, <1>i, <2>1, GoLeaves
  <2>3. /\ worker' = "on" /\ UNCHANGED <<row, live, outside>>
        /\ overlapped' \in BOOLEAN /\ (overlapped => overlapped') /\ troubles' \in 0..MaxTroubles
        /\ overlapped' \/ \A w \in Rounds \ {Timer} : At(w, "idle")
    <3>1. worker' = "on" /\ UNCHANGED <<row, live, outside>>
      BY <1>2 DEF Tick, Due
    <3>2. CASE At(First, "idle")
      <4>1. UNCHANGED history /\ \A w \in Rounds \ {Timer} : At(w, "idle")
        BY <1>i, <1>2, <3>2 DEF Tick
      <4> QED BY <1>0, <3>1, <4>1
    <3>3. CASE ~At(First, "idle")
      <4>1. overlapped' = TRUE /\ troubles < MaxTroubles /\ troubles' = troubles + 1
        BY <1>2, <3>3 DEF Tick, Trouble
      <4> QED BY <1>0, <3>1, <4>1
    <3> QED BY <3>2, <3>3
  <2>4. QuietStep(Timer)
    BY <1>0, <1>i, <1>r, <2>1, <2>2, <2>3
  <2> QED BY <1>i, <2>4
<1>3. ASSUME NEW w \in Rounds, Dispatch(w) PROVE QuietStep(w)
  <2> DEFINE S == {n \in Notices : DueNotice(n)}
  <2>1. S \in SUBSET Rows /\ S \cap Mails = {} /\ Sweep(w, "notices", S) /\ w \in Handlers
    BY <1>3, <1>i, <1>r DEF Dispatch
  <2> HIDE DEF S
  <2>2. /\ Others(w) /\ job' \in [Handlers -> Job]
        /\ job'[w].at = "notices" /\ job'[w].batch \subseteq S
        /\ \A m \in Mails : job'[w].seen[m] \in {0, tries[m]}
    BY <2>1, SweepLeaves
  <2>3. job'[w].batch \subseteq Notices
    BY <2>2 DEF S
  <2> QED BY <1>0, <1>i, <1>r, <1>3, <2>1, <2>2, <2>3 DEF Dispatch
<1>4. ASSUME NEW w \in Rounds, Drain(w) PROVE QuietStep(w)
  <2> DEFINE S == {m \in Mails : DueMail(m)}
  <2>1. /\ S \in SUBSET Rows /\ Sweep(w, "mails", S) /\ w \in Handlers
        /\ \A m \in S : tries[m] < MaxAttempts /\ status[m] = "queued"
    BY <1>4, <1>i, <1>r DEF Drain, DueMail
  <2> HIDE DEF S
  <2>2. /\ Others(w) /\ job' \in [Handlers -> Job]
        /\ job'[w].at = "mails" /\ job'[w].batch \subseteq S
        /\ \A m \in Mails : job'[w].seen[m] \in {0, tries[m]}
    BY <2>1, SweepLeaves
  <2>3. job'[w].batch \subseteq Mails
    BY <2>2 DEF S
  <2> QED BY <1>0, <1>i, <1>r, <1>4, <2>1, <2>2, <2>3 DEF Drain
<1>5. ASSUME NEW w \in Rounds, EndRound(w) PROVE QuietStep(w)
  <2>1. Others(w) /\ job' \in [Handlers -> Job] /\ job'[w] = Resting
    BY <1>5, <1>0, <1>i, RestingTyped, JobGoesOn DEF EndRound
  <2>2. job'[w].at = "idle" /\ job'[w].batch = {} /\ \A m \in Mails : job'[w].seen[m] = 0
    BY <2>1, <1>r DEF Resting
  <2> QED BY <1>0, <1>i, <1>r, <1>5, <2>1, <2>2 DEF EndRound
<1>6. ASSUME NEW q \in Requests, Notify(q) PROVE QuietStep(q)
  <2>1. PICK n \in Notices :
          /\ status' = [status EXCEPT ![n] = "queued"]
          /\ job'    = [job EXCEPT ![q].at = "notices", ![q].batch = {n}]
    BY <1>6 DEF Notify, Unwritten
  <2>2. /\ Others(q) /\ job' \in [Handlers -> Job]
        /\ job'[q].at = "notices" /\ job'[q].batch = {n} /\ job'[q].seen = job[q].seen
    BY <2>1, <1>0, <1>i, TakenInHand
  <2> QED BY <1>0, <1>i, <1>r, <1>6, <2>1, <2>2 DEF Notify
<1>7. ASSUME NEW q \in Requests, NEW n \in Notices, RetryRead(q, n) PROVE QuietStep(q)
  <2>2. /\ Others(q) /\ job' \in [Handlers -> Job]
        /\ job'[q].at = "requeue" /\ job'[q].batch = {n} /\ job'[q].seen = job[q].seen
    BY <1>7, <1>0, <1>i, TakenInHand DEF RetryRead
  <2> QED BY <1>0, <1>i, <1>r, <1>7, <2>2 DEF RetryRead
<1>8. ASSUME NEW q \in Requests, NEW n \in Notices, Requeue(q, n) PROVE QuietStep(q)
  <2>2. /\ Others(q) /\ job' \in [Handlers -> Job]
        /\ job'[q].at = "notices" /\ job'[q].batch = job[q].batch /\ job'[q].seen = job[q].seen
    BY <1>8, <1>0, <1>i, GoLeaves DEF Requeue
  <2> QED BY <1>0, <1>i, <1>r, <1>8, <2>2 DEF Requeue
<1>9. ASSUME NEW p \in Handlers, NEW r \in Rows, Read(p, r) PROVE QuietStep(p)
  <2>1. r \in Notices /\ job[p].at = "notices" /\ r \in job[p].batch /\ job[p].batch \subseteq Notices
    BY <1>9, <1>0 DEF Read
  <2>2. CASE Settled(r)
    <3>1. Return(p, r)
      BY <1>9, <2>2 DEF Read
    <3>2. Others(p) /\ job' \in [Handlers -> Job]
      BY <3>1, <1>0, ReturnLeaves
    <3>3. CASE p \in Requests
      <4>1. job'[p] = Resting
        BY <3>1, <3>3, <1>0, ReturnLeaves
      <4>2. job'[p].at = "idle" /\ job'[p].batch = {} /\ \A m \in Mails : job'[p].seen[m] = 0
        BY <4>1, <1>r DEF Resting
      <4> QED BY <1>0, <1>i, <1>r, <1>9, <2>1, <3>2, <4>2 DEF Read
    <3>4. CASE p \notin Requests
      <4>1. /\ job'[p].at = "notices" /\ job'[p].batch = job[p].batch \ {r}
            /\ job'[p].seen = [job[p].seen EXCEPT ![r] = 0]
        BY <3>1, <3>4, <1>0, <2>1, ReturnLeaves
      <4>2. \A m \in Mails : job'[p].seen[m] = job[p].seen[m]
        BY <4>1, <1>0, <1>r, <2>1 DEF Job
      <4> QED BY <1>0, <1>i, <1>r, <1>9, <2>1, <3>2, <3>4, <4>1, <4>2 DEF Read
    <3> QED BY <3>3, <3>4
  <2>3. CASE ~Settled(r)
    <3>1. tries[r] < MaxAttempts
      BY <2>3, HandlersFinite, BoundsAssumption DEF Settled, TypeOK
    <3>2. /\ Others(p) /\ job' \in [Handlers -> Job]
          /\ job'[p].at = "send" /\ job'[p].batch = job[p].batch
          /\ job'[p].seen = [job[p].seen EXCEPT ![r] = tries[r]]
      BY <1>9, <2>3, <3>1, ReadLeaves DEF Read
    <3>3. \A m \in Mails : job'[p].seen[m] = job[p].seen[m]
      BY <3>2, <1>0, <1>r, <2>1 DEF Job
    <3>4. \A q \in Rows : p \in Holding(q)' => q = r
      BY <1>9, <2>1, <3>2, <1>r, OneInHand DEF Read
    <3> QED BY <1>0, <1>i, <1>r, <1>9, <2>1, <3>1, <3>2, <3>3, <3>4 DEF Read
  <2> QED BY <2>2, <2>3
<1> QED BY <1>1, <1>2, <1>3, <1>4, <1>5, <1>6, <1>7, <1>8, <1>9, <1>i DEF Looking

\* The provider is asked for a row, or nobody is.
Asked(p, r) ==
  \/ job'[p].answer = "closed" /\ UNCHANGED outside
  \/ Ask(r) /\ job'[p].answer = "ok" /\ delivered' = [delivered EXCEPT ![r] = @ + 1]
  \/ Ask(r) /\ job'[p].answer = "failed" /\ UNCHANGED delivered

LEMMA SendSteps ==
  ASSUME TypeOK, BatchesPlaced, NEW p \in Handlers, NEW r \in Rows, Send(p, r)
  PROVE  /\ StepOf(p) /\ job[p].at # "write" /\ job'[p].at = "write" /\ Asked(p, r)
         /\ Doing(p, r) /\ job'[p].batch = job[p].batch /\ job'[p].seen = job[p].seen
         /\ r \in Mails => At(p, "mails") /\ p \in Rounds
         /\ \A q \in Rows : p \in Holding(q)' => p \in Holding(q)
         /\ UNCHANGED <<row, live, worker, history>>
<1>0. /\ job \in [Handlers -> Job] /\ Placed(p) /\ Doing(p, r) /\ job[p].at \in {"send", "mails"}
      /\ UNCHANGED <<row, live, worker, history>>
  BY DEF TypeOK, BatchesPlaced, Send, At
<1>r. Notices \cap Mails = {} /\ Rows = Notices \cup Mails /\ Rounds \cap Requests = {}
  BY RowsAssumption, HandlersAssumption DEF Rows
<1>1. PICK a \in {"ok", "failed", "closed"} :
        /\ job' = [job EXCEPT ![p].at = "write", ![p].answer = a]
        /\ a = "closed" => UNCHANGED outside
        /\ a = "ok" => Ask(r) /\ delivered' = [delivered EXCEPT ![r] = @ + 1]
        /\ a = "failed" => Ask(r) /\ UNCHANGED delivered
  BY DEF Send
<1>2. /\ Others(p) /\ job' \in [Handlers -> Job]
      /\ job'[p].at = "write" /\ job'[p].answer = a
      /\ job'[p].batch = job[p].batch /\ job'[p].seen = job[p].seen
  BY <1>0, <1>1, AnswerLeaves
<1>3. Asked(p, r)
  BY <1>1, <1>2 DEF Asked
<1>4. StepOf(p)
  BY <1>0, <1>2, <1>r DEF StepOf, Placed, At, history
<1>5. r \in Mails => At(p, "mails") /\ p \in Rounds
  BY <1>0, <1>r DEF Placed, At, Doing
<1>6. \A q \in Rows : p \in Holding(q)' => p \in Holding(q)
  BY <1>0, <1>2, <1>r DEF Holding, Doing, Placed, At
<1> QED BY <1>0, <1>2, <1>3, <1>4, <1>5, <1>6

\* What came of a row is written down, or left.
LEMMA WriteSteps ==
  ASSUME TypeOK, BatchesPlaced, NEW p \in Handlers, NEW r \in Rows,
         WriteNotice(p, r) \/ WriteMail(p, r) \/ LeaveMail(p, r)
  PROVE  /\ StepOf(p) /\ At(p, "write") /\ Doing(p, r) /\ job'[p].at # "write"
         /\ r \in Mails => p \in Rounds
         /\ \A m \in Mails : job'[p].seen[m] \in {0, job[p].seen[m]}
         /\ p \in Holding(r) /\ \A q \in Rows : p \in Holding(q)' => p \in Holding(q) /\ q # r
         /\ UNCHANGED <<live, worker, outside, history>>
<1>0. /\ job \in [Handlers -> Job] /\ Placed(p) /\ At(p, "write") /\ Doing(p, r) /\ Return(p, r)
      /\ UNCHANGED <<live, worker, outside, history>>
  BY DEF TypeOK, BatchesPlaced, WriteNotice, WriteMail, LeaveMail
<1>r. /\ Notices \cap Mails = {} /\ Rows = Notices \cup Mails
      /\ Rounds \cap Requests = {} /\ Handlers = Rounds \cup Requests
  BY RowsAssumption, HandlersAssumption DEF Rows, Handlers
<1>1. r \in Mails => p \in Rounds
  BY <1>0, <1>r DEF Placed, Doing
<1>2. p \in Holding(r)
  BY <1>0 DEF Holding, Doing, At
<1>3. Others(p) /\ job' \in [Handlers -> Job]
  BY <1>0, ReturnLeaves
<1>4. CASE p \in Requests
  <2>1. job'[p] = Resting
    BY <1>0, <1>4, ReturnLeaves
  <2>2. job'[p].at = "idle" /\ job'[p].batch = {} /\ \A m \in Mails : job'[p].seen[m] = 0
    BY <2>1, <1>r DEF Resting
  <2> QED BY <1>0, <1>r, <1>1, <1>2, <1>3, <1>4, <2>2 DEF StepOf, Placed, Holding, Doing, At, history
<1>5. CASE p \notin Requests
  <2>1. /\ job'[p].at = IF r \in Notices THEN "notices" ELSE "mails"
        /\ job'[p].batch = job[p].batch \ {r}
        /\ job'[p].seen = [job[p].seen EXCEPT ![r] = 0]
    BY <1>0, <1>5, ReturnLeaves
  <2>2. \A m \in Mails : job'[p].seen[m] \in {0, job[p].seen[m]}
    BY <2>1, <1>0, <1>r DEF Job
  <2>3. job[p].batch \subseteq Notices \/ job[p].batch \subseteq Mails
    BY <1>0 DEF Placed
  <2>4. Placed(p)'
    BY <1>0, <1>r, <1>5, <2>1, <2>3 DEF Placed, At, Doing
  <2>5. \A q \in Rows : p \in Holding(q)' => p \in Holding(q) /\ q # r
    BY <1>r, <2>1 DEF Holding, Doing, At
  <2>6. StepOf(p)
    BY <1>0, <1>3, <2>1, <2>4 DEF StepOf, history, At
  <2> QED BY <1>0, <1>1, <1>2, <2>1, <2>2, <2>5, <2>6
<1> QED BY <1>4, <1>5

\* Nobody moves.
Still == Stop \/ Exit \/ Enqueue \/ Switch \/ UNCHANGED vars

LEMMA StillSteps ==
  ASSUME TypeOK, Still
  PROVE  /\ UNCHANGED <<job, tries, outside, overlapped>>
         /\ status' \in [Rows -> {"none", "queued", "sent", "failed"}]
         /\ \A r \in Rows : status'[r] = status[r] \/ (status[r] = "none" /\ status'[r] = "queued")
<1>1. CASE Enqueue
  BY <1>1 DEF Enqueue, TypeOK, outside, history, Unwritten
<1>2. CASE Stop \/ Exit \/ Switch \/ UNCHANGED vars
  BY <1>2 DEF Stop, Exit, Switch, vars, row, outside, history, TypeOK
<1> QED BY <1>1, <1>2 DEF Still

\* A process that ends.
Ends(P) == P \in {Rounds} \cup {{q} : q \in Requests} /\ Cut(P)

LEMMA CutSteps ==
  ASSUME TypeOK, NEW P, Ends(P)
  PROVE  /\ P \subseteq Handlers /\ job' \in [Handlers -> Job]
         /\ P = Rounds \/ (P \cap Rounds = {} /\ worker' = worker)
         /\ \A p \in P : job'[p] = Resting
         /\ \A p \in Handlers \ P : job'[p] = job[p]
         /\ \A p \in P : job'[p].at = "idle" /\ job'[p].batch = {} /\ \A r \in Rows : job'[p].seen[r] = 0
         /\ UNCHANGED <<row, asked, overlapped>>
<1>1. P \subseteq Handlers /\ (P = Rounds \/ (P # Rounds /\ P \cap Rounds = {}))
  BY HandlersAssumption DEF Ends, Handlers, Rounds
<1>2. job' = [p \in Handlers |-> IF p \in P THEN Resting ELSE job[p]] /\ UNCHANGED <<row, asked, overlapped>>
  BY DEF Ends, Cut
<1>3. job \in [Handlers -> Job]
  BY DEF TypeOK
<1>4. /\ job' \in [Handlers -> Job]
      /\ \A p \in P : job'[p] = Resting
      /\ \A p \in Handlers \ P : job'[p] = job[p]
  BY <1>1, <1>2, <1>3, RestingTyped
<1>5. \A p \in P : job'[p].at = "idle" /\ job'[p].batch = {} /\ \A r \in Rows : job'[p].seen[r] = 0
  BY <1>4 DEF Resting
<1>6. P # Rounds => worker' = worker
  BY DEF Ends, Cut
<1> QED BY <1>1, <1>2, <1>4, <1>5, <1>6

Trying(p, r) == Send(p, r) \/ WriteNotice(p, r) \/ WriteMail(p, r) \/ LeaveMail(p, r)

LEMMA NextKinds ==
  ASSUME [Next]_vars
  PROVE  \/ Looking \/ Still \/ (\E p \in Handlers, r \in Rows : Trying(p, r))
         \/ Ends(Rounds) \/ \E q \in Requests : Ends({q})
<1>1. /\ Rounds \subseteq Handlers /\ Requests \subseteq Handlers /\ Notices \subseteq Rows
      /\ Rounds \in {Rounds} /\ \A q \in Requests : {q} \in {{s} : s \in Requests}
  BY DEF Handlers, Rows
<1>2. ASSUME NEW p \in Handlers, NEW r \in Rows, Try(p, r)
      PROVE  Looking \/ \E q \in Handlers, s \in Rows : Trying(q, s)
  BY <1>2 DEF Try, Trying, Looking
<1>3. ASSUME NEW w \in Rounds, Work(w)
      PROVE  Looking \/ \E q \in Handlers, s \in Rows : Trying(q, s)
  BY <1>1, <1>2, <1>3 DEF Work, Looking
<1>4. ASSUME NEW q \in Requests, Serve(q)
      PROVE  Looking \/ \E p \in Handlers, s \in Rows : Trying(p, s)
  BY <1>1, <1>2, <1>4 DEF Serve, Looking
<1>5. ASSUME NEW q \in Requests, Notify(q) \/ \E n \in Notices : RetryRead(q, n)
      PROVE  Looking
  BY <1>5 DEF Looking
<1> QED BY <1>1, <1>3, <1>4, <1>5 DEF Next, Looking, Still, Ends

----------------------------------------------------------------------------
(* Each part of the invariant is kept: where the handlers are. *)

LEMMA StepKeepsPlaces ==
  ASSUME BatchesPlaced, RoundsKnown, overlapped \in BOOLEAN, NEW p \in Handlers, StepOf(p)
  PROVE  BatchesPlaced' /\ RoundsKnown'
<1>0. First \in Rounds /\ Timer \in Rounds /\ First # Timer /\ Rounds = {First, Timer} /\ Rounds \subseteq Handlers
  BY HandlersAssumption DEF Handlers, Rounds
<1>1. \A q \in Handlers \ {p} : job'[q] = job[q]
  BY DEF StepOf, Others
<1>2. BatchesPlaced'
  BY <1>1 DEF BatchesPlaced, Placed, StepOf, At
<1>3. worker' = "off" => \A w \in Rounds : At(w, "idle")'
  <2>1. worker' = "off" => worker = "off" /\ p \notin Rounds
    BY DEF StepOf, RoundsKnown
  <2> QED BY <1>0, <1>1, <2>1 DEF RoundsKnown, At
<1>4. ~overlapped' => \E w \in Rounds : At(w, "idle")'
  <2> SUFFICES ASSUME ~overlapped' PROVE \E w \in Rounds : At(w, "idle")'
    OBVIOUS
  <2>1. ~overlapped
    BY DEF StepOf
  <2>2. PICK w \in Rounds : At(w, "idle")
    BY <2>1 DEF RoundsKnown
  <2>3. CASE w # p
    BY <1>0, <1>1, <2>2, <2>3 DEF At
  <2>4. CASE w = p
    <3>1. PICK v \in Rounds : v # p
      BY <1>0
    <3>2. At(v, "idle")
      BY <2>2, <2>4, <3>1 DEF StepOf
    <3> QED BY <1>0, <1>1, <3>1, <3>2 DEF At
  <2> QED BY <2>3, <2>4
<1> QED BY <1>2, <1>3, <1>4 DEF RoundsKnown

LEMMA PlacesKept ==
  ASSUME IInv, [Next]_vars
  PROVE  BatchesPlaced' /\ RoundsKnown'
<1>0. TypeOK /\ BatchesPlaced /\ RoundsKnown /\ overlapped \in BOOLEAN
  BY DEF IInv, TypeOK
<1>1. CASE \E p \in Handlers : StepOf(p)
  BY <1>0, <1>1, StepKeepsPlaces
<1>2. CASE Still
  <2>1. job' = job /\ overlapped' = overlapped
    BY <1>0, <1>2, StillSteps
  <2>2. BatchesPlaced'
    BY <1>0, <2>1 DEF BatchesPlaced, Placed, At
  <2>3. worker' = "off" => worker = "off" \/ \A w \in Rounds : At(w, "idle")
    BY <1>2 DEF Still, Stop, Exit, Enqueue, Switch, vars
  <2> QED BY <1>0, <2>1, <2>2, <2>3 DEF RoundsKnown, At
<1>3. ASSUME NEW P, Ends(P) PROVE BatchesPlaced' /\ RoundsKnown'
  <2>1. /\ P \subseteq Handlers
        /\ P = Rounds \/ (P \cap Rounds = {} /\ worker' = worker)
        /\ \A p \in P : job'[p].at = "idle" /\ job'[p].batch = {}
        /\ \A p \in Handlers \ P : job'[p] = job[p]
        /\ overlapped' = overlapped
    BY <1>0, <1>3, CutSteps
  <2>2. BatchesPlaced'
    BY <1>0, <2>1 DEF BatchesPlaced, Placed, At
  <2>3. Rounds \subseteq Handlers /\ First \in Rounds
    BY DEF Handlers, Rounds
  <2> QED BY <1>0, <2>1, <2>2, <2>3 DEF RoundsKnown, At
<1>4. CASE Looking
  BY <1>0, <1>1, <1>4, QuietSteps DEF QuietStep
<1>5. ASSUME NEW p \in Handlers, NEW r \in Rows, Trying(p, r) PROVE BatchesPlaced' /\ RoundsKnown'
  BY <1>0, <1>1, <1>5, SendSteps, WriteSteps DEF Trying
<1> QED BY <1>2, <1>3, <1>4, <1>5, NextKinds

\* A mail is a round's only, and while rounds do not overlap one round's only.
LEMMA OneRoundHolds ==
  ASSUME BatchesPlaced, RoundsKnown, ~overlapped, NEW m \in Mails, NEW p \in Handlers, NEW q \in Handlers,
         m \in job[p].batch, m \in job[q].batch
  PROVE  p = q /\ p \in Rounds
<1>1. m \notin Notices
  BY RowsAssumption
<1>2. p \in Rounds /\ q \in Rounds
  BY <1>1 DEF BatchesPlaced, Placed, Handlers
<1>3. ~At(p, "idle") /\ ~At(q, "idle")
  BY DEF BatchesPlaced, Placed, At
<1> QED BY <1>2, <1>3 DEF RoundsKnown, Rounds

LEMMA MailsKept ==
  ASSUME IInv, [Next]_vars
  PROVE  MailsWait'
<1>0. /\ TypeOK /\ BatchesPlaced /\ RoundsKnown /\ MailsWait
      /\ status \in [Rows -> {"none", "queued", "sent", "failed"}]
      /\ Rounds \subseteq Handlers /\ Mails \subseteq Rows /\ Notices \cap Mails = {}
  BY RowsAssumption DEF IInv, TypeOK, Handlers, Rows
<1>1. ASSUME NEW p \in Handlers, StepOf(p), \A m \in Mails : status'[m] = status[m]
      PROVE  MailsWait'
  <2>1. \A q \in Handlers \ {p} : job'[q] = job[q]
    BY <1>1 DEF StepOf, Others
  <2> SUFFICES ASSUME ~overlapped', NEW w \in Rounds, NEW m \in job'[w].batch \cap Mails
               PROVE  status'[m] = "queued"
    BY DEF MailsWait
  <2>2. ~overlapped
    BY <1>1 DEF StepOf
  <2> QED BY <1>0, <1>1, <2>1, <2>2 DEF MailsWait, StepOf
<1>2. CASE Still
  <2>1. /\ job' = job /\ overlapped' = overlapped
        /\ \A r \in Rows : status'[r] = status[r] \/ (status[r] = "none" /\ status'[r] = "queued")
    BY <1>0, <1>2, StillSteps
  <2> QED BY <1>0, <2>1 DEF MailsWait
<1>3. ASSUME NEW P, Ends(P) PROVE MailsWait'
  <2>1. /\ \A p \in P : job'[p].batch = {}
        /\ \A p \in Handlers \ P : job'[p] = job[p]
        /\ UNCHANGED <<status, overlapped>>
    BY <1>0, <1>3, CutSteps DEF row
  <2> QED BY <1>0, <2>1 DEF MailsWait
<1>4. CASE Looking
  BY <1>0, <1>1, <1>4, QuietSteps DEF QuietStep
<1>5. ASSUME NEW p \in Handlers, NEW r \in Rows, Send(p, r) PROVE MailsWait'
  BY <1>0, <1>1, <1>5, SendSteps DEF row
<1>6. ASSUME NEW p \in Handlers, NEW r \in Rows, WriteNotice(p, r) \/ LeaveMail(p, r) PROVE MailsWait'
  <2>1. \A m \in Mails : status'[m] = status[m]
    BY <1>0, <1>6 DEF WriteNotice, LeaveMail, row
  <2> QED BY <1>0, <1>1, <1>6, <2>1, WriteSteps
<1>7. ASSUME NEW p \in Handlers, NEW r \in Rows, WriteMail(p, r) PROVE MailsWait'
  <2>1. /\ StepOf(p) /\ r \in job[p].batch /\ r \in Mails /\ Return(p, r) /\ p \in Rounds
        /\ \A m \in Mails \ {r} : status'[m] = status[m]
    <3>1. StepOf(p) /\ p \in Rounds
      BY <1>0, <1>7, WriteSteps DEF WriteMail
    <3> QED BY <1>0, <1>7, <3>1 DEF WriteMail, Doing
  <2>2. r \notin job'[p].batch
    <3>1. job'[p].batch = job[p].batch \ {r}
      BY <1>0, <2>1, ReturnLeaves, HandlersAssumption DEF TypeOK
    <3> QED BY <3>1
  <2>3. \A q \in Handlers \ {p} : job'[q] = job[q]
    BY <2>1 DEF StepOf, Others
  <2> SUFFICES ASSUME ~overlapped', NEW w \in Rounds, NEW m \in job'[w].batch \cap Mails
               PROVE  status'[m] = "queued"
    BY DEF MailsWait
  <2>4. ~overlapped
    BY <2>1 DEF StepOf
  <2>5. m # r
    BY <1>0, <2>1, <2>2, <2>3, <2>4, OneRoundHolds
  <2> QED BY <1>0, <2>1, <2>3, <2>4, <2>5 DEF MailsWait, StepOf
<1> QED BY <1>2, <1>3, <1>4, <1>5, <1>6, <1>7, NextKinds DEF Trying

----------------------------------------------------------------------------
(* How many handlers hold a row. *)

LEMMA OthersHold ==
  ASSUME NEW p \in Handlers, Others(p), NEW r \in Rows
  PROVE  /\ InFlight(r) \in SUBSET Handlers /\ InFlight(r)' \in SUBSET Handlers
         /\ InFlight(r) \ {p} = InFlight(r)' \ {p}
         /\ Holding(r) \in SUBSET Handlers /\ Holding(r)' \in SUBSET Handlers
         /\ Holding(r) \ {p} = Holding(r)' \ {p}
         /\ Asking(r) \in SUBSET Handlers /\ Asking(r)' \in SUBSET Handlers
         /\ Asking(r) \ {p} = Asking(r)' \ {p}
BY DEF Others, InFlight, Holding, Asking, At, Doing

LEMMA CutHold ==
  ASSUME TypeOK, NEW P, Ends(P), NEW r \in Rows
  PROVE  /\ InFlight(r) \in SUBSET Handlers /\ InFlight(r)' = InFlight(r) \ P
         /\ Holding(r) \in SUBSET Handlers /\ Holding(r)' \subseteq Holding(r)
         /\ Asking(r) \in SUBSET Handlers /\ Asking(r)' \subseteq Asking(r)
<1>1. /\ P \subseteq Handlers
      /\ \A p \in P : job'[p].at = "idle" /\ job'[p].batch = {}
      /\ \A p \in Handlers \ P : job'[p] = job[p]
  BY CutSteps
<1> QED BY <1>1 DEF InFlight, Holding, Asking, At, Doing

\* What a process that ends had in flight is no longer counted as delivered.
LEMMA CutDelivers ==
  ASSUME TypeOK, FlightsDelivered, NEW P, Ends(P), NEW r \in Rows
  PROVE  /\ Cardinality(InFlight(r)) \in Nat /\ Cardinality(InFlight(r) \cap P) \in Nat
         /\ Cardinality(InFlight(r)') = Cardinality(InFlight(r)) - Cardinality(InFlight(r) \cap P)
         /\ delivered'[r] = delivered[r] - Cardinality(InFlight(r) \cap P)
         /\ delivered'[r] \in Nat
<1>1. InFlight(r) \in SUBSET Handlers /\ InFlight(r)' = InFlight(r) \ P
  BY CutHold
<1>2. IsFiniteSet(InFlight(r))
  BY <1>1, HandlersFinite, FS_Subset
<1>3. Cardinality(InFlight(r)) \in Nat /\ Cardinality(InFlight(r) \cap P) \in Nat
      /\ Cardinality(InFlight(r) \cap P) <= Cardinality(InFlight(r))
  BY <1>1, SubsetBound
<1>4. Cardinality(InFlight(r) \ P) = Cardinality(InFlight(r)) - Cardinality(InFlight(r) \cap P)
  <2> DEFINE F == InFlight(r)
  <2>1. F \ P = F \ (F \cap P) /\ IsFiniteSet(F \cap P) /\ F \cap (F \cap P) = F \cap P
    BY <1>2, FS_Subset
  <2> HIDE DEF F
  <2>2. IsFiniteSet(F)
    BY <1>2 DEF F
  <2>3. Cardinality(F \ (F \cap P)) = Cardinality(F) - Cardinality(F \cap (F \cap P))
    BY <2>1, <2>2, FS_Difference
  <2> QED BY <2>1, <2>3 DEF F
<1>5. delivered'[r] = delivered[r] - Cardinality(InFlight(r) \cap P)
  BY DEF Ends, Cut
<1>6. delivered[r] \in Nat /\ Cardinality(InFlight(r)) <= delivered[r]
  BY DEF TypeOK, FlightsDelivered
<1> QED BY <1>1, <1>3, <1>4, <1>5, <1>6

----------------------------------------------------------------------------
(* Each part of the invariant is kept: the types. *)

LEMMA TypesKept ==
  ASSUME IInv, [Next]_vars
  PROVE  TypeOK'
<1>0. /\ TypeOK /\ BatchesPlaced /\ RoundsKnown /\ TriesBounded /\ FlightsDelivered
      /\ MaxAttempts \in Nat \ {0} /\ Rows = Notices \cup Mails /\ Notices \cap Mails = {}
      /\ MaxTroubles \in Nat
  BY RowsAssumption, BoundsAssumption DEF IInv, Rows
<1>c. Cardinality(Handlers) \in Nat /\ Cardinality(Handlers) >= 2
  <2>1. {First, Timer} \subseteq Handlers /\ IsFiniteSet(Handlers) /\ Cardinality({First, Timer}) = 2
    <3>1. Cardinality({First} \cup {Timer}) = Cardinality({First}) + 1
      BY HandlersAssumption, FS_AddElement, FS_Singleton
    <3>2. {First, Timer} = {First} \cup {Timer} /\ Cardinality({First}) = 1
      BY FS_Singleton
    <3> QED BY <3>1, <3>2, HandlersFinite DEF Handlers, Rounds
  <2> QED BY <2>1, HandlersFinite, FS_Subset
<1>t. /\ status \in [Rows -> {"none", "queued", "sent", "failed"}]
      /\ tries \in [Rows -> 0..(MaxAttempts + Cardinality(Handlers) - 1)]
      /\ live \in BOOLEAN /\ worker \in {"off", "on", "stopping"} /\ job \in [Handlers -> Job]
      /\ asked \in [Mails -> 0..MaxAttempts] /\ delivered \in [Rows -> Nat]
      /\ overlapped \in BOOLEAN /\ troubles \in 0..MaxTroubles
  BY <1>0 DEF TypeOK
<1>1. CASE Looking
  <2>1. PICK p \in Handlers : QuietStep(p)
    BY <1>0, <1>1, QuietSteps
  <2> QED BY <1>t, <2>1 DEF QuietStep, StepOf, TypeOK, outside
<1>2. CASE Still
  <2>1. /\ UNCHANGED <<job, tries, outside, overlapped>>
        /\ status' \in [Rows -> {"none", "queued", "sent", "failed"}]
    BY <1>0, <1>2, StillSteps
  <2>2. live' \in BOOLEAN
    BY <1>t, <1>2 DEF Still, Stop, Exit, Enqueue, Switch, vars
  <2>3. worker' \in {"off", "on", "stopping"}
    BY <1>t, <1>2 DEF Still, Stop, Exit, Enqueue, Switch, vars
  <2>4. troubles' \in 0..MaxTroubles
    BY <1>0, <1>t, <1>2 DEF Still, Stop, Exit, Enqueue, Switch, Trouble, vars, history
  <2> QED BY <1>t, <2>1, <2>2, <2>3, <2>4 DEF TypeOK, outside
<1>3. ASSUME NEW P, Ends(P) PROVE TypeOK'
  <2>1. job' \in [Handlers -> Job] /\ UNCHANGED <<row, asked, overlapped>>
    BY <1>0, <1>3, CutSteps
  <2>2. \A r \in Rows : delivered'[r] \in Nat
    BY <1>0, <1>3, CutDelivers
  <2>3. delivered' = [r \in Rows |-> delivered[r] - Cardinality(InFlight(r) \cap P)]
    BY <1>3 DEF Ends, Cut
  <2>4. delivered' \in [Rows -> Nat]
    BY <2>2, <2>3
  <2>5. live' = live /\ worker' \in {"off", worker} /\ troubles' \in 0..MaxTroubles
    BY <1>0, <1>t, <1>3 DEF Ends, Cut, Trouble
  <2> QED BY <1>t, <2>1, <2>4, <2>5 DEF TypeOK, row
<1>4. ASSUME NEW p \in Handlers, NEW r \in Rows, Send(p, r) PROVE TypeOK'
  <2>1. StepOf(p) /\ Asked(p, r) /\ UNCHANGED <<row, live, worker, history>>
    BY <1>0, <1>4, SendSteps
  <2>2. asked' \in [Mails -> 0..MaxAttempts] /\ delivered' \in [Rows -> Nat]
    <3>1. CASE UNCHANGED outside
      BY <1>t, <3>1 DEF outside
    <3>2. CASE Ask(r) /\ (UNCHANGED delivered \/ delivered' = [delivered EXCEPT ![r] = @ + 1])
      BY <1>t, <1>0, <3>2 DEF Ask
    <3> QED BY <2>1, <3>1, <3>2 DEF Asked
  <2> QED BY <1>t, <2>1, <2>2 DEF TypeOK, StepOf, row, history
<1>5. ASSUME NEW p \in Handlers, NEW r \in Rows, WriteNotice(p, r) \/ WriteMail(p, r) \/ LeaveMail(p, r)
      PROVE  TypeOK'
  <2>1. StepOf(p) /\ p \in Holding(r) /\ UNCHANGED <<live, worker, outside, history>>
    BY <1>0, <1>5, WriteSteps
  <2>2. tries[r] \in Nat /\ tries[r] + 1 <= MaxAttempts + Cardinality(Handlers) - 1
    <3>1. Holding(r) \in SUBSET Handlers /\ {p} \in SUBSET Holding(r)
      BY <2>1 DEF Holding
    <3>2. Cardinality(Holding(r)) \in Nat /\ Cardinality(Holding(r)) >= 1
      BY <3>1, SubsetBound, FS_Singleton
    <3>3. tries[r] + Cardinality(Holding(r)) <= MaxAttempts - 1 + Cardinality(Handlers) /\ tries[r] \in Nat
      BY <1>0, <1>t, <1>c DEF TriesBounded
    <3> QED BY <1>0, <1>c, <3>2, <3>3
  <2>3. job[p].seen[r] + 1 \in 0..(MaxAttempts + Cardinality(Handlers) - 1)
    <3>1. job[p].seen[r] \in 0..(MaxAttempts - 1)
      BY <1>t DEF Job
    <3> QED BY <1>0, <1>c, <3>1
  <2>4. /\ status' \in [Rows -> {"none", "queued", "sent", "failed"}]
        /\ tries' \in [Rows -> 0..(MaxAttempts + Cardinality(Handlers) - 1)]
    <3>1. CASE WriteNotice(p, r)
      BY <1>0, <1>c, <1>t, <2>2, <3>1 DEF WriteNotice, NoticeTries
    <3>2. CASE LeaveMail(p, r)
      BY <1>t, <3>2 DEF LeaveMail, row
    <3>3. CASE WriteMail(p, r)
      BY <1>0, <1>c, <1>t, <2>2, <2>3, <3>3 DEF WriteMail
    <3> QED BY <1>5, <3>1, <3>2, <3>3
  <2> QED BY <1>t, <2>1, <2>4 DEF TypeOK, StepOf, outside, history
<1> QED BY <1>1, <1>2, <1>3, <1>4, <1>5, NextKinds DEF Trying

----------------------------------------------------------------------------
(* Each part of the invariant is kept: the attempts. *)

LEMMA TriesKept ==
  ASSUME IInv, [Next]_vars
  PROVE  TriesBounded'
<1>0. /\ TypeOK /\ BatchesPlaced /\ RoundsKnown /\ TriesBounded
      /\ MaxAttempts \in Nat \ {0} /\ Cardinality(Handlers) \in Nat \ {0}
  BY BoundsAssumption, HandlersFinite DEF IInv
<1>t. tries \in [Rows -> Nat] /\ job \in [Handlers -> Job]
  BY <1>0 DEF TypeOK
<1>b. \A r \in Rows : tries[r] \in Nat /\ tries[r] + Cardinality(Holding(r)) <= MaxAttempts - 1 + Cardinality(Handlers)
  BY <1>0, <1>t DEF TriesBounded
<1> SUFFICES ASSUME NEW r \in Rows
             PROVE  tries'[r] + Cardinality(Holding(r)') <= MaxAttempts - 1 + Cardinality(Handlers)
  BY DEF TriesBounded
<1>1. CASE Looking
  <2>1. PICK p \in Handlers : QuietStep(p)
    BY <1>0, <1>1, QuietSteps
  <2>2. Others(p) /\ tries' = tries /\ (p \in Holding(r)' => p \in Holding(r) \/ tries[r] < MaxAttempts)
    BY <2>1 DEF QuietStep, StepOf
  <2>3. /\ Cardinality(Holding(r)) \in Nat /\ Cardinality(Holding(r)') \in Nat
        /\ Cardinality(Holding(r)') <= Cardinality(Handlers)
        /\ p \notin Holding(r)' \/ p \in Holding(r) => Cardinality(Holding(r)') <= Cardinality(Holding(r))
    BY <2>2, OthersHold, DifferInOne
  <2> QED BY <1>0, <1>b, <2>2, <2>3
<1>2. CASE Still
  <2>1. job' = job /\ tries' = tries
    BY <1>0, <1>2, StillSteps
  <2>2. Holding(r)' = Holding(r)
    BY <2>1 DEF Holding, Doing
  <2> QED BY <1>b, <2>1, <2>2
<1>3. ASSUME NEW P, Ends(P)
      PROVE  tries'[r] + Cardinality(Holding(r)') <= MaxAttempts - 1 + Cardinality(Handlers)
  <2>1. Cardinality(Holding(r)) \in Nat /\ Cardinality(Holding(r)') \in Nat /\ Cardinality(Holding(r)') <= Cardinality(Holding(r))
    BY <1>0, <1>3, CutHold, SubsetBound
  <2>2. tries' = tries
    BY <1>0, <1>3, CutSteps DEF row
  <2> QED BY <1>0, <1>b, <2>1, <2>2
<1>4. ASSUME NEW p \in Handlers, NEW s \in Rows, Send(p, s)
      PROVE  tries'[r] + Cardinality(Holding(r)') <= MaxAttempts - 1 + Cardinality(Handlers)
  <2>1. Others(p) /\ tries' = tries /\ (p \in Holding(r)' => p \in Holding(r))
    BY <1>0, <1>4, SendSteps DEF StepOf, row
  <2>2. /\ Cardinality(Holding(r)) \in Nat /\ Cardinality(Holding(r)') \in Nat
        /\ Cardinality(Holding(r)') <= Cardinality(Holding(r))
    BY <2>1, OthersHold, DifferInOne
  <2> QED BY <1>0, <1>b, <2>1, <2>2
<1>5. ASSUME NEW p \in Handlers, NEW s \in Rows, WriteNotice(p, s) \/ WriteMail(p, s) \/ LeaveMail(p, s)
      PROVE  tries'[r] + Cardinality(Holding(r)') <= MaxAttempts - 1 + Cardinality(Handlers)
  <2>1. Others(p) /\ p \in Holding(s) /\ (p \in Holding(r)' => p \in Holding(r) /\ r # s)
    BY <1>0, <1>5, WriteSteps DEF StepOf
  <2>2. /\ Cardinality(Holding(r)) \in Nat /\ Cardinality(Holding(r)') \in Nat
        /\ Cardinality(Holding(r)') <= Cardinality(Holding(r))
        /\ p \in Holding(r) /\ p \notin Holding(r)' => Cardinality(Holding(r)) = Cardinality(Holding(r)') + 1
        /\ Cardinality(Holding(r)) <= Cardinality(Handlers)
    BY <2>1, OthersHold, DifferInOne
  <2>3. CASE r # s
    <3>1. tries'[r] = tries[r]
      BY <1>5, <1>t, <2>3 DEF WriteNotice, WriteMail, LeaveMail, row
    <3> QED BY <1>0, <1>b, <2>2, <3>1
  <2>4. CASE r = s
    <3>1. Cardinality(Holding(r)) = Cardinality(Holding(r)') + 1
      BY <2>1, <2>2, <2>4
    <3>2. job[p].seen[r] \in 0..(MaxAttempts - 1)
      BY <1>t DEF Job
    <3>3. tries'[r] \in {tries[r], tries[r] + 1, job[p].seen[r] + 1}
      BY <1>5, <1>t, <2>4 DEF WriteNotice, NoticeTries, WriteMail, LeaveMail, row
    <3> QED BY <1>0, <1>b, <2>2, <3>1, <3>2, <3>3
  <2> QED BY <2>3, <2>4
<1> QED BY <1>1, <1>2, <1>3, <1>4, <1>5, NextKinds DEF Trying

----------------------------------------------------------------------------
(* Each part of the invariant is kept: the deliveries. *)

\* What a step makes of the deliveries of a row and of those on their way to be written
\* down: none, one more of each, one written down, or some lost with their process.
LEMMA Deliveries ==
  ASSUME IInv, [Next]_vars, NEW r \in Rows
  PROVE  /\ Cardinality(InFlight(r)) \in Nat /\ Cardinality(InFlight(r)') \in Nat
         /\ \/ /\ delivered'[r] = delivered[r] /\ InFlight(r)' = InFlight(r)
            \/ /\ delivered'[r] = delivered[r] + 1
               /\ Cardinality(InFlight(r)') = Cardinality(InFlight(r)) + 1
               /\ status' = status
               /\ r \in Mails => \E p \in Handlers : At(p, "mails") /\ Doing(p, r)
            \/ /\ delivered'[r] = delivered[r]
               /\ Cardinality(InFlight(r)) = Cardinality(InFlight(r)') + 1
               /\ r \in Notices => tries'[r] = tries[r] + 1
               /\ r \in Mails => status'[r] = "sent"
            \/ \E P : Ends(P)
         /\ r \in Notices => tries'[r] \in {tries[r], tries[r] + 1}
<1>0. /\ TypeOK /\ BatchesPlaced /\ RoundsKnown /\ Rows = Notices \cup Mails /\ Notices \cap Mails = {}
  BY RowsAssumption DEF IInv, Rows
<1>t. tries \in [Rows -> Nat] /\ job \in [Handlers -> Job] /\ delivered \in [Rows -> Nat]
      /\ status \in [Rows -> {"none", "queued", "sent", "failed"}]
  BY <1>0, BoundsAssumption, HandlersFinite DEF TypeOK
<1> DEFINE Out ==
         /\ Cardinality(InFlight(r)) \in Nat /\ Cardinality(InFlight(r)') \in Nat
         /\ \/ /\ delivered'[r] = delivered[r] /\ InFlight(r)' = InFlight(r)
            \/ /\ delivered'[r] = delivered[r] + 1
               /\ Cardinality(InFlight(r)') = Cardinality(InFlight(r)) + 1
               /\ status' = status
               /\ r \in Mails => \E p \in Handlers : At(p, "mails") /\ Doing(p, r)
            \/ /\ delivered'[r] = delivered[r]
               /\ Cardinality(InFlight(r)) = Cardinality(InFlight(r)') + 1
               /\ r \in Notices => tries'[r] = tries[r] + 1
               /\ r \in Mails => status'[r] = "sent"
            \/ \E P : Ends(P)
         /\ r \in Notices => tries'[r] \in {tries[r], tries[r] + 1}
<1>n. InFlight(r) \in SUBSET Handlers /\ Cardinality(InFlight(r)) \in Nat
  <2>1. InFlight(r) \in SUBSET Handlers
    BY DEF InFlight
  <2> QED BY <2>1, SubsetBound
<1>1. CASE Looking
  <2>1. PICK p \in Handlers : QuietStep(p)
    BY <1>0, <1>1, QuietSteps
  <2>2. Others(p) /\ tries' = tries /\ delivered' = delivered /\ job[p].at # "write" /\ job'[p].at # "write"
    BY <2>1 DEF QuietStep, StepOf, outside
  <2>3. InFlight(r)' = InFlight(r)
    BY <2>2, OthersHold DEF InFlight, At
  <2> QED BY <1>n, <2>2, <2>3
<1>2. CASE Still
  <2>1. job' = job /\ tries' = tries /\ delivered' = delivered
    BY <1>0, <1>2, StillSteps DEF outside
  <2>2. InFlight(r)' = InFlight(r)
    BY <2>1 DEF InFlight, At, Doing
  <2> QED BY <1>n, <2>1, <2>2
<1>3. ASSUME NEW P, Ends(P) PROVE Out
  <2>1. Cardinality(InFlight(r)') \in Nat
    BY <1>n, <1>0, <1>3, CutHold, SubsetBound
  <2>2. tries' = tries
    BY <1>0, <1>3, CutSteps DEF row
  <2> QED BY <1>n, <1>3, <2>1, <2>2
<1>4. ASSUME NEW p \in Handlers, NEW s \in Rows, Send(p, s) PROVE Out
  <2>1. /\ Others(p) /\ Asked(p, s) /\ Doing(p, s) /\ Doing(p, s)' /\ UNCHANGED <<status, tries>>
        /\ job[p].at # "write" /\ job'[p].at = "write" /\ (s \in Mails => At(p, "mails"))
    BY <1>0, <1>4, SendSteps DEF StepOf, row, Doing
  <2>2. p \notin InFlight(r)
    BY <2>1 DEF InFlight, At
  <2>3. p \in InFlight(r)' <=> r = s /\ job'[p].answer = "ok"
    BY <2>1, OneInHand, RowsAssumption DEF InFlight, At, Doing
  <2>4. delivered'[r] = IF r = s /\ job'[p].answer = "ok" THEN delivered[r] + 1 ELSE delivered[r]
    BY <2>1, <1>t DEF Asked, outside
  <2>5. CASE r = s /\ job'[p].answer = "ok"
    <3>1. Cardinality(InFlight(r)') \in Nat /\ Cardinality(InFlight(r)') = Cardinality(InFlight(r)) + 1
      BY <2>1, <2>2, <2>3, <2>5, OthersHold, DifferInOne
    <3> QED BY <1>n, <2>1, <2>4, <2>5, <3>1
  <2>6. CASE ~(r = s /\ job'[p].answer = "ok")
    <3>1. InFlight(r)' = InFlight(r)
      BY <2>1, <2>2, <2>3, <2>6, OthersHold
    <3> QED BY <1>n, <2>1, <2>4, <2>6, <3>1
  <2> QED BY <2>5, <2>6
<1>5. ASSUME NEW p \in Handlers, NEW s \in Rows, WriteNotice(p, s) \/ WriteMail(p, s) \/ LeaveMail(p, s)
      PROVE  Out
  <2>1. Others(p) /\ At(p, "write") /\ Doing(p, s) /\ job'[p].at # "write" /\ delivered' = delivered
    BY <1>0, <1>5, WriteSteps DEF StepOf, outside
  <2>2. p \notin InFlight(r)'
    BY <2>1 DEF InFlight, At
  <2>3. p \in InFlight(r) <=> r = s /\ job[p].answer = "ok"
    BY <2>1, OneInHand DEF InFlight
  <2>4. r \in Notices => tries'[r] \in {tries[r], tries[r] + 1}
    BY <1>0, <1>5, <1>t DEF WriteNotice, WriteMail, LeaveMail, NoticeTries, row
  <2>5. CASE r = s /\ job[p].answer = "ok"
    <3>1. Cardinality(InFlight(r)') \in Nat /\ Cardinality(InFlight(r)) = Cardinality(InFlight(r)') + 1
      BY <2>1, <2>2, <2>3, <2>5, OthersHold, DifferInOne
    <3>2. r \in Notices => tries'[r] = tries[r] + 1
      BY <1>0, <1>5, <1>t, <2>5 DEF WriteNotice, WriteMail, LeaveMail, NoticeTries
    <3>3. r \in Mails => status'[r] = "sent"
      BY <1>0, <1>5, <1>t, <2>5 DEF WriteNotice, WriteMail, LeaveMail, Untouched
    <3> QED BY <1>n, <2>1, <2>4, <3>1, <3>2, <3>3
  <2>6. CASE ~(r = s /\ job[p].answer = "ok")
    <3>1. InFlight(r)' = InFlight(r)
      BY <2>1, <2>2, <2>3, <2>6, OthersHold
    <3> QED BY <1>n, <2>1, <2>4, <3>1
  <2> QED BY <2>5, <2>6
<1> QED BY <1>1, <1>2, <1>3, <1>4, <1>5, NextKinds DEF Trying

LEMMA DeliveriesKept ==
  ASSUME IInv, [Next]_vars
  PROVE  FlightsDelivered' /\ NoticeCounted'
<1>0. /\ TypeOK /\ FlightsDelivered /\ NoticeCounted
      /\ \A r \in Rows : delivered[r] \in Nat /\ tries[r] \in Nat
      /\ Notices \subseteq Rows
  BY BoundsAssumption, HandlersFinite DEF IInv, TypeOK, Rows
<1>1. ASSUME NEW P, Ends(P) PROVE FlightsDelivered' /\ NoticeCounted'
  <2>1. tries' = tries
    BY <1>0, <1>1, CutSteps DEF row
  <2>2. ASSUME NEW r \in Rows
        PROVE  /\ Cardinality(InFlight(r)') <= delivered'[r]
               /\ r \in Notices => delivered'[r] <= tries'[r] + Cardinality(InFlight(r)')
    <3>1. /\ Cardinality(InFlight(r)) \in Nat /\ Cardinality(InFlight(r) \cap P) \in Nat
          /\ Cardinality(InFlight(r)') = Cardinality(InFlight(r)) - Cardinality(InFlight(r) \cap P)
          /\ delivered'[r] = delivered[r] - Cardinality(InFlight(r) \cap P)
      BY <1>0, <1>1, CutDelivers
    <3>2. Cardinality(InFlight(r)) <= delivered[r]
      BY <1>0 DEF FlightsDelivered
    <3>3. r \in Notices => delivered[r] <= tries[r] + Cardinality(InFlight(r))
      BY <1>0 DEF NoticeCounted
    <3> QED BY <1>0, <2>1, <3>1, <3>2, <3>3
  <2> QED BY <1>0, <2>2 DEF FlightsDelivered, NoticeCounted
<1>2. ASSUME ~\E P : Ends(P), NEW r \in Rows
      PROVE  /\ Cardinality(InFlight(r)') <= delivered'[r]
             /\ r \in Notices => delivered'[r] <= tries'[r] + Cardinality(InFlight(r)')
  <2>1. Cardinality(InFlight(r)) <= delivered[r]
    BY <1>0 DEF FlightsDelivered
  <2>2. r \in Notices => delivered[r] <= tries[r] + Cardinality(InFlight(r))
    BY <1>0 DEF NoticeCounted
  <2>3. /\ Cardinality(InFlight(r)) \in Nat /\ Cardinality(InFlight(r)') \in Nat
        /\ \/ delivered'[r] = delivered[r] /\ Cardinality(InFlight(r)') = Cardinality(InFlight(r))
           \/ delivered'[r] = delivered[r] + 1 /\ Cardinality(InFlight(r)') = Cardinality(InFlight(r)) + 1
           \/ /\ delivered'[r] = delivered[r] /\ Cardinality(InFlight(r)) = Cardinality(InFlight(r)') + 1
              /\ r \in Notices => tries'[r] = tries[r] + 1
        /\ r \in Notices => tries'[r] \in {tries[r], tries[r] + 1}
    BY <1>2, Deliveries
  <2> QED BY <1>0, <2>1, <2>2, <2>3
<1> QED BY <1>0, <1>1, <1>2 DEF FlightsDelivered, NoticeCounted

LEMMA MailsSentOnceKept ==
  ASSUME IInv, [Next]_vars
  PROVE  MailSentOnce'
<1>0. /\ TypeOK /\ BatchesPlaced /\ RoundsKnown /\ MailsWait /\ FlightsDelivered /\ MailSentOnce
      /\ Mails \subseteq Rows /\ Notices \cap Mails = {} /\ Rounds \subseteq Handlers
  BY RowsAssumption DEF IInv, Rows, Handlers
<1>t. job \in [Handlers -> Job] /\ delivered \in [Rows -> Nat]
      /\ status \in [Rows -> {"none", "queued", "sent", "failed"}]
  BY <1>0 DEF TypeOK
<1> DEFINE Kept(m) == delivered'[m] = IF status'[m] = "sent" \/ InFlight(m)' # {} THEN 1 ELSE 0
<1> SUFFICES ASSUME ~overlapped', NEW m \in Mails PROVE Kept(m)
  BY DEF MailSentOnce
<1>m. m \in Rows /\ m \notin Notices
  BY <1>0
<1>u. ASSUME ~overlapped, delivered'[m] = delivered[m], InFlight(m)' = InFlight(m),
             status'[m] = "sent" <=> status[m] = "sent"
      PROVE  Kept(m)
  BY <1>0, <1>u DEF MailSentOnce
<1>1. CASE Looking
  <2>1. PICK p \in Handlers : QuietStep(p)
    BY <1>0, <1>1, QuietSteps
  <2>2. /\ Others(p) /\ delivered' = delivered /\ job[p].at # "write" /\ job'[p].at # "write"
        /\ status'[m] = status[m] /\ ~overlapped
    BY <2>1 DEF QuietStep, StepOf, outside
  <2>3. InFlight(m)' = InFlight(m)
    BY <1>m, <2>2, OthersHold DEF InFlight, At
  <2> QED BY <1>u, <2>2, <2>3
<1>2. CASE Still
  <2>1. /\ job' = job /\ delivered' = delivered /\ overlapped' = overlapped
        /\ status'[m] = status[m] \/ (status[m] = "none" /\ status'[m] = "queued")
    BY <1>0, <1>m, <1>2, StillSteps DEF outside
  <2>2. InFlight(m)' = InFlight(m)
    BY <2>1 DEF InFlight, At, Doing
  <2> QED BY <1>u, <2>1, <2>2
<1>3. ASSUME NEW P, Ends(P) PROVE Kept(m)
  <2>1. /\ Cardinality(InFlight(m)) \in Nat /\ Cardinality(InFlight(m) \cap P) \in Nat
        /\ delivered'[m] = delivered[m] - Cardinality(InFlight(m) \cap P)
    BY <1>0, <1>m, <1>3, CutDelivers
  <2>2. InFlight(m) \in SUBSET Handlers /\ InFlight(m)' = InFlight(m) \ P
    BY <1>0, <1>m, <1>3, CutHold
  <2>3. status' = status /\ ~overlapped /\ (P = Rounds \/ P \cap Rounds = {})
    BY <1>0, <1>3, CutSteps DEF row
  <2>4. InFlight(m) \subseteq Rounds
    BY <1>0, <2>3, OneRoundHolds DEF InFlight, Doing
  <2>5. CASE InFlight(m) \cap P = {}
    <3>1. InFlight(m)' = InFlight(m) /\ delivered'[m] = delivered[m]
      <4>1. InFlight(m)' = InFlight(m)
        BY <2>2, <2>5
      <4>2. Cardinality(InFlight(m) \cap P) = 0
        BY <2>5, FS_EmptySet
      <4>3. delivered[m] \in Nat
        BY <1>t, <1>m
      <4> QED BY <2>1, <4>1, <4>2, <4>3
    <3> QED BY <1>u, <2>3, <3>1
  <2>6. CASE InFlight(m) \cap P # {}
    <3>1. P = Rounds /\ InFlight(m)' = {} /\ InFlight(m) \cap P = InFlight(m)
      BY <2>2, <2>3, <2>4, <2>6
    <3>2. PICK p \in InFlight(m) : TRUE
      BY <2>6
    <3>3. p \in Rounds /\ m \in job[p].batch
      BY <2>4, <3>2 DEF InFlight, Doing
    <3>4. status[m] = "queued"
      BY <1>0, <2>3, <3>3 DEF MailsWait
    <3>5. delivered[m] = 1
      BY <1>0, <2>3, <3>2 DEF MailSentOnce
    <3>6. Cardinality(InFlight(m)) <= 1
      BY <1>0, <1>m, <3>5 DEF FlightsDelivered
    <3>7. Cardinality(InFlight(m)) >= 1
      <4>1. {p} \in SUBSET InFlight(m) /\ Cardinality({p}) = 1
        BY <3>2, FS_Singleton
      <4> QED BY <2>2, <4>1, SubsetBound
    <3>c. Cardinality(InFlight(m) \cap P) = Cardinality(InFlight(m))
      BY <3>1, Zenon
    <3>8. delivered'[m] = 0
      BY <2>1, <3>5, <3>6, <3>7, <3>c
    <3> QED BY <2>3, <3>1, <3>4, <3>8
  <2> QED BY <2>5, <2>6
<1>4. ASSUME NEW p \in Handlers, NEW s \in Rows, Send(p, s) PROVE Kept(m)
  <2>1. /\ Others(p) /\ Asked(p, s) /\ Doing(p, s) /\ Doing(p, s)' /\ status' = status /\ ~overlapped
        /\ job[p].at # "write" /\ job'[p].at = "write"
    BY <1>0, <1>4, SendSteps DEF StepOf, row, Doing
  <2>2. p \notin InFlight(m)
    BY <2>1 DEF InFlight, At
  <2>3. p \in InFlight(m)' <=> m = s /\ job'[p].answer = "ok"
    BY <1>m, <2>1, OneInHand, RowsAssumption DEF InFlight, At, Doing
  <2>4. delivered'[m] = IF m = s /\ job'[p].answer = "ok" THEN delivered[m] + 1 ELSE delivered[m]
    BY <1>t, <1>m, <2>1 DEF Asked, outside
  <2>5. CASE m = s /\ job'[p].answer = "ok"
    <3>1. m \in job[p].batch
      BY <2>1, <2>5 DEF Doing
    <3>2. p \in Rounds
      BY <1>0, <2>1, <3>1, OneRoundHolds
    <3>3. status[m] = "queued"
      BY <1>0, <2>1, <3>1, <3>2 DEF MailsWait
    <3>4. InFlight(m) = {}
      BY <1>0, <2>1, <2>2, <3>1, OneRoundHolds DEF InFlight, Doing
    <3>5. delivered[m] = 0
      BY <1>0, <2>1, <3>3, <3>4 DEF MailSentOnce
    <3> QED BY <2>3, <2>4, <2>5, <3>5
  <2>6. CASE ~(m = s /\ job'[p].answer = "ok")
    <3>1. InFlight(m)' = InFlight(m)
      BY <1>m, <2>1, <2>2, <2>3, <2>6, OthersHold
    <3> QED BY <1>u, <2>1, <2>4, <2>6, <3>1
  <2> QED BY <2>5, <2>6
<1>5. ASSUME NEW p \in Handlers, NEW s \in Rows, WriteNotice(p, s) \/ WriteMail(p, s) \/ LeaveMail(p, s)
      PROVE  Kept(m)
  <2>1. /\ Others(p) /\ At(p, "write") /\ Doing(p, s) /\ job'[p].at # "write"
        /\ delivered' = delivered /\ ~overlapped /\ (s \in Mails => p \in Rounds)
    BY <1>0, <1>5, WriteSteps DEF StepOf, outside, history
  <2>2. p \notin InFlight(m)'
    BY <2>1 DEF InFlight, At
  <2>3. p \in InFlight(m) <=> m = s /\ job[p].answer = "ok"
    BY <1>m, <2>1, OneInHand DEF InFlight
  <2>4. CASE m = s /\ job[p].answer = "ok"
    <3>1. status'[m] = "sent"
      BY <1>m, <1>5, <1>t, <2>4 DEF WriteNotice, WriteMail, LeaveMail, Untouched
    <3>2. delivered[m] = 1
      BY <1>0, <2>1, <2>3, <2>4 DEF MailSentOnce
    <3> QED BY <2>1, <3>1, <3>2
  <2>5. CASE ~(m = s /\ job[p].answer = "ok")
    <3>0. InFlight(m) \ {p} = InFlight(m)' \ {p} /\ p \notin InFlight(m)
      BY <1>m, <2>1, <2>3, <2>5, OthersHold
    <3>1. InFlight(m)' = InFlight(m)
      BY <2>2, <3>0
    <3>2. CASE m # s
      <4>1. status'[m] = status[m]
        BY <1>m, <1>5, <1>t, <3>2 DEF WriteNotice, WriteMail, LeaveMail, row
      <4> QED BY <1>u, <2>1, <3>1, <4>1
    <3>3. CASE m = s
      <4>1. p \in Rounds /\ m \in job[p].batch
        BY <2>1, <3>3 DEF Doing
      <4>2. status[m] = "queued"
        BY <1>0, <2>1, <4>1 DEF MailsWait
      <4>3. status'[m] # "sent"
        BY <1>m, <1>5, <1>t, <2>5, <3>3, <4>2 DEF WriteNotice, WriteMail, LeaveMail, row
      <4> QED BY <1>u, <2>1, <3>1, <4>2, <4>3
    <3> QED BY <3>2, <3>3
  <2> QED BY <2>4, <2>5
<1> QED BY <1>1, <1>2, <1>3, <1>4, <1>5, NextKinds DEF Trying

----------------------------------------------------------------------------
(* Each part of the invariant is kept: how often the provider was asked. *)

LEMMA AskedKept ==
  ASSUME IInv, [Next]_vars
  PROVE  AskedEnough' /\ MailNotBurnt'
<1>0. /\ TypeOK /\ BatchesPlaced /\ RoundsKnown /\ AskedEnough /\ MailNotBurnt
      /\ MaxAttempts \in Nat \ {0} /\ Notices \cap Mails = {} /\ Mails \subseteq Rows
  BY RowsAssumption, BoundsAssumption DEF IInv, Rows
<1>t. /\ job \in [Handlers -> Job] /\ tries \in [Rows -> Nat] /\ asked \in [Mails -> 0..MaxAttempts]
      /\ status \in [Rows -> {"none", "queued", "sent", "failed"}]
  BY <1>0, HandlersFinite DEF TypeOK
<1> DEFINE Enough(m) ==
             \/ asked'[m] = MaxAttempts
             \/ /\ tries'[m] + Cardinality(Asking(m)') <= asked'[m]
                /\ \A p \in Handlers : job'[p].seen[m] + Cardinality(Asking(m)') <= asked'[m]
           Burnt(m) == status'[m] = "failed" => asked'[m] = MaxAttempts
<1> SUFFICES ASSUME NEW m \in Mails PROVE Enough(m) /\ Burnt(m)
  BY DEF AskedEnough, MailNotBurnt
<1>m. m \in Rows /\ m \notin Notices
  BY <1>0
<1>e. /\ tries[m] \in Nat /\ asked[m] \in 0..MaxAttempts /\ \A p \in Handlers : job[p].seen[m] \in Nat
      /\ status[m] = "failed" => asked[m] = MaxAttempts
      /\ \/ asked[m] = MaxAttempts
         \/ /\ tries[m] + Cardinality(Asking(m)) <= asked[m]
            /\ \A p \in Handlers : job[p].seen[m] + Cardinality(Asking(m)) <= asked[m]
  BY <1>0, <1>m, <1>t DEF AskedEnough, MailNotBurnt, Job
<1>k. Asking(m) \in SUBSET Handlers /\ Cardinality(Asking(m)) \in Nat
  <2>1. Asking(m) \in SUBSET Handlers
    BY DEF Asking
  <2> QED BY <2>1, SubsetBound
<1>u. ASSUME asked'[m] = asked[m], tries'[m] = tries[m], Cardinality(Asking(m)') \in Nat,
             Cardinality(Asking(m)') <= Cardinality(Asking(m)),
             \A p \in Handlers : job'[p].seen[m] \in {0, job[p].seen[m], tries[m]}
      PROVE  Enough(m)
  <2>1. CASE asked[m] = MaxAttempts
    BY <1>u, <2>1
  <2>2. CASE /\ tries[m] + Cardinality(Asking(m)) <= asked[m]
             /\ \A p \in Handlers : job[p].seen[m] + Cardinality(Asking(m)) <= asked[m]
    <3>1. tries'[m] + Cardinality(Asking(m)') <= asked'[m]
      BY <1>u, <1>e, <1>k, <2>2
    <3>2. ASSUME NEW p \in Handlers PROVE job'[p].seen[m] + Cardinality(Asking(m)') <= asked'[m]
      <4>1. job'[p].seen[m] \in {0, job[p].seen[m], tries[m]}
        BY <1>u
      <4>2. job[p].seen[m] + Cardinality(Asking(m)) <= asked[m] /\ job[p].seen[m] \in Nat
        BY <1>e, <2>2
      <4> QED BY <1>u, <1>e, <1>k, <2>2, <4>1, <4>2
    <3> QED BY <3>1, <3>2
  <2> QED BY <1>e, <2>1, <2>2
<1>1. CASE Looking
  <2>1. PICK p \in Handlers : QuietStep(p)
    BY <1>0, <1>1, QuietSteps
  <2>2. /\ Others(p) /\ UNCHANGED <<tries, asked>> /\ job[p].at # "write" /\ job'[p].at # "write"
        /\ status'[m] = status[m] /\ job'[p].seen[m] \in {0, job[p].seen[m], tries[m]}
    BY <2>1 DEF QuietStep, StepOf, outside
  <2>3. Asking(m)' = Asking(m)
    BY <1>m, <2>2, OthersHold DEF Asking, At
  <2>4. \A q \in Handlers : job'[q].seen[m] \in {0, job[q].seen[m], tries[m]}
    BY <2>2 DEF Others
  <2>5. Enough(m)
    BY <1>k, <1>u, <2>2, <2>3, <2>4
  <2> QED BY <1>e, <2>2, <2>5
<1>2. CASE Still
  <2>1. /\ job' = job /\ tries' = tries /\ asked' = asked
        /\ status'[m] = status[m] \/ (status[m] = "none" /\ status'[m] = "queued")
    BY <1>0, <1>m, <1>2, StillSteps DEF outside
  <2>2. Asking(m)' = Asking(m)
    BY <2>1 DEF Asking, At, Doing
  <2>3. Enough(m)
    BY <1>k, <1>u, <2>1, <2>2
  <2> QED BY <1>e, <2>1, <2>3
<1>3. ASSUME NEW P, Ends(P) PROVE Enough(m) /\ Burnt(m)
  <2>1. /\ \A p \in P : \A r \in Rows : job'[p].seen[r] = 0
        /\ \A p \in Handlers \ P : job'[p] = job[p]
        /\ UNCHANGED <<status, tries, asked>>
    BY <1>0, <1>3, CutSteps DEF row
  <2>2. Cardinality(Asking(m)') \in Nat /\ Cardinality(Asking(m)') <= Cardinality(Asking(m))
    BY <1>0, <1>m, <1>3, CutHold, SubsetBound
  <2>3. \A q \in Handlers : job'[q].seen[m] \in {0, job[q].seen[m], tries[m]}
    BY <1>m, <2>1
  <2>4. Enough(m)
    BY <1>u, <2>1, <2>2, <2>3
  <2> QED BY <1>e, <2>1, <2>4
<1>4. ASSUME NEW p \in Handlers, NEW s \in Rows, Send(p, s) PROVE Enough(m) /\ Burnt(m)
  <2>1. /\ Others(p) /\ Asked(p, s) /\ Doing(p, s) /\ Doing(p, s)' /\ UNCHANGED <<status, tries>>
        /\ job[p].at # "write" /\ job'[p].at = "write" /\ job'[p].seen = job[p].seen
    BY <1>0, <1>4, SendSteps DEF StepOf, row, Doing
  <2>2. \A q \in Handlers : job'[q].seen[m] = job[q].seen[m]
    BY <2>1 DEF Others
  <2>3. p \notin Asking(m)
    BY <2>1 DEF Asking, At
  <2>4. p \in Asking(m)' <=> m = s /\ job'[p].answer # "closed"
    BY <1>m, <2>1, OneInHand, RowsAssumption DEF Asking, At, Doing
  <2>5. CASE m = s /\ job'[p].answer # "closed"
    <3>1. Cardinality(Asking(m)') = Cardinality(Asking(m)) + 1
      BY <1>m, <2>1, <2>3, <2>4, <2>5, OthersHold, DifferInOne
    <3>2. asked'[m] = IF asked[m] < MaxAttempts THEN asked[m] + 1 ELSE asked[m]
      BY <2>1, <2>5 DEF Asked, Ask
    <3>3. CASE asked[m] = MaxAttempts
      BY <1>e, <2>1, <3>2, <3>3
    <3>4. CASE asked[m] # MaxAttempts
      <4>1. asked'[m] = asked[m] + 1
        BY <1>0, <1>e, <3>2, <3>4
      <4>2. tries'[m] + Cardinality(Asking(m)') <= asked'[m]
        BY <1>e, <1>k, <2>1, <3>1, <3>4, <4>1
      <4>3. \A q \in Handlers : job'[q].seen[m] + Cardinality(Asking(m)') <= asked'[m]
        <5> SUFFICES ASSUME NEW q \in Handlers PROVE job'[q].seen[m] + Cardinality(Asking(m)') <= asked'[m]
          OBVIOUS
        <5>1. job[q].seen[m] + Cardinality(Asking(m)) <= asked[m] /\ job[q].seen[m] \in Nat
          BY <1>e, <3>4
        <5> QED BY <1>e, <1>k, <2>2, <3>1, <4>1, <5>1
      <4> QED BY <1>e, <2>1, <3>4, <4>2, <4>3
    <3> QED BY <3>3, <3>4
  <2>6. CASE ~(m = s /\ job'[p].answer # "closed")
    <3>0. Asking(m) \ {p} = Asking(m)' \ {p} /\ p \notin Asking(m)'
      BY <1>m, <2>1, <2>4, <2>6, OthersHold
    <3>1. Asking(m)' = Asking(m)
      BY <2>3, <3>0
    <3>2. asked'[m] = asked[m]
      BY <1>t, <2>1, <2>6 DEF Asked, Ask, outside
    <3>3. Enough(m)
      BY <1>k, <1>u, <2>1, <2>2, <3>1, <3>2
    <3> QED BY <1>e, <2>1, <3>2, <3>3
  <2> QED BY <2>5, <2>6
<1>5. ASSUME NEW p \in Handlers, NEW s \in Rows, WriteNotice(p, s) \/ WriteMail(p, s) \/ LeaveMail(p, s)
      PROVE  Enough(m) /\ Burnt(m)
  <2>1. /\ Others(p) /\ At(p, "write") /\ Doing(p, s) /\ job'[p].at # "write" /\ asked' = asked
        /\ job'[p].seen[m] \in {0, job[p].seen[m]}
    BY <1>0, <1>5, WriteSteps DEF StepOf, outside
  <2>2. \A q \in Handlers : job'[q].seen[m] \in {0, job[q].seen[m]}
    BY <2>1 DEF Others
  <2>3. p \notin Asking(m)'
    BY <2>1 DEF Asking, At
  <2>4. Cardinality(Asking(m)') \in Nat /\ Cardinality(Asking(m)') <= Cardinality(Asking(m))
    BY <1>m, <2>1, <2>3, OthersHold, DifferInOne
  <2>5. CASE ~(m = s /\ WriteMail(p, s))
    <3>1. tries'[m] = tries[m] /\ status'[m] = status[m]
      BY <1>m, <1>5, <1>t, <2>5 DEF WriteNotice, WriteMail, LeaveMail, row
    <3>2. Enough(m)
      BY <1>u, <2>1, <2>2, <2>4, <3>1
    <3> QED BY <1>e, <2>1, <3>1, <3>2
  <2>6. CASE m = s /\ WriteMail(p, s)
    <3>1. p \in Asking(m)
      BY <2>1, <2>6 DEF Asking, WriteMail, Untouched
    <3>2. Cardinality(Asking(m)) = Cardinality(Asking(m)') + 1
      BY <1>m, <2>1, <2>3, <3>1, OthersHold, DifferInOne
    <3>3. /\ tries'[m] \in {tries[m] + 1, job[p].seen[m] + 1}
          /\ status'[m] = "failed" => job[p].seen[m] + 1 >= MaxAttempts
      BY <1>m, <1>t, <2>6 DEF WriteMail
    <3>4. CASE asked[m] = MaxAttempts
      BY <2>1, <3>4
    <3>5. CASE asked[m] # MaxAttempts
      <4>1. job[p].seen[m] + Cardinality(Asking(m)) <= asked[m] /\ job[p].seen[m] \in Nat
        BY <1>e, <3>5
      <4>2. tries'[m] + Cardinality(Asking(m)') <= asked'[m]
        BY <1>e, <1>k, <2>1, <2>4, <3>2, <3>3, <3>5, <4>1
      <4>3. \A q \in Handlers : job'[q].seen[m] + Cardinality(Asking(m)') <= asked'[m]
        <5> SUFFICES ASSUME NEW q \in Handlers PROVE job'[q].seen[m] + Cardinality(Asking(m)') <= asked'[m]
          OBVIOUS
        <5>1. job[q].seen[m] + Cardinality(Asking(m)) <= asked[m] /\ job[q].seen[m] \in Nat
          BY <1>e, <3>5
        <5>2. job'[q].seen[m] \in {0, job[q].seen[m]}
          BY <2>2
        <5> QED BY <1>e, <1>k, <2>1, <2>4, <3>2, <5>1, <5>2
      <4>4. Burnt(m)
        BY <1>0, <1>e, <1>k, <2>1, <2>4, <3>2, <3>3, <4>1
      <4> QED BY <4>2, <4>3, <4>4
    <3> QED BY <3>4, <3>5
  <2> QED BY <2>5, <2>6
<1> QED BY <1>1, <1>2, <1>3, <1>4, <1>5, NextKinds DEF Trying

----------------------------------------------------------------------------
(* Theorems. *)

LEMMA InitHolds == Init => IInv
<1> SUFFICES ASSUME Init PROVE IInv
  OBVIOUS
<1>0. /\ job = [p \in Handlers |-> Resting] /\ \A p \in Handlers : job[p] = Resting
      /\ Resting.at = "idle" /\ Resting.batch = {} /\ \A r \in Rows : Resting.seen[r] = 0
  BY DEF Init, Resting
<1>c. Cardinality(Handlers) \in Nat \ {0} /\ MaxAttempts \in Nat \ {0} /\ MaxTroubles \in Nat
      /\ Notices \subseteq Rows /\ Mails \subseteq Rows /\ Rounds \subseteq Handlers /\ First \in Rounds
  BY HandlersFinite, BoundsAssumption DEF Rows, Handlers, Rounds
<1>i. /\ \A r \in Rows : status[r] = "none" /\ tries[r] = 0 /\ delivered[r] = 0
      /\ \A m \in Mails : asked[m] = 0
  BY DEF Init
<1>1. TypeOK
  <2>1. 0 \in 0..(MaxAttempts + Cardinality(Handlers) - 1) /\ 0 \in 0..MaxAttempts /\ 0 \in 0..MaxTroubles
    BY <1>c
  <2>2. job \in [Handlers -> Job]
    BY <1>0, RestingTyped
  <2> QED BY <2>1, <2>2 DEF Init, TypeOK
<1>2. BatchesPlaced /\ RoundsKnown /\ MailsWait
  BY <1>0, <1>c DEF BatchesPlaced, Placed, RoundsKnown, MailsWait, At
<1>3. \A r \in Rows : InFlight(r) = {} /\ Holding(r) = {} /\ Asking(r) = {}
  BY <1>0 DEF InFlight, Holding, Asking, At, Doing
<1>4. \A r \in Rows : Cardinality(InFlight(r)) = 0 /\ Cardinality(Holding(r)) = 0 /\ Cardinality(Asking(r)) = 0
  BY <1>3, FS_EmptySet
<1>5. FlightsDelivered /\ NoticeCounted
  BY <1>c, <1>4, <1>i DEF FlightsDelivered, NoticeCounted
<1>7. MailSentOnce
  BY <1>c, <1>3, <1>i DEF MailSentOnce
<1>8. TriesBounded
  BY <1>c, <1>4, <1>i DEF TriesBounded
<1>6. AskedEnough /\ MailNotBurnt
  BY <1>0, <1>c, <1>4, <1>i DEF AskedEnough, MailNotBurnt
<1> QED BY <1>1, <1>2, <1>5, <1>6, <1>7, <1>8 DEF IInv

(* The invariant is inductive: in every reachable state the queues, the rounds and the requests   *)
(* agree on who holds which row, how often it was tried and how often it was delivered.           *)
THEOREM QueuesInductive == Spec => []IInv
<1>1. IInv /\ [Next]_vars => IInv'
  <2> SUFFICES ASSUME IInv, [Next]_vars PROVE IInv'
    OBVIOUS
  <2> QED BY TypesKept, PlacesKept, MailsKept, TriesKept, DeliveriesKept, MailsSentOnceKept, AskedKept DEF IInv
<1> QED BY <1>1, InitHolds, PTL DEF Spec

(* The variables keep their types: attempts stays below the limit plus one for each handler but   *)
(* the last, for any number of requests that read a notice before its last attempt.               *)
THEOREM TypeCorrect == Spec => []TypeOK
<1>1. IInv => TypeOK
  BY DEF IInv
<1> QED BY <1>1, QueuesInductive, PTL

(* No mail is delivered twice while one round is under way at a time, but where the answer or the *)
(* worker was lost (drainOutbox), for any number of mails and any length of a batch.              *)
THEOREM MailsSentOnce == Spec => []MailSentOnce
<1>1. IInv => MailSentOnce
  BY DEF IInv
<1> QED BY <1>1, QueuesInductive, PTL

(* No delivery of a notice goes uncounted, however many requests and rounds try it at once        *)
(* (attemptSend's increment in the database).                                                     *)
THEOREM NoticesCounted == Spec => []NoticeCounted
<1>1. IInv => NoticeCounted
  BY DEF IInv
<1> QED BY <1>1, QueuesInductive, PTL

(* A mail is given up only after the provider was asked for it MaxAttempts times, also when       *)
(* rounds overlap and the worker is cut short (drainOutbox).                                      *)
THEOREM MailsNotBurnt == Spec => []MailNotBurnt
<1>1. IInv => MailNotBurnt
  BY DEF IInv
<1> QED BY <1>1, QueuesInductive, PTL

=============================================================================
