------------------------------ MODULE PlanEdits ------------------------------
(***************************************************************************)
(* A trainer's plan for one cohort and the edits the staff propose to it:   *)
(* the trainer saves and submits the plan, the staff return, postpone or    *)
(* approve it (cohort-plan.service); the staff upload edits as cards,       *)
(* review and withdraw them, and the trainer accepts or rejects each        *)
(* (plan-edit.service, term-clash.service).                                 *)
(*                                                                         *)
(* A spot is one thing an edit changes: a field of the plan's content, or   *)
(* the date of a session, a row of its own.  A text is what stands in it.   *)
(* Content is one JSON column: whoever writes a field writes them all, as   *)
(* he read them.  A strand serves one request at a time; only updates with  *)
(* a condition on the status test it again as they write.                   *)
(***************************************************************************)
EXTENDS Integers, FiniteSets, FiniteSetsExt

CONSTANTS
  Content,     \* the spots of a plan's content
  Period,      \* the one that holds the plan's dates
  Placed,      \* those that say where a recorded lesson sits
  Rows,        \* the spots that are sessions
  Edits,       \* what a card may say
  Touches,     \* the spots each of them changes
  Schedules,   \* those that move a whole schedule
  Note,        \* a reviewer's note, an edit that changes nothing
  Typed,       \* texts the trainer writes himself
  Origin,      \* what stands in every spot at first
  Strands,     \* requests under way at one time
  MaxPlans,    \* bound: plans of the cohort
  MaxCards,    \* bound: cards
  MaxRequests, \* bound: requests
  MaxFaults,   \* bound: calls that fail in the middle of an edit
  MaxCrashes,  \* bound: requests cut short
  None

Spots == Content \cup Rows
Texts == {Origin} \cup Edits \cup Typed
Plans == 1..MaxPlans
Cards == 1..MaxCards

ASSUME SpotsAssumption ==
  /\ Period \in Content \ Placed /\ Placed \subseteq Content /\ Content \cap Rows = {}
  /\ Note \in Edits /\ Schedules \subseteq Edits
  /\ Touches \in [Edits -> SUBSET Spots] /\ Touches[Note] = {}
  /\ \A e \in Edits : Touches[e] \cap Rows # {} => e \in Schedules \/ Touches[e] \cap Content = {}
ASSUME BoundsAssumption ==
  /\ MaxPlans \in Nat \ {0} /\ MaxCards \in Nat /\ MaxRequests \in Nat
  /\ MaxFaults \in Nat /\ MaxCrashes \in Nat
  /\ None \notin Texts

VARIABLES
  made,       \* plans written so far, in the order of createdAt
  status,     \* CohortDeliveryPlan.status
  postponed,  \* plans with a postponedTo
  owed,       \* returned plans whose notes are not cards yet
  content,    \* CohortDeliveryPlan.content
  row,        \* CohortSession.startsAt
  announced,  \* Cohort.startsAt and endsAt, which learners read
  card,       \* PlanEditSuggestion.status
  on,         \* PlanEditSuggestion.planId
  edit,       \* PlanEditSuggestion.edit
  was,        \* PlanEditSuggestion.before
  done,       \* times a card was carried out to the end
  wrote,      \* the spots a card has written and not put back
  kept,       \* those of them that the undoing of a failed attempt was refused
  cut,        \* cards whose application was cut short
  orderly,    \* no request has been cut short, or written after another one's step
  job,        \* what each strand is doing
  requests, faults, crashes

plans   == <<made, status, postponed, owed, content>>
cards   == <<card, on, edit, was>>
history == <<done, wrote, kept, cut>>
bounds  == <<requests, faults, crashes>>
vars    == <<made, status, postponed, owed, content, row, announced, card, on, edit, was, done, wrote,
             kept, cut, orderly, job, requests, faults, crashes>>

PlanStatus == {"none", "draft", "submitted", "changes_requested", "approved", "superseded"}
CardStatus == {"none", "proposed", "dropped", "pending", "accepted", "rejected", "withdrawn", "lapsed"}
InHand     == {"draft", "changes_requested"}
Undecided  == {"proposed", "pending"}
Places     == {"idle", "place", "store", "submit", "return", "notes", "approve", "announce", "lapse",
               "postpone", "upload", "claim", "write", "direct", "rows", "unrow", "revert"}

\* door: whose call a strand's writing of content is.  plan, seen: the plan a strand
\* goes by, and the content of the visible one.  look: what it read of all spots.
\* page: the content it will write; fresh: in a new plan; enough: once the placements
\* are written there is nothing else to write.  alone: no other strand has made a step
\* since this one began.
Job == [at : Places, door : {"none", "page", "accept", "undo", "staff"}, plan : 0..MaxPlans,
        vis : 0..MaxPlans, seen : [Content -> Texts \cup {None}], look : [Spots -> Texts \cup {None}],
        page : [Content -> Texts \cup {None}], fresh : BOOLEAN, enough : BOOLEAN, alone : BOOLEAN,
        card : 0..MaxCards, edit : Edits \cup {None}, gone : SUBSET Cards, direct : BOOLEAN,
        force : BOOLEAN, noted : BOOLEAN, left : SUBSET Rows, old : Texts \cup {None}]

Nothing(S) == [x \in S |-> None]
Idle == [at |-> "idle", door |-> "none", plan |-> 0, vis |-> 0, seen |-> Nothing(Content),
         look |-> Nothing(Spots), page |-> Nothing(Content), fresh |-> FALSE, enough |-> FALSE,
         alone |-> TRUE, card |-> 0, edit |-> None, gone |-> {}, direct |-> FALSE, force |-> FALSE,
         noted |-> FALSE, left |-> {}, old |-> None]

TypeOK ==
  /\ made      \in Plans
  /\ status    \in [Plans -> PlanStatus] /\ \A p \in Plans : status[p] = "none" <=> p > made
  /\ postponed \subseteq Plans /\ owed \subseteq Plans
  /\ content   \in [Plans -> [Content -> Texts]]
  /\ row       \in [Rows -> Texts]
  /\ announced \in Texts
  /\ card      \in [Cards -> CardStatus]
  /\ on        \in [Cards -> 0..MaxPlans] /\ \A c \in Cards : card[c] = "none" <=> on[c] = 0
  /\ edit      \in [Cards -> Edits \cup {None}]
  /\ was       \in [Cards -> [Spots -> Texts \cup {None}]]
  /\ done      \in [Cards -> Nat]
  /\ wrote     \in [Cards -> SUBSET Spots]
  /\ kept      \in [Cards -> SUBSET Spots]
  /\ cut       \subseteq Cards
  /\ orderly   \in BOOLEAN
  /\ job       \in [Strands -> Job]
  /\ requests \in 0..MaxRequests /\ faults \in 0..MaxFaults /\ crashes \in 0..MaxCrashes

\* The cohort's first plan, a draft or one that was approved.
Init ==
  /\ made      = 1
  /\ \E st \in {"draft", "approved"} : status = [p \in Plans |-> IF p = 1 THEN st ELSE "none"]
  /\ postponed = {} /\ owed = {}
  /\ content   = [p \in Plans |-> [x \in Content |-> Origin]]
  /\ row       = [x \in Rows |-> Origin]
  /\ announced = Origin
  /\ card      = [c \in Cards |-> "none"]
  /\ on        = [c \in Cards |-> 0]
  /\ edit      = [c \in Cards |-> None]
  /\ was       = [c \in Cards |-> Nothing(Spots)]
  /\ done      = [c \in Cards |-> 0]
  /\ wrote     = [c \in Cards |-> {}]
  /\ kept      = [c \in Cards |-> {}]
  /\ cut       = {}
  /\ orderly   = TRUE
  /\ job       = [s \in Strands |-> Idle]
  /\ requests = 0 /\ faults = 0 /\ crashes = 0

----------------------------------------------------------------------------
(* Helpers *)

At(s, place) == job[s].at = place

\* Strand s has written and goes on as j; the others are no longer alone.
Overtaken(j) == IF j.at = "idle" THEN j ELSE [j EXCEPT !.alone = FALSE]
Wrote(s, j) ==
  /\ job' = [r \in Strands |-> IF r = s THEN j ELSE Overtaken(job[r])]
  /\ orderly' = (orderly /\ job[s].alone)
Read(s, j) == job' = [job EXCEPT ![s] = j] /\ UNCHANGED orderly

Count       == requests < MaxRequests /\ requests' = requests + 1
Begin(s, j) == At(s, "idle") /\ Count /\ Read(s, j)
\* A request that is one conditional update.
Pass        == Count /\ job' = [r \in Strands |-> Overtaken(job[r])] /\ UNCHANGED orderly

Approved(p) == status[p] = "approved"
\* latestTrainerPlan is the plan made last; the visible one the last approved.
Visible == IF \E p \in Plans : Approved(p) THEN Max({p \in Plans : Approved(p)}) ELSE 0

Look(p)       == [x \in Spots |-> IF x \in Content THEN content[p][x] ELSE row[x]]
Snapshot(e, l) == [x \in Spots |-> IF x \in Touches[e] THEN l[x] ELSE None]
Stale_SessionsOnly(c, l) == \E x \in Touches[edit[c]] \cap Rows : l[x] # was[c][x]
Stale(c, l)   == \E x \in Touches[edit[c]] : l[x] # was[c][x]

CardsOn(p, S)  == {c \in Cards : on[c] = p /\ card[c] \in S}
Overlap(e, f)  == Touches[e] \cap Touches[f] # {}
Free           == {c \in Cards : card[c] = "none"}
Settle(S, st)  == [c \in Cards |-> IF c \in S THEN st ELSE card[c]]

Create_OnNoPlan(st, p, e, state, snapshot) ==
  LET c == Min(Free) IN
  /\ Free # {}
  /\ card' = [st EXCEPT ![c] = state]
  /\ edit' = [edit EXCEPT ![c] = e]
  /\ was'  = [was EXCEPT ![c] = snapshot]
  /\ UNCHANGED on
\* createMany, of one card: st is what the cards are before it.
Create(st, p, e, state, snapshot) ==
  LET c == Min(Free) IN
  /\ Free # {}
  /\ card' = [st EXCEPT ![c] = state]
  /\ on'   = [on EXCEPT ![c] = p]
  /\ edit' = [edit EXCEPT ![c] = e]
  /\ was'  = [was EXCEPT ![c] = snapshot]

----------------------------------------------------------------------------
(* The trainer saves: savePlan, called by his page, an accepted card, or the *)
(* undoing of one.                                                           *)

\* How a strand goes on that has done with the content of the plan.
AfterContent(j) ==
  CASE j.door = "page"   -> Idle
    [] j.door = "accept" -> [j EXCEPT !.at = "rows"]
    [] j.door = "undo"   -> [j EXCEPT !.at = "revert"]

\* What a card has written once its content is written, or put back.
WroteContent(s) ==
  LET j == job[s]
      w == Content \cap Touches[j.edit]
  IN wrote' = CASE j.door = "accept" -> [wrote EXCEPT ![j.card] = @ \cup w]
                [] j.door = "undo"   -> [wrote EXCEPT ![j.card] = @ \ (w \ kept[j.card])]
                [] OTHER             -> wrote

\* How savePlan goes on with what it reads now.  The place of a recorded lesson
\* takes effect in the visible plan at once; what is left is for a draft.
SavePlan(j, page) ==
  LET v      == Visible
      placed == [x \in Content |-> IF x \in Placed THEN page[x] ELSE content[v][x]]
      moves  == v # 0 /\ placed # content[v]
      inHand == status[made] \in InHand
      enough == \/ moves /\ v = made /\ placed = page
                \/ ~inHand /\ content[made] = page
      next   == [j EXCEPT !.plan = made, !.page = page, !.fresh = ~inHand, !.enough = enough]
  IN CASE moves             -> [next EXCEPT !.at = "place", !.vis = v, !.seen = placed]
       [] ~moves /\ enough  -> AfterContent(next)
       [] ~moves /\ ~enough -> [next EXCEPT !.at = "store"]

Save(s) ==
  /\ status[made] # "submitted"
  /\ status[made] \in InHand \/ made < MaxPlans
  /\ \E x \in Content, t \in Typed :
       /\ content[made][x] # t
       /\ Begin(s, SavePlan([Idle EXCEPT !.door = "page"], [content[made] EXCEPT ![x] = t]))
  /\ UNCHANGED <<plans, row, announced, cards, history, faults, crashes>>

Place(s) ==
  LET j == job[s] IN
  /\ At(s, "place")
  /\ content' = [content EXCEPT ![j.vis] = j.seen]
  /\ Wrote(s, IF j.enough THEN AfterContent(j) ELSE [j EXCEPT !.at = "store"])
  /\ IF j.enough THEN WroteContent(s) ELSE UNCHANGED wrote
  /\ UNCHANGED <<made, status, postponed, owed, row, announced, cards, done, kept, cut, bounds>>

\* A plan in hand is written by its id; else a draft is made, and takes along the
\* cards that wait for the trainer.
Store(s) ==
  LET j == job[s] IN
  /\ At(s, "store")
  /\ IF j.fresh
     THEN /\ made < MaxPlans
          /\ made'    = made + 1
          /\ status'  = [status EXCEPT ![made + 1] = "draft"]
          /\ content' = [content EXCEPT ![made + 1] = j.page]
          /\ on'      = [c \in Cards |-> IF c \in CardsOn(j.plan, {"pending"}) THEN made + 1 ELSE on[c]]
     ELSE /\ content' = [content EXCEPT ![j.plan] = j.page]
          /\ UNCHANGED <<made, status, on>>
  /\ WroteContent(s)
  /\ Wrote(s, AfterContent(j))
  /\ UNCHANGED <<postponed, owed, row, announced, card, edit, was, done, kept, cut, bounds>>

\* trainerMoveSession, called by the trainer himself.
MoveByHand ==
  /\ \E x \in Rows, t \in Typed : row[x] # t /\ row' = [row EXCEPT ![x] = t]
  /\ Pass
  /\ UNCHANGED <<plans, announced, cards, history, faults, crashes>>

----------------------------------------------------------------------------
(* The trainer submits, the staff decide. *)

Submit(s) ==
  /\ status[made] \notin {"submitted", "approved"}
  /\ Begin(s, [Idle EXCEPT !.at = "submit", !.door = "page", !.plan = made])
  /\ UNCHANGED <<plans, row, announced, cards, history, faults, crashes>>

SubmitWrites(s) ==
  /\ At(s, "submit")
  /\ status' = [status EXCEPT ![job[s].plan] = "submitted"]
  /\ Wrote(s, Idle)
  /\ UNCHANGED <<made, postponed, owed, content, row, announced, cards, history, bounds>>

\* decide, approve = false: with notes, or with edits for all notes.
Return(s) ==
  /\ \E p \in Plans, noted \in BOOLEAN :
       /\ status[p] = "submitted"
       /\ noted \/ \E c \in CardsOn(p, {"pending"}) : edit[c] # Note
       /\ Begin(s, [Idle EXCEPT !.at = "return", !.door = "staff", !.plan = p, !.noted = noted])
  /\ UNCHANGED <<plans, row, announced, cards, history, faults, crashes>>

ReturnWrites(s) ==
  LET p == job[s].plan IN
  /\ At(s, "return")
  /\ status' = [status EXCEPT ![p] = "changes_requested"]
  /\ owed'   = IF job[s].noted THEN owed \cup {p} ELSE owed \ {p}
  /\ Wrote(s, [job[s] EXCEPT !.at = "notes"])
  /\ UNCHANGED <<made, postponed, content, row, announced, cards, history, bounds>>

\* ensureNoteItems, under a lock: once for each return.
EnsureNotes(p) ==
  IF p \in owed /\ status[p] = "changes_requested"
  THEN Create(card, p, Note, "pending", Nothing(Spots)) /\ owed' = owed \ {p}
  ELSE UNCHANGED <<cards, owed>>

ReturnNotes(s) ==
  /\ At(s, "notes")
  /\ EnsureNotes(job[s].plan)
  /\ Wrote(s, Idle)
  /\ UNCHANGED <<made, status, postponed, content, row, announced, history, bounds>>

\* forCohort, by whoever reads the cards: it makes up for notes that are missing.
ReadCards ==
  /\ made \in owed /\ status[made] = "changes_requested"
  /\ EnsureNotes(made)
  /\ Pass
  /\ UNCHANGED <<made, status, postponed, content, row, announced, history, faults, crashes>>

\* decide, approve = true: what was submitted, or returned and not postponed.
Approve(s) ==
  /\ \E p \in Plans :
       /\ \/ status[p] = "submitted"
          \/ status[p] = "changes_requested" /\ p \notin postponed
       /\ Begin(s, [Idle EXCEPT !.at = "approve", !.door = "staff", !.plan = p, !.page = content[p]])
  /\ UNCHANGED <<plans, row, announced, cards, history, faults, crashes>>

\* The transaction: every other approved plan makes way, and the cards of others lapse.
ApproveWrites(s) ==
  LET p == job[s].plan IN
  /\ At(s, "approve")
  /\ status' = [q \in Plans |-> IF q = p THEN "approved"
                                ELSE IF Approved(q) THEN "superseded" ELSE status[q]]
  /\ card' = Settle({c \in Cards : on[c] # p /\ card[c] \in Undecided}, "lapsed")
  /\ owed' = owed \ {p}
  /\ Wrote(s, [job[s] EXCEPT !.at = "announce"])
  /\ UNCHANGED <<made, postponed, content, row, announced, on, edit, was, history, bounds>>

\* applyPeriod, of the content as read before the decision or as an accepted card
\* wrote it.
Announce(s) ==
  LET j == job[s] IN
  /\ At(s, "announce")
  /\ announced' = j.page[Period]
  /\ Wrote(s, IF j.door = "staff" THEN [j EXCEPT !.at = "lapse"] ELSE AfterContent(j))
  /\ UNCHANGED <<plans, row, cards, history, bounds>>

ApproveLapses_NotesOnly(s) ==
  /\ At(s, "lapse")
  /\ card' = Settle({c \in CardsOn(job[s].plan, {"pending"}) : edit[c] = Note}, "lapsed")
  /\ Wrote(s, Idle)
  /\ UNCHANGED <<plans, row, announced, on, edit, was, history, bounds>>

\* What never reached the trainer lapses, and the notes; the rest stays with him.
ApproveLapses(s) ==
  LET p == job[s].plan IN
  /\ At(s, "lapse")
  /\ card' = Settle(CardsOn(p, {"proposed"}) \cup {c \in CardsOn(p, {"pending"}) : edit[c] = Note}, "lapsed")
  /\ Wrote(s, Idle)
  /\ UNCHANGED <<plans, row, announced, on, edit, was, history, bounds>>

\* A cohort that had a plan approved is not postponed.
Postpone(s) ==
  /\ \A p \in Plans : status[p] \notin {"approved", "superseded"}
  /\ \E p \in Plans, noted \in BOOLEAN :
       /\ status[p] = "submitted"
       /\ Begin(s, [Idle EXCEPT !.at = "postpone", !.door = "staff", !.plan = p, !.noted = noted])
  /\ UNCHANGED <<plans, row, announced, cards, history, faults, crashes>>

PostponeWrites(s) ==
  LET p == job[s].plan IN
  /\ At(s, "postpone")
  /\ status'    = [status EXCEPT ![p] = "changes_requested"]
  /\ postponed' = postponed \cup {p}
  /\ owed'      = IF job[s].noted THEN owed \cup {p} ELSE owed \ {p}
  /\ Wrote(s, Idle)
  /\ UNCHANGED <<made, content, row, announced, cards, history, bounds>>

----------------------------------------------------------------------------
(* The staff upload, review and withdraw cards. *)

\* What was proposed on the plan before, and not withdrawn, is not proposed again.
New(p, e) == \A c \in CardsOn(p, CardStatus \ {"none", "withdrawn", "lapsed"}) : edit[c] # e

Reading(p, e, direct) ==
  [Idle EXCEPT !.at = "upload", !.door = "staff", !.plan = p, !.edit = e, !.direct = direct, !.look = Look(p),
               !.gone = {c \in CardsOn(p, Undecided) : Overlap(edit[c], e)}]

Upload(s) ==
  /\ \E p \in Plans, e \in Edits \ {Note} :
       /\ status[p] \in InHand \cup {"submitted"}
       /\ New(p, e) /\ Free # {}
       /\ Begin(s, Reading(p, e, FALSE))
  /\ UNCHANGED <<plans, row, announced, cards, history, faults, crashes>>

\* proposeClashFree: on the cohort's last plan, also when it is approved, and never
\* over a card nobody has decided.
SendClashFree(s) ==
  /\ status[made] \in InHand \cup {"approved"}
  /\ \E e \in Schedules :
       /\ \A c \in CardsOn(made, Undecided) : edit[c] \notin Schedules /\ ~Overlap(edit[c], e)
       /\ New(made, e) /\ Free # {}
       /\ Begin(s, Reading(made, e, TRUE))
  /\ UNCHANGED <<plans, row, announced, cards, history, faults, crashes>>

\* The newer card takes the place of those it overlaps that are still undecided.
UploadWrites(s) ==
  LET j == job[s] IN
  /\ At(s, "upload")
  /\ Create(Settle({c \in j.gone : card[c] \in Undecided}, "withdrawn"), j.plan, j.edit,
            IF j.direct THEN "pending" ELSE "proposed", Snapshot(j.edit, j.look))
  /\ Wrote(s, Idle)
  /\ UNCHANGED <<plans, row, announced, history, bounds>>

Review ==
  /\ \E c \in Cards, to \in {"pending", "dropped"} : card[c] = "proposed" /\ card' = Settle({c}, to)
  /\ Pass
  /\ UNCHANGED <<plans, row, announced, on, edit, was, history, faults, crashes>>

ReviewAll ==
  /\ \E p \in Plans : /\ CardsOn(p, {"proposed"}) # {}
                      /\ card' = Settle(CardsOn(p, {"proposed"}), "pending")
  /\ Pass
  /\ UNCHANGED <<plans, row, announced, on, edit, was, history, faults, crashes>>

Withdraw ==
  /\ \E p \in Plans : /\ CardsOn(p, Undecided) # {}
                      /\ card' = Settle(CardsOn(p, Undecided), "withdrawn")
  /\ Pass
  /\ UNCHANGED <<plans, row, announced, on, edit, was, history, faults, crashes>>

----------------------------------------------------------------------------
(* The trainer decides about a card. *)

Reject ==
  /\ \E c \in Cards : card[c] = "pending" /\ card' = Settle({c}, "rejected")
  /\ Pass
  /\ UNCHANGED <<plans, row, announced, on, edit, was, history, faults, crashes>>

\* On the approved plan he goes by, a card is written directly.  A stale one is
\* accepted only by force.
Accept(s) ==
  /\ \E c \in Cards :
       LET direct == on[c] = made /\ Approved(made) IN
       /\ card[c] = "pending"
       /\ direct \/ status[made] \in InHand
       /\ Begin(s, [Idle EXCEPT !.at = "claim", !.door = "accept", !.plan = made, !.card = c, !.edit = edit[c],
                                !.direct = direct, !.look = Look(made), !.force = Stale(c, Look(made)),
                                !.left = Touches[edit[c]] \cap Rows])
  /\ UNCHANGED <<plans, row, announced, cards, history, faults, crashes>>

Claim_ByIdAlone(s) ==
  LET j == job[s] IN
  /\ At(s, "claim")
  /\ card' = Settle({j.card}, "accepted")
  /\ Wrote(s, [j EXCEPT !.at = IF Touches[j.edit] \cap Content = {} THEN "rows" ELSE "write"])
  /\ UNCHANGED <<plans, row, announced, on, edit, was, history, bounds>>

Claim(s) ==
  LET j == job[s] IN
  /\ At(s, "claim")
  /\ IF card[j.card] = "pending"
     THEN /\ card' = Settle({j.card}, "accepted")
          /\ Wrote(s, [j EXCEPT !.at = IF Touches[j.edit] \cap Content = {} THEN "rows" ELSE "write"])
     ELSE /\ Read(s, Idle)
          /\ UNCHANGED card
  /\ UNCHANGED <<plans, row, announced, on, edit, was, history, bounds>>

\* The undoing of what an attempt wrote of the content is refused, or breaks down.
KeepsContent(j) == kept' = [kept EXCEPT ![j.card] = @ \cup (Content \cap Touches[j.edit])]

\* writeContent: with the edit, or with what stood there before.  It refuses a plan
\* that is submitted, or no longer approved.
WriteContent(s) ==
  LET j    == job[s]
      page == [x \in Content |-> IF j.door = "accept" /\ x \in Touches[j.edit] THEN j.edit ELSE j.look[x]]
      fits == IF j.direct THEN Approved(j.plan) ELSE status[made] # "submitted"
      next == IF j.direct THEN [j EXCEPT !.at = "direct", !.page = page, !.old = content[j.plan][Period]]
                          ELSE SavePlan(j, page)
  IN
  /\ At(s, "write")
  /\ Read(s, IF fits THEN next ELSE [j EXCEPT !.at = "revert"])
  /\ IF fits /\ next.at \in {"rows", "revert"} THEN WroteContent(s) ELSE UNCHANGED wrote
  /\ IF fits \/ j.door = "accept" THEN UNCHANGED kept ELSE KeepsContent(j)
  /\ UNCHANGED <<plans, row, announced, cards, done, cut, bounds>>


\* writeApprovedContent; the dates are announced when they have changed.
DirectWrites(s) ==
  LET j == job[s] IN
  /\ At(s, "direct")
  /\ content' = [content EXCEPT ![j.plan] = j.page]
  /\ WroteContent(s)
  /\ Wrote(s, IF j.page[Period] # j.old THEN [j EXCEPT !.at = "announce"] ELSE AfterContent(j))
  /\ UNCHANGED <<made, status, postponed, owed, row, announced, cards, done, kept, cut, bounds>>

WriteRow(s) ==
  LET j == job[s] IN
  /\ At(s, "rows")
  /\ \E x \in j.left :
       /\ row'   = [row EXCEPT ![x] = j.edit]
       /\ wrote' = [wrote EXCEPT ![j.card] = @ \cup {x}]
       /\ Wrote(s, [j EXCEPT !.left = @ \ {x}])
  /\ UNCHANGED <<plans, announced, cards, done, kept, cut, bounds>>

EndAccept(s) ==
  /\ At(s, "rows") /\ job[s].left = {}
  /\ done' = [done EXCEPT ![job[s].card] = @ + 1]
  /\ Read(s, Idle)
  /\ UNCHANGED <<plans, row, announced, cards, wrote, kept, cut, bounds>>

\* The rows an attempt has moved.
Moved(j) == (Touches[j.edit] \cap Rows) \ j.left

\* What the attempt has written is undone, the last first.
Undo(j) ==
  CASE Moved(j) # {} -> [j EXCEPT !.at = "unrow", !.door = "undo"]
    [] Moved(j) = {} /\ Touches[j.edit] \cap Content # {} -> [j EXCEPT !.at = "write", !.door = "undo"]
    [] Moved(j) = {} /\ Touches[j.edit] \cap Content = {} -> [j EXCEPT !.at = "revert"]

\* A call refuses or breaks down before it has written anything; of a schedule also one
\* that comes after all its rows.
FailApply(s) ==
  LET j == job[s] IN
  /\ faults < MaxFaults
  /\ faults' = faults + 1
  /\ \/ At(s, "write") /\ j.door = "accept" /\ Read(s, [j EXCEPT !.at = "revert"]) /\ UNCHANGED kept
     \/ At(s, "write") /\ j.door = "undo" /\ Read(s, [j EXCEPT !.at = "revert"]) /\ KeepsContent(j)
     \/ /\ At(s, "rows") /\ (j.left # {} \/ j.edit \in Schedules)
        /\ Read(s, Undo(j)) /\ UNCHANGED kept
  /\ UNCHANGED <<plans, row, announced, cards, done, wrote, cut, requests, crashes>>

\* The door a row was moved through may refuse the way back (the window is another now,
\* its time has passed, another session of the trainer stands there): the row stays, and
\* the next is undone.
UndoRow(s) ==
  LET j == job[s] IN
  /\ At(s, "unrow")
  /\ \E x \in Moved(j) :
       LET next == Undo([j EXCEPT !.left = @ \cup {x}]) IN
       \/ /\ row'   = [row EXCEPT ![x] = j.look[x]]
          /\ wrote' = [wrote EXCEPT ![j.card] = @ \ ({x} \ kept[j.card])]
          /\ Wrote(s, next)
          /\ UNCHANGED kept
       \/ /\ kept' = [kept EXCEPT ![j.card] = @ \cup {x}]
          /\ Read(s, next)
          /\ UNCHANGED <<row, wrote>>
  /\ UNCHANGED <<plans, announced, cards, done, cut, bounds>>

Revert(s) ==
  /\ At(s, "revert")
  /\ card' = Settle({job[s].card}, "pending")
  /\ Wrote(s, Idle)
  /\ UNCHANGED <<plans, row, announced, on, edit, was, history, bounds>>

----------------------------------------------------------------------------
\* A strand has claimed its card and not let it go.
Working(s, c) == job[s].card = c /\ job[s].at \notin {"idle", "claim"}

\* A request is cut short between two of its steps; nothing comes back to it.
Crash(s) ==
  /\ ~At(s, "idle") /\ crashes < MaxCrashes
  /\ crashes' = crashes + 1
  /\ cut' = cut \cup {c \in Cards : Working(s, c)}
  /\ job' = [job EXCEPT ![s] = Idle]
  /\ orderly' = FALSE
  /\ UNCHANGED <<plans, row, announced, cards, done, wrote, kept, requests, faults>>

TrainerStep(s) ==
  \/ Save(s) \/ Place(s) \/ Store(s) \/ Submit(s) \/ SubmitWrites(s)
  \/ Accept(s) \/ Claim(s) \/ WriteContent(s) \/ DirectWrites(s) \/ WriteRow(s) \/ EndAccept(s)
  \/ FailApply(s) \/ UndoRow(s) \/ Revert(s)
StaffStep(s) ==
  \/ Return(s) \/ ReturnWrites(s) \/ ReturnNotes(s) \/ Postpone(s) \/ PostponeWrites(s)
  \/ Approve(s) \/ ApproveWrites(s) \/ Announce(s) \/ ApproveLapses(s)
  \/ Upload(s) \/ SendClashFree(s) \/ UploadWrites(s)
Next ==
  \/ MoveByHand \/ ReadCards \/ Review \/ ReviewAll \/ Withdraw \/ Reject
  \/ \E s \in Strands : TrainerStep(s) \/ StaffStep(s) \/ Crash(s)

Spec == Init /\ [][Next]_vars

----------------------------------------------------------------------------
(* Properties *)

\* An accepted card is carried out once, and wholly; one that is not accepted never is,
\* and of what its failed attempts wrote all is put back but what an undoing was refused,
\* call by call.  Two clicks, a withdrawal, a newer upload or another request at the same
\* moment do not change this (plan-edit 535, 642, 680).
CardActsOnce ==
  \A c \in Cards : c \notin cut /\ (\A s \in Strands : ~Working(s, c)) =>
    IF card[c] = "accepted" THEN done[c] = 1 /\ wrote[c] = Touches[edit[c]]
    ELSE done[c] = 0 /\ wrote[c] = kept[c]

\* What applySchedule says of itself: the whole schedule or nothing of it.
WholeOrNothing ==
  \A c \in Cards : c \notin cut /\ (\A s \in Strands : ~Working(s, c)) /\ card[c] # "accepted" =>
    wrote[c] = {}

\* Nothing the trainer wrote is overwritten without his knowing: a card overwrites
\* what stood there when it was uploaded, whatever has happened to the plan, and to
\* the card, since; or he forced it.  What the card does not name stays
\* (plan-edit, limit 2).
NoSilentOverwrite ==
  [][\A s \in Strands :
       LET j == job[s]
           c == j.card
           p == IF j.at = "direct" THEN j.plan ELSE made
       IN j.alone /\ j.door = "accept" /\ j.at \in {"store", "direct", "rows"} /\ wrote'[c] # wrote[c] =>
            /\ ~j.force => \A x \in wrote'[c] \ wrote[c] : Look(p)[x] = was[c][x]
            /\ \A x \in Content \ Touches[edit[c]] : content'[p][x] = content[p][x]
            /\ \A x \in Rows \ Touches[edit[c]] : row'[x] = row[x]
    ]_vars

\* Learners read one approved plan, and one remains once a plan was approved; the
\* dates they are told are its dates, and a recorded lesson sits where the trainer
\* put it last (cohort-plan 951, 1045, 1459, 1481).
Quiet == orderly /\ \A s \in Strands : job[s].at \notin {"place", "store", "announce", "lapse"}

\* A card nobody has decided is on the plan the trainer works on, and the trainer of
\* an approved plan is not kept from cards the staff have still to review: else it
\* would never be seen again (cohort-plan 987, 1466, 1491).
UndecidedSeen ==
  Quiet => \A c \in Cards : /\ card[c] \in Undecided => on[c] = made
                            /\ card[c] = "proposed" => ~Approved(on[c])

=============================================================================
