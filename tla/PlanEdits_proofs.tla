-------------------------- MODULE PlanEdits_proofs --------------------------
(***************************************************************************)
(* Proofs about PlanEdits, for any plans, cards and spots, any edits, any   *)
(* requests at once, any number of faults and of crashes.                   *)
(***************************************************************************)
EXTENDS PlanEdits, WellFoundedInduction, TLAPS

----------------------------------------------------------------------------
(* The inductive invariant, part by part. *)

\* A strand that has an accepted card in hand, or a card it is about to accept.
Owned(j)  == j.door \in {"accept", "undo"}
Accepts(j) == j.door = "accept"
OwnPlaces == {"claim", "write", "place", "store", "direct", "announce", "rows", "unrow", "revert"}
Busy      == {"place", "store", "announce", "lapse"}

\* Whose call brings a strand to which place.
DoorFits(j) ==
  /\ j.at = "idle" <=> j.door = "none"
  /\ j.at = "idle" => j.alone
  /\ Owned(j) => j.at \in OwnPlaces
  /\ j.door = "page" => j.at \in {"submit", "place", "store"}
  /\ j.at \in {"claim", "rows"} => j.door = "accept"
  /\ j.at = "unrow" => j.door = "undo"
  /\ j.at \in {"write", "direct", "revert"} => Owned(j)
  /\ j.at \in {"place", "store"} => (Owned(j) \/ j.door = "page") /\ ~j.direct
  /\ j.at = "announce" => Owned(j) \/ j.door = "staff"
  /\ j.at = "direct" => j.direct
  /\ j.card \in Cards <=> Owned(j)

\* What a strand carries is filled in before it is used.
Filled(j) ==
  /\ j.at # "idle" => j.plan \in Plans /\ j.plan <= made
  /\ j.at \in {"place", "store", "direct", "announce", "approve"} => j.page \in [Content -> Texts]
  /\ j.at = "place" => j.vis \in Plans /\ j.seen \in [Content -> Texts]
  /\ Owned(j) \/ j.at = "upload" => j.look \in [Spots -> Texts] /\ j.edit \in Edits
  /\ Owned(j) => /\ card[j.card] # "none" /\ j.edit = edit[j.card]
                 /\ j.left \subseteq Touches[j.edit] \cap Rows

Carried == \A s \in Strands : DoorFits(job[s]) /\ Filled(job[s])

CardsKnown ==
  \A c \in Cards :
    /\ card[c] # "none" => edit[c] \in Edits /\ wrote[c] \subseteq Touches[edit[c]]
    /\ card[c] = "none" => wrote[c] = {} /\ done[c] = 0

OneApproved == \A p, q \in Plans : Approved(p) /\ Approved(q) => p = q

TInv == TypeOK /\ Carried /\ CardsKnown /\ OneApproved

\* How far the strand that carries a card out, or undoes it, has come: what the card
\* has written besides what an earlier undoing left.
Underway(s) ==
  LET j == job[s]
      w == wrote[j.card]
      K == kept[j.card]
      C == Touches[j.edit] \cap Content
      R == Touches[j.edit] \cap Rows
  IN /\ card[j.card] = "accepted" /\ done[j.card] = 0
     /\ j.at \in {"write", "place", "store", "direct", "announce"} => j.left = R
     /\ j.at \in {"write", "place", "store", "direct"} => w = IF Accepts(j) THEN K ELSE K \cup C
     /\ j.at = "announce" => w = IF Accepts(j) THEN K \cup C ELSE K
     /\ j.at \in {"rows", "unrow"} => w = K \cup C \cup (R \ j.left)
     /\ j.at = "revert" => w = K

Works ==
  /\ \A s \in Strands : \A c \in Cards : Working(s, c) => Underway(s)
  /\ \A s \in Strands : At(s, "claim") => job[s].left = Touches[job[s].edit] \cap Rows

\* A card is one strand's to carry out, and nobody's once that strand was cut short.
OneWorks ==
  /\ \A s, r \in Strands : \A c \in Cards : Working(s, c) /\ Working(r, c) => s = r
  /\ \A c \in cut : card[c] = "accepted" /\ \A s \in Strands : ~Working(s, c)

NotAccepted == \A c \in Cards : card[c] # "accepted" => done[c] = 0 /\ wrote[c] = kept[c]

\* What the strand of a card finds when nobody came in between: the plan it was
\* accepted on, and the spots it has not written as it read them.
Undisturbed(j) ==
  /\ IF j.direct THEN j.plan = made /\ Approved(made) ELSE status[made] \in InHand
  /\ j.at \in {"place", "store"} => j.plan = made /\ ~j.fresh
  /\ Accepts(j) /\ j.at \in {"claim", "write", "place", "store", "direct"} =>
       \A x \in Content : content[made][x] = j.look[x]
  /\ Accepts(j) /\ j.at = "place" => j.vis # made
  /\ Accepts(j) => \A x \in j.left : row[x] = j.look[x]

\* What it read is what it takes the card to be about, whatever comes in between.
Foreseen(j) ==
  /\ ~j.force => \A x \in Touches[j.edit] : j.look[x] = was[j.card][x]
  /\ j.at \in {"place", "store", "direct"} => \A x \in Content \ Touches[j.edit] : j.page[x] = j.look[x]

CalmFor(j) ==
  /\ Owned(j) /\ j.alone => Undisturbed(j)
  /\ Accepts(j) => Foreseen(j)

Calm == \A s \in Strands : CalmFor(job[s])

\* Nothing was cut short or written out of turn, nor is about to be.
Sound == orderly /\ \A s \in Strands : job[s].at \in Busy => job[s].alone

\* Plans before the last are settled, and one stays approved.
OlderSettled ==
  /\ \A p \in Plans : p < made => status[p] \in {"approved", "superseded"}
  /\ status[made] # "superseded"
  /\ (\E p \in Plans : status[p] = "superseded") => \E p \in Plans : Approved(p)

UndecidedLast == \A c \in Cards : card[c] \in Undecided => on[c] = made

\* What holds, but while a strand is on its way to mend it.
Told == \A p \in Plans : Approved(p) => announced = content[p][Period]
Sits == \A p \in Plans : Approved(p) => \A x \in Placed : content[made][x] = content[p][x]
Open == \A c \in Cards : card[c] = "proposed" => ~Approved(on[c])
Tells(j)   == j.at = "announce"
Stores(j)  == j.at = "store"
Reviews(j) == j.door = "staff" /\ j.at \in {"announce", "lapse"}

Mended ==
  /\ (\A s \in Strands : ~Tells(job[s])) => Told
  /\ (\A s \in Strands : ~Stores(job[s])) => Sits
  /\ (\A s \in Strands : ~Reviews(job[s])) => Open

\* What a strand has read still holds, as nobody wrote since it began.
InTurn(j) ==
  /\ Owned(j) => on[j.card] = made
  /\ j.at = "submit" => j.plan = made /\ status[made] \notin {"submitted", "approved"}
  /\ j.at = "return" => status[j.plan] = "submitted"
  /\ j.at = "approve" => status[j.plan] \in {"submitted", "changes_requested"} /\ j.page = content[j.plan]
  /\ j.at = "announce" => Approved(j.plan) /\ j.page[Period] = content[j.plan][Period]
  /\ j.at \in {"announce", "lapse"} => j.plan = made
  /\ j.at = "postpone" => status[j.plan] = "submitted" /\ \A p \in Plans : status[p] \notin {"approved", "superseded"}
  /\ j.at = "upload" => j.plan = made /\ (~j.direct => ~Approved(made))
  /\ j.at = "direct" => j.old = content[j.plan][Period]
  /\ j.at \in {"place", "store"} => /\ j.plan = made /\ status[made] # "submitted"
                                    /\ j.fresh <=> status[made] \notin InHand
  /\ j.at = "place" => /\ Approved(j.vis)
                       /\ j.enough => j.vis = made \/ status[made] \notin InHand
                       /\ \A x \in Placed : j.seen[x] = j.page[x]
                       /\ \A x \in Content \ Placed : j.seen[x] = content[j.vis][x]
  /\ j.at = "store" => \A p \in Plans : Approved(p) => \A x \in Placed : content[p][x] = j.page[x]

Standing ==
  Sound => OlderSettled /\ UndecidedLast /\ Mended /\ \A s \in Strands : job[s].alone => InTurn(job[s])

AInv == Works /\ OneWorks /\ NotAccepted /\ CardActsOnce

IInv == TInv /\ AInv /\ Calm /\ Standing
----------------------------------------------------------------------------
(* What a strand carries from one step to the next. *)

\* The same request, about the same plan and card: all but its place, and how alone it is.
SameHand(k, j) ==
  /\ k.plan = j.plan /\ k.vis = j.vis /\ k.seen = j.seen /\ k.look = j.look /\ k.page = j.page
  /\ k.fresh = j.fresh /\ k.enough = j.enough /\ k.card = j.card /\ k.edit = j.edit /\ k.gone = j.gone
  /\ k.direct = j.direct /\ k.force = j.force /\ k.noted = j.noted /\ k.old = j.old

\* k goes on from j at a place, for a door.
GoesOn(k, j, a, d) ==
  k \in Job /\ SameHand(k, j) /\ k.at = a /\ k.door = d /\ k.left = j.left /\ k.alone = j.alone

\* A strand that makes no step: another one's may leave it overtaken.
Stays(r) ==
  /\ SameHand(job'[r], job[r]) /\ job'[r].at = job[r].at /\ job'[r].door = job[r].door
  /\ job'[r].left = job[r].left /\ (job'[r].alone => job[r].alone)
  /\ job[r].at = "idle" => job'[r] = job[r]

\* Nobody else is alone any more.
Passed(s) == \A r \in Strands \ {s} : Stays(r) /\ (job'[r].alone => job[r].at = "idle")

LEMMA IdleTyped ==
  /\ Idle \in Job /\ Idle.at = "idle" /\ Idle.door = "none" /\ Idle.plan = 0 /\ Idle.card = 0
  /\ Idle.left = {} /\ Idle.alone /\ ~Idle.direct
  BY BoundsAssumption DEF Idle, Job, Nothing, Places

LEMMA GoesOnAt ==
  ASSUME NEW j \in Job, NEW a \in Places
  PROVE  GoesOn([j EXCEPT !.at = a], j, a, j.door)
  BY DEF Job, GoesOn, SameHand

LEMMA GoesOnUndoing ==
  ASSUME NEW j \in Job, NEW a \in Places
  PROVE  GoesOn([j EXCEPT !.at = a, !.door = "undo"], j, a, "undo")
  BY DEF Job, GoesOn, SameHand

LEMMA OvertakenKeeps ==
  ASSUME NEW j \in Job
  PROVE  LET k == Overtaken(j) IN
         /\ k \in Job /\ SameHand(k, j) /\ k.at = j.at /\ k.door = j.door /\ k.left = j.left
         /\ (k.alone => j.alone /\ j.at = "idle") /\ (j.at = "idle" => k = j)
<1>1. CASE j.at = "idle"
  BY <1>1 DEF Overtaken, SameHand
<1>2. CASE j.at # "idle"
  <2>1. Overtaken(j) = [j EXCEPT !.alone = FALSE]
    BY <1>2 DEF Overtaken
  <2> QED BY <1>2, <2>1 DEF Job, SameHand
<1> QED BY <1>1, <1>2

\* A step by s that writes, with what s goes on as.
LEMMA WroteLeaves ==
  ASSUME job \in [Strands -> Job], NEW s \in Strands, NEW k \in Job, Wrote(s, k)
  PROVE  /\ job' \in [Strands -> Job] /\ job'[s] = k /\ Passed(s)
         /\ orderly' = (orderly /\ job[s].alone)
<1>1. job' = [r \in Strands |-> IF r = s THEN k ELSE Overtaken(job[r])] /\ orderly' = (orderly /\ job[s].alone)
  BY DEF Wrote
<1>2. \A r \in Strands : job[r] \in Job
  OBVIOUS
<1>3. \A r \in Strands : Overtaken(job[r]) \in Job
  BY <1>2, OvertakenKeeps
<1>4. job' \in [Strands -> Job] /\ job'[s] = k
  BY <1>1, <1>3
<1>5. ASSUME NEW r \in Strands \ {s}
      PROVE  Stays(r) /\ (job'[r].alone => job[r].at = "idle")
  <2>1. job'[r] = Overtaken(job[r])
    BY <1>1, <1>5
  <2> QED BY <1>2, <2>1, OvertakenKeeps DEF Stays
<1> QED BY <1>1, <1>4, <1>5 DEF Passed

LEMMA ReadLeaves ==
  ASSUME job \in [Strands -> Job], NEW s \in Strands, NEW k \in Job, job' = [job EXCEPT ![s] = k]
  PROVE  /\ job' \in [Strands -> Job] /\ job'[s] = k /\ \A r \in Strands \ {s} : job'[r] = job[r] /\ Stays(r)
  BY DEF Stays, SameHand

LEMMA PassLeaves ==
  ASSUME job \in [Strands -> Job], Pass
  PROVE  /\ job' \in [Strands -> Job] /\ orderly' = orderly
         /\ \A r \in Strands : Stays(r) /\ (job'[r].alone => job[r].at = "idle")
<1>1. job' = [r \in Strands |-> Overtaken(job[r])] /\ orderly' = orderly
  BY DEF Pass
<1>2. \A r \in Strands : job[r] \in Job
  OBVIOUS
<1>3. ASSUME NEW r \in Strands
      PROVE  Stays(r) /\ (job'[r].alone => job[r].at = "idle") /\ job'[r] \in Job
  <2>1. job'[r] = Overtaken(job[r])
    BY <1>1
  <2> QED BY <1>2, <2>1, OvertakenKeeps DEF Stays
<1>4. job' \in [Strands -> Job]
  BY <1>1, <1>3
<1> QED BY <1>1, <1>3, <1>4

\* The strand has done with the content.
Ended(k, j) ==
  /\ j.door = "page" => k = Idle
  /\ j.door = "accept" => GoesOn(k, j, "rows", "accept")
  /\ j.door = "undo" => GoesOn(k, j, "revert", "undo")

LEMMA AfterContentLeaves ==
  ASSUME NEW j \in Job, j.door \in {"page", "accept", "undo"}
  PROVE  AfterContent(j) \in Job /\ Ended(AfterContent(j), j)
<1>1. CASE j.door = "page"
  BY <1>1, IdleTyped DEF AfterContent, Ended
<1>2. CASE j.door = "accept"
  BY <1>2, GoesOnAt DEF AfterContent, Ended, Places, GoesOn
<1>3. CASE j.door = "undo"
  BY <1>3, GoesOnAt DEF AfterContent, Ended, Places, GoesOn
<1> QED BY <1>1, <1>2, <1>3

\* What is left to be undone.
LEMMA UndoLeaves ==
  ASSUME NEW j \in Job
  PROVE  /\ Undo(j) \in Job
         /\ Moved(j) # {} => GoesOn(Undo(j), j, "unrow", "undo")
         /\ Moved(j) = {} /\ Touches[j.edit] \cap Content # {} => GoesOn(Undo(j), j, "write", "undo")
         /\ Moved(j) = {} /\ Touches[j.edit] \cap Content = {} => GoesOn(Undo(j), j, "revert", j.door)
<1> DEFINE C == Touches[j.edit] \cap Content
<1>1. CASE Moved(j) # {}
  <2>1. Undo(j) = [j EXCEPT !.at = "unrow", !.door = "undo"]
    BY <1>1 DEF Undo
  <2>3. "unrow" \in Places
    BY DEF Places
  <2>4. GoesOn(Undo(j), j, "unrow", "undo")
    BY <2>1, <2>3, GoesOnUndoing
  <2>5. Undo(j) \in Job
    BY <2>4 DEF GoesOn
  <2> QED BY <1>1, <2>4, <2>5
<1>2. CASE Moved(j) = {} /\ C # {}
  <2>2. Undo(j) = [j EXCEPT !.at = "write", !.door = "undo"]
    BY <1>2 DEF Undo
  <2>3. "write" \in Places
    BY DEF Places
  <2>4. GoesOn(Undo(j), j, "write", "undo")
    BY <2>2, <2>3, GoesOnUndoing
  <2>5. Undo(j) \in Job
    BY <2>4 DEF GoesOn
  <2> QED BY <1>2, <2>4, <2>5
<1>3. CASE Moved(j) = {} /\ C = {}
  <2>1. Undo(j) = [j EXCEPT !.at = "revert"]
    BY <1>3 DEF Undo
  <2>3. "revert" \in Places
    BY DEF Places
  <2>4. GoesOn(Undo(j), j, "revert", j.door)
    BY <2>1, <2>3, GoesOnAt
  <2>5. Undo(j) \in Job
    BY <2>4 DEF GoesOn
  <2> QED BY <1>3, <2>4, <2>5
<1> QED BY <1>1, <1>2, <1>3

----------------------------------------------------------------------------
(* What each step leaves its strand with. *)

WroteStep(s) ==
  job' \in [Strands -> Job] /\ Passed(s) /\ orderly' = (orderly /\ job[s].alone)
ReadStep(s) ==
  job' \in [Strands -> Job] /\ orderly' = orderly /\ \A r \in Strands \ {s} : job'[r] = job[r] /\ Stays(r)
PassStep ==
  job' \in [Strands -> Job] /\ orderly' = orderly /\ \A r \in Strands : Stays(r) /\ (job'[r].alone => job[r].at = "idle")

LEMMA WroteIs ==
  ASSUME job \in [Strands -> Job], NEW s \in Strands, NEW k \in Job, Wrote(s, k)
  PROVE  WroteStep(s) /\ job'[s] = k
  BY WroteLeaves DEF WroteStep

LEMMA ReadIs ==
  ASSUME job \in [Strands -> Job], NEW s \in Strands, NEW k \in Job, Read(s, k)
  PROVE  ReadStep(s) /\ job'[s] = k
  BY ReadLeaves DEF ReadStep, Read

LEMMA PassIs ==
  ASSUME job \in [Strands -> Job], Pass
  PROVE  PassStep
  BY PassLeaves DEF PassStep

LEMMA BeginIs ==
  ASSUME job \in [Strands -> Job], NEW s \in Strands, NEW k \in Job, Begin(s, k)
  PROVE  ReadStep(s) /\ job'[s] = k /\ job[s].at = "idle"
  BY ReadIs DEF Begin, At

\* The visible plan is the approved one.
LEMMA VisibleIs ==
  ASSUME OneApproved
  PROVE  /\ Visible # 0 => Visible \in Plans /\ Approved(Visible)
         /\ \A p \in Plans : Approved(p) => Visible = p
<1>1. ASSUME NEW p \in Plans, Approved(p)
      PROVE  Visible = p
  <2>1. {q \in Plans : Approved(q)} = {p}
    BY <1>1 DEF OneApproved
  <2>2. Visible = Max({p})
    BY <1>1, <2>1 DEF Visible
  <2>3. p \in Int
    BY BoundsAssumption DEF Plans
  <2> QED BY <2>2, <2>3 DEF Max
<1>2. Visible # 0 => \E p \in Plans : Approved(p)
  BY DEF Visible
<1> QED BY <1>1, <1>2

\* What a strand keeps of its card while it saves the plan.
Saving(k, j, page) ==
  /\ k \in Job /\ k.door = j.door /\ k.left = j.left /\ k.alone = j.alone
  /\ k.look = j.look /\ k.card = j.card /\ k.edit = j.edit /\ k.direct = j.direct /\ k.force = j.force
  /\ k.plan = made /\ k.page = page /\ (k.fresh <=> status[made] \notin InHand)

Saves(k, j, page) ==
  \/ /\ Saving(k, j, page) /\ k.at = "place" /\ k.vis \in Plans /\ Approved(k.vis)
     /\ k.seen \in [Content -> Texts]
     /\ \A x \in Placed : k.seen[x] = page[x]
     /\ \A x \in Content \ Placed : k.seen[x] = content[k.vis][x]
     /\ k.enough => k.vis = made \/ status[made] \notin InHand
  \/ /\ Saving(k, j, page) /\ k.at = "store"
     /\ \A p \in Plans : Approved(p) => \A x \in Placed : content[p][x] = page[x]
  \/ Saving(k, j, page) /\ k.at = "rows" /\ j.door = "accept"
  \/ Saving(k, j, page) /\ k.at = "revert" /\ j.door = "undo"
  \/ k = Idle /\ j.door = "page"

LEMMA SavePlanLeaves ==
  ASSUME TypeOK, OneApproved, NEW j \in Job, j.door \in {"page", "accept", "undo"},
         NEW page \in [Content -> Texts]
  PROVE  SavePlan(j, page) \in Job /\ Saves(SavePlan(j, page), j, page)
<1> DEFINE v      == Visible
           placed == [x \in Content |-> IF x \in Placed THEN page[x] ELSE content[v][x]]
           moves  == v # 0 /\ placed # content[v]
           inHand == status[made] \in InHand
           enough == \/ moves /\ v = made /\ placed = page
                     \/ ~inHand /\ content[made] = page
           next   == [j EXCEPT !.plan = made, !.page = page, !.fresh = ~inHand, !.enough = enough]
           pl     == [next EXCEPT !.at = "place", !.vis = v, !.seen = placed]
           st     == [next EXCEPT !.at = "store"]
<1>1. SavePlan(j, page) = IF moves THEN pl ELSE IF enough THEN AfterContent(next) ELSE st
  BY DEF SavePlan
<1>2. made \in Plans /\ Plans \subseteq 0..MaxPlans /\ content \in [Plans -> [Content -> Texts]] /\ Placed \subseteq Content
  BY BoundsAssumption, SpotsAssumption DEF TypeOK, Plans
<1>3. v # 0 => v \in Plans /\ Approved(v) /\ placed \in [Content -> Texts]
  <2>1. v # 0 => v \in Plans /\ Approved(v)
    BY VisibleIs
  <2> QED BY <1>2, <2>1
<1>4. /\ next \in Job /\ next.at = j.at /\ next.plan = made /\ next.page = page /\ next.fresh = ~inHand
      /\ next.enough = enough /\ next.door = j.door /\ next.left = j.left /\ next.alone = j.alone
      /\ next.look = j.look /\ next.card = j.card /\ next.edit = j.edit /\ next.direct = j.direct
      /\ next.force = j.force
  <2> HIDE DEF inHand, enough
  <2>1. inHand \in BOOLEAN /\ enough \in BOOLEAN
    BY DEF inHand, enough
  <2>2. page \in [Content -> Texts \cup {None}] /\ made \in 0..MaxPlans
    BY <1>2
  <2> QED BY <2>1, <2>2 DEF Job
<1> HIDE DEF next
<1>5. CASE moves
  <2>1. placed \in [Content -> Texts \cup {None}] /\ v \in 0..MaxPlans /\ "place" \in Places
    BY <1>2, <1>3, <1>5 DEF Places
  <2>2. /\ pl \in Job /\ pl.at = "place" /\ pl.vis = v /\ pl.seen = placed /\ pl.plan = next.plan /\ pl.page = next.page
        /\ pl.fresh = next.fresh /\ pl.enough = next.enough /\ pl.door = next.door /\ pl.left = next.left
        /\ pl.alone = next.alone /\ pl.look = next.look /\ pl.card = next.card /\ pl.edit = next.edit
        /\ pl.direct = next.direct /\ pl.force = next.force
    <3> HIDE DEF placed, v
    <3> QED BY <1>4, <2>1 DEF Job
  <2>3. SavePlan(j, page) = pl
    BY <1>1, <1>5
  <2> HIDE DEF pl
  <2>4. Saving(pl, j, page)
    BY <1>4, <2>2 DEF Saving
  <2>5. (\A x \in Placed : placed[x] = page[x]) /\ \A x \in Content \ Placed : placed[x] = content[v][x]
    BY <1>2
  <2>6. enough => v = made \/ ~inHand
    OBVIOUS
  <2>7. v \in Plans /\ Approved(v) /\ placed \in [Content -> Texts]
    BY <1>3, <1>5
  <2> HIDE DEF placed, v, enough
  <2> QED BY <1>4, <2>2, <2>3, <2>4, <2>5, <2>6, <2>7 DEF Saves
<1>6. CASE ~moves /\ enough
  <2>1. SavePlan(j, page) = AfterContent(next)
    BY <1>1, <1>6
  <2>2. AfterContent(next) \in Job /\ Ended(AfterContent(next), next)
    BY <1>4, AfterContentLeaves
  <2> QED BY <1>4, <2>1, <2>2 DEF Saves, Saving, Ended, GoesOn, SameHand
<1>7. CASE ~moves /\ ~enough
  <2>1. SavePlan(j, page) = st
    BY <1>1, <1>7
  <2>2. GoesOn(st, next, "store", next.door)
    BY <1>4, GoesOnAt DEF Places
  <2>3. Saving(st, j, page) /\ st.at = "store" /\ st \in Job
    BY <1>4, <2>2 DEF Saving, GoesOn, SameHand
  <2>4. ASSUME NEW p \in Plans, Approved(p), NEW x \in Placed
        PROVE  content[p][x] = page[x]
    <3>1. v = p /\ v # 0 /\ x \in Content
      BY <1>2, <2>4, VisibleIs, BoundsAssumption DEF Plans
    <3>2. placed[x] = content[v][x] /\ placed[x] = page[x]
      BY <1>7, <2>4, <3>1
    <3> QED BY <3>1, <3>2
  <2> QED BY <2>1, <2>3, <2>4 DEF Saves
<1> QED BY <1>5, <1>6, <1>7

\* A new request of the staff, about a plan.
StaffBegins(s, a) ==
  /\ ReadStep(s) /\ job[s].at = "idle"
  /\ job'[s].at = a /\ job'[s].door = "staff" /\ job'[s].card = 0 /\ job'[s].alone
  /\ job'[s].plan \in Plans /\ job'[s].plan <= made

LEMMA MadeKnown ==
  ASSUME TypeOK
  PROVE  /\ made \in Plans /\ made \in 0..MaxPlans
         /\ \A p \in Plans : p \in 0..MaxPlans /\ p \in Int /\ (status[p] # "none" => p <= made)
  BY BoundsAssumption DEF TypeOK, Plans

LEMMA LookTyped ==
  ASSUME TypeOK, NEW p \in Plans
  PROVE  Look(p) \in [Spots -> Texts] /\ Look(p) \in [Spots -> Texts \cup {None}]
  BY SpotsAssumption DEF TypeOK, Look, Spots

LEMMA SaveLeaves ==
  ASSUME TInv, NEW s \in Strands, Save(s)
  PROVE  /\ ReadStep(s) /\ job[s].at = "idle" /\ status[made] # "submitted"
         /\ \E page \in [Content -> Texts], j \in Job :
              /\ j.door = "page" /\ j.card = 0 /\ j.left = {} /\ j.alone /\ ~j.direct
              /\ Saves(job'[s], j, page)
<1>1. PICK x \in Content, t \in Typed :
         Begin(s, SavePlan([Idle EXCEPT !.door = "page"], [content[made] EXCEPT ![x] = t]))
  BY DEF Save
<1> DEFINE j    == [Idle EXCEPT !.door = "page"]
           page == [content[made] EXCEPT ![x] = t]
<1>2. /\ j \in Job /\ j.door = "page" /\ j.card = 0 /\ j.left = {} /\ j.alone /\ ~j.direct
  BY IdleTyped DEF Job, Places
<1>3. page \in [Content -> Texts]
  <2>1. content[made] \in [Content -> Texts] /\ t \in Texts
    BY MadeKnown DEF TInv, TypeOK, Texts
  <2> QED BY <2>1
<1> HIDE DEF j, page
<1>4. SavePlan(j, page) \in Job /\ Saves(SavePlan(j, page), j, page)
  BY <1>2, <1>3, SavePlanLeaves DEF TInv
<1>5. Begin(s, SavePlan(j, page)) /\ status[made] # "submitted"
  BY <1>1 DEF j, page, Save
<1>6. ReadStep(s) /\ job'[s] = SavePlan(j, page) /\ job[s].at = "idle"
  BY <1>4, <1>5, BeginIs DEF TInv, TypeOK
<1> QED BY <1>2, <1>3, <1>4, <1>5, <1>6

LEMMA SubmitLeaves ==
  ASSUME TInv, NEW s \in Strands, Submit(s)
  PROVE  /\ ReadStep(s) /\ job[s].at = "idle" /\ status[made] \notin {"submitted", "approved"}
         /\ job'[s].at = "submit" /\ job'[s].door = "page" /\ job'[s].card = 0 /\ job'[s].alone
         /\ job'[s].plan = made
<1> DEFINE k == [Idle EXCEPT !.at = "submit", !.door = "page", !.plan = made]
<1>1. k \in Job /\ k.at = "submit" /\ k.door = "page" /\ k.card = 0 /\ k.alone /\ k.plan = made
  BY IdleTyped, MadeKnown DEF TInv, Job, Places
<1>2. Begin(s, k) /\ status[made] \notin {"submitted", "approved"}
  BY DEF Submit
<1> HIDE DEF k
<1> QED BY <1>1, <1>2, BeginIs DEF TInv, TypeOK

LEMMA ReturnLeaves ==
  ASSUME TInv, NEW s \in Strands, Return(s)
  PROVE  StaffBegins(s, "return") /\ status[job'[s].plan] = "submitted"
<1>1. PICK p \in Plans, noted \in BOOLEAN :
         /\ status[p] = "submitted"
         /\ Begin(s, [Idle EXCEPT !.at = "return", !.door = "staff", !.plan = p, !.noted = noted])
  BY DEF Return
<1> DEFINE k == [Idle EXCEPT !.at = "return", !.door = "staff", !.plan = p, !.noted = noted]
<1>2. k \in Job /\ k.at = "return" /\ k.door = "staff" /\ k.card = 0 /\ k.alone /\ k.plan = p
  BY IdleTyped, MadeKnown DEF TInv, Job, Places
<1>3. Begin(s, k)
  BY <1>1
<1> HIDE DEF k
<1> QED BY <1>1, <1>2, <1>3, BeginIs, MadeKnown DEF TInv, TypeOK, StaffBegins

LEMMA PostponeLeaves ==
  ASSUME TInv, NEW s \in Strands, Postpone(s)
  PROVE  /\ StaffBegins(s, "postpone") /\ status[job'[s].plan] = "submitted"
         /\ \A p \in Plans : status[p] \notin {"approved", "superseded"}
<1>1. PICK p \in Plans, noted \in BOOLEAN :
         /\ status[p] = "submitted"
         /\ Begin(s, [Idle EXCEPT !.at = "postpone", !.door = "staff", !.plan = p, !.noted = noted])
  BY DEF Postpone
<1> DEFINE k == [Idle EXCEPT !.at = "postpone", !.door = "staff", !.plan = p, !.noted = noted]
<1>2. k \in Job /\ k.at = "postpone" /\ k.door = "staff" /\ k.card = 0 /\ k.alone /\ k.plan = p
  BY IdleTyped, MadeKnown DEF TInv, Job, Places
<1>3. Begin(s, k) /\ \A q \in Plans : status[q] \notin {"approved", "superseded"}
  BY <1>1 DEF Postpone
<1> HIDE DEF k
<1> QED BY <1>1, <1>2, <1>3, BeginIs, MadeKnown DEF TInv, TypeOK, StaffBegins

LEMMA ApproveLeaves ==
  ASSUME TInv, NEW s \in Strands, Approve(s)
  PROVE  /\ StaffBegins(s, "approve") /\ status[job'[s].plan] \in {"submitted", "changes_requested"}
         /\ job'[s].page = content[job'[s].plan]
<1>1. PICK p \in Plans :
         /\ status[p] \in {"submitted", "changes_requested"}
         /\ Begin(s, [Idle EXCEPT !.at = "approve", !.door = "staff", !.plan = p, !.page = content[p]])
  BY DEF Approve
<1> DEFINE k == [Idle EXCEPT !.at = "approve", !.door = "staff", !.plan = p, !.page = content[p]]
<1>2. k \in Job /\ k.at = "approve" /\ k.door = "staff" /\ k.card = 0 /\ k.alone /\ k.plan = p /\ k.page = content[p]
  <2>1. content[p] \in [Content -> Texts \cup {None}]
    BY DEF TInv, TypeOK
  <2> QED BY <2>1, IdleTyped, MadeKnown DEF TInv, Job, Places
<1>3. Begin(s, k)
  BY <1>1
<1> HIDE DEF k
<1> QED BY <1>1, <1>2, <1>3, BeginIs, MadeKnown DEF TInv, TypeOK, StaffBegins

\* What the staff propose, read before it is written.
UploadBegins(s) ==
  /\ StaffBegins(s, "upload") /\ job'[s].edit \in Edits /\ job'[s].look = Look(job'[s].plan)

LEMMA ReadingTyped ==
  ASSUME TInv, NEW p \in Plans, NEW e \in Edits, NEW direct \in BOOLEAN
  PROVE  LET k == Reading(p, e, direct) IN
         /\ k \in Job /\ k.at = "upload" /\ k.door = "staff" /\ k.card = 0 /\ k.alone /\ k.plan = p
         /\ k.edit = e /\ k.look = Look(p) /\ k.direct = direct
<1> DEFINE l == Look(p)
           g == {c \in CardsOn(p, Undecided) : Overlap(edit[c], e)}
<1>1. l \in [Spots -> Texts \cup {None}] /\ g \in SUBSET Cards
  BY LookTyped DEF TInv, CardsOn
<1>2. Reading(p, e, direct) = [Idle EXCEPT !.at = "upload", !.door = "staff", !.plan = p, !.edit = e,
                                           !.direct = direct, !.look = l, !.gone = g]
  BY DEF Reading
<1> DEFINE k == [Idle EXCEPT !.at = "upload", !.door = "staff", !.plan = p, !.edit = e,
                             !.direct = direct, !.look = l, !.gone = g]
<1> HIDE DEF l, g
<1>3. Idle \in Job /\ p \in 0..MaxPlans /\ "upload" \in Places
  BY IdleTyped, MadeKnown DEF TInv, Places
<1>4. k \in Job
  BY <1>1, <1>3 DEF Job
<1>5. /\ k.at = "upload" /\ k.door = "staff" /\ k.card = Idle.card /\ k.alone = Idle.alone /\ k.plan = p
      /\ k.edit = e /\ k.look = l /\ k.direct = direct
  BY <1>3 DEF Job
<1>6. Reading(p, e, direct) = k
  BY <1>2
<1> HIDE DEF k
<1> QED BY <1>4, <1>5, <1>6, IdleTyped DEF l

LEMMA UploadLeaves ==
  ASSUME TInv, NEW s \in Strands, Upload(s)
  PROVE  UploadBegins(s) /\ status[job'[s].plan] \in InHand \cup {"submitted"} /\ ~job'[s].direct
<1>1. PICK p \in Plans, e \in Edits : status[p] \in InHand \cup {"submitted"} /\ Begin(s, Reading(p, e, FALSE))
  BY DEF Upload
<1> DEFINE k == Reading(p, e, FALSE)
<1>2. /\ k \in Job /\ k.at = "upload" /\ k.door = "staff" /\ k.card = 0 /\ k.alone /\ k.plan = p
      /\ k.edit = e /\ k.look = Look(p) /\ k.direct = FALSE
  <2>1. p \in Plans /\ e \in Edits
    BY <1>1
  <2>2. \A d \in BOOLEAN :
          LET q == Reading(p, e, d) IN
          /\ q \in Job /\ q.at = "upload" /\ q.door = "staff" /\ q.card = 0 /\ q.alone /\ q.plan = p
          /\ q.edit = e /\ q.look = Look(p) /\ q.direct = d
    BY <2>1, ReadingTyped
  <2> QED BY <2>2
<1>3. Begin(s, k)
  BY <1>1
<1> HIDE DEF k
<1>4. status[p] # "none"
  BY <1>1 DEF InHand
<1> QED BY <1>1, <1>2, <1>3, <1>4, BeginIs, MadeKnown DEF TInv, TypeOK, StaffBegins, UploadBegins

LEMMA SendClashFreeLeaves ==
  ASSUME TInv, NEW s \in Strands, SendClashFree(s)
  PROVE  UploadBegins(s) /\ job'[s].plan = made /\ job'[s].direct
<1>1. PICK e \in Schedules : Begin(s, Reading(made, e, TRUE))
  BY DEF SendClashFree
<1> DEFINE k == Reading(made, e, TRUE)
<1>2. made \in Plans /\ e \in Edits
  BY MadeKnown, SpotsAssumption DEF TInv
<1>3. /\ k \in Job /\ k.at = "upload" /\ k.door = "staff" /\ k.card = 0 /\ k.alone /\ k.plan = made
      /\ k.edit = e /\ k.look = Look(made) /\ k.direct
  <2>1. TRUE \in BOOLEAN
    OBVIOUS
  <2>2. LET q == Reading(made, e, TRUE) IN
        /\ q \in Job /\ q.at = "upload" /\ q.door = "staff" /\ q.card = 0 /\ q.alone /\ q.plan = made
        /\ q.edit = e /\ q.look = Look(made) /\ q.direct = TRUE
    BY <1>2, <2>1, ReadingTyped, Zenon
  <2> QED BY <2>2
<1>4. Begin(s, k)
  BY <1>1
<1> HIDE DEF k
<1> QED BY <1>2, <1>3, <1>4, BeginIs, MadeKnown DEF TInv, TypeOK, StaffBegins, UploadBegins

\* A card that waits is opened, as it reads now.
Accepting(s) ==
  LET k == job'[s]
      c == k.card
  IN /\ ReadStep(s) /\ job[s].at = "idle"
     /\ k.at = "claim" /\ k.door = "accept" /\ k.alone /\ k.plan = made
     /\ c \in Cards /\ card[c] = "pending" /\ k.edit = edit[c] /\ k.look = Look(made)
     /\ k.direct = (on[c] = made /\ Approved(made)) /\ (k.direct \/ status[made] \in InHand)
     /\ k.force = Stale(c, Look(made)) /\ k.left = Touches[edit[c]] \cap Rows

LEMMA AcceptLeaves ==
  ASSUME TInv, NEW s \in Strands, Accept(s)
  PROVE  Accepting(s)
<1>1. PICK c \in Cards :
         LET direct == on[c] = made /\ Approved(made) IN
         /\ card[c] = "pending"
         /\ direct \/ status[made] \in InHand
         /\ Begin(s, [Idle EXCEPT !.at = "claim", !.door = "accept", !.plan = made, !.card = c, !.edit = edit[c],
                                !.direct = direct, !.look = Look(made), !.force = Stale(c, Look(made)),
                                !.left = Touches[edit[c]] \cap Rows])
  BY DEF Accept
<1> DEFINE direct == on[c] = made /\ Approved(made)
           e == edit[c]
           l == Look(made)
           f == Stale(c, Look(made))
           w == Touches[edit[c]] \cap Rows
           k == [Idle EXCEPT !.at = "claim", !.door = "accept", !.plan = made, !.card = c, !.edit = e,
                             !.direct = direct, !.look = l, !.force = f, !.left = w]
<1>2. made \in 0..MaxPlans /\ c \in 0..MaxCards /\ e \in Edits \cup {None} /\ direct \in BOOLEAN
      /\ l \in [Spots -> Texts \cup {None}] /\ f \in BOOLEAN /\ w \in SUBSET Rows
  <2>1. c \in 0..MaxCards
    BY BoundsAssumption DEF Cards
  <2>2. f \in BOOLEAN
    BY DEF Stale
  <2>3. e \in Edits \cup {None}
    BY DEF TInv, TypeOK
  <2>4. made \in 0..MaxPlans /\ l \in [Spots -> Texts \cup {None}]
    BY MadeKnown, LookTyped DEF TInv
  <2> QED BY <2>1, <2>2, <2>3, <2>4
<1>3. Begin(s, k) /\ card[c] = "pending" /\ (direct \/ status[made] \in InHand)
  BY <1>1
<1> HIDE DEF direct, e, l, f, w
<1>6. Idle \in Job /\ "claim" \in Places
  BY IdleTyped DEF Places
<1>7. k \in Job
  BY <1>2, <1>6 DEF Job
<1>8. /\ k.at = "claim" /\ k.door = "accept" /\ k.alone = Idle.alone /\ k.plan = made /\ k.card = c /\ k.edit = e
      /\ k.direct = direct /\ k.look = l /\ k.force = f /\ k.left = w
  BY <1>6 DEF Job
<1> HIDE DEF k
<1>5. ReadStep(s) /\ job'[s] = k /\ job[s].at = "idle"
  BY <1>3, <1>7, BeginIs DEF TInv, TypeOK
<1>9. k.alone
  BY <1>8, IdleTyped
<1>10. /\ w = Touches[edit[c]] \cap Rows /\ f = Stale(c, Look(made)) /\ l = Look(made) /\ e = edit[c]
       /\ direct = (on[c] = made /\ Approved(made))
  BY DEF direct, e, l, f, w
<1> QED BY <1>3, <1>5, <1>8, <1>9, <1>10 DEF Accepting

\* A step that writes, and is its strand's last.
LastWrites(s) ==
  \/ SubmitWrites(s) \/ ReturnNotes(s) \/ PostponeWrites(s) \/ ApproveLapses(s) \/ UploadWrites(s) \/ Revert(s)

LEMMA LastWritesLeaves ==
  ASSUME TInv, NEW s \in Strands, LastWrites(s)
  PROVE  WroteStep(s) /\ job'[s] = Idle /\ job[s].at \in {"submit", "notes", "postpone", "lapse", "upload", "revert"}
<1>1. Wrote(s, Idle) /\ job[s].at \in {"submit", "notes", "postpone", "lapse", "upload", "revert"}
  BY DEF LastWrites, SubmitWrites, ReturnNotes, PostponeWrites, ApproveLapses, UploadWrites, Revert, At
<1> QED BY <1>1, IdleTyped, WroteIs DEF TInv, TypeOK

LEMMA ReturnWritesLeaves ==
  ASSUME TInv, NEW s \in Strands, ReturnWrites(s)
  PROVE  WroteStep(s) /\ job[s].at = "return" /\ GoesOn(job'[s], job[s], "notes", job[s].door)
<1>1. job[s].at = "return" /\ Wrote(s, [job[s] EXCEPT !.at = "notes"])
  BY DEF ReturnWrites, At
<1>2. job[s] \in Job
  BY DEF TInv, TypeOK
<1>3. GoesOn([job[s] EXCEPT !.at = "notes"], job[s], "notes", job[s].door)
  BY <1>2, GoesOnAt DEF Places
<1> QED BY <1>1, <1>3, WroteIs DEF TInv, TypeOK, GoesOn

LEMMA ApproveWritesLeaves ==
  ASSUME TInv, NEW s \in Strands, ApproveWrites(s)
  PROVE  WroteStep(s) /\ job[s].at = "approve" /\ GoesOn(job'[s], job[s], "announce", job[s].door)
<1>1. job[s].at = "approve" /\ Wrote(s, [job[s] EXCEPT !.at = "announce"])
  BY DEF ApproveWrites, At
<1>2. job[s] \in Job
  BY DEF TInv, TypeOK
<1>3. GoesOn([job[s] EXCEPT !.at = "announce"], job[s], "announce", job[s].door)
  BY <1>2, GoesOnAt DEF Places
<1> QED BY <1>1, <1>3, WroteIs DEF TInv, TypeOK, GoesOn

LEMMA AnnounceLeaves ==
  ASSUME TInv, NEW s \in Strands, Announce(s)
  PROVE  /\ WroteStep(s) /\ job[s].at = "announce"
         /\ job[s].door = "staff" => GoesOn(job'[s], job[s], "lapse", "staff")
         /\ job[s].door # "staff" => Ended(job'[s], job[s]) /\ job[s].door \in {"accept", "undo"}
<1>1. /\ job[s].at = "announce" /\ job[s] \in Job /\ job[s].door \in {"staff", "accept", "undo"}
      /\ Wrote(s, IF job[s].door = "staff" THEN [job[s] EXCEPT !.at = "lapse"] ELSE AfterContent(job[s]))
  BY DEF Announce, At, TInv, TypeOK, Carried, DoorFits, Owned
<1>2. CASE job[s].door = "staff"
  <2>1. GoesOn([job[s] EXCEPT !.at = "lapse"], job[s], "lapse", job[s].door)
    BY <1>1, GoesOnAt DEF Places
  <2> QED BY <1>1, <1>2, <2>1, WroteIs DEF TInv, TypeOK, GoesOn
<1>3. CASE job[s].door # "staff"
  <2>1. AfterContent(job[s]) \in Job /\ Ended(AfterContent(job[s]), job[s])
    BY <1>1, <1>3, AfterContentLeaves
  <2> QED BY <1>1, <1>3, <2>1, WroteIs DEF TInv, TypeOK
<1> QED BY <1>2, <1>3

LEMMA PlaceLeaves ==
  ASSUME TInv, NEW s \in Strands, Place(s)
  PROVE  /\ WroteStep(s) /\ job[s].at = "place" /\ job[s].door \in {"page", "accept", "undo"}
         /\ job[s].enough => Ended(job'[s], job[s])
         /\ ~job[s].enough => GoesOn(job'[s], job[s], "store", job[s].door)
<1>1. /\ job[s].at = "place" /\ job[s] \in Job /\ job[s].door \in {"page", "accept", "undo"}
      /\ Wrote(s, IF job[s].enough THEN AfterContent(job[s]) ELSE [job[s] EXCEPT !.at = "store"])
  BY DEF Place, At, TInv, TypeOK, Carried, DoorFits, Owned
<1>2. GoesOn([job[s] EXCEPT !.at = "store"], job[s], "store", job[s].door)
  BY <1>1, GoesOnAt DEF Places
<1>3. AfterContent(job[s]) \in Job /\ Ended(AfterContent(job[s]), job[s])
  BY <1>1, AfterContentLeaves
<1>4. CASE job[s].enough
  BY <1>1, <1>3, <1>4, WroteIs DEF TInv, TypeOK
<1>5. CASE ~job[s].enough
  BY <1>1, <1>2, <1>5, WroteIs DEF TInv, TypeOK, GoesOn
<1> QED BY <1>1, <1>4, <1>5

LEMMA StoreLeaves ==
  ASSUME TInv, NEW s \in Strands, Store(s)
  PROVE  /\ WroteStep(s) /\ job[s].at = "store" /\ job[s].door \in {"page", "accept", "undo"}
         /\ Ended(job'[s], job[s])
<1>1. /\ job[s].at = "store" /\ job[s] \in Job /\ job[s].door \in {"page", "accept", "undo"}
      /\ Wrote(s, AfterContent(job[s]))
  BY DEF Store, At, TInv, TypeOK, Carried, DoorFits, Owned
<1>2. AfterContent(job[s]) \in Job /\ Ended(AfterContent(job[s]), job[s])
  BY <1>1, AfterContentLeaves
<1> QED BY <1>1, <1>2, WroteIs DEF TInv, TypeOK

LEMMA DirectWritesLeaves ==
  ASSUME TInv, NEW s \in Strands, DirectWrites(s)
  PROVE  /\ WroteStep(s) /\ job[s].at = "direct" /\ job[s].door \in {"accept", "undo"}
         /\ job[s].page[Period] # job[s].old => GoesOn(job'[s], job[s], "announce", job[s].door)
         /\ job[s].page[Period] = job[s].old => Ended(job'[s], job[s])
<1>1. /\ job[s].at = "direct" /\ job[s] \in Job /\ job[s].door \in {"accept", "undo"}
      /\ Wrote(s, IF job[s].page[Period] # job[s].old THEN [job[s] EXCEPT !.at = "announce"]
                  ELSE AfterContent(job[s]))
  BY DEF DirectWrites, At, TInv, TypeOK, Carried, DoorFits, Owned
<1>2. GoesOn([job[s] EXCEPT !.at = "announce"], job[s], "announce", job[s].door)
  BY <1>1, GoesOnAt DEF Places
<1>3. AfterContent(job[s]) \in Job /\ Ended(AfterContent(job[s]), job[s])
  BY <1>1, AfterContentLeaves
<1>4. CASE job[s].page[Period] # job[s].old
  BY <1>1, <1>2, <1>4, WroteIs DEF TInv, TypeOK, GoesOn
<1>5. CASE job[s].page[Period] = job[s].old
  BY <1>1, <1>3, <1>5, WroteIs DEF TInv, TypeOK
<1> QED BY <1>1, <1>4, <1>5

LEMMA ClaimLeaves ==
  ASSUME TInv, NEW s \in Strands, Claim(s)
  PROVE  /\ job[s].at = "claim" /\ job[s].door = "accept"
         /\ card[job[s].card] = "pending" =>
              /\ WroteStep(s) /\ card' = Settle({job[s].card}, "accepted")
              /\ \/ Touches[job[s].edit] \cap Content = {} /\ GoesOn(job'[s], job[s], "rows", "accept")
                 \/ GoesOn(job'[s], job[s], "write", "accept")
         /\ card[job[s].card] # "pending" => ReadStep(s) /\ job'[s] = Idle /\ card' = card
<1>1. job[s].at = "claim" /\ job[s] \in Job /\ job[s].door = "accept"
  BY DEF Claim, At, TInv, TypeOK, Carried, DoorFits
<1>2. /\ GoesOn([job[s] EXCEPT !.at = "rows"], job[s], "rows", "accept")
      /\ GoesOn([job[s] EXCEPT !.at = "write"], job[s], "write", "accept")
  <2>1. "rows" \in Places /\ "write" \in Places
    BY DEF Places
  <2>2. /\ GoesOn([job[s] EXCEPT !.at = "rows"], job[s], "rows", job[s].door)
        /\ GoesOn([job[s] EXCEPT !.at = "write"], job[s], "write", job[s].door)
    BY <1>1, <2>1, GoesOnAt
  <2> QED BY <1>1, <2>2
<1>3. CASE card[job[s].card] = "pending"
  <2> DEFINE k == [job[s] EXCEPT !.at = IF Touches[job[s].edit] \cap Content = {} THEN "rows" ELSE "write"]
  <2>1. card' = Settle({job[s].card}, "accepted") /\ Wrote(s, k)
    BY <1>3 DEF Claim
  <2>2. /\ Touches[job[s].edit] \cap Content = {} => k = [job[s] EXCEPT !.at = "rows"]
        /\ Touches[job[s].edit] \cap Content # {} => k = [job[s] EXCEPT !.at = "write"]
    OBVIOUS
  <2> HIDE DEF k
  <2>3. \/ Touches[job[s].edit] \cap Content = {} /\ GoesOn(k, job[s], "rows", "accept")
        \/ GoesOn(k, job[s], "write", "accept")
    BY <1>2, <2>2
  <2>4. k \in Job
    BY <2>3 DEF GoesOn
  <2>5. WroteStep(s) /\ job'[s] = k
    BY <2>1, <2>4, WroteIs DEF TInv, TypeOK
  <2> QED BY <1>1, <1>3, <2>1, <2>3, <2>5
<1>4. CASE card[job[s].card] # "pending"
  BY <1>1, <1>4, IdleTyped, ReadIs DEF Claim, TInv, TypeOK
<1> QED BY <1>3, <1>4

LEMMA EndAcceptLeaves ==
  ASSUME TInv, NEW s \in Strands, EndAccept(s)
  PROVE  /\ ReadStep(s) /\ job[s].at = "rows" /\ job[s].door = "accept" /\ job[s].left = {} /\ job'[s] = Idle
<1>1. job[s].at = "rows" /\ job[s].door = "accept" /\ job[s].left = {} /\ Read(s, Idle)
  BY DEF EndAccept, At, TInv, Carried, DoorFits
<1> QED BY <1>1, IdleTyped, ReadIs DEF TInv, TypeOK

LEMMA RevertLeaves ==
  ASSUME TInv, NEW s \in Strands, Revert(s)
  PROVE  /\ WroteStep(s) /\ job'[s] = Idle /\ job[s].at = "revert" /\ Owned(job[s])
         /\ card' = Settle({job[s].card}, "pending")
  BY LastWritesLeaves DEF Revert, LastWrites, At, TInv, Carried, DoorFits

\* The page a strand writes for its card: with the edit, or with what it read.
PageOf(j, page) ==
  /\ page \in [Content -> Texts]
  /\ j.door = "accept" => \A x \in Content : page[x] = IF x \in Touches[j.edit] THEN j.edit ELSE j.look[x]

Directing(k, j, page) ==
  /\ k \in Job /\ k.at = "direct" /\ k.door = j.door /\ k.left = j.left /\ k.alone = j.alone
  /\ k.look = j.look /\ k.card = j.card /\ k.edit = j.edit /\ k.direct = j.direct /\ k.force = j.force
  /\ k.plan = j.plan /\ k.page = page /\ k.old = content[j.plan][Period]

LEMMA WriteContentLeaves ==
  ASSUME TInv, NEW s \in Strands, WriteContent(s)
  PROVE  /\ ReadStep(s) /\ job[s].at = "write" /\ job[s].door \in {"accept", "undo"}
         /\ \/ /\ GoesOn(job'[s], job[s], "revert", job[s].door) /\ wrote' = wrote
               /\ IF job[s].door = "accept" THEN kept' = kept ELSE KeepsContent(job[s])
               /\ IF job[s].direct THEN ~Approved(job[s].plan) ELSE status[made] = "submitted"
            \/ /\ job[s].direct /\ Approved(job[s].plan) /\ wrote' = wrote /\ kept' = kept
               /\ \E page : PageOf(job[s], page) /\ Directing(job'[s], job[s], page)
            \/ /\ ~job[s].direct /\ status[made] # "submitted" /\ kept' = kept
               /\ \E page : PageOf(job[s], page) /\ Saves(job'[s], job[s], page)
               /\ IF job'[s].at \in {"rows", "revert"} THEN WroteContent(s) ELSE wrote' = wrote
<1> DEFINE j    == job[s]
           page == [x \in Content |-> IF j.door = "accept" /\ x \in Touches[j.edit] THEN j.edit ELSE j.look[x]]
           fits == IF j.direct THEN Approved(j.plan) ELSE status[made] # "submitted"
           o    == content[j.plan][Period]
           d    == [j EXCEPT !.at = "direct", !.page = page, !.old = o]
           next == IF j.direct THEN d ELSE SavePlan(j, page)
           rv   == [j EXCEPT !.at = "revert"]
<1>1. /\ j.at = "write" /\ Read(s, IF fits THEN next ELSE rv)
      /\ IF fits /\ next.at \in {"rows", "revert"} THEN WroteContent(s) ELSE UNCHANGED wrote
      /\ IF fits \/ j.door = "accept" THEN UNCHANGED kept ELSE KeepsContent(j)
  BY DEF WriteContent, At
<1>2. j \in Job /\ j.door \in {"accept", "undo"} /\ j.plan \in Plans /\ j.direct \in BOOLEAN
  <2>1. j \in Job
    BY DEF TInv, TypeOK
  <2>2. j.door \in {"accept", "undo"} /\ j.plan \in Plans
    BY <1>1 DEF TInv, Carried, DoorFits, Filled, Owned
  <2> QED BY <2>1, <2>2 DEF Job
<1>3. PageOf(j, page)
  <2>1. j.look \in [Spots -> Texts] /\ j.edit \in Texts
    BY <1>2 DEF TInv, Carried, Filled, Owned, Texts
  <2>2. page \in [Content -> Texts]
    BY <2>1 DEF Spots
  <2> QED BY <2>2 DEF PageOf
<1>4. page \in [Content -> Texts] /\ page \in [Content -> Texts \cup {None}]
  BY <1>3 DEF PageOf
<1> HIDE DEF page
<1>5. CASE ~fits
  <2>1. GoesOn(rv, j, "revert", j.door)
    BY <1>2, GoesOnAt DEF Places
  <2>2. Read(s, rv) /\ wrote' = wrote /\ (IF j.door = "accept" THEN kept' = kept ELSE KeepsContent(j))
    BY <1>1, <1>5
  <2>3. ReadStep(s) /\ job'[s] = rv
    BY <2>1, <2>2, ReadIs DEF TInv, TypeOK, GoesOn
  <2> QED BY <1>1, <1>2, <1>5, <2>1, <2>2, <2>3
<1>6. CASE fits /\ j.direct
  <2>1. o \in Texts \cup {None} /\ "direct" \in Places
    BY <1>2, SpotsAssumption DEF TInv, TypeOK, Places
  <2>2. Directing(d, j, page)
    <3> HIDE DEF o
    <3>1. /\ d \in Job /\ d.at = "direct" /\ d.page = page /\ d.old = o /\ d.door = j.door /\ d.left = j.left
          /\ d.alone = j.alone /\ d.look = j.look /\ d.card = j.card /\ d.edit = j.edit /\ d.direct = j.direct
          /\ d.force = j.force /\ d.plan = j.plan
      BY <1>2, <1>4, <2>1 DEF Job
    <3> QED BY <3>1 DEF Directing, o
  <2>3. next = d
    BY <1>6
  <2>4. d.at = "direct" /\ d \in Job
    BY <2>2 DEF Directing
  <2> HIDE DEF d
  <2>5. Read(s, d) /\ wrote' = wrote /\ kept' = kept
    BY <1>1, <1>6, <2>3, <2>4
  <2>6. ReadStep(s) /\ job'[s] = d
    BY <2>4, <2>5, ReadIs DEF TInv, TypeOK
  <2> QED BY <1>1, <1>2, <1>3, <1>6, <2>2, <2>5, <2>6
<1>7. CASE fits /\ ~j.direct
  <2>1. SavePlan(j, page) \in Job /\ Saves(SavePlan(j, page), j, page)
    BY <1>2, <1>4, SavePlanLeaves DEF TInv
  <2>2. next = SavePlan(j, page)
    BY <1>7
  <2>3. Read(s, next)
    BY <1>1, <1>7
  <2>4. ReadStep(s) /\ job'[s] = next
    BY <2>1, <2>2, <2>3, ReadIs DEF TInv, TypeOK
  <2>5. IF next.at \in {"rows", "revert"} THEN WroteContent(s) ELSE wrote' = wrote
    BY <1>1, <1>7
  <2>6. status[made] # "submitted" /\ kept' = kept
    BY <1>1, <1>7
  <2> HIDE DEF next
  <2> QED BY <1>1, <1>2, <1>3, <1>7, <2>1, <2>2, <2>4, <2>5, <2>6
<1> QED BY <1>5, <1>6, <1>7

LEMMA WriteRowLeaves ==
  ASSUME TInv, NEW s \in Strands, WriteRow(s)
  PROVE  /\ WroteStep(s) /\ job[s].at = "rows" /\ job[s].door = "accept" /\ job[s].card \in Cards
         /\ \E x \in job[s].left :
              /\ row'   = [row EXCEPT ![x] = job[s].edit]
              /\ wrote' = [wrote EXCEPT ![job[s].card] = wrote[job[s].card] \cup {x}]
              /\ job'[s].left = job[s].left \ {x}
         /\ job'[s] \in Job /\ SameHand(job'[s], job[s]) /\ job'[s].at = "rows" /\ job'[s].door = "accept"
         /\ job'[s].alone = job[s].alone
<1> DEFINE j == job[s]
<1>1. PICK x \in j.left :
         /\ row'   = [row EXCEPT ![x] = j.edit]
         /\ wrote' = [wrote EXCEPT ![j.card] = wrote[j.card] \cup {x}]
         /\ Wrote(s, [j EXCEPT !.left = j.left \ {x}])
  BY DEF WriteRow
<1>2. j \in Job /\ j.at = "rows" /\ j.door = "accept" /\ j.card \in Cards
  BY DEF WriteRow, At, TInv, TypeOK, Carried, DoorFits, Owned
<1> DEFINE w == j.left \ {x}
           k == [j EXCEPT !.left = w]
<1>3. w \in SUBSET Rows
  BY <1>2 DEF Job
<1>4. k \in Job /\ SameHand(k, j) /\ k.at = j.at /\ k.door = j.door /\ k.alone = j.alone /\ k.left = w
  <2> HIDE DEF w
  <2> QED BY <1>2, <1>3 DEF Job, SameHand
<1>5. Wrote(s, k)
  BY <1>1
<1> HIDE DEF k
<1>6. WroteStep(s) /\ job'[s] = k
  BY <1>4, <1>5, WroteIs DEF TInv, TypeOK
<1> QED BY <1>1, <1>2, <1>4, <1>6

\* A row put back, or refused.
UndoneRow(s, x) ==
  LET j == job[s] IN
  \/ /\ WroteStep(s) /\ kept' = kept
     /\ row'   = [row EXCEPT ![x] = j.look[x]]
     /\ wrote' = [wrote EXCEPT ![j.card] = wrote[j.card] \ ({x} \ kept[j.card])]
  \/ /\ ReadStep(s) /\ row' = row /\ wrote' = wrote
     /\ kept' = [kept EXCEPT ![j.card] = kept[j.card] \cup {x}]

\* What an undoing goes on with once it has done with row x.
BackFrom(k, j, x) ==
  LET C == Touches[j.edit] \cap Content
      R == Touches[j.edit] \cap Rows
  IN /\ k \in Job /\ SameHand(k, j) /\ k.door = "undo" /\ k.alone = j.alone /\ k.left = j.left \cup {x}
     /\ \/ k.at = "unrow"
        \/ k.at = "write" /\ R \subseteq k.left
        \/ k.at = "revert" /\ R \subseteq k.left /\ C = {}

LEMMA UndoRowLeaves ==
  ASSUME TInv, NEW s \in Strands, UndoRow(s)
  PROVE  /\ job[s].at = "unrow" /\ job[s].door = "undo" /\ job[s].card \in Cards
         /\ \E x \in Moved(job[s]) : UndoneRow(s, x) /\ BackFrom(job'[s], job[s], x)
<1> DEFINE j == job[s]
<1>1. PICK x \in Moved(j) :
         LET next == Undo([j EXCEPT !.left = j.left \cup {x}]) IN
         \/ /\ row'   = [row EXCEPT ![x] = j.look[x]]
            /\ wrote' = [wrote EXCEPT ![j.card] = wrote[j.card] \ ({x} \ kept[j.card])]
            /\ Wrote(s, next)
            /\ kept' = kept
         \/ /\ kept' = [kept EXCEPT ![j.card] = kept[j.card] \cup {x}]
            /\ Read(s, next)
            /\ row' = row /\ wrote' = wrote
  BY DEF UndoRow
<1>2. j \in Job /\ j.at = "unrow" /\ j.door = "undo" /\ j.card \in Cards
  BY DEF UndoRow, At, TInv, TypeOK, Carried, DoorFits, Owned
<1> DEFINE i == [j EXCEPT !.left = j.left \cup {x}]
<1>3. x \in Rows
  BY DEF Moved
<1>4. i \in Job /\ SameHand(i, j) /\ i.door = "undo" /\ i.left = j.left \cup {x} /\ i.alone = j.alone
  <2> DEFINE w == j.left \cup {x}
  <2>1. w \in SUBSET Rows
    BY <1>2, <1>3 DEF Job
  <2> HIDE DEF w
  <2>2. LET k == [j EXCEPT !.left = w] IN k \in Job /\ SameHand(k, j) /\ k.door = j.door /\ k.left = w /\ k.alone = j.alone
    BY <1>2, <2>1 DEF Job, SameHand
  <2> QED BY <1>2, <2>2 DEF w
<1> DEFINE next == Undo(i)
<1>5. \/ /\ row' = [row EXCEPT ![x] = j.look[x]]
         /\ wrote' = [wrote EXCEPT ![j.card] = wrote[j.card] \ ({x} \ kept[j.card])]
         /\ Wrote(s, next) /\ kept' = kept
      \/ /\ kept' = [kept EXCEPT ![j.card] = kept[j.card] \cup {x}]
         /\ Read(s, next) /\ row' = row /\ wrote' = wrote
  BY <1>1
<1> HIDE DEF i
<1>6. /\ next \in Job
      /\ Moved(i) # {} => GoesOn(next, i, "unrow", "undo")
      /\ Moved(i) = {} /\ Touches[i.edit] \cap Content # {} => GoesOn(next, i, "write", "undo")
      /\ Moved(i) = {} /\ Touches[i.edit] \cap Content = {} => GoesOn(next, i, "revert", "undo")
  BY <1>4, UndoLeaves
<1> HIDE DEF next
<1>7. Moved(i) = (Touches[j.edit] \cap Rows) \ (j.left \cup {x}) /\ i.edit = j.edit
  BY <1>4 DEF Moved, SameHand
<1>8. BackFrom(next, j, x)
  BY <1>4, <1>6, <1>7 DEF BackFrom, GoesOn, SameHand
<1>9. job'[s] = next /\ UndoneRow(s, x)
  BY <1>5, <1>6, WroteIs, ReadIs DEF UndoneRow, TInv, TypeOK
<1> QED BY <1>2, <1>8, <1>9

LEMMA FailApplyLeaves ==
  ASSUME TInv, NEW s \in Strands, FailApply(s)
  PROVE  /\ ReadStep(s) /\ Owned(job[s]) /\ job[s].card \in Cards
         /\ \/ /\ job[s].at = "write" /\ GoesOn(job'[s], job[s], "revert", job[s].door)
               /\ IF job[s].door = "accept" THEN kept' = kept ELSE KeepsContent(job[s])
            \/ LET C == Touches[job[s].edit] \cap Content IN
               /\ job[s].at = "rows" /\ job[s].door = "accept" /\ kept' = kept
               /\ Moved(job[s]) # {} => GoesOn(job'[s], job[s], "unrow", "undo")
               /\ Moved(job[s]) = {} /\ C # {} => GoesOn(job'[s], job[s], "write", "undo")
               /\ Moved(job[s]) = {} /\ C = {} => GoesOn(job'[s], job[s], "revert", "accept")
<1> DEFINE j == job[s]
<1>1. /\ Owned(j) /\ j.card \in Cards /\ j \in Job
      /\ \/ /\ j.at = "write" /\ Read(s, [j EXCEPT !.at = "revert"])
            /\ IF j.door = "accept" THEN kept' = kept ELSE KeepsContent(j)
         \/ j.at = "rows" /\ j.door = "accept" /\ Read(s, Undo(j)) /\ kept' = kept
  BY DEF FailApply, At, TInv, TypeOK, Carried, DoorFits, Owned
<1>3. CASE /\ j.at = "write" /\ Read(s, [j EXCEPT !.at = "revert"])
           /\ IF j.door = "accept" THEN kept' = kept ELSE KeepsContent(j)
  <2>1. GoesOn([j EXCEPT !.at = "revert"], j, "revert", j.door)
    BY <1>1, GoesOnAt DEF Places
  <2>2. ReadStep(s) /\ job'[s] = [j EXCEPT !.at = "revert"]
    BY <1>3, <2>1, ReadIs DEF TInv, TypeOK, GoesOn
  <2> QED BY <1>1, <1>3, <2>1, <2>2
<1>4. CASE j.at = "rows" /\ j.door = "accept" /\ Read(s, Undo(j)) /\ kept' = kept
  <2>1. /\ Undo(j) \in Job
        /\ Moved(j) # {} => GoesOn(Undo(j), j, "unrow", "undo")
        /\ Moved(j) = {} /\ Touches[j.edit] \cap Content # {} => GoesOn(Undo(j), j, "write", "undo")
        /\ Moved(j) = {} /\ Touches[j.edit] \cap Content = {} => GoesOn(Undo(j), j, "revert", j.door)
    BY <1>1, UndoLeaves
  <2>2. ReadStep(s) /\ job'[s] = Undo(j)
    BY <1>4, <2>1, ReadIs DEF TInv, TypeOK
  <2> QED BY <1>1, <1>4, <2>1, <2>2
<1> QED BY <1>1, <1>3, <1>4

LEMMA CrashLeaves ==
  ASSUME TInv, NEW s \in Strands, Crash(s)
  PROVE  /\ job' \in [Strands -> Job] /\ job'[s] = Idle /\ orderly' = FALSE
         /\ \A r \in Strands \ {s} : job'[r] = job[r] /\ Stays(r)
  BY IdleTyped, ReadLeaves DEF Crash, TInv, TypeOK

----------------------------------------------------------------------------
(* Types, and what a strand carries. *)

EditsKept == \A c \in Cards : card[c] # "none" => card'[c] # "none" /\ edit'[c] = edit[c]

LEMMA FreeHasMin ==
  ASSUME Free # {}
  PROVE  Min(Free) \in Free
<1>1. Free \subseteq Nat
  BY BoundsAssumption DEF Free, Cards
<1>2. \E x \in Free : \A y \in Free : <<y, x>> \notin OpToRel(<, Nat)
  BY <1>1, NatLessThanWellFounded, WFMin
<1>3. PICK x \in Free : \A y \in Free : ~(y < x)
  BY <1>1, <1>2 DEF OpToRel
<1>4. \E y \in Free : \A z \in Free : y <= z
  BY <1>1, <1>3
<1> QED BY <1>4 DEF Min

LEMMA StaysFits ==
  ASSUME TInv, NEW r \in Strands, Stays(r), made' \in Int, made <= made', EditsKept
  PROVE  (DoorFits(job[r]) /\ Filled(job[r]))'
<1>1. DoorFits(job[r]) /\ Filled(job[r])
  BY DEF TInv, Carried
<1>2. CASE job[r].at = "idle"
  BY <1>1, <1>2, IdleTyped DEF Stays, DoorFits, Filled, Owned, Accepts
<1>3. CASE job[r].at # "idle"
  <2>1. DoorFits(job[r])'
    BY <1>1, <1>3 DEF Stays, SameHand, DoorFits, Owned
  <2>2. made \in Int /\ \A p \in Plans : p \in Int
    BY MadeKnown DEF TInv
  <2>3. Filled(job[r])'
    BY <1>1, <1>3, <2>2 DEF Stays, SameHand, DoorFits, Filled, Owned, EditsKept
  <2> QED BY <2>1, <2>3
<1> QED BY <1>2, <1>3

LEMMA CarriedBy ==
  ASSUME TInv, NEW s \in Strands, \A r \in Strands \ {s} : Stays(r), made' \in Int, made <= made', EditsKept,
         (DoorFits(job[s]) /\ Filled(job[s]))'
  PROVE  Carried'
<1>1. ASSUME NEW r \in Strands
      PROVE  (DoorFits(job[r]) /\ Filled(job[r]))'
  <2>1. CASE r = s
    BY <2>1
  <2>2. CASE r # s
    BY <2>2, StaysFits
  <2> QED BY <2>1, <2>2
<1> QED BY <1>1 DEF Carried

LEMMA IdleFits ==
  ASSUME TInv, NEW s \in Strands, job'[s] = Idle
  PROVE  (DoorFits(job[s]) /\ Filled(job[s]))'
<1>1. 0 \notin Cards
  BY BoundsAssumption DEF Cards
<1> QED BY <1>1, IdleTyped DEF DoorFits, Filled, Owned

\* Where a strand may go on, and for whom.
WayOn(j, a, d) ==
  \/ d = "staff" /\ ~Owned(j) /\ a \in {"notes", "announce", "lapse"}
  \/ d \in {"accept", "undo"} /\ Owned(j) /\ a \in {"write", "announce", "revert"}
  \/ d = "accept" /\ Owned(j) /\ a = "rows"
  \/ d = "undo" /\ Owned(j) /\ a = "unrow"
  \/ d = j.door /\ a = "store" /\ j.at = "place"

LEMMA GoesOnFits ==
  ASSUME TInv, NEW s \in Strands, job[s].at # "idle", made' \in Int, made <= made', EditsKept,
         NEW a, NEW d, GoesOn(job'[s], job[s], a, d), WayOn(job[s], a, d),
         a = "announce" => job[s].page \in [Content -> Texts]
  PROVE  (DoorFits(job[s]) /\ Filled(job[s]))'
<1>1. DoorFits(job[s]) /\ Filled(job[s])
  BY DEF TInv, Carried
<1>2. DoorFits(job[s])'
  BY <1>1 DEF GoesOn, SameHand, DoorFits, Owned, WayOn, OwnPlaces
<1>3. made \in Int /\ \A p \in Plans : p \in Int
  BY MadeKnown DEF TInv
<1>4. Filled(job[s])'
  BY <1>1, <1>3 DEF GoesOn, SameHand, DoorFits, Filled, Owned, EditsKept, WayOn
<1> QED BY <1>2, <1>4

LEMMA EndedFits ==
  ASSUME TInv, NEW s \in Strands, job[s].at # "idle", made' \in Int, made <= made', EditsKept,
         job[s].door \in {"page", "accept", "undo"}, Ended(job'[s], job[s])
  PROVE  (DoorFits(job[s]) /\ Filled(job[s]))'
<1>1. CASE job[s].door = "page"
  BY <1>1, IdleFits DEF Ended
<1>2. CASE job[s].door = "accept"
  BY <1>2, GoesOnFits DEF Ended, WayOn, Owned
<1>3. CASE job[s].door = "undo"
  BY <1>3, GoesOnFits DEF Ended, WayOn, Owned
<1> QED BY <1>1, <1>2, <1>3

LEMMA SavesFits ==
  ASSUME TInv, NEW s \in Strands, NEW j \in Job, NEW page \in [Content -> Texts], Saves(job'[s], j, page),
         ~j.direct, UNCHANGED <<made, card, edit>>,
         \/ j.door = "page" /\ j.card = 0
         \/ j = job[s] /\ Owned(job[s])
  PROVE  (DoorFits(job[s]) /\ Filled(job[s]))'
<1>1. CASE job'[s] = Idle
  BY <1>1, IdleFits
<1>2. CASE job'[s] # Idle
  <2> DEFINE k == job'[s]
  <2>0. Saves(k, j, page) /\ k # Idle
    BY <1>2
  <2>1. /\ Saving(k, j, page)
        /\ \/ k.at = "place" /\ k.vis \in Plans /\ k.seen \in [Content -> Texts]
           \/ k.at = "store"
           \/ k.at = "rows" /\ j.door = "accept"
           \/ k.at = "revert" /\ j.door = "undo"
    <3> HIDE DEF k
    <3> QED BY <2>0 DEF Saves
  <2>2. 0 \notin Cards /\ made \in Plans /\ made <= made
    BY BoundsAssumption, MadeKnown DEF Cards, TInv
  <2>3. DoorFits(job[s]) /\ Filled(job[s])
    BY DEF TInv, Carried
  <2>4. CASE j.door = "page" /\ j.card = 0
    BY <2>1, <2>2, <2>4 DEF Saving, DoorFits, Filled, Owned
  <2>5. CASE j = job[s] /\ Owned(job[s])
    <3>1. DoorFits(job[s])'
      BY <2>1, <2>3, <2>5 DEF Saving, DoorFits, Owned, OwnPlaces
    <3>2. Filled(job[s])'
      BY <2>1, <2>2, <2>3, <2>5 DEF Saving, Filled, Owned
    <3> QED BY <3>1, <3>2
  <2> QED BY <2>4, <2>5
<1> QED BY <1>1, <1>2

CardsTyped ==
  /\ card \in [Cards -> CardStatus] /\ on \in [Cards -> 0..MaxPlans]
  /\ \A c \in Cards : card[c] = "none" <=> on[c] = 0
  /\ edit \in [Cards -> Edits \cup {None}] /\ was \in [Cards -> [Spots -> Texts \cup {None}]]

PlansTyped ==
  /\ made \in Plans /\ status \in [Plans -> PlanStatus]
  /\ \A p \in Plans : status[p] = "none" <=> p > made
  /\ postponed \subseteq Plans /\ owed \subseteq Plans /\ content \in [Plans -> [Content -> Texts]]

BoundsTyped == requests \in 0..MaxRequests /\ faults \in 0..MaxFaults /\ crashes \in 0..MaxCrashes

LEMMA TypedParts ==
  TypeOK <=> /\ PlansTyped /\ CardsTyped /\ BoundsTyped
             /\ row \in [Rows -> Texts] /\ announced \in Texts /\ done \in [Cards -> Nat]
             /\ wrote \in [Cards -> SUBSET Spots] /\ kept \in [Cards -> SUBSET Spots]
             /\ cut \subseteq Cards /\ orderly \in BOOLEAN /\ job \in [Strands -> Job]
  BY DEF TypeOK, PlansTyped, CardsTyped, BoundsTyped

LEMMA CountTyped ==
  ASSUME TypeOK, Count, UNCHANGED <<faults, crashes>>
  PROVE  BoundsTyped'
  BY BoundsAssumption DEF TypeOK, Count, BoundsTyped

LEMMA CardsStay ==
  ASSUME TInv, UNCHANGED cards
  PROVE  CardsTyped' /\ EditsKept /\ (UNCHANGED <<wrote, done>> => CardsKnown')
  BY TypedParts DEF TInv, cards, CardsTyped, EditsKept, CardsKnown

LEMMA PlansStay ==
  ASSUME TInv, UNCHANGED plans
  PROVE  PlansTyped' /\ OneApproved' /\ made' \in Int /\ made <= made'
<1>1. made' = made /\ status' = status /\ postponed' = postponed /\ owed' = owed /\ content' = content
  BY DEF plans
<1>2. PlansTyped' /\ OneApproved'
  BY <1>1, TypedParts DEF TInv, PlansTyped, OneApproved, Approved
<1> QED BY <1>1, <1>2, MadeKnown DEF TInv

\* Cards that are there change their status.
LEMMA SettleTyped ==
  ASSUME TInv, NEW S, \A c \in S : c \in Cards /\ card[c] # "none", NEW st \in CardStatus \ {"none"},
         card' = Settle(S, st), UNCHANGED <<on, edit, was>>
  PROVE  CardsTyped' /\ EditsKept /\ (UNCHANGED <<wrote, done>> => CardsKnown')
<1>1. CardsTyped /\ CardsKnown
  BY TypedParts DEF TInv
<1>2. card' = [c \in Cards |-> IF c \in S THEN st ELSE card[c]]
  BY DEF Settle
<1>3. card' \in [Cards -> CardStatus] /\ \A c \in Cards : card'[c] = "none" <=> card[c] = "none"
  BY <1>1, <1>2 DEF CardsTyped
<1> QED BY <1>1, <1>3 DEF CardsTyped, EditsKept, CardsKnown

\* A card is added; the others may have changed their status before.
LEMMA CreateTyped ==
  ASSUME TInv, NEW st \in [Cards -> CardStatus], \A c \in Cards : st[c] = "none" <=> card[c] = "none",
         NEW p \in Plans, NEW e \in Edits, NEW state \in CardStatus \ {"none"},
         NEW snapshot \in [Spots -> Texts \cup {None}], Create(st, p, e, state, snapshot)
  PROVE  /\ CardsTyped' /\ EditsKept /\ (UNCHANGED <<wrote, done>> => CardsKnown')
         /\ \E c \in Cards : /\ card[c] = "none" /\ card' = [st EXCEPT ![c] = state] /\ on' = [on EXCEPT ![c] = p]
                             /\ edit' = [edit EXCEPT ![c] = e] /\ was' = [was EXCEPT ![c] = snapshot]
<1> DEFINE m == Min(Free)
<1>1. /\ card' = [st EXCEPT ![m] = state] /\ on' = [on EXCEPT ![m] = p]
      /\ edit' = [edit EXCEPT ![m] = e] /\ was' = [was EXCEPT ![m] = snapshot] /\ Free # {}
  BY DEF Create
<1>2. m \in Cards /\ card[m] = "none"
  BY <1>1, FreeHasMin DEF Free
<1> HIDE DEF m
<1>3. CardsTyped /\ CardsKnown /\ p \in 0..MaxPlans /\ p # 0
  BY TypedParts, MadeKnown, BoundsAssumption DEF TInv, Plans
<1>4. /\ card' \in [Cards -> CardStatus] /\ on' \in [Cards -> 0..MaxPlans]
      /\ edit' \in [Cards -> Edits \cup {None}] /\ was' \in [Cards -> [Spots -> Texts \cup {None}]]
  BY <1>1, <1>3 DEF CardsTyped
<1>5. \A c \in Cards : card'[c] = "none" <=> on'[c] = 0
  BY <1>1, <1>2, <1>3 DEF CardsTyped
<1>6. EditsKept
  BY <1>1, <1>2, <1>3 DEF EditsKept, CardsTyped
<1>7. UNCHANGED <<wrote, done>> => CardsKnown'
  <2>1. Touches \in [Edits -> SUBSET Spots]
    BY SpotsAssumption
  <2> QED BY <1>1, <1>2, <1>3, <2>1 DEF CardsTyped, CardsKnown
<1> QED BY <1>1, <1>2, <1>4, <1>5, <1>6, <1>7 DEF CardsTyped

\* A request that begins, or goes on without writing anything.
LEMMA LooksTyped ==
  ASSUME TInv, NEW s \in Strands, job' \in [Strands -> Job], \A r \in Strands \ {s} : Stays(r),
         UNCHANGED <<plans, row, announced, cards, wrote, done>>, cut' \subseteq Cards, orderly' \in BOOLEAN,
         kept' \in [Cards -> SUBSET Spots], BoundsTyped', (DoorFits(job[s]) /\ Filled(job[s]))'
  PROVE  TInv'
<1>1. UNCHANGED plans /\ UNCHANGED cards /\ UNCHANGED <<wrote, done>> /\ row' = row /\ announced' = announced
  OBVIOUS
<1>2. CardsTyped' /\ EditsKept /\ CardsKnown' /\ PlansTyped' /\ OneApproved' /\ made' \in Int /\ made <= made'
  BY <1>1, CardsStay, PlansStay
<1>3. Carried'
  BY <1>2, CarriedBy
<1>4. /\ row' \in [Rows -> Texts] /\ announced' \in Texts /\ done' \in [Cards -> Nat]
      /\ wrote' \in [Cards -> SUBSET Spots]
  BY <1>1 DEF TInv, TypeOK
<1>5. TypeOK'
  BY <1>2, <1>4, TypedParts DEF TypeOK, PlansTyped, CardsTyped, BoundsTyped
<1> QED BY <1>2, <1>3, <1>5 DEF TInv

\* The parts put together.
LEMMA TInvBy ==
  ASSUME PlansTyped', CardsTyped', BoundsTyped', row' \in [Rows -> Texts], announced' \in Texts,
         done' \in [Cards -> Nat], wrote' \in [Cards -> SUBSET Spots], kept' \in [Cards -> SUBSET Spots],
         cut' \subseteq Cards,
         orderly' \in BOOLEAN, job' \in [Strands -> Job], Carried', CardsKnown', OneApproved'
  PROVE  TInv'
  BY DEF TInv, TypeOK, PlansTyped, CardsTyped, BoundsTyped

\* The steps that begin a request.
Begins(s) ==
  \/ Save(s) \/ Submit(s) \/ Return(s) \/ Postpone(s) \/ Approve(s) \/ Upload(s) \/ SendClashFree(s) \/ Accept(s)

LEMMA BeginsFits ==
  ASSUME TInv, NEW s \in Strands, Begins(s), UNCHANGED <<made, card, edit>>
  PROVE  ReadStep(s) /\ (DoorFits(job[s]) /\ Filled(job[s]))'
<1>1. 0 \notin Cards /\ made \in Plans /\ made <= made
  BY BoundsAssumption, MadeKnown DEF Cards, TInv
<1>2. CASE Save(s)
  <2>1. PICK page \in [Content -> Texts], j \in Job :
           j.door = "page" /\ j.card = 0 /\ ~j.direct /\ Saves(job'[s], j, page)
    BY <1>2, SaveLeaves
  <2> QED BY <1>2, <2>1, SaveLeaves, SavesFits
<1>3. CASE Submit(s)
  BY <1>1, <1>3, SubmitLeaves DEF DoorFits, Filled, Owned
<1>4. CASE Return(s)
  BY <1>1, <1>4, ReturnLeaves DEF StaffBegins, DoorFits, Filled, Owned
<1>5. CASE Postpone(s)
  BY <1>1, <1>5, PostponeLeaves DEF StaffBegins, DoorFits, Filled, Owned
<1>6. CASE Approve(s)
  <2>1. \A p \in Plans : content[p] \in [Content -> Texts]
    BY DEF TInv, TypeOK
  <2> QED BY <1>1, <1>6, <2>1, ApproveLeaves DEF StaffBegins, DoorFits, Filled, Owned
<1>7. CASE Upload(s) \/ SendClashFree(s)
  <2>1. UploadBegins(s)
    BY <1>7, UploadLeaves, SendClashFreeLeaves
  <2>2. job'[s].look \in [Spots -> Texts]
    BY <2>1, LookTyped DEF TInv, UploadBegins, StaffBegins
  <2> QED BY <1>1, <2>1, <2>2 DEF UploadBegins, StaffBegins, DoorFits, Filled, Owned
<1>8. CASE Accept(s)
  <2>1. Accepting(s)
    BY <1>8, AcceptLeaves
  <2>2. job'[s].look \in [Spots -> Texts] /\ job'[s].edit \in Edits
    BY <1>1, <2>1, LookTyped DEF TInv, Accepting, CardsKnown
  <2> QED BY <1>1, <2>1, <2>2 DEF Accepting, DoorFits, Filled, Owned, OwnPlaces
<1> QED BY <1>2, <1>3, <1>4, <1>5, <1>6, <1>7, <1>8 DEF Begins

LEMMA BeginsKeeps ==
  ASSUME TInv, NEW s \in Strands, Begins(s)
  PROVE  /\ UNCHANGED <<plans, row, announced, cards, history, faults, crashes>> /\ Count
         /\ UNCHANGED <<made, card, edit>>
<1>1. UNCHANGED <<plans, row, announced, cards, history, faults, crashes>> /\ Count
  BY DEF Begins, Save, Submit, Return, Postpone, Approve, Upload, SendClashFree, Accept, Begin
<1> QED BY <1>1 DEF plans, cards

LEMMA BeginsTyped ==
  ASSUME TInv, NEW s \in Strands, Begins(s)
  PROVE  TInv'
<1>1. UNCHANGED <<plans, row, announced, cards, history, faults, crashes>> /\ Count
      /\ UNCHANGED <<made, card, edit>>
  BY BeginsKeeps
<1>2. ReadStep(s) /\ (DoorFits(job[s]) /\ Filled(job[s]))'
  BY <1>1, BeginsFits
<1>3. BoundsTyped'
  BY <1>1, CountTyped DEF TInv
<1>4. cut' \subseteq Cards /\ orderly' \in BOOLEAN /\ UNCHANGED <<plans, row, announced, cards, wrote, done>>
      /\ kept' \in [Cards -> SUBSET Spots]
  BY <1>1, <1>2 DEF TInv, TypeOK, history, ReadStep
<1> QED BY <1>2, <1>3, <1>4, LooksTyped DEF ReadStep

LEMMA BoundsStay ==
  ASSUME TypeOK, UNCHANGED bounds
  PROVE  BoundsTyped'
  BY DEF TypeOK, bounds, BoundsTyped

\* A step of a strand that writes, put together.
LEMMA WritesTyped ==
  ASSUME TInv, NEW s \in Strands, WroteStep(s), UNCHANGED bounds, UNCHANGED cut,
         made' \in Int, made <= made', EditsKept, (DoorFits(job[s]) /\ Filled(job[s]))',
         PlansTyped', CardsTyped', CardsKnown', OneApproved',
         row' \in [Rows -> Texts], announced' \in Texts, done' \in [Cards -> Nat],
         wrote' \in [Cards -> SUBSET Spots], kept' \in [Cards -> SUBSET Spots]
  PROVE  TInv'
<1>1. Carried'
  BY CarriedBy DEF WroteStep, Passed
<1>2. BoundsTyped' /\ cut' \subseteq Cards /\ orderly' \in BOOLEAN /\ job' \in [Strands -> Job]
  BY BoundsStay DEF TInv, TypeOK, WroteStep, Job
<1> QED BY <1>1, <1>2, TInvBy

LEMMA CommonTypes ==
  ASSUME TInv
  PROVE  /\ row \in [Rows -> Texts] /\ announced \in Texts /\ done \in [Cards -> Nat]
         /\ wrote \in [Cards -> SUBSET Spots] /\ kept \in [Cards -> SUBSET Spots] /\ made \in Int
         /\ CardsTyped /\ PlansTyped /\ OneApproved /\ CardsKnown
  BY TypedParts, MadeKnown DEF TInv

LEMMA JobKnown ==
  ASSUME TInv, NEW s \in Strands
  PROVE  job[s] \in Job /\ job[s].alone \in BOOLEAN /\ DoorFits(job[s]) /\ Filled(job[s])
<1>1. job[s] \in Job
  BY DEF TInv, TypeOK
<1> QED BY <1>1 DEF TInv, Carried, Job

LEMMA SubmitWritesTyped ==
  ASSUME TInv, NEW s \in Strands, SubmitWrites(s)
  PROVE  TInv'
<1>1. /\ status' = [status EXCEPT ![job[s].plan] = "submitted"] /\ UNCHANGED <<made, postponed, owed, content>>
      /\ UNCHANGED cards /\ UNCHANGED <<wrote, done, kept>> /\ UNCHANGED cut /\ UNCHANGED bounds
      /\ row' = row /\ announced' = announced /\ job[s].at = "submit"
  BY DEF SubmitWrites, history, At
<1>2. WroteStep(s) /\ job'[s] = Idle
  BY LastWritesLeaves DEF LastWrites
<1>3. job[s].plan \in Plans /\ job[s].plan <= made
  BY <1>1, JobKnown DEF Filled
<1>4. PlansTyped'
  BY <1>1, <1>3, CommonTypes, MadeKnown DEF TInv, PlansTyped, PlanStatus
<1>5. OneApproved'
  BY <1>1, <1>3, CommonTypes DEF PlansTyped, OneApproved, Approved
<1>6. CardsTyped' /\ EditsKept /\ CardsKnown'
  BY <1>1, CardsStay
<1> QED BY <1>1, <1>2, <1>4, <1>5, <1>6, CommonTypes, IdleFits, WritesTyped

LEMMA ReturnWritesTyped ==
  ASSUME TInv, NEW s \in Strands, ReturnWrites(s)
  PROVE  TInv'
<1>1. /\ status' = [status EXCEPT ![job[s].plan] = "changes_requested"] /\ UNCHANGED <<made, postponed, content>>
      /\ owed' = IF job[s].noted THEN owed \cup {job[s].plan} ELSE owed \ {job[s].plan}
      /\ UNCHANGED cards /\ UNCHANGED <<wrote, done, kept>> /\ UNCHANGED cut /\ UNCHANGED bounds
      /\ row' = row /\ announced' = announced
  BY DEF ReturnWrites, history
<1>2. WroteStep(s) /\ job[s].at = "return" /\ GoesOn(job'[s], job[s], "notes", job[s].door)
  BY ReturnWritesLeaves
<1>3. job[s].plan \in Plans /\ job[s].plan <= made
  BY <1>2, JobKnown DEF Filled
<1>4. PlansTyped'
  BY <1>1, <1>3, CommonTypes, MadeKnown DEF TInv, PlansTyped, PlanStatus
<1>5. OneApproved'
  BY <1>1, <1>3, CommonTypes DEF PlansTyped, OneApproved, Approved
<1>6. CardsTyped' /\ EditsKept /\ CardsKnown'
  BY <1>1, CardsStay
<1>7. (DoorFits(job[s]) /\ Filled(job[s]))'
  <2>1. job[s].door = "staff"
    BY <1>2, JobKnown DEF DoorFits, OwnPlaces, Owned, Job
  <2>2. WayOn(job[s], "notes", job[s].door)
    BY <2>1 DEF WayOn, Owned
  <2>3. made' \in Int /\ made <= made'
    BY <1>1, CommonTypes
  <2> QED BY <1>2, <1>6, <2>2, <2>3, GoesOnFits
<1> QED BY <1>1, <1>2, <1>4, <1>5, <1>6, <1>7, CommonTypes, WritesTyped

LEMMA PostponeWritesTyped ==
  ASSUME TInv, NEW s \in Strands, PostponeWrites(s)
  PROVE  TInv'
<1>1. /\ status' = [status EXCEPT ![job[s].plan] = "changes_requested"] /\ UNCHANGED <<made, content>>
      /\ postponed' = postponed \cup {job[s].plan}
      /\ owed' = IF job[s].noted THEN owed \cup {job[s].plan} ELSE owed \ {job[s].plan}
      /\ UNCHANGED cards /\ UNCHANGED <<wrote, done, kept>> /\ UNCHANGED cut /\ UNCHANGED bounds
      /\ row' = row /\ announced' = announced /\ job[s].at = "postpone"
  BY DEF PostponeWrites, history, At
<1>2. WroteStep(s) /\ job'[s] = Idle
  BY LastWritesLeaves DEF LastWrites
<1>3. job[s].plan \in Plans /\ job[s].plan <= made
  BY <1>1, JobKnown DEF Filled
<1>4. PlansTyped'
  BY <1>1, <1>3, CommonTypes, MadeKnown DEF TInv, PlansTyped, PlanStatus
<1>5. OneApproved'
  BY <1>1, <1>3, CommonTypes DEF PlansTyped, OneApproved, Approved
<1>6. CardsTyped' /\ EditsKept /\ CardsKnown'
  BY <1>1, CardsStay
<1> QED BY <1>1, <1>2, <1>4, <1>5, <1>6, CommonTypes, IdleFits, WritesTyped

LEMMA ApproveWritesTyped ==
  ASSUME TInv, NEW s \in Strands, ApproveWrites(s)
  PROVE  TInv'
<1> DEFINE p == job[s].plan
           S == {c \in Cards : on[c] # p /\ card[c] \in Undecided}
<1>1. /\ status' = [q \in Plans |-> IF q = p THEN "approved" ELSE IF Approved(q) THEN "superseded" ELSE status[q]]
      /\ card' = Settle(S, "lapsed") /\ UNCHANGED <<on, edit, was>> /\ UNCHANGED <<made, postponed, content>>
      /\ owed' = owed \ {p}
      /\ UNCHANGED <<wrote, done, kept>> /\ UNCHANGED cut /\ UNCHANGED bounds
      /\ row' = row /\ announced' = announced
  BY DEF ApproveWrites, history
<1>2. WroteStep(s) /\ job[s].at = "approve" /\ GoesOn(job'[s], job[s], "announce", job[s].door)
  BY ApproveWritesLeaves
<1>3. p \in Plans /\ p <= made /\ job[s].page \in [Content -> Texts]
  BY <1>2, JobKnown DEF Filled
<1>4. PlansTyped'
  BY <1>1, <1>3, CommonTypes, MadeKnown DEF TInv, PlansTyped, PlanStatus, Approved
<1>5. OneApproved'
  BY <1>1, <1>3 DEF OneApproved, Approved
<1>6. CardsTyped' /\ EditsKept /\ CardsKnown'
  <2>1. (\A c \in S : c \in Cards /\ card[c] # "none") /\ "lapsed" \in CardStatus \ {"none"}
    BY DEF Undecided, CardStatus
  <2> HIDE DEF S
  <2> QED BY <1>1, <2>1, SettleTyped
<1>7. (DoorFits(job[s]) /\ Filled(job[s]))'
  <2>1. job[s].door = "staff"
    BY <1>2, JobKnown DEF DoorFits, OwnPlaces, Owned, Job
  <2>2. WayOn(job[s], "announce", job[s].door)
    BY <2>1 DEF WayOn, Owned
  <2>3. made' \in Int /\ made <= made'
    BY <1>1, CommonTypes
  <2> QED BY <1>2, <1>3, <1>6, <2>2, <2>3, GoesOnFits
<1> QED BY <1>1, <1>2, <1>4, <1>5, <1>6, <1>7, CommonTypes, WritesTyped

\* Notes that are owed become a card.
LEMMA EnsureNotesTyped ==
  ASSUME TInv, NEW p \in Plans, EnsureNotes(p), UNCHANGED <<made, status, postponed, content, wrote, done>>
  PROVE  /\ CardsTyped' /\ EditsKept /\ CardsKnown' /\ PlansTyped' /\ OneApproved'
         /\ \/ UNCHANGED cards
            \/ /\ status[p] = "changes_requested"
               /\ \E c \in Cards : /\ card[c] = "none" /\ card' = [card EXCEPT ![c] = "pending"]
                                   /\ on' = [on EXCEPT ![c] = p] /\ edit' = [edit EXCEPT ![c] = Note]
                                   /\ was' = [was EXCEPT ![c] = Nothing(Spots)]
<1>1. CASE p \in owed /\ status[p] = "changes_requested"
  <2>1. Create(card, p, Note, "pending", Nothing(Spots)) /\ owed' = owed \ {p}
    BY <1>1 DEF EnsureNotes
  <2>2. Nothing(Spots) \in [Spots -> Texts \cup {None}] /\ Note \in Edits /\ "pending" \in CardStatus \ {"none"}
    BY SpotsAssumption DEF Nothing, CardStatus
  <2>3. card \in [Cards -> CardStatus]
    BY DEF TInv, TypeOK
  <2>4. /\ CardsTyped' /\ EditsKept /\ CardsKnown'
        /\ \E c \in Cards : /\ card[c] = "none" /\ card' = [card EXCEPT ![c] = "pending"]
                            /\ on' = [on EXCEPT ![c] = p] /\ edit' = [edit EXCEPT ![c] = Note]
                            /\ was' = [was EXCEPT ![c] = Nothing(Spots)]
    BY <2>1, <2>2, <2>3, CreateTyped
  <2>5. PlansTyped' /\ OneApproved'
    BY <2>1, CommonTypes DEF PlansTyped, OneApproved, Approved
  <2> QED BY <1>1, <2>4, <2>5
<1>2. CASE ~(p \in owed /\ status[p] = "changes_requested")
  <2>1. UNCHANGED cards /\ owed' = owed
    BY <1>2 DEF EnsureNotes
  <2>2. PlansTyped' /\ OneApproved'
    BY <2>1, CommonTypes DEF PlansTyped, OneApproved, Approved
  <2> QED BY <2>1, <2>2, CardsStay
<1> QED BY <1>1, <1>2

LEMMA ReturnNotesTyped ==
  ASSUME TInv, NEW s \in Strands, ReturnNotes(s)
  PROVE  TInv'
<1>1. /\ EnsureNotes(job[s].plan) /\ UNCHANGED <<made, status, postponed, content, wrote, done>>
      /\ UNCHANGED cut /\ UNCHANGED bounds /\ made' = made /\ done' = done /\ wrote' = wrote
      /\ kept' = kept /\ row' = row /\ announced' = announced /\ job[s].at = "notes"
  BY DEF ReturnNotes, history, At
<1>2. WroteStep(s) /\ job'[s] = Idle
  BY LastWritesLeaves DEF LastWrites
<1>3. job[s].plan \in Plans
  BY <1>1, JobKnown DEF Filled
<1>4. CardsTyped' /\ EditsKept /\ CardsKnown' /\ PlansTyped' /\ OneApproved'
  BY <1>1, <1>3, EnsureNotesTyped
<1> QED BY <1>1, <1>2, <1>4, CommonTypes, IdleFits, WritesTyped

LEMMA AnnounceTyped ==
  ASSUME TInv, NEW s \in Strands, Announce(s)
  PROVE  TInv'
<1>1. /\ announced' = job[s].page[Period] /\ UNCHANGED plans /\ UNCHANGED cards /\ UNCHANGED <<wrote, done, kept>>
      /\ UNCHANGED cut /\ UNCHANGED bounds /\ row' = row
  BY DEF Announce, history
<1>2. /\ WroteStep(s) /\ job[s].at = "announce"
      /\ job[s].door = "staff" => GoesOn(job'[s], job[s], "lapse", "staff")
      /\ job[s].door # "staff" => Ended(job'[s], job[s]) /\ job[s].door \in {"accept", "undo"}
  BY AnnounceLeaves
<1>3. announced' \in Texts
  BY <1>1, <1>2, JobKnown, SpotsAssumption DEF Filled
<1>4. CardsTyped' /\ EditsKept /\ CardsKnown' /\ PlansTyped' /\ OneApproved' /\ made' \in Int /\ made <= made'
  BY <1>1, CardsStay, PlansStay
<1>5. (DoorFits(job[s]) /\ Filled(job[s]))'
  <2>1. CASE job[s].door = "staff"
    <3>1. WayOn(job[s], "lapse", "staff")
      BY <2>1 DEF WayOn, Owned
    <3> QED BY <1>2, <1>4, <2>1, <3>1, GoesOnFits
  <2>2. CASE job[s].door # "staff"
    BY <1>2, <1>4, <2>2, EndedFits
  <2> QED BY <2>1, <2>2
<1> QED BY <1>1, <1>2, <1>3, <1>4, <1>5, CommonTypes, WritesTyped

LEMMA ApproveLapsesTyped ==
  ASSUME TInv, NEW s \in Strands, ApproveLapses(s)
  PROVE  TInv'
<1> DEFINE p == job[s].plan
           S == CardsOn(p, {"proposed"}) \cup {c \in CardsOn(p, {"pending"}) : edit[c] = Note}
<1>1. /\ card' = Settle(S, "lapsed") /\ UNCHANGED <<on, edit, was>> /\ UNCHANGED plans
      /\ UNCHANGED <<wrote, done, kept>> /\ UNCHANGED cut /\ UNCHANGED bounds
      /\ row' = row /\ announced' = announced
  BY DEF ApproveLapses, history
<1>2. WroteStep(s) /\ job'[s] = Idle
  BY LastWritesLeaves DEF LastWrites
<1>3. CardsTyped' /\ EditsKept /\ CardsKnown'
  <2>1. (\A c \in S : c \in Cards /\ card[c] # "none") /\ "lapsed" \in CardStatus \ {"none"}
    BY DEF CardsOn, CardStatus
  <2> HIDE DEF S
  <2> QED BY <1>1, <2>1, SettleTyped
<1>4. PlansTyped' /\ OneApproved' /\ made' \in Int /\ made <= made'
  BY <1>1, PlansStay
<1> QED BY <1>1, <1>2, <1>3, <1>4, CommonTypes, IdleFits, WritesTyped

\* The newer card, and those that make way for it.
LEMMA UploadWritesIs ==
  ASSUME TInv, NEW s \in Strands, UploadWrites(s)
  PROVE  LET j  == job[s]
             st == Settle({c \in j.gone : card[c] \in Undecided}, "withdrawn")
         IN /\ st \in [Cards -> CardStatus] /\ \A c \in Cards : st[c] = "none" <=> card[c] = "none"
            /\ \A c \in Cards : st[c] = card[c] \/ (card[c] \in Undecided /\ st[c] = "withdrawn")
            /\ CardsTyped' /\ EditsKept /\ CardsKnown'
            /\ \E c \in Cards : /\ card[c] = "none" /\ on' = [on EXCEPT ![c] = j.plan]
                                /\ card' = [st EXCEPT ![c] = IF j.direct THEN "pending" ELSE "proposed"]
                                /\ edit' = [edit EXCEPT ![c] = j.edit]
                                /\ was' = [was EXCEPT ![c] = Snapshot(j.edit, j.look)]
<1> DEFINE j     == job[s]
           gone  == {c \in j.gone : card[c] \in Undecided}
           st    == Settle(gone, "withdrawn")
           state == IF j.direct THEN "pending" ELSE "proposed"
           snap  == Snapshot(j.edit, j.look)
<1>1. Create(st, j.plan, j.edit, state, snap) /\ UNCHANGED <<wrote, done, kept>> /\ j.at = "upload"
  BY DEF UploadWrites, history, At
<1>2. j.plan \in Plans /\ j.edit \in Edits /\ j.look \in [Spots -> Texts]
  BY <1>1, JobKnown DEF Filled
<1>3. snap \in [Spots -> Texts \cup {None}]
  BY <1>2 DEF Snapshot
<1>4. state \in CardStatus \ {"none"}
  BY DEF CardStatus
<1>5. card \in [Cards -> CardStatus]
  BY DEF TInv, TypeOK
<1>6. /\ st \in [Cards -> CardStatus] /\ \A c \in Cards : st[c] = "none" <=> card[c] = "none"
      /\ \A c \in Cards : st[c] = card[c] \/ (card[c] \in Undecided /\ st[c] = "withdrawn")
  <2>1. st = [c \in Cards |-> IF c \in gone THEN "withdrawn" ELSE card[c]]
    BY DEF Settle
  <2> HIDE DEF st
  <2> QED BY <1>5, <2>1 DEF Undecided, CardStatus
<1> HIDE DEF st, state, snap
<1>7. /\ CardsTyped' /\ EditsKept /\ CardsKnown'
      /\ \E c \in Cards : /\ card[c] = "none" /\ card' = [st EXCEPT ![c] = state] /\ on' = [on EXCEPT ![c] = j.plan]
                          /\ edit' = [edit EXCEPT ![c] = j.edit] /\ was' = [was EXCEPT ![c] = snap]
  BY <1>1, <1>2, <1>3, <1>4, <1>6, CreateTyped
<1> QED BY <1>6, <1>7 DEF st, state, snap

LEMMA UploadWritesTyped ==
  ASSUME TInv, NEW s \in Strands, UploadWrites(s)
  PROVE  TInv'
<1>1. /\ UNCHANGED plans /\ UNCHANGED <<wrote, done, kept>> /\ UNCHANGED cut /\ UNCHANGED bounds
      /\ row' = row /\ announced' = announced
  BY DEF UploadWrites, history
<1>2. WroteStep(s) /\ job'[s] = Idle
  BY LastWritesLeaves DEF LastWrites
<1>3. CardsTyped' /\ EditsKept /\ CardsKnown'
  BY UploadWritesIs
<1>4. PlansTyped' /\ OneApproved' /\ made' \in Int /\ made <= made'
  BY <1>1, PlansStay
<1> QED BY <1>1, <1>2, <1>3, <1>4, CommonTypes, IdleFits, WritesTyped

LEMMA RevertTyped ==
  ASSUME TInv, NEW s \in Strands, Revert(s)
  PROVE  TInv'
<1>1. /\ card' = Settle({job[s].card}, "pending") /\ UNCHANGED <<on, edit, was>> /\ UNCHANGED plans
      /\ UNCHANGED <<wrote, done, kept>> /\ UNCHANGED cut /\ UNCHANGED bounds
      /\ row' = row /\ announced' = announced
  BY DEF Revert, history
<1>2. WroteStep(s) /\ job'[s] = Idle /\ Owned(job[s])
  BY RevertLeaves
<1>3. CardsTyped' /\ EditsKept /\ CardsKnown'
  <2>1. (\A c \in {job[s].card} : c \in Cards /\ card[c] # "none") /\ "pending" \in CardStatus \ {"none"}
    BY <1>2, JobKnown DEF DoorFits, Filled, CardStatus
  <2> QED BY <1>1, <2>1, SettleTyped
<1>4. PlansTyped' /\ OneApproved' /\ made' \in Int /\ made <= made'
  BY <1>1, PlansStay
<1> QED BY <1>1, <1>2, <1>3, <1>4, CommonTypes, IdleFits, WritesTyped

\* What a card has written once the content is written.
LEMMA WroteContentIs ==
  ASSUME TInv, NEW s \in Strands, WroteContent(s), job[s].door \in {"page", "accept", "undo"}
  PROVE  /\ wrote' \in [Cards -> SUBSET Spots]
         /\ \A c \in Cards : c # job[s].card => wrote'[c] = wrote[c]
         /\ job[s].door = "page" => wrote' = wrote
         /\ job[s].door = "accept" =>
              wrote'[job[s].card] = wrote[job[s].card] \cup (Content \cap Touches[job[s].edit])
         /\ job[s].door = "undo" =>
              wrote'[job[s].card] = wrote[job[s].card] \ ((Content \cap Touches[job[s].edit]) \ kept[job[s].card])
         /\ \A c \in Cards : card[c] = "none" => wrote'[c] = wrote[c]
         /\ \A c \in Cards : card[c] # "none" => wrote'[c] \subseteq Touches[edit[c]]
<1> DEFINE j == job[s]
           w == Content \cap Touches[j.edit]
<1>1. wrote \in [Cards -> SUBSET Spots] /\ CardsKnown /\ DoorFits(j) /\ Filled(j)
  BY CommonTypes, JobKnown
<1>2. j.door = "page" => wrote' = wrote
  BY DEF WroteContent
<1>3. j.door = "accept" => wrote' = [wrote EXCEPT ![j.card] = wrote[j.card] \cup w]
  BY DEF WroteContent
<1>4. j.door = "undo" => wrote' = [wrote EXCEPT ![j.card] = wrote[j.card] \ (w \ kept[j.card])]
  BY DEF WroteContent
<1>5. Owned(j) => j.card \in Cards /\ card[j.card] # "none" /\ j.edit = edit[j.card] /\ w \subseteq Spots
  BY <1>1 DEF DoorFits, Filled, Spots
<1> HIDE DEF w
<1>6. /\ wrote' \in [Cards -> SUBSET Spots]
      /\ \A c \in Cards : c # j.card => wrote'[c] = wrote[c]
      /\ j.door = "accept" => wrote'[j.card] = wrote[j.card] \cup w
      /\ j.door = "undo" => wrote'[j.card] = wrote[j.card] \ (w \ kept[j.card])
  BY <1>1, <1>2, <1>3, <1>4, <1>5 DEF Owned
<1>7. \A c \in Cards : card[c] = "none" => wrote'[c] = wrote[c]
  BY <1>2, <1>5, <1>6 DEF Owned
<1>8. \A c \in Cards : card[c] # "none" => wrote'[c] \subseteq Touches[edit[c]]
  BY <1>1, <1>2, <1>5, <1>6 DEF Owned, CardsKnown, w
<1> QED BY <1>2, <1>6, <1>7, <1>8 DEF w

\* The cards stay as they are, but for what one has written.
LEMMA WroteKnown ==
  ASSUME TInv, \A c \in Cards : card[c] = "none" => wrote'[c] = wrote[c],
         \A c \in Cards : card[c] # "none" => wrote'[c] \subseteq Touches[edit[c]],
         UNCHANGED <<card, edit, done>>
  PROVE  CardsKnown' /\ EditsKept
  BY CommonTypes DEF CardsKnown, EditsKept

LEMMA PlaceTyped ==
  ASSUME TInv, NEW s \in Strands, Place(s)
  PROVE  TInv'
<1>1. /\ content' = [content EXCEPT ![job[s].vis] = job[s].seen] /\ UNCHANGED <<made, status, postponed, owed>>
      /\ IF job[s].enough THEN WroteContent(s) ELSE wrote' = wrote
      /\ UNCHANGED cards /\ done' = done /\ kept' = kept /\ UNCHANGED cut /\ UNCHANGED bounds
      /\ row' = row /\ announced' = announced
  BY DEF Place
<1>2. /\ WroteStep(s) /\ job[s].at = "place" /\ job[s].door \in {"page", "accept", "undo"}
      /\ job[s].enough => Ended(job'[s], job[s])
      /\ ~job[s].enough => GoesOn(job'[s], job[s], "store", job[s].door)
  BY PlaceLeaves
<1>3. job[s].vis \in Plans /\ job[s].seen \in [Content -> Texts]
  BY <1>2, JobKnown DEF Filled
<1>4. PlansTyped' /\ OneApproved' /\ made' \in Int /\ made <= made'
  BY <1>1, <1>3, CommonTypes DEF PlansTyped, OneApproved, Approved
<1>5. wrote' \in [Cards -> SUBSET Spots] /\ CardsKnown' /\ EditsKept /\ CardsTyped'
  <2>1. CardsTyped' /\ UNCHANGED <<card, edit, done>>
    BY <1>1, CardsStay DEF cards
  <2>2. CASE job[s].enough
    BY <1>1, <1>2, <2>1, <2>2, WroteContentIs, WroteKnown
  <2>3. CASE ~job[s].enough
    BY <1>1, <2>1, <2>3, CardsStay, CommonTypes
  <2> QED BY <2>2, <2>3
<1>6. (DoorFits(job[s]) /\ Filled(job[s]))'
  <2>1. CASE job[s].enough
    BY <1>2, <1>4, <1>5, <2>1, EndedFits
  <2>2. CASE ~job[s].enough
    <3>1. WayOn(job[s], "store", job[s].door)
      BY <1>2 DEF WayOn
    <3> QED BY <1>2, <1>4, <1>5, <2>2, <3>1, GoesOnFits
  <2> QED BY <2>1, <2>2
<1>7. /\ row' \in [Rows -> Texts] /\ announced' \in Texts /\ done' \in [Cards -> Nat]
      /\ kept' \in [Cards -> SUBSET Spots]
  BY <1>1, CommonTypes
<1> QED BY <1>1, <1>2, <1>4, <1>5, <1>6, <1>7, WritesTyped

LEMMA DirectWritesTyped ==
  ASSUME TInv, NEW s \in Strands, DirectWrites(s)
  PROVE  TInv'
<1>1. /\ content' = [content EXCEPT ![job[s].plan] = job[s].page] /\ UNCHANGED <<made, status, postponed, owed>>
      /\ WroteContent(s)
      /\ UNCHANGED cards /\ done' = done /\ kept' = kept /\ UNCHANGED cut /\ UNCHANGED bounds
      /\ row' = row /\ announced' = announced
  BY DEF DirectWrites
<1>2. /\ WroteStep(s) /\ job[s].at = "direct" /\ job[s].door \in {"accept", "undo"}
      /\ job[s].page[Period] # job[s].old => GoesOn(job'[s], job[s], "announce", job[s].door)
      /\ job[s].page[Period] = job[s].old => Ended(job'[s], job[s])
  BY DirectWritesLeaves
<1>3. job[s].plan \in Plans /\ job[s].page \in [Content -> Texts]
  BY <1>2, JobKnown DEF Filled
<1>4. PlansTyped' /\ OneApproved' /\ made' \in Int /\ made <= made'
  BY <1>1, <1>3, CommonTypes DEF PlansTyped, OneApproved, Approved
<1>5. wrote' \in [Cards -> SUBSET Spots] /\ CardsKnown' /\ EditsKept /\ CardsTyped'
  <2>1. CardsTyped' /\ UNCHANGED <<card, edit, done>>
    BY <1>1, CardsStay DEF cards
  <2> QED BY <1>1, <1>2, <2>1, WroteContentIs, WroteKnown
<1>6. (DoorFits(job[s]) /\ Filled(job[s]))'
  <2>1. CASE job[s].page[Period] = job[s].old
    BY <1>2, <1>4, <1>5, <2>1, EndedFits
  <2>2. CASE job[s].page[Period] # job[s].old
    <3>1. WayOn(job[s], "announce", job[s].door)
      BY <1>2 DEF WayOn, Owned
    <3> QED BY <1>2, <1>3, <1>4, <1>5, <2>2, <3>1, GoesOnFits
  <2> QED BY <2>1, <2>2
<1>7. /\ row' \in [Rows -> Texts] /\ announced' \in Texts /\ done' \in [Cards -> Nat]
      /\ kept' \in [Cards -> SUBSET Spots]
  BY <1>1, CommonTypes
<1> QED BY <1>1, <1>2, <1>4, <1>5, <1>6, <1>7, WritesTyped

\* A draft is written, in the plan in hand or in a new one.
LEMMA StoreIs ==
  ASSUME TInv, NEW s \in Strands, Store(s)
  PROVE  LET j == job[s] IN
         /\ j.plan \in Plans /\ j.page \in [Content -> Texts]
         /\ j.fresh => /\ made + 1 \in Plans /\ made' = made + 1 /\ status' = [status EXCEPT ![made + 1] = "draft"]
                       /\ content' = [content EXCEPT ![made + 1] = j.page]
                       /\ on' = [c \in Cards |-> IF c \in CardsOn(j.plan, {"pending"}) THEN made + 1 ELSE on[c]]
         /\ ~j.fresh => content' = [content EXCEPT ![j.plan] = j.page] /\ UNCHANGED <<made, status, on>>
         /\ PlansTyped' /\ OneApproved' /\ made' \in Int /\ made <= made' /\ CardsTyped' /\ EditsKept
         /\ wrote' \in [Cards -> SUBSET Spots] /\ CardsKnown'
<1> DEFINE j == job[s]
<1>1. /\ UNCHANGED <<postponed, owed, card, edit, was, done>> /\ WroteContent(s) /\ j.at = "store"
      /\ j.fresh => /\ made < MaxPlans /\ made' = made + 1 /\ status' = [status EXCEPT ![made + 1] = "draft"]
                    /\ content' = [content EXCEPT ![made + 1] = j.page]
                    /\ on' = [c \in Cards |-> IF c \in CardsOn(j.plan, {"pending"}) THEN made + 1 ELSE on[c]]
      /\ ~j.fresh => content' = [content EXCEPT ![j.plan] = j.page] /\ UNCHANGED <<made, status, on>>
  BY DEF Store, At
<1>2. j.plan \in Plans /\ j.page \in [Content -> Texts] /\ j.door \in {"page", "accept", "undo"}
  BY <1>1, JobKnown DEF Filled, DoorFits, Owned
<1>3. made \in Plans /\ \A p \in Plans : p \in 1..MaxPlans
  BY MadeKnown DEF TInv, Plans
<1>4. j.fresh => made + 1 \in Plans /\ made + 1 \in 0..MaxPlans /\ made + 1 # 0
  BY <1>1, <1>3, BoundsAssumption DEF Plans
<1>5. PlansTyped' /\ made' \in Int /\ made <= made'
  <2>1. CASE j.fresh
    <3>1. status' \in [Plans -> PlanStatus] /\ content' \in [Plans -> [Content -> Texts]]
      BY <1>1, <1>2, <1>4, <2>1, CommonTypes DEF PlansTyped, PlanStatus
    <3>2. \A p \in Plans : status'[p] = "none" <=> p > made'
      <4>1. \A p \in Plans : status'[p] = IF p = made + 1 THEN "draft" ELSE status[p]
        BY <1>1, <1>4, <2>1, CommonTypes DEF PlansTyped
      <4>2. \A p \in Plans : status[p] = "none" <=> p > made
        BY CommonTypes DEF PlansTyped
      <4> QED BY <1>1, <1>3, <2>1, <4>1, <4>2
    <3> QED BY <1>1, <1>3, <1>4, <2>1, <3>1, <3>2, CommonTypes DEF PlansTyped
  <2>2. CASE ~j.fresh
    BY <1>1, <1>2, <1>3, <2>2, CommonTypes DEF PlansTyped
  <2> QED BY <2>1, <2>2
<1>6. OneApproved'
  BY <1>1, <1>4, CommonTypes DEF PlansTyped, OneApproved, Approved
<1>7. CardsTyped'
  <2>1. on' \in [Cards -> 0..MaxPlans] /\ \A c \in Cards : on'[c] = 0 <=> on[c] = 0
    BY <1>1, <1>4, CommonTypes DEF CardsTyped, CardsOn
  <2> QED BY <1>1, <2>1, CommonTypes DEF CardsTyped
<1>8. wrote' \in [Cards -> SUBSET Spots] /\ CardsKnown' /\ EditsKept
  BY <1>1, <1>2, WroteContentIs, WroteKnown
<1> QED BY <1>1, <1>2, <1>4, <1>5, <1>6, <1>7, <1>8

LEMMA StoreTyped ==
  ASSUME TInv, NEW s \in Strands, Store(s)
  PROVE  TInv'
<1>1. done' = done /\ kept' = kept /\ UNCHANGED cut /\ UNCHANGED bounds /\ row' = row /\ announced' = announced
  BY DEF Store
<1>2. WroteStep(s) /\ job[s].at = "store" /\ job[s].door \in {"page", "accept", "undo"} /\ Ended(job'[s], job[s])
  BY StoreLeaves
<1>3. /\ PlansTyped' /\ OneApproved' /\ made' \in Int /\ made <= made' /\ CardsTyped' /\ EditsKept
      /\ wrote' \in [Cards -> SUBSET Spots] /\ CardsKnown'
  BY StoreIs
<1>4. (DoorFits(job[s]) /\ Filled(job[s]))'
  BY <1>2, <1>3, EndedFits
<1>5. /\ row' \in [Rows -> Texts] /\ announced' \in Texts /\ done' \in [Cards -> Nat]
      /\ kept' \in [Cards -> SUBSET Spots]
  BY <1>1, CommonTypes
<1> QED BY <1>1, <1>2, <1>3, <1>4, <1>5, WritesTyped

LEMMA ClaimTyped ==
  ASSUME TInv, NEW s \in Strands, Claim(s)
  PROVE  TInv'
<1> DEFINE j == job[s]
<1>1. /\ UNCHANGED <<on, edit, was>> /\ UNCHANGED plans /\ UNCHANGED <<wrote, done, kept>> /\ UNCHANGED cut
      /\ UNCHANGED bounds /\ row' = row /\ announced' = announced
  BY DEF Claim, history
<1>2. /\ j.at = "claim" /\ j.door = "accept"
      /\ card[j.card] = "pending" =>
           /\ WroteStep(s) /\ card' = Settle({j.card}, "accepted")
           /\ \/ Touches[j.edit] \cap Content = {} /\ GoesOn(job'[s], j, "rows", "accept")
              \/ GoesOn(job'[s], j, "write", "accept")
      /\ card[j.card] # "pending" => ReadStep(s) /\ job'[s] = Idle /\ card' = card
  BY ClaimLeaves
<1>3. j.card \in Cards /\ card[j.card] # "none"
  BY <1>2, JobKnown DEF DoorFits, Filled, Owned
<1>4. PlansTyped' /\ OneApproved' /\ made' \in Int /\ made <= made'
  BY <1>1, PlansStay
<1>5. CASE card[j.card] = "pending"
  <2>1. CardsTyped' /\ EditsKept /\ CardsKnown'
    <3>1. (\A c \in {j.card} : c \in Cards /\ card[c] # "none") /\ "accepted" \in CardStatus \ {"none"}
      BY <1>3 DEF CardStatus
    <3> QED BY <1>1, <1>2, <1>5, <3>1, SettleTyped
  <2>2. (DoorFits(job[s]) /\ Filled(job[s]))'
    <3>1. WayOn(j, "rows", "accept") /\ WayOn(j, "write", "accept")
      BY <1>2 DEF WayOn, Owned
    <3> QED BY <1>2, <1>4, <1>5, <2>1, <3>1, GoesOnFits
  <2> QED BY <1>1, <1>2, <1>4, <1>5, <2>1, <2>2, CommonTypes, WritesTyped
<1>6. CASE card[j.card] # "pending"
  <2>1. UNCHANGED <<plans, row, announced, cards, wrote, done>>
    BY <1>1, <1>2, <1>6 DEF cards
  <2>2. /\ BoundsTyped' /\ cut' \subseteq Cards /\ orderly' \in BOOLEAN /\ ReadStep(s)
        /\ kept' \in [Cards -> SUBSET Spots]
    BY <1>1, <1>2, <1>6, BoundsStay DEF TInv, TypeOK, ReadStep
  <2> QED BY <1>2, <1>6, <2>1, <2>2, IdleFits, LooksTyped DEF ReadStep
<1> QED BY <1>5, <1>6

LEMMA KeepsTyped ==
  ASSUME TInv, NEW s \in Strands, KeepsContent(job[s])
  PROVE  kept' \in [Cards -> SUBSET Spots]
<1> DEFINE j == job[s]
           w == Content \cap Touches[j.edit]
<1>1. kept' = [kept EXCEPT ![j.card] = kept[j.card] \cup w] /\ w \subseteq Spots
  BY DEF KeepsContent, Spots
<1> HIDE DEF w
<1> QED BY <1>1, CommonTypes

LEMMA WriteContentTyped ==
  ASSUME TInv, NEW s \in Strands, WriteContent(s)
  PROVE  TInv'
<1> DEFINE j == job[s]
<1>1. UNCHANGED plans /\ row' = row /\ announced' = announced /\ UNCHANGED cards /\ done' = done
      /\ UNCHANGED cut /\ UNCHANGED bounds
  BY DEF WriteContent
<1>2. /\ ReadStep(s) /\ j.at = "write" /\ j.door \in {"accept", "undo"} /\ (kept' = kept \/ KeepsContent(j))
      /\ \/ GoesOn(job'[s], j, "revert", j.door) /\ wrote' = wrote
         \/ j.direct /\ wrote' = wrote /\ \E page : PageOf(j, page) /\ Directing(job'[s], j, page)
         \/ /\ ~j.direct /\ \E page : PageOf(j, page) /\ Saves(job'[s], j, page)
            /\ WroteContent(s) \/ wrote' = wrote
  BY WriteContentLeaves
<1>3. PlansTyped' /\ OneApproved' /\ made' \in Int /\ made <= made' /\ CardsTyped' /\ EditsKept
  BY <1>1, PlansStay, CardsStay
<1>4. wrote' \in [Cards -> SUBSET Spots] /\ CardsKnown'
  <2>1. UNCHANGED <<card, edit, done>>
    BY <1>1 DEF cards
  <2>2. CASE WroteContent(s)
    BY <1>2, <2>1, <2>2, WroteContentIs, WroteKnown
  <2>3. CASE wrote' = wrote
    BY <1>1, <2>3, CommonTypes, CardsStay
  <2> QED BY <1>2, <2>2, <2>3
<1>5. (DoorFits(job[s]) /\ Filled(job[s]))'
  <2>0. Owned(j) /\ j \in Job /\ UNCHANGED <<made, card, edit>>
    BY <1>1, <1>2, JobKnown DEF Owned, plans, cards
  <2>1. CASE GoesOn(job'[s], j, "revert", j.door)
    <3>1. WayOn(j, "revert", j.door)
      BY <1>2, <2>0 DEF WayOn
    <3> QED BY <1>2, <1>3, <2>1, <3>1, GoesOnFits
  <2>2. ASSUME j.direct, NEW page, PageOf(j, page), Directing(job'[s], j, page)
        PROVE  (DoorFits(job[s]) /\ Filled(job[s]))'
    <3>1. DoorFits(j) /\ Filled(j) /\ page \in [Content -> Texts]
      BY <2>2, JobKnown DEF PageOf
    <3>2. DoorFits(job[s])'
      BY <1>2, <2>0, <2>2, <3>1 DEF Directing, DoorFits, Owned, OwnPlaces
    <3>3. Filled(job[s])'
      BY <1>2, <2>0, <2>2, <3>1 DEF Directing, Filled, Owned
    <3> QED BY <3>2, <3>3
  <2>3. ASSUME ~j.direct, NEW page, PageOf(j, page), Saves(job'[s], j, page)
        PROVE  (DoorFits(job[s]) /\ Filled(job[s]))'
    <3>1. page \in [Content -> Texts]
      BY <2>3 DEF PageOf
    <3> QED BY <2>0, <2>3, <3>1, SavesFits
  <2> QED BY <1>2, <2>1, <2>2, <2>3
<1>6. Carried'
  BY <1>2, <1>3, <1>5, CarriedBy DEF ReadStep
<1>7. /\ row' \in [Rows -> Texts] /\ announced' \in Texts /\ done' \in [Cards -> Nat] /\ BoundsTyped'
      /\ cut' \subseteq Cards /\ orderly' \in BOOLEAN /\ job' \in [Strands -> Job]
  BY <1>1, <1>2, CommonTypes, BoundsStay DEF TInv, TypeOK, ReadStep
<1>8. kept' \in [Cards -> SUBSET Spots]
  BY <1>2, KeepsTyped, CommonTypes
<1> QED BY <1>3, <1>4, <1>6, <1>7, <1>8, TInvBy

LEMMA WriteRowTyped ==
  ASSUME TInv, NEW s \in Strands, WriteRow(s)
  PROVE  TInv'
<1> DEFINE j == job[s]
<1>1. UNCHANGED plans /\ announced' = announced /\ UNCHANGED cards /\ done' = done /\ kept' = kept
      /\ UNCHANGED cut /\ UNCHANGED bounds
  BY DEF WriteRow
<1>2. /\ WroteStep(s) /\ j.at = "rows" /\ j.door = "accept" /\ j.card \in Cards
      /\ job'[s] \in Job /\ SameHand(job'[s], j) /\ job'[s].at = "rows" /\ job'[s].door = "accept"
      /\ job'[s].alone = j.alone
  BY WriteRowLeaves
<1>3. PICK x \in j.left :
         /\ row'   = [row EXCEPT ![x] = j.edit]
         /\ wrote' = [wrote EXCEPT ![j.card] = wrote[j.card] \cup {x}]
         /\ job'[s].left = j.left \ {x}
  BY WriteRowLeaves
<1>4. /\ DoorFits(j) /\ Filled(j) /\ j.edit \in Edits /\ j.edit = edit[j.card] /\ card[j.card] # "none"
      /\ x \in Touches[j.edit] /\ x \in Rows /\ x \in Spots
  BY <1>2, JobKnown DEF Filled, Owned, Spots
<1>5. PlansTyped' /\ OneApproved' /\ made' \in Int /\ made <= made' /\ CardsTyped' /\ EditsKept
  BY <1>1, PlansStay, CardsStay
<1>6. wrote' \in [Cards -> SUBSET Spots] /\ CardsKnown'
  BY <1>1, <1>2, <1>3, <1>4, CommonTypes DEF cards, CardsKnown
<1>7. /\ row' \in [Rows -> Texts] /\ announced' \in Texts /\ done' \in [Cards -> Nat]
      /\ kept' \in [Cards -> SUBSET Spots]
  BY <1>1, <1>3, <1>4, CommonTypes DEF Texts
<1>8. (DoorFits(job[s]) /\ Filled(job[s]))'
  BY <1>1, <1>2, <1>3, <1>4 DEF DoorFits, Filled, Owned, OwnPlaces, SameHand, plans, cards
<1> QED BY <1>1, <1>2, <1>5, <1>6, <1>7, <1>8, WritesTyped

LEMMA UndoRowTyped ==
  ASSUME TInv, NEW s \in Strands, UndoRow(s)
  PROVE  TInv'
<1> DEFINE j == job[s]
<1>1. UNCHANGED plans /\ announced' = announced /\ UNCHANGED cards /\ done' = done /\ UNCHANGED cut
      /\ UNCHANGED bounds
  BY DEF UndoRow
<1>2. j.at = "unrow" /\ j.door = "undo" /\ j.card \in Cards
  BY UndoRowLeaves
<1>3. PICK x \in Moved(j) : UndoneRow(s, x) /\ BackFrom(job'[s], j, x)
  BY UndoRowLeaves
<1>4. /\ DoorFits(j) /\ Filled(j) /\ j.look \in [Spots -> Texts] /\ card[j.card] # "none"
      /\ x \in Rows /\ x \in Spots /\ x \in Touches[j.edit]
  BY <1>2, JobKnown DEF Filled, Owned, Spots, Moved
<1>5. PlansTyped' /\ OneApproved' /\ made' \in Int /\ made <= made' /\ CardsTyped' /\ EditsKept
  BY <1>1, PlansStay, CardsStay
<1>6. wrote' \in [Cards -> SUBSET Spots] /\ CardsKnown' /\ kept' \in [Cards -> SUBSET Spots]
  <2>1. wrote \in [Cards -> SUBSET Spots] /\ kept \in [Cards -> SUBSET Spots] /\ CardsKnown
    BY CommonTypes
  <2>2. card' = card /\ edit' = edit /\ done' = done
    BY <1>1 DEF cards
  <2>3. CASE /\ kept' = kept
             /\ wrote' = [wrote EXCEPT ![j.card] = wrote[j.card] \ ({x} \ kept[j.card])]
    BY <1>2, <1>4, <2>1, <2>2, <2>3 DEF CardsKnown
  <2>4. CASE wrote' = wrote /\ kept' = [kept EXCEPT ![j.card] = kept[j.card] \cup {x}]
    BY <1>2, <1>4, <2>1, <2>2, <2>4 DEF CardsKnown
  <2> QED BY <1>3, <2>3, <2>4 DEF UndoneRow
<1>7. row' \in [Rows -> Texts] /\ announced' \in Texts /\ done' \in [Cards -> Nat]
  BY <1>1, <1>3, <1>4, CommonTypes DEF UndoneRow
<1>8. (DoorFits(job[s]) /\ Filled(job[s]))'
  BY <1>1, <1>2, <1>3, <1>4 DEF BackFrom, DoorFits, Filled, Owned, OwnPlaces, SameHand, plans, cards
<1>9. Carried'
  BY <1>3, <1>5, <1>8, CarriedBy DEF UndoneRow, WroteStep, ReadStep, Passed
<1>10. BoundsTyped' /\ cut' \subseteq Cards /\ orderly' \in BOOLEAN /\ job' \in [Strands -> Job]
  BY <1>1, <1>3, BoundsStay DEF TInv, TypeOK, UndoneRow, WroteStep, ReadStep, Job
<1> QED BY <1>5, <1>6, <1>7, <1>9, <1>10, TInvBy

LEMMA EndAcceptTyped ==
  ASSUME TInv, NEW s \in Strands, EndAccept(s)
  PROVE  TInv'
<1> DEFINE c == job[s].card
<1>1. /\ UNCHANGED plans /\ row' = row /\ announced' = announced /\ UNCHANGED cards /\ wrote' = wrote
      /\ kept' = kept /\ UNCHANGED cut /\ UNCHANGED bounds /\ done' = [done EXCEPT ![c] = done[c] + 1]
  BY DEF EndAccept
<1>2. ReadStep(s) /\ job'[s] = Idle /\ c \in Cards /\ card[c] # "none"
  BY EndAcceptLeaves, JobKnown DEF DoorFits, Filled, Owned
<1>3. PlansTyped' /\ OneApproved' /\ made' \in Int /\ made <= made' /\ CardsTyped' /\ EditsKept
  BY <1>1, PlansStay, CardsStay
<1>4. done' \in [Cards -> Nat] /\ CardsKnown'
  BY <1>1, <1>2, CommonTypes DEF cards, CardsKnown
<1>5. Carried'
  BY <1>2, <1>3, IdleFits, CarriedBy DEF ReadStep
<1>6. /\ row' \in [Rows -> Texts] /\ announced' \in Texts /\ wrote' \in [Cards -> SUBSET Spots] /\ BoundsTyped'
      /\ kept' \in [Cards -> SUBSET Spots] /\ cut' \subseteq Cards /\ orderly' \in BOOLEAN /\ job' \in [Strands -> Job]
  BY <1>1, <1>2, CommonTypes, BoundsStay DEF TInv, TypeOK, ReadStep
<1> QED BY <1>3, <1>4, <1>5, <1>6, TInvBy

LEMMA FailApplyTyped ==
  ASSUME TInv, NEW s \in Strands, FailApply(s)
  PROVE  TInv'
<1> DEFINE j == job[s]
<1>1. UNCHANGED <<plans, row, announced, cards, wrote, done>> /\ UNCHANGED cut
  BY DEF FailApply
<1>2. BoundsTyped'
  BY BoundsAssumption DEF FailApply, TInv, TypeOK, BoundsTyped
<1>3. /\ ReadStep(s) /\ Owned(j) /\ j.at \in {"write", "rows"} /\ (kept' = kept \/ KeepsContent(j))
      /\ \/ GoesOn(job'[s], j, "revert", j.door)
         \/ GoesOn(job'[s], j, "unrow", "undo")
         \/ GoesOn(job'[s], j, "write", "undo")
  BY FailApplyLeaves
<1>4. EditsKept /\ made' \in Int /\ made <= made'
  BY <1>1, CardsStay, PlansStay
<1>5. (DoorFits(job[s]) /\ Filled(job[s]))'
  <2>1. WayOn(j, "unrow", "undo") /\ WayOn(j, "write", "undo") /\ WayOn(j, "revert", j.door)
    BY <1>3 DEF WayOn, Owned
  <2> QED BY <1>3, <1>4, <2>1, GoesOnFits
<1>6. cut' \subseteq Cards /\ orderly' \in BOOLEAN
  BY <1>1, <1>3 DEF TInv, TypeOK, ReadStep
<1>7. kept' \in [Cards -> SUBSET Spots]
  BY <1>3, KeepsTyped, CommonTypes
<1> QED BY <1>1, <1>2, <1>3, <1>5, <1>6, <1>7, LooksTyped DEF ReadStep

LEMMA CrashTyped ==
  ASSUME TInv, NEW s \in Strands, Crash(s)
  PROVE  TInv'
<1>1. /\ UNCHANGED <<plans, row, announced, cards, wrote, done>> /\ cut' \subseteq Cards /\ BoundsTyped'
      /\ kept' \in [Cards -> SUBSET Spots]
  BY BoundsAssumption DEF Crash, TInv, TypeOK, BoundsTyped
<1> QED BY <1>1, CrashLeaves, IdleFits, LooksTyped

\* A request that is one update: nobody goes on from it.
LEMMA PassTyped ==
  ASSUME TInv, Pass, UNCHANGED <<faults, crashes, wrote, done, kept, cut, announced>>, made' \in Int, made <= made',
         EditsKept, PlansTyped', CardsTyped', CardsKnown', OneApproved', row' \in [Rows -> Texts]
  PROVE  TInv'
<1>1. PassStep /\ BoundsTyped'
  BY PassIs, CountTyped DEF TInv, TypeOK, Pass
<1>2. Carried'
  BY <1>1, StaysFits DEF PassStep, Carried
<1>3. /\ announced' \in Texts /\ wrote' \in [Cards -> SUBSET Spots] /\ done' \in [Cards -> Nat]
      /\ kept' \in [Cards -> SUBSET Spots]
      /\ cut' \subseteq Cards /\ orderly' \in BOOLEAN /\ job' \in [Strands -> Job]
  BY <1>1, CommonTypes DEF TInv, TypeOK, PassStep
<1> QED BY <1>1, <1>2, <1>3, TInvBy

\* Cards the staff or the trainer settle at once.
Settles == Review \/ ReviewAll \/ Withdraw \/ Reject

LEMMA SettlesIs ==
  ASSUME TInv, Settles
  PROVE  /\ UNCHANGED <<plans, row, announced, on, edit, was, history, faults, crashes>> /\ Pass
         /\ \E S \in SUBSET {c \in Cards : card[c] \in Undecided}, st \in CardStatus \ {"none", "accepted", "proposed"} :
              card' = Settle(S, st)
<1>1. UNCHANGED <<plans, row, announced, on, edit, was, history, faults, crashes>> /\ Pass
  BY DEF Settles, Review, ReviewAll, Withdraw, Reject
<1>2. \E S \in SUBSET {c \in Cards : card[c] \in Undecided}, st \in CardStatus \ {"none", "accepted", "proposed"} :
        card' = Settle(S, st)
  <2>1. ASSUME NEW S, \A c \in S : c \in Cards /\ card[c] \in Undecided,
               NEW st \in {"pending", "dropped", "withdrawn", "rejected"}, card' = Settle(S, st)
        PROVE  \E T \in SUBSET {c \in Cards : card[c] \in Undecided}, t \in CardStatus \ {"none", "accepted", "proposed"} :
                 card' = Settle(T, t)
    <3>1. S \in SUBSET {c \in Cards : card[c] \in Undecided} /\ st \in CardStatus \ {"none", "accepted", "proposed"}
      BY <2>1 DEF CardStatus
    <3> QED BY <2>1, <3>1
  <2>2. CASE Review
    <3>1. PICK c \in Cards, to \in {"pending", "dropped"} : card[c] = "proposed" /\ card' = Settle({c}, to)
      BY <2>2 DEF Review
    <3>2. \A d \in {c} : d \in Cards /\ card[d] \in Undecided
      BY <3>1 DEF Undecided
    <3> QED BY <2>1, <3>1, <3>2
  <2>3. CASE ReviewAll
    <3>1. PICK p \in Plans : card' = Settle(CardsOn(p, {"proposed"}), "pending")
      BY <2>3 DEF ReviewAll
    <3>2. \A d \in CardsOn(p, {"proposed"}) : d \in Cards /\ card[d] \in Undecided
      BY DEF Undecided, CardsOn
    <3> QED BY <2>1, <3>1, <3>2
  <2>4. CASE Withdraw
    <3>1. PICK p \in Plans : card' = Settle(CardsOn(p, Undecided), "withdrawn")
      BY <2>4 DEF Withdraw
    <3>2. \A d \in CardsOn(p, Undecided) : d \in Cards /\ card[d] \in Undecided
      BY DEF CardsOn
    <3> QED BY <2>1, <3>1, <3>2
  <2>5. CASE Reject
    <3>1. PICK c \in Cards : card[c] = "pending" /\ card' = Settle({c}, "rejected")
      BY <2>5 DEF Reject
    <3>2. \A d \in {c} : d \in Cards /\ card[d] \in Undecided
      BY <3>1 DEF Undecided
    <3> QED BY <2>1, <3>1, <3>2
  <2> QED BY <2>2, <2>3, <2>4, <2>5 DEF Settles
<1> QED BY <1>1, <1>2

LEMMA SettlesTyped ==
  ASSUME TInv, Settles
  PROVE  TInv'
<1>1. UNCHANGED <<plans, row, announced, on, edit, was, history, faults, crashes>> /\ Pass
  BY SettlesIs
<1>2. PICK S \in SUBSET {c \in Cards : card[c] \in Undecided}, st \in CardStatus \ {"none", "accepted", "proposed"} :
        card' = Settle(S, st)
  BY SettlesIs
<1>3. UNCHANGED <<wrote, done, kept>> /\ UNCHANGED cut /\ UNCHANGED <<on, edit, was>> /\ UNCHANGED plans
  BY <1>1 DEF history
<1>4. CardsTyped' /\ EditsKept /\ CardsKnown'
  <2>1. (\A c \in S : c \in Cards /\ card[c] # "none") /\ st \in CardStatus \ {"none"}
    BY DEF Undecided
  <2> QED BY <1>2, <1>3, <2>1, SettleTyped
<1>5. PlansTyped' /\ OneApproved' /\ made' \in Int /\ made <= made'
  BY <1>3, PlansStay
<1>6. row' \in [Rows -> Texts]
  BY <1>1, CommonTypes
<1> QED BY <1>1, <1>3, <1>4, <1>5, <1>6, PassTyped

LEMMA MoveByHandTyped ==
  ASSUME TInv, MoveByHand
  PROVE  TInv'
<1>1. /\ UNCHANGED plans /\ UNCHANGED cards /\ UNCHANGED <<wrote, done, kept>> /\ UNCHANGED cut
      /\ UNCHANGED <<announced, faults, crashes>> /\ Pass
  BY DEF MoveByHand, history
<1>2. PICK x \in Rows, t \in Typed : row' = [row EXCEPT ![x] = t]
  BY DEF MoveByHand
<1>3. row' \in [Rows -> Texts]
  BY <1>2, CommonTypes DEF Texts
<1>4. PlansTyped' /\ OneApproved' /\ made' \in Int /\ made <= made' /\ CardsTyped' /\ EditsKept /\ CardsKnown'
  BY <1>1, PlansStay, CardsStay
<1> QED BY <1>1, <1>3, <1>4, PassTyped

LEMMA ReadCardsTyped ==
  ASSUME TInv, ReadCards
  PROVE  TInv'
<1>1. /\ EnsureNotes(made) /\ UNCHANGED <<made, status, postponed, content, wrote, done, kept>> /\ UNCHANGED cut
      /\ UNCHANGED <<announced, faults, crashes, row>> /\ Pass
  BY DEF ReadCards, history
<1>2. made \in Plans
  BY MadeKnown DEF TInv
<1>3. CardsTyped' /\ EditsKept /\ CardsKnown' /\ PlansTyped' /\ OneApproved'
  BY <1>1, <1>2, EnsureNotesTyped
<1> QED BY <1>1, <1>3, CommonTypes, PassTyped

LEMMA TInvInit == Init => TInv
<1> SUFFICES ASSUME Init PROVE TInv
  OBVIOUS
<1> USE DEF Init
<1>1. 1 \in Plans /\ \A p \in Plans : p \in Int /\ p >= 1
  BY BoundsAssumption DEF Plans
<1>2. /\ status \in [Plans -> PlanStatus] /\ (\A p \in Plans : status[p] = "none" <=> p > made)
      /\ \A p \in Plans : Approved(p) => p = 1
  <2>1. PICK st \in {"draft", "approved"} : status = [p \in Plans |-> IF p = 1 THEN st ELSE "none"]
    OBVIOUS
  <2> QED BY <1>1, <2>1 DEF PlanStatus, Approved
<1>3. PlansTyped
  <2>1. content \in [Plans -> [Content -> Texts]]
    BY DEF Texts
  <2> QED BY <1>1, <1>2, <2>1 DEF PlansTyped
<1>4. CardsTyped /\ CardsKnown
  <2>1. Nothing(Spots) \in [Spots -> Texts \cup {None}] /\ "none" \in CardStatus /\ 0 \in 0..MaxPlans
    BY BoundsAssumption DEF Nothing, CardStatus
  <2> QED BY <2>1 DEF CardsTyped, CardsKnown
<1>5. job \in [Strands -> Job] /\ Carried
  <2>1. 0 \notin Cards
    BY BoundsAssumption DEF Cards
  <2>2. ASSUME NEW s \in Strands PROVE DoorFits(job[s]) /\ Filled(job[s])
    BY <2>1, IdleTyped DEF DoorFits, Filled, Owned
  <2> QED BY <2>2, IdleTyped DEF Carried
<1>6. /\ BoundsTyped /\ row \in [Rows -> Texts] /\ announced \in Texts /\ done \in [Cards -> Nat]
      /\ wrote \in [Cards -> SUBSET Spots] /\ kept \in [Cards -> SUBSET Spots]
      /\ cut \subseteq Cards /\ orderly \in BOOLEAN
  BY BoundsAssumption DEF BoundsTyped, Texts
<1>7. OneApproved
  BY <1>2 DEF OneApproved
<1> QED BY <1>3, <1>4, <1>5, <1>6, <1>7, TypedParts DEF TInv

\* What one strand does, by kind.
StrandActs(s) ==
  \/ Begins(s) \/ LastWrites(s) \/ ReturnWrites(s) \/ ApproveWrites(s) \/ Announce(s)
  \/ Place(s) \/ Store(s) \/ Claim(s) \/ WriteContent(s) \/ DirectWrites(s) \/ WriteRow(s) \/ EndAccept(s)
  \/ FailApply(s) \/ UndoRow(s) \/ Crash(s)

LEMMA NextKinds ==
  Next => MoveByHand \/ ReadCards \/ Settles \/ \E s \in Strands : StrandActs(s)
  BY DEF Next, TrainerStep, StaffStep, Settles, StrandActs, Begins, LastWrites

LEMMA TInvNext ==
  TInv /\ [Next]_vars => TInv'
<1> SUFFICES ASSUME TInv, [Next]_vars PROVE TInv'
  OBVIOUS
<1>1. CASE UNCHANGED vars
  <2>1. /\ TypeOK' /\ CardsKnown' /\ OneApproved'
    BY <1>1 DEF TInv, vars, TypeOK, CardsKnown, OneApproved, Approved
  <2>2. Carried'
    BY <1>1 DEF TInv, vars, Carried, DoorFits, Filled, Owned
  <2> QED BY <2>1, <2>2 DEF TInv
<1>2. CASE MoveByHand \/ ReadCards \/ Settles
  BY <1>2, MoveByHandTyped, ReadCardsTyped, SettlesTyped
<1>3. ASSUME NEW s \in Strands, StrandActs(s) PROVE TInv'
  BY <1>3, BeginsTyped, SubmitWritesTyped, ReturnNotesTyped, PostponeWritesTyped, ApproveLapsesTyped,
     UploadWritesTyped, RevertTyped, ReturnWritesTyped, ApproveWritesTyped, AnnounceTyped, PlaceTyped,
     StoreTyped, ClaimTyped, WriteContentTyped, DirectWritesTyped, WriteRowTyped, EndAcceptTyped,
     FailApplyTyped, UndoRowTyped, CrashTyped DEF StrandActs, LastWrites
<1> QED BY <1>1, <1>2, <1>3, NextKinds

\* The types hold throughout, and what a strand carries is filled in before it is used.
THEOREM TypeCorrect == Spec => []TypeOK
<1>1. TInv => TypeOK
  BY DEF TInv
<1> QED BY <1>1, TInvInit, TInvNext, PTL DEF Spec

----------------------------------------------------------------------------
(* A card is carried out once, and wholly. *)

Idler(s) == \A c \in Cards : ~Working(s, c)

LEMMA StaysWorks ==
  ASSUME TInv, NEW r \in Strands, Stays(r)
  PROVE  /\ \A c \in Cards : Working(r, c)' <=> Working(r, c)
         /\ At(r, "claim")' <=> At(r, "claim")
  BY IdleTyped DEF Stays, SameHand, Working, At

\* The strand of a card goes on as it was, when nobody touches the card.
LEMMA StaysUnderway ==
  ASSUME TInv, Works, NEW r \in Strands, Stays(r), NEW c \in Cards, Working(r, c),
         card'[c] = card[c], wrote'[c] = wrote[c], kept'[c] = kept[c], done'[c] = done[c]
  PROVE  Underway(r)'
<1>1. Underway(r) /\ job[r].card = c /\ job[r].at # "idle"
  BY DEF Works, Working
<1> QED BY <1>1 DEF Stays, SameHand, Underway, Accepts

\* A step that has no card in hand.
LEMMA ActsAside ==
  ASSUME TInv, AInv, \A r \in Strands : Stays(r) \/ (Idler(r) /\ Idler(r)'),
         \A r \in Strands : Stays(r) \/ (At(r, "claim") => job[r].left = Touches[job[r].edit] \cap Rows)',
         UNCHANGED <<wrote, done, kept, cut>>, EditsKept,
         \A c \in Cards : card'[c] = "accepted" <=> card[c] = "accepted"
  PROVE  AInv'
<1>1. \A r \in Strands : \A c \in Cards : Working(r, c)' <=> Working(r, c)
  BY StaysWorks DEF Idler
<1>2. Works'
  <2>1. ASSUME NEW r \in Strands, NEW c \in Cards, Working(r, c)'
        PROVE  Underway(r)'
    <3>1. Working(r, c) /\ Stays(r)
      BY <1>1, <2>1 DEF Idler
    <3>2. card[c] = "accepted" /\ card'[c] = card[c]
      BY <3>1 DEF AInv, Works, Underway, Working
    <3> QED BY <3>1, <3>2, StaysUnderway DEF AInv
  <2>2. ASSUME NEW r \in Strands, At(r, "claim")'
        PROVE  (job[r].left = Touches[job[r].edit] \cap Rows)'
    <3>1. CASE Stays(r)
      <4>1. At(r, "claim")
        BY <2>2, <3>1, StaysWorks
      <4>2. job'[r].left = job[r].left /\ job'[r].edit = job[r].edit
        BY <3>1 DEF Stays, SameHand
      <4> QED BY <4>1, <4>2 DEF AInv, Works
    <3> QED BY <2>2, <3>1
  <2> QED BY <2>1, <2>2 DEF Works
<1>3. OneWorks'
  <2>1. cut \subseteq Cards /\ cut' = cut
    BY DEF TInv, TypeOK
  <2> QED BY <1>1, <2>1 DEF AInv, OneWorks
<1>4. NotAccepted'
  BY DEF AInv, NotAccepted
<1>5. CardActsOnce'
  <2>1. \A c \in Cards : card[c] = "accepted" => edit'[c] = edit[c]
    BY DEF EditsKept
  <2> QED BY <1>1, <2>1 DEF AInv, CardActsOnce
<1> QED BY <1>2, <1>3, <1>4, <1>5 DEF AInv

\* A step of the strand that has card d in hand, and does not let it go unfinished.
LEMMA ActsOn ==
  ASSUME TInv, AInv, NEW s \in Strands, \A r \in Strands \ {s} : Stays(r), NEW d \in Cards,
         Working(s, d) \/ card[d] = "pending",
         \A c \in Cards : Working(s, c) => c = d,
         \A c \in Cards : c # d => card'[c] = card[c] /\ wrote'[c] = wrote[c] /\ kept'[c] = kept[c] /\ done'[c] = done[c],
         UNCHANGED <<cut, edit>>,
         \A c \in Cards : Working(s, c)' => c = d /\ Underway(s)',
         ~At(s, "claim")',
         card'[d] # "accepted" => done'[d] = 0 /\ wrote'[d] = kept'[d],
         Working(s, d)' \/ (card'[d] = "accepted" => done'[d] = 1 /\ wrote'[d] = Touches[edit[d]])
  PROVE  AInv'
<1>1. d \notin cut
  BY DEF AInv, OneWorks
<1>2. \A r \in Strands \ {s} : ~Working(r, d)
  <2>1. \A r \in Strands : Working(r, d) => card[d] = "accepted"
    BY DEF AInv, Works, Underway, Working
  <2> QED BY <2>1 DEF AInv, OneWorks
<1>3. \A r \in Strands \ {s} : \A c \in Cards : Working(r, c)' <=> Working(r, c)
  BY StaysWorks
<1>4. Works'
  <2>1. ASSUME NEW r \in Strands, NEW c \in Cards, Working(r, c)'
        PROVE  Underway(r)'
    <3>1. CASE r = s
      BY <2>1, <3>1
    <3>2. CASE r # s
      <4>1. Working(r, c) /\ c # d /\ Stays(r)
        BY <1>2, <1>3, <2>1, <3>2
      <4> QED BY <4>1, StaysUnderway DEF AInv
    <3> QED BY <3>1, <3>2
  <2>2. ASSUME NEW r \in Strands, At(r, "claim")'
        PROVE  (job[r].left = Touches[job[r].edit] \cap Rows)'
    <3>1. r # s /\ Stays(r)
      BY <2>2
    <3>2. At(r, "claim")
      BY <2>2, <3>1, StaysWorks
    <3>3. job'[r].left = job[r].left /\ job'[r].edit = job[r].edit
      BY <3>1 DEF Stays, SameHand
    <3> QED BY <3>2, <3>3 DEF AInv, Works
  <2> QED BY <2>1, <2>2 DEF Works
<1>5. OneWorks'
  <2>1. ASSUME NEW r \in Strands, NEW q \in Strands, NEW c \in Cards, Working(r, c)', Working(q, c)'
        PROVE  r = q
    <3>1. CASE c = d
      BY <1>2, <1>3, <2>1, <3>1
    <3>2. CASE c # d
      BY <1>3, <2>1, <3>2 DEF AInv, OneWorks
    <3> QED BY <3>1, <3>2
  <2>2. ASSUME NEW c \in cut'
        PROVE  card'[c] = "accepted" /\ \A r \in Strands : ~Working(r, c)'
    <3>1. c \in cut /\ c # d /\ c \in Cards
      BY <1>1, <2>2 DEF TInv, TypeOK
    <3>2. \A r \in Strands : ~Working(r, c)'
      BY <1>3, <3>1 DEF AInv, OneWorks
    <3> QED BY <3>1, <3>2 DEF AInv, OneWorks
  <2> QED BY <2>1, <2>2 DEF OneWorks
<1>6. NotAccepted'
  BY DEF AInv, NotAccepted
<1>7. CardActsOnce'
  <2>1. ASSUME NEW c \in Cards, c \notin cut', \A r \in Strands : ~Working(r, c)'
        PROVE  IF card'[c] = "accepted" THEN done'[c] = 1 /\ wrote'[c] = Touches[edit'[c]]
               ELSE done'[c] = 0 /\ wrote'[c] = kept'[c]
    <3>1. CASE c = d
      BY <2>1, <3>1
    <3>2. CASE c # d
      <4>1. \A r \in Strands : ~Working(r, c)
        BY <1>3, <2>1, <3>2
      <4> QED BY <2>1, <3>2, <4>1 DEF AInv, CardActsOnce
    <3> QED BY <3>1, <3>2
  <2> QED BY <2>1 DEF CardActsOnce
<1> QED BY <1>4, <1>5, <1>6, <1>7 DEF AInv

LEMMA CrashActs ==
  ASSUME TInv, AInv, NEW s \in Strands, Crash(s)
  PROVE  AInv'
<1>1. /\ UNCHANGED <<card, wrote, done, kept, edit>> /\ cut' = cut \cup {c \in Cards : Working(s, c)}
      /\ job'[s] = Idle /\ \A r \in Strands \ {s} : Stays(r)
  BY CrashLeaves DEF Crash, cards
<1>2. \A r \in Strands \ {s} : \A c \in Cards : Working(r, c)' <=> Working(r, c)
  BY <1>1, StaysWorks
<1>3. \A c \in Cards : ~Working(s, c)' /\ ~At(s, "claim")'
  BY <1>1, IdleTyped DEF Working, At
<1>4. Works'
  <2>1. ASSUME NEW r \in Strands, NEW c \in Cards, Working(r, c)'
        PROVE  Underway(r)'
    <3>1. Working(r, c) /\ Stays(r)
      BY <1>1, <1>2, <1>3, <2>1
    <3> QED BY <1>1, <3>1, StaysUnderway DEF AInv
  <2>2. ASSUME NEW r \in Strands, At(r, "claim")'
        PROVE  (job[r].left = Touches[job[r].edit] \cap Rows)'
    <3>1. r # s /\ Stays(r)
      BY <1>1, <2>2, IdleTyped DEF At
    <3>2. At(r, "claim")
      BY <2>2, <3>1, StaysWorks
    <3>3. job'[r].left = job[r].left /\ job'[r].edit = job[r].edit
      BY <3>1 DEF Stays, SameHand
    <3> QED BY <3>2, <3>3 DEF AInv, Works
  <2> QED BY <2>1, <2>2 DEF Works
<1>5. OneWorks'
  <2>1. \A r, q \in Strands : \A c \in Cards : Working(r, c)' /\ Working(q, c)' => r = q
    BY <1>2, <1>3 DEF AInv, OneWorks
  <2>2. ASSUME NEW c \in cut'
        PROVE  card'[c] = "accepted" /\ \A r \in Strands : ~Working(r, c)'
    <3>1. CASE c \in cut
      <4>1. c \in Cards
        BY <3>1 DEF TInv, TypeOK
      <4> QED BY <1>1, <1>2, <1>3, <3>1, <4>1 DEF AInv, OneWorks
    <3>2. CASE c \in Cards /\ Working(s, c)
      <4>1. card[c] = "accepted"
        BY <3>2 DEF AInv, Works, Underway, Working
      <4>2. \A r \in Strands : ~Working(r, c)'
        BY <1>2, <1>3, <3>2 DEF AInv, OneWorks
      <4> QED BY <1>1, <4>1, <4>2
    <3> QED BY <1>1, <2>2, <3>1, <3>2
  <2> QED BY <2>1, <2>2 DEF OneWorks
<1>6. NotAccepted' /\ CardActsOnce'
  <2>1. NotAccepted'
    BY <1>1 DEF AInv, NotAccepted
  <2>2. ASSUME NEW c \in Cards, c \notin cut', \A r \in Strands : ~Working(r, c)'
        PROVE  IF card'[c] = "accepted" THEN done'[c] = 1 /\ wrote'[c] = Touches[edit'[c]]
               ELSE done'[c] = 0 /\ wrote'[c] = kept'[c]
    <3>1. c \notin cut /\ \A r \in Strands : ~Working(r, c)
      BY <1>1, <1>2, <2>2
    <3> QED BY <1>1, <3>1 DEF AInv, CardActsOnce
  <2> QED BY <2>1, <2>2 DEF CardActsOnce
<1> QED BY <1>4, <1>5, <1>6 DEF AInv

\* A card that is in hand is there, and its strand knows what it says.
LEMMA InHandKnown ==
  ASSUME TInv, Works, NEW s \in Strands, Owned(job[s])
  PROVE  LET j == job[s] IN
         /\ j.card \in Cards /\ j.edit = edit[j.card] /\ j.edit \in Edits /\ card[j.card] # "none"
         /\ wrote[j.card] \subseteq Touches[j.edit] /\ Touches[j.edit] \subseteq Content \cup Rows
         /\ j.at \notin {"idle", "claim"} => Working(s, j.card) /\ Underway(s)
         /\ \A c \in Cards : Working(s, c) => c = j.card
<1>1. DoorFits(job[s]) /\ Filled(job[s]) /\ CardsKnown
  BY JobKnown, CommonTypes
<1>2. job[s].card \in Cards /\ job[s].edit = edit[job[s].card] /\ job[s].edit \in Edits /\ card[job[s].card] # "none"
  BY <1>1 DEF DoorFits, Filled
<1>3. wrote[job[s].card] \subseteq Touches[job[s].edit] /\ Touches[job[s].edit] \subseteq Content \cup Rows
  BY <1>1, <1>2, SpotsAssumption DEF CardsKnown, Spots
<1>4. job[s].at \notin {"idle", "claim"} => Working(s, job[s].card) /\ Underway(s)
  BY <1>2 DEF Working, Works
<1> QED BY <1>2, <1>3, <1>4 DEF Working

LEMMA IdlerIf ==
  ASSUME TInv, NEW s \in Strands, ~Owned(job[s]) \/ job[s].at = "claim"
  PROVE  Idler(s)
  BY JobKnown DEF Idler, Working, DoorFits, Owned

LEMMA IdlerIfNext ==
  ASSUME NEW s \in Strands, job'[s].at \in {"idle", "claim"} \/ job'[s].card \notin Cards
  PROVE  Idler(s)'
  BY DEF Idler, Working

LEMMA BeginsActs ==
  ASSUME TInv, AInv, NEW s \in Strands, Begins(s)
  PROVE  AInv'
<1>1. /\ UNCHANGED <<plans, row, announced, cards, history, faults, crashes>> /\ UNCHANGED <<made, card, edit>>
  BY BeginsKeeps
<1>2. ReadStep(s) /\ (DoorFits(job[s]) /\ Filled(job[s]))'
  BY <1>1, BeginsFits
<1>3. job[s].at = "idle" /\ (Idler(s))' /\ (At(s, "claim") => job[s].left = Touches[job[s].edit] \cap Rows)'
  <2>0. 0 \notin Cards
    BY BoundsAssumption DEF Cards
  <2>1. CASE Save(s)
    <3>1. PICK page \in [Content -> Texts], j \in Job :
             j.door = "page" /\ j.card = 0 /\ Saves(job'[s], j, page)
      BY <2>1, SaveLeaves
    <3>2. job'[s].card = 0 /\ job'[s].at # "claim"
      BY <3>1, IdleTyped DEF Saves, Saving
    <3> QED BY <2>0, <2>1, <3>2, SaveLeaves DEF At, Idler, Working
  <2>2. CASE Submit(s)
    BY <2>0, <2>2, SubmitLeaves DEF At, Idler, Working
  <2>3. CASE Return(s)
    BY <2>0, <2>3, ReturnLeaves DEF At, Idler, Working, StaffBegins
  <2>4. CASE Postpone(s)
    BY <2>0, <2>4, PostponeLeaves DEF At, Idler, Working, StaffBegins
  <2>5. CASE Approve(s)
    BY <2>0, <2>5, ApproveLeaves DEF At, Idler, Working, StaffBegins
  <2>6. CASE Upload(s)
    BY <2>0, <2>6, UploadLeaves DEF At, Idler, Working, StaffBegins, UploadBegins
  <2>7. CASE SendClashFree(s)
    BY <2>0, <2>7, SendClashFreeLeaves DEF At, Idler, Working, StaffBegins, UploadBegins
  <2>8. CASE Accept(s)
    <3>1. Accepting(s)
      BY <2>8, AcceptLeaves
    <3>2. job'[s].left = Touches[job'[s].edit] \cap Rows /\ job'[s].at = "claim" /\ job[s].at = "idle"
      BY <3>1 DEF Accepting
    <3> QED BY <3>2 DEF Idler, Working
  <2> QED BY <2>1, <2>2, <2>3, <2>4, <2>5, <2>6, <2>7, <2>8 DEF Begins
<1>4. Idler(s)
  BY <1>3 DEF Idler, Working
<1>5. UNCHANGED <<wrote, done, kept, cut>> /\ EditsKept /\ card' = card
  BY <1>1, <1>2 DEF history, EditsKept, ReadStep
<1> QED BY <1>2, <1>3, <1>4, <1>5, ActsAside DEF ReadStep

\* A step of a strand that has no card in hand, by which no card is accepted, or let go.
LEMMA AsideActs ==
  ASSUME TInv, AInv, NEW s \in Strands, ~Owned(job[s]), \A r \in Strands \ {s} : Stays(r),
         job'[s].at \in {"idle", "claim"} \/ job'[s].card = job[s].card, job'[s].at # "claim",
         UNCHANGED <<wrote, done, kept, cut>>, EditsKept,
         \A c \in Cards : card'[c] = "accepted" <=> card[c] = "accepted"
  PROVE  AInv'
<1>1. Idler(s)
  BY IdlerIf
<1>2. job'[s].at \in {"idle", "claim"} \/ job'[s].card \notin Cards
  BY JobKnown DEF DoorFits
<1>3. Idler(s)'
  BY <1>2, IdlerIfNext
<1>4. (At(s, "claim") => job[s].left = Touches[job[s].edit] \cap Rows)'
  BY DEF At
<1> QED BY <1>1, <1>3, <1>4, ActsAside

LEMMA SettleActs ==
  ASSUME NEW S, \A c \in S : card[c] # "accepted", NEW st, st # "accepted", card' = Settle(S, st)
  PROVE  \A c \in Cards : card'[c] = "accepted" <=> card[c] = "accepted"
  BY DEF Settle

LEMMA LastWritesActs ==
  ASSUME TInv, AInv, NEW s \in Strands, LastWrites(s), ~Revert(s)
  PROVE  AInv'
<1>1. WroteStep(s) /\ job'[s] = Idle
  BY LastWritesLeaves
<1>2. UNCHANGED <<wrote, done, kept, cut>>
  BY <1>1 DEF LastWrites, SubmitWrites, ReturnNotes, PostponeWrites, ApproveLapses, UploadWrites, history, WroteStep
<1>3. ~Owned(job[s])
  BY JobKnown DEF LastWrites, SubmitWrites, ReturnNotes, PostponeWrites, ApproveLapses, UploadWrites, At, DoorFits,
     OwnPlaces
<1>4. EditsKept /\ \A c \in Cards : card'[c] = "accepted" <=> card[c] = "accepted"
  <2>1. CASE SubmitWrites(s) \/ PostponeWrites(s)
    <3>1. UNCHANGED cards
      BY <2>1 DEF SubmitWrites, PostponeWrites
    <3> QED BY <3>1, CardsStay DEF cards
  <2>2. CASE ReturnNotes(s)
    <3>1. /\ EnsureNotes(job[s].plan) /\ job[s].at = "notes"
          /\ UNCHANGED <<made, status, postponed, content, wrote, done>>
      BY <2>2 DEF ReturnNotes, At, history
    <3>2. job[s].plan \in Plans /\ card \in [Cards -> CardStatus]
      BY <3>1, JobKnown DEF Filled, TInv, TypeOK
    <3>3. EditsKept /\ (UNCHANGED cards \/ \E c \in Cards : card[c] = "none" /\ card' = [card EXCEPT ![c] = "pending"])
      BY <3>1, <3>2, EnsureNotesTyped
    <3> QED BY <3>2, <3>3 DEF cards
  <2>3. CASE ApproveLapses(s)
    <3> DEFINE S == CardsOn(job[s].plan, {"proposed"}) \cup {c \in CardsOn(job[s].plan, {"pending"}) : edit[c] = Note}
    <3>1. card' = Settle(S, "lapsed") /\ UNCHANGED <<on, edit, was>>
      BY <2>3 DEF ApproveLapses
    <3>2. \A c \in S : c \in Cards /\ card[c] \in Undecided
      BY DEF CardsOn, Undecided
    <3> HIDE DEF S
    <3>3. \A c \in Cards : card'[c] = "accepted" <=> card[c] = "accepted"
      BY <3>1, <3>2, SettleActs DEF Undecided
    <3>4. EditsKept
      BY <3>1, <3>2, SettleTyped DEF Undecided, CardStatus
    <3> QED BY <3>3, <3>4
  <2>4. CASE UploadWrites(s)
    <3>1. card \in [Cards -> CardStatus]
      BY DEF TInv, TypeOK
    <3> DEFINE st == Settle({c \in job[s].gone : card[c] \in Undecided}, "withdrawn")
    <3>2. /\ st \in [Cards -> CardStatus] /\ EditsKept
          /\ \A c \in Cards : st[c] = card[c] \/ (card[c] \in Undecided /\ st[c] = "withdrawn")
          /\ \E c \in Cards : /\ card[c] = "none"
                              /\ card' = [st EXCEPT ![c] = IF job[s].direct THEN "pending" ELSE "proposed"]
      BY <2>4, UploadWritesIs
    <3> HIDE DEF st
    <3> QED BY <3>1, <3>2 DEF Undecided
  <2> QED BY <2>1, <2>2, <2>3, <2>4 DEF LastWrites
<1>5. job'[s].at = "idle"
  BY <1>1, IdleTyped
<1> QED BY <1>1, <1>2, <1>3, <1>4, <1>5, AsideActs DEF WroteStep, Passed

LEMMA PassActs ==
  ASSUME TInv, AInv, MoveByHand \/ ReadCards \/ Settles
  PROVE  AInv'
<1>1. PassStep /\ UNCHANGED <<wrote, done, kept, cut>>
  <2>1. Pass /\ UNCHANGED <<wrote, done, kept, cut>>
    BY SettlesIs DEF MoveByHand, ReadCards, history
  <2> QED BY <2>1, PassIs DEF TInv, TypeOK
<1>2. EditsKept /\ \A c \in Cards : card'[c] = "accepted" <=> card[c] = "accepted"
  <2>1. CASE MoveByHand
    <3>1. UNCHANGED cards
      BY <2>1 DEF MoveByHand
    <3> QED BY <3>1, CardsStay DEF cards
  <2>2. CASE ReadCards
    <3>1. EnsureNotes(made) /\ UNCHANGED <<made, status, postponed, content, wrote, done>>
      BY <2>2 DEF ReadCards, history
    <3>2. made \in Plans /\ card \in [Cards -> CardStatus]
      BY DEF TInv, TypeOK
    <3>3. EditsKept /\ (UNCHANGED cards \/ \E c \in Cards : card[c] = "none" /\ card' = [card EXCEPT ![c] = "pending"])
      BY <3>1, <3>2, EnsureNotesTyped
    <3> QED BY <3>2, <3>3 DEF cards
  <2>3. CASE Settles
    <3>1. PICK S \in SUBSET {c \in Cards : card[c] \in Undecided}, st \in CardStatus \ {"none", "accepted", "proposed"} :
            card' = Settle(S, st)
      BY <2>3, SettlesIs
    <3>2. \A c \in S : c \in Cards /\ card[c] \in Undecided
      OBVIOUS
    <3>3. \A c \in Cards : card'[c] = "accepted" <=> card[c] = "accepted"
      BY <3>1, <3>2, SettleActs DEF Undecided
    <3>4. UNCHANGED <<on, edit, was>>
      BY <2>3, SettlesIs
    <3>5. EditsKept
      BY <3>1, <3>2, <3>4, SettleTyped DEF Undecided
    <3> QED BY <3>3, <3>5
  <2> QED BY <2>1, <2>2, <2>3
<1> QED BY <1>1, <1>2, ActsAside DEF PassStep

LEMMA ReturnWritesActs ==
  ASSUME TInv, AInv, NEW s \in Strands, ReturnWrites(s)
  PROVE  AInv'
<1>1. WroteStep(s) /\ job[s].at = "return" /\ GoesOn(job'[s], job[s], "notes", job[s].door)
  BY ReturnWritesLeaves
<1>2. UNCHANGED <<wrote, done, kept, cut>> /\ UNCHANGED cards
  BY DEF ReturnWrites, history
<1>3. EditsKept /\ card' = card
  BY <1>2, CardsStay DEF cards
<1>4. ~Owned(job[s])
  BY <1>1, JobKnown DEF DoorFits, OwnPlaces
<1>5. job'[s].at # "claim" /\ job'[s].card = job[s].card
  BY <1>1 DEF GoesOn, SameHand, WroteStep
<1> QED BY <1>1, <1>2, <1>3, <1>4, <1>5, AsideActs DEF WroteStep, Passed

LEMMA ApproveWritesActs ==
  ASSUME TInv, AInv, NEW s \in Strands, ApproveWrites(s)
  PROVE  AInv'
<1>1. WroteStep(s) /\ job[s].at = "approve" /\ GoesOn(job'[s], job[s], "announce", job[s].door)
  BY ApproveWritesLeaves
<1> DEFINE S == {c \in Cards : on[c] # job[s].plan /\ card[c] \in Undecided}
<1>2. UNCHANGED <<wrote, done, kept, cut>> /\ card' = Settle(S, "lapsed") /\ UNCHANGED <<on, edit, was>>
  BY DEF ApproveWrites, history
<1>3. EditsKept /\ \A c \in Cards : card'[c] = "accepted" <=> card[c] = "accepted"
  <2>1. \A c \in S : c \in Cards /\ card[c] \in Undecided
    OBVIOUS
  <2> HIDE DEF S
  <2> QED BY <1>2, <2>1, SettleActs, SettleTyped DEF Undecided, CardStatus
<1>4. ~Owned(job[s])
  BY <1>1, JobKnown DEF DoorFits, OwnPlaces
<1>5. job'[s].at # "claim" /\ job'[s].card = job[s].card
  BY <1>1 DEF GoesOn, SameHand, WroteStep
<1> QED BY <1>1, <1>2, <1>3, <1>4, <1>5, AsideActs DEF WroteStep, Passed

\* A strand whose content is written goes on to the rows, or to letting its card go.
Finished(k, j) ==
  /\ k.card = j.card /\ k.edit = j.edit /\ k.left = j.left /\ k.door = j.door
  /\ j.door = "accept" => k.at = "rows"
  /\ j.door = "undo" => k.at = "revert"

LEMMA EndedFinished ==
  ASSUME NEW k, NEW j, Ended(k, j), Owned(j)
  PROVE  Finished(k, j)
  BY DEF Ended, GoesOn, SameHand, Finished, Owned

LEMMA EndedActs ==
  ASSUME TInv, AInv, NEW s \in Strands, WroteStep(s) \/ (ReadStep(s) /\ job'[s].alone = job[s].alone),
         Owned(job[s]), job[s].at \notin {"idle", "claim", "rows", "unrow", "revert"},
         Finished(job'[s], job[s]),
         \/ WroteContent(s)
         \/ wrote' = wrote /\ job[s].at = "announce",
         UNCHANGED <<card, edit, done, kept, cut>>
  PROVE  AInv'
<1> DEFINE j == job[s]
<1>0. PICK d \in Cards, e \in Edits : d = job[s].card /\ e = job[s].edit
  BY InHandKnown DEF AInv
<1>1. /\ d = j.card /\ e = j.edit /\ e = edit[d] /\ wrote[d] \subseteq Touches[e]
      /\ Touches[e] \subseteq Content \cup Rows /\ Working(s, d) /\ Underway(s)
      /\ \A c \in Cards : Working(s, c) => c = d
  BY <1>0, InHandKnown DEF AInv
<1>2. UNCHANGED <<cut, edit>> /\ card' = card /\ done' = done /\ kept' = kept
  OBVIOUS
<1>6. \A r \in Strands \ {s} : Stays(r)
  BY DEF WroteStep, Passed, ReadStep
<1>7. j.at \in {"write", "place", "store", "direct", "announce"} /\ j.left = Touches[e] \cap Rows
  <2>1. j.at \in {"write", "place", "store", "direct", "announce"}
    BY <1>1, JobKnown DEF DoorFits, OwnPlaces, Owned
  <2> QED BY <1>1, <2>1 DEF Underway
<1>3. /\ \A c \in Cards : c # d => wrote'[c] = wrote[c]
      /\ j.door = "accept" => wrote'[d] = kept[d] \cup (Content \cap Touches[e])
      /\ j.door = "undo" => wrote'[d] = kept[d]
  <2>1. CASE WroteContent(s)
    <3>1. /\ \A c \in Cards : c # d => wrote'[c] = wrote[c]
          /\ j.door = "accept" => wrote'[d] = wrote[d] \cup (Content \cap Touches[e])
          /\ j.door = "undo" => wrote'[d] = wrote[d] \ ((Content \cap Touches[e]) \ kept[d])
      BY <1>1, <2>1, WroteContentIs DEF Owned
    <3>2. /\ j.door = "accept" => wrote[d] = kept[d] \/ wrote[d] = kept[d] \cup (Content \cap Touches[e])
          /\ j.door = "undo" => wrote[d] = kept[d] \/ wrote[d] = kept[d] \cup (Content \cap Touches[e])
      BY <1>1, <1>7 DEF Underway, Accepts
    <3> QED BY <3>1, <3>2
  <2>2. CASE wrote' = wrote /\ j.at = "announce"
    BY <1>1, <2>2 DEF Underway, Accepts
  <2> QED BY <2>1, <2>2
<1>4. CASE j.door = "accept"
  <2>2. card[d] = "accepted" /\ done[d] = 0
    BY <1>1 DEF Underway
  <2>3. /\ job'[s].card = d /\ job'[s].edit = e /\ job'[s].at = "rows" /\ job'[s].door = "accept"
        /\ job'[s].left = j.left
    BY <1>1, <1>4 DEF Finished
  <2>4. Underway(s)'
    BY <1>2, <1>3, <1>4, <1>7, <2>2, <2>3 DEF Underway, Accepts
  <2>5. (\A c \in Cards : Working(s, c)' => c = d) /\ Working(s, d)' /\ ~At(s, "claim")'
    BY <2>3 DEF Working, At
  <2>6. \A c \in Cards : c # d => card'[c] = card[c] /\ wrote'[c] = wrote[c] /\ kept'[c] = kept[c] /\ done'[c] = done[c]
    BY <1>2, <1>3
  <2>7. card'[d] = "accepted"
    BY <1>2, <2>2
  <2>8. \A c \in Cards : Working(s, c)' => c = d /\ Underway(s)'
    BY <2>4, <2>5
  <2> QED BY <1>1, <1>2, <1>6, <2>5, <2>6, <2>7, <2>8, ActsOn
<1>5. CASE j.door = "undo"
  <2>2. card[d] = "accepted" /\ done[d] = 0
    BY <1>1 DEF Underway
  <2>3. job'[s].card = d /\ job'[s].edit = e /\ job'[s].at = "revert" /\ job'[s].door = "undo"
    BY <1>1, <1>5 DEF Finished
  <2>4. Underway(s)'
    BY <1>2, <1>3, <1>5, <2>2, <2>3 DEF Underway, Accepts
  <2>5. (\A c \in Cards : Working(s, c)' => c = d) /\ Working(s, d)' /\ ~At(s, "claim")'
    BY <2>3 DEF Working, At
  <2>6. \A c \in Cards : c # d => card'[c] = card[c] /\ wrote'[c] = wrote[c] /\ kept'[c] = kept[c] /\ done'[c] = done[c]
    BY <1>2, <1>3
  <2>7. card'[d] = "accepted"
    BY <1>2, <2>2
  <2>8. \A c \in Cards : Working(s, c)' => c = d /\ Underway(s)'
    BY <2>4, <2>5
  <2> QED BY <1>1, <1>2, <1>6, <2>5, <2>6, <2>7, <2>8, ActsOn
<1> QED BY <1>4, <1>5 DEF Owned

\* A step by which the strand of a card goes on, and writes nothing of it.
LEMMA OnwardActs ==
  ASSUME TInv, AInv, NEW s \in Strands, \A r \in Strands \ {s} : Stays(r),
         Owned(job[s]), job[s].at \notin {"idle", "claim"},
         UNCHANGED <<card, edit, wrote, done, cut>>, \A c \in Cards : c # job[s].card => kept'[c] = kept[c],
         job'[s].at \notin {"idle", "claim"}, job'[s].card = job[s].card, Underway(s)'
  PROVE  AInv'
<1> DEFINE d == job[s].card
<1>1. d \in Cards /\ Working(s, d) /\ Underway(s) /\ \A c \in Cards : Working(s, c) => c = d
  BY InHandKnown DEF AInv
<1>2. UNCHANGED <<cut, edit>> /\ card' = card
  OBVIOUS
<1>3. card[d] = "accepted"
  BY <1>1 DEF Underway
<1>4. (\A c \in Cards : Working(s, c)' => c = d) /\ Working(s, d)' /\ ~At(s, "claim")'
  BY DEF Working, At
<1>5. \A c \in Cards : c # d => card'[c] = card[c] /\ wrote'[c] = wrote[c] /\ kept'[c] = kept[c] /\ done'[c] = done[c]
  BY <1>2
<1>6. card'[d] = "accepted"
  BY <1>2, <1>3
<1> QED BY <1>1, <1>2, <1>4, <1>5, <1>6, ActsOn

LEMMA AnnounceActs ==
  ASSUME TInv, AInv, NEW s \in Strands, Announce(s)
  PROVE  AInv'
<1>1. UNCHANGED cards /\ UNCHANGED <<wrote, done, kept, cut>> /\ wrote' = wrote /\ UNCHANGED <<card, edit, done, kept, cut>>
  BY DEF Announce, history, cards
<1>2. /\ WroteStep(s) /\ job[s].at = "announce"
      /\ job[s].door = "staff" => GoesOn(job'[s], job[s], "lapse", "staff")
      /\ job[s].door # "staff" => Ended(job'[s], job[s]) /\ job[s].door \in {"accept", "undo"}
  BY AnnounceLeaves
<1>3. CASE job[s].door = "staff"
  <2>1. job'[s].at # "claim" /\ job'[s].card = job[s].card /\ ~Owned(job[s])
    BY <1>2, <1>3 DEF GoesOn, SameHand, WroteStep, Owned
  <2>2. EditsKept /\ card' = card
    BY <1>1, CardsStay DEF cards
  <2> QED BY <1>1, <1>2, <2>1, <2>2, AsideActs DEF WroteStep, Passed
<1>4. CASE job[s].door # "staff"
  BY <1>1, <1>2, <1>4, EndedActs, EndedFinished DEF Owned
<1> QED BY <1>3, <1>4

\* A page of the trainer's own is written: no card is in hand.
LEMMA PageActs ==
  ASSUME TInv, AInv, NEW s \in Strands, job[s].door = "page", WroteStep(s),
         job'[s] = Idle \/ GoesOn(job'[s], job[s], "store", job[s].door),
         UNCHANGED <<card, edit, wrote, done, kept, cut>>
  PROVE  AInv'
<1>1. job'[s].at \in {"idle", "claim"} \/ job'[s].card = job[s].card
  BY IdleTyped DEF GoesOn, SameHand
<1>2. job'[s].at # "claim"
  BY IdleTyped DEF GoesOn
<1>3. EditsKept /\ ~Owned(job[s])
  BY DEF EditsKept, WroteStep, Owned
<1> QED BY <1>1, <1>2, <1>3, AsideActs DEF WroteStep, Passed

LEMMA PlaceActs ==
  ASSUME TInv, AInv, NEW s \in Strands, Place(s)
  PROVE  AInv'
<1>1. /\ IF job[s].enough THEN WroteContent(s) ELSE wrote' = wrote
      /\ UNCHANGED <<card, edit, done, kept, cut>>
  BY DEF Place, cards
<1>2. /\ WroteStep(s) /\ job[s].at = "place" /\ job[s].door \in {"page", "accept", "undo"}
      /\ job[s].enough => Ended(job'[s], job[s])
      /\ ~job[s].enough => GoesOn(job'[s], job[s], "store", job[s].door)
  BY PlaceLeaves
<1>3. CASE job[s].door = "page"
  <2>1. wrote' = wrote
    BY <1>1, <1>2, <1>3, WroteContentIs
  <2>2. job'[s] = Idle \/ GoesOn(job'[s], job[s], "store", job[s].door)
    BY <1>2, <1>3 DEF Ended
  <2>3. UNCHANGED <<card, edit, wrote, done, kept, cut>>
    BY <1>1, <2>1
  <2> QED BY <1>2, <1>3, <2>2, <2>3, PageActs
<1>4. CASE Owned(job[s]) /\ job[s].enough
  BY <1>1, <1>2, <1>4, EndedActs, EndedFinished
<1>5. CASE Owned(job[s]) /\ ~job[s].enough
  <2>1. GoesOn(job'[s], job[s], "store", job[s].door)
    BY <1>2, <1>5
  <2>2. Underway(s) /\ UNCHANGED <<card, edit, wrote, done, kept, cut>>
    BY <1>1, <1>2, <1>5, InHandKnown DEF AInv, WroteStep
  <2>3. Underway(s)'
    BY <1>2, <2>1, <2>2 DEF GoesOn, SameHand, Underway, Accepts
  <2>4. job'[s].at \notin {"idle", "claim"} /\ job'[s].card = job[s].card
    BY <2>1 DEF GoesOn, SameHand
  <2> QED BY <1>1, <1>2, <1>5, <2>2, <2>3, <2>4, OnwardActs DEF WroteStep, Passed
<1> QED BY <1>2, <1>3, <1>4, <1>5 DEF Owned


\* A draft is stored: the plan of a card may change, not what became of it.
LEMMA StoreActs ==
  ASSUME TInv, AInv, NEW s \in Strands, Store(s)
  PROVE  AInv'
<1>1. UNCHANGED <<card, edit, done, kept, cut>> /\ WroteContent(s)
  BY DEF Store
<1>2. WroteStep(s) /\ job[s].at = "store" /\ job[s].door \in {"page", "accept", "undo"} /\ Ended(job'[s], job[s])
  BY StoreLeaves
<1>3. CASE job[s].door = "page"
  <2>1. wrote' = wrote /\ job'[s] = Idle
    BY <1>1, <1>2, <1>3, WroteContentIs DEF Ended
  <2>2. UNCHANGED <<card, edit, wrote, done, kept, cut>>
    BY <1>1, <2>1
  <2> QED BY <1>2, <1>3, <2>1, <2>2, PageActs
<1>4. CASE job[s].door # "page"
  BY <1>1, <1>2, <1>4, EndedActs, EndedFinished DEF Owned
<1> QED BY <1>3, <1>4

\* The strand of card d goes on with it: what it knows, for the lemmas above.
LEMMA CardOf ==
  ASSUME TInv, AInv, NEW s \in Strands, Owned(job[s]), job[s].at \notin {"idle", "claim"}
  PROVE  \E d \in Cards, e \in Edits :
           /\ d = job[s].card /\ e = job[s].edit /\ e = edit[d]
           /\ wrote[d] \subseteq Touches[e] /\ Touches[e] \subseteq Content \cup Rows
           /\ Working(s, d) /\ Underway(s) /\ card[d] = "accepted" /\ done[d] = 0
           /\ \A c \in Cards : Working(s, c) => c = d
<1>1. Underway(s) => card[job[s].card] = "accepted" /\ done[job[s].card] = 0
  BY DEF Underway
<1> QED BY <1>1, InHandKnown DEF AInv

LEMMA DirectWritesActs ==
  ASSUME TInv, AInv, NEW s \in Strands, DirectWrites(s)
  PROVE  AInv'
<1> DEFINE j == job[s]
<1>1. UNCHANGED <<card, edit, done, kept, cut>> /\ WroteContent(s)
  BY DEF DirectWrites, cards
<1>2. /\ WroteStep(s) /\ j.at = "direct" /\ j.door \in {"accept", "undo"}
      /\ j.page[Period] # j.old => GoesOn(job'[s], j, "announce", j.door)
      /\ j.page[Period] = j.old => Ended(job'[s], j)
  BY DirectWritesLeaves
<1>3. CASE Ended(job'[s], j)
  BY <1>1, <1>2, <1>3, EndedActs, EndedFinished DEF Owned
<1>4. CASE GoesOn(job'[s], j, "announce", j.door)
  <2>1. PICK d \in Cards, e \in Edits :
          /\ d = j.card /\ e = j.edit /\ e = edit[d]
          /\ wrote[d] \subseteq Touches[e] /\ Touches[e] \subseteq Content \cup Rows
          /\ Working(s, d) /\ Underway(s) /\ card[d] = "accepted" /\ done[d] = 0
          /\ \A c \in Cards : Working(s, c) => c = d
    BY <1>2, CardOf DEF Owned
  <2>2. /\ \A c \in Cards : c # d => wrote'[c] = wrote[c]
        /\ j.door = "accept" => wrote'[d] = wrote[d] \cup (Content \cap Touches[e])
        /\ j.door = "undo" => wrote'[d] = wrote[d] \ ((Content \cap Touches[e]) \ kept[d])
    BY <1>1, <1>2, <2>1, WroteContentIs
  <2>3. /\ j.door = "undo" => wrote[d] = kept[d] \cup (Content \cap Touches[e])
        /\ j.door = "accept" => wrote[d] = kept[d]
        /\ j.left = Touches[e] \cap Rows
    BY <1>2, <2>1 DEF Underway, Accepts
  <2>4. wrote'[d] = IF j.door = "accept" THEN kept[d] \cup (Content \cap Touches[e]) ELSE kept[d]
    BY <1>2, <2>2, <2>3
  <2>5. /\ job'[s].card = d /\ job'[s].edit = e /\ job'[s].at = "announce" /\ job'[s].door = j.door
        /\ job'[s].left = j.left
    BY <1>4, <2>1 DEF GoesOn, SameHand
  <2>6. UNCHANGED <<cut, edit>> /\ card' = card /\ done' = done /\ kept' = kept
    BY <1>1
  <2>7. Underway(s)'
    BY <1>2, <2>1, <2>3, <2>4, <2>5, <2>6 DEF Underway, Accepts
  <2>8. /\ \A c \in Cards : Working(s, c)' => c = d /\ Underway(s)'
        /\ Working(s, d)' /\ ~At(s, "claim")'
    BY <2>5, <2>7 DEF Working, At
  <2>9. \A c \in Cards : c # d => card'[c] = card[c] /\ wrote'[c] = wrote[c] /\ kept'[c] = kept[c] /\ done'[c] = done[c]
    BY <2>2, <2>6
  <2>10. \A r \in Strands \ {s} : Stays(r)
    BY <1>2 DEF WroteStep, Passed
  <2>11. card'[d] = "accepted"
    BY <2>1, <2>6
  <2> QED BY <2>1, <2>6, <2>8, <2>9, <2>10, <2>11, ActsOn
<1> QED BY <1>2, <1>3, <1>4

\* Whoever claims the card first carries it out; to the others it is decided.
LEMMA ClaimActs ==
  ASSUME TInv, AInv, NEW s \in Strands, Claim(s)
  PROVE  AInv'
<1> DEFINE j == job[s]
<1>1. UNCHANGED <<edit, wrote, done, kept, cut>> /\ UNCHANGED <<on, edit, was>>
  BY DEF Claim, history
<1>2. /\ j.at = "claim" /\ j.door = "accept"
      /\ card[j.card] = "pending" =>
           /\ WroteStep(s) /\ card' = Settle({j.card}, "accepted")
           /\ \/ Touches[j.edit] \cap Content = {} /\ GoesOn(job'[s], j, "rows", "accept")
              \/ GoesOn(job'[s], j, "write", "accept")
      /\ card[j.card] # "pending" => ReadStep(s) /\ job'[s] = Idle /\ card' = card
  BY ClaimLeaves
<1>3. Idler(s)
  BY <1>2, IdlerIf
<1>4. CASE card[j.card] # "pending"
  <2>1. /\ ReadStep(s) /\ job'[s] = Idle /\ card' = card /\ EditsKept
        /\ \A c \in Cards : card'[c] = "accepted" <=> card[c] = "accepted"
    BY <1>1, <1>2, <1>4 DEF EditsKept
  <2>2. Idler(s)' /\ ~At(s, "claim")'
    BY <2>1, IdleTyped, IdlerIfNext DEF At
  <2>3. \A r \in Strands \ {s} : Stays(r)
    BY <2>1 DEF ReadStep
  <2>4. \A r \in Strands : Stays(r) \/ (Idler(r) /\ Idler(r)')
    BY <1>3, <2>2, <2>3
  <2>5. \A r \in Strands : Stays(r) \/ (At(r, "claim") => job[r].left = Touches[job[r].edit] \cap Rows)'
    BY <2>2, <2>3
  <2>6. UNCHANGED <<wrote, done, kept, cut>>
    BY <1>1
  <2> QED BY <2>1, <2>3, <2>4, <2>5, <2>6, ActsAside
<1>5. CASE card[j.card] = "pending"
  <2>1. PICK d \in Cards, e \in Edits : d = j.card /\ e = j.edit /\ e = edit[d] /\ card[d] = "pending"
    BY <1>2, <1>5, InHandKnown DEF Owned, AInv
  <2>2. wrote[d] \subseteq Touches[e] /\ Touches[e] \subseteq Content \cup Rows /\ j.left = Touches[e] \cap Rows
    BY <1>2, <2>1, InHandKnown DEF Owned, AInv, Works, At
  <2>3. done[d] = 0 /\ wrote[d] = kept[d]
    BY <2>1 DEF AInv, NotAccepted
  <2>4. /\ job'[s].card = d /\ job'[s].edit = e /\ job'[s].door = "accept" /\ job'[s].left = j.left
        /\ job'[s].at = "write" \/ (job'[s].at = "rows" /\ Touches[e] \cap Content = {})
    BY <1>2, <2>1 DEF GoesOn, SameHand
  <2>5. \A r \in Strands \ {s} : Stays(r)
    BY <1>2, <2>1 DEF WroteStep, Passed
  <2>6. card'[d] = "accepted" /\ \A c \in Cards : c # d => card'[c] = card[c]
    BY <1>2, <2>1 DEF Settle
  <2>7. Underway(s)'
    BY <1>1, <2>2, <2>3, <2>4, <2>5, <2>6 DEF Underway, Accepts
  <2>8. /\ \A c \in Cards : Working(s, c)' => c = d /\ Underway(s)'
        /\ Working(s, d)' /\ ~At(s, "claim")'
    BY <2>4, <2>7 DEF Working, At
  <2>9. \A c \in Cards : c # d => card'[c] = card[c] /\ wrote'[c] = wrote[c] /\ kept'[c] = kept[c] /\ done'[c] = done[c]
    BY <1>1, <2>6
  <2>10. UNCHANGED <<cut, edit>> /\ \A c \in Cards : Working(s, c) => c = d
    BY <1>1, <1>3 DEF Idler
  <2> QED BY <2>1, <2>5, <2>6, <2>8, <2>9, <2>10, ActsOn
<1> QED BY <1>4, <1>5

LEMMA EndAcceptActs ==
  ASSUME TInv, AInv, NEW s \in Strands, EndAccept(s)
  PROVE  AInv'
<1> DEFINE j == job[s]
<1>1. ReadStep(s) /\ j.at = "rows" /\ j.door = "accept" /\ j.left = {} /\ job'[s] = Idle
  BY EndAcceptLeaves
<1>2. PICK d \in Cards, e \in Edits :
        /\ d = j.card /\ e = j.edit /\ e = edit[d]
        /\ wrote[d] \subseteq Touches[e] /\ Touches[e] \subseteq Content \cup Rows
        /\ Working(s, d) /\ Underway(s) /\ card[d] = "accepted" /\ done[d] = 0
        /\ \A c \in Cards : Working(s, c) => c = d
  BY <1>1, CardOf DEF Owned
<1>3. UNCHANGED <<card, edit, wrote, kept, cut>> /\ done' = [done EXCEPT ![d] = done[d] + 1]
  BY <1>2 DEF EndAccept, cards
<1>4. done'[d] = 1 /\ \A c \in Cards : c # d => done'[c] = done[c]
  BY <1>2, <1>3, CommonTypes
<1>5. wrote[d] = Touches[e]
  BY <1>1, <1>2 DEF Underway, Accepts
<1>6. \A r \in Strands \ {s} : Stays(r)
  BY <1>1 DEF ReadStep
<1>7. /\ \A c \in Cards : Working(s, c)' => c = d /\ Underway(s)'
      /\ ~At(s, "claim")'
  BY <1>1, IdleTyped DEF Working, At
<1>8. \A c \in Cards : c # d => card'[c] = card[c] /\ wrote'[c] = wrote[c] /\ kept'[c] = kept[c] /\ done'[c] = done[c]
  BY <1>3, <1>4
<1>9. card'[d] = "accepted" /\ wrote'[d] = Touches[edit[d]] /\ UNCHANGED <<cut, edit>>
  BY <1>2, <1>3, <1>5
<1> QED BY <1>2, <1>4, <1>6, <1>7, <1>8, <1>9, ActsOn

LEMMA RevertActs ==
  ASSUME TInv, AInv, NEW s \in Strands, Revert(s)
  PROVE  AInv'
<1> DEFINE j == job[s]
<1>1. WroteStep(s) /\ job'[s] = Idle /\ j.at = "revert" /\ Owned(j) /\ card' = Settle({j.card}, "pending")
  BY RevertLeaves
<1>2. PICK d \in Cards, e \in Edits :
        /\ d = j.card /\ e = j.edit /\ e = edit[d]
        /\ wrote[d] \subseteq Touches[e] /\ Touches[e] \subseteq Content \cup Rows
        /\ Working(s, d) /\ Underway(s) /\ card[d] = "accepted" /\ done[d] = 0
        /\ \A c \in Cards : Working(s, c) => c = d
  BY <1>1, CardOf
<1>3. UNCHANGED <<edit, wrote, done, kept, cut>>
  BY DEF Revert, history
<1>4. card'[d] = "pending" /\ \A c \in Cards : c # d => card'[c] = card[c]
  BY <1>1, <1>2 DEF Settle
<1>5. wrote'[d] = kept'[d]
  BY <1>1, <1>2, <1>3 DEF Underway
<1>6. \A r \in Strands \ {s} : Stays(r)
  BY <1>1 DEF WroteStep, Passed
<1>7. /\ \A c \in Cards : Working(s, c)' => c = d /\ Underway(s)'
      /\ ~At(s, "claim")'
  BY <1>1, IdleTyped DEF Working, At
<1>8. \A c \in Cards : c # d => card'[c] = card[c] /\ wrote'[c] = wrote[c] /\ kept'[c] = kept[c] /\ done'[c] = done[c]
  BY <1>3, <1>4
<1>9. done'[d] = 0 /\ UNCHANGED <<cut, edit>>
  BY <1>2, <1>3
<1> QED BY <1>2, <1>4, <1>5, <1>6, <1>7, <1>8, <1>9, ActsOn

\* The content of a card is refused, the edit or what stood there before.
LEMMA LetGoActs ==
  ASSUME TInv, AInv, NEW s \in Strands, job[s].at = "write", job[s].door \in {"accept", "undo"},
         \A r \in Strands \ {s} : Stays(r), GoesOn(job'[s], job[s], "revert", job[s].door),
         UNCHANGED <<card, edit, wrote, done, cut>>,
         IF job[s].door = "accept" THEN kept' = kept ELSE KeepsContent(job[s])
  PROVE  AInv'
<1> DEFINE j == job[s]
<1>1. PICK d \in Cards, e \in Edits :
        /\ d = j.card /\ e = j.edit /\ e = edit[d]
        /\ wrote[d] \subseteq Touches[e] /\ Touches[e] \subseteq Content \cup Rows
        /\ Working(s, d) /\ Underway(s) /\ card[d] = "accepted" /\ done[d] = 0
        /\ \A c \in Cards : Working(s, c) => c = d
  BY CardOf DEF Owned
<1>2. wrote[d] = IF j.door = "accept" THEN kept[d] ELSE kept[d] \cup (Content \cap Touches[e])
  BY <1>1 DEF Underway, Accepts
<1>3. wrote[d] = kept'[d] /\ \A c \in Cards : c # d => kept'[c] = kept[c]
  BY <1>1, <1>2, CommonTypes DEF KeepsContent
<1>4. job'[s].card = d /\ job'[s].edit = e /\ job'[s].at = "revert"
  BY <1>1 DEF GoesOn, SameHand
<1>5. Underway(s)'
  BY <1>1, <1>3, <1>4 DEF Underway
<1> QED BY <1>1, <1>3, <1>4, <1>5, OnwardActs DEF Owned

\* The content of a card is made ready; the card is let go when it is refused.
LEMMA WriteContentActs ==
  ASSUME TInv, AInv, NEW s \in Strands, WriteContent(s)
  PROVE  AInv'
<1> DEFINE j == job[s]
<1>1. UNCHANGED <<card, edit, done, cut>> /\ UNCHANGED cards
  BY DEF WriteContent, cards
<1>2. /\ ReadStep(s) /\ j.at = "write" /\ j.door \in {"accept", "undo"}
      /\ \/ /\ GoesOn(job'[s], j, "revert", j.door) /\ wrote' = wrote
            /\ IF j.door = "accept" THEN kept' = kept ELSE KeepsContent(j)
         \/ /\ wrote' = wrote /\ kept' = kept
            /\ \E page : PageOf(j, page) /\ Directing(job'[s], j, page)
         \/ /\ kept' = kept
            /\ \E page : PageOf(j, page) /\ Saves(job'[s], j, page)
            /\ IF job'[s].at \in {"rows", "revert"} THEN WroteContent(s) ELSE wrote' = wrote
  BY WriteContentLeaves
<1>3. Underway(s) /\ Owned(j)
  BY <1>2, InHandKnown DEF AInv, Owned
<1>4. \A r \in Strands \ {s} : Stays(r)
  BY <1>2 DEF ReadStep
<1>5. ASSUME job'[s].card = j.card, job'[s].edit = j.edit, job'[s].left = j.left, job'[s].door = j.door,
             job'[s].at \in {"direct", "place", "store"}, wrote' = wrote, kept' = kept
      PROVE  AInv'
  <2>1. Underway(s)'
    BY <1>1, <1>2, <1>3, <1>5 DEF Underway, Accepts
  <2>2. UNCHANGED <<card, edit, wrote, done, cut>> /\ job'[s].at \notin {"idle", "claim"}
    BY <1>1, <1>5
  <2> QED BY <1>2, <1>3, <1>4, <1>5, <2>1, <2>2, OnwardActs
<1>6. CASE /\ GoesOn(job'[s], j, "revert", j.door) /\ wrote' = wrote
           /\ IF j.door = "accept" THEN kept' = kept ELSE KeepsContent(j)
  BY <1>1, <1>2, <1>4, <1>6, LetGoActs
<1>7. CASE wrote' = wrote /\ kept' = kept /\ \E page : PageOf(j, page) /\ Directing(job'[s], j, page)
  <2>1. /\ job'[s].card = j.card /\ job'[s].edit = j.edit /\ job'[s].left = j.left /\ job'[s].door = j.door
        /\ job'[s].at = "direct"
    BY <1>7 DEF Directing
  <2> QED BY <1>5, <1>7, <2>1
<1>8. CASE /\ kept' = kept
           /\ \E page : PageOf(j, page) /\ Saves(job'[s], j, page)
           /\ IF job'[s].at \in {"rows", "revert"} THEN WroteContent(s) ELSE wrote' = wrote
  <2>1. PICK page : Saves(job'[s], j, page)
    BY <1>8
  <2>2. /\ Saving(job'[s], j, page)
        /\ \/ job'[s].at = "place"
           \/ job'[s].at = "store"
           \/ job'[s].at = "rows" /\ j.door = "accept"
           \/ job'[s].at = "revert" /\ j.door = "undo"
    BY <1>2, <2>1 DEF Saves
  <2>3. /\ job'[s].card = j.card /\ job'[s].edit = j.edit /\ job'[s].left = j.left /\ job'[s].door = j.door
        /\ job'[s].alone = j.alone
    BY <2>2 DEF Saving
  <2>4. CASE job'[s].at \in {"place", "store"}
    BY <1>5, <1>8, <2>3, <2>4
  <2>5. CASE job'[s].at \in {"rows", "revert"}
    <3>1. WroteContent(s) /\ Finished(job'[s], j)
      BY <1>8, <2>2, <2>3, <2>5 DEF Finished
    <3> QED BY <1>1, <1>2, <1>3, <1>8, <2>3, <3>1, EndedActs
  <2> QED BY <2>2, <2>4, <2>5
<1> QED BY <1>2, <1>6, <1>7, <1>8

LEMMA WriteRowActs ==
  ASSUME TInv, AInv, NEW s \in Strands, WriteRow(s)
  PROVE  AInv'
<1> DEFINE j == job[s]
<1>1. UNCHANGED <<card, edit, done, kept, cut>>
  BY DEF WriteRow, cards
<1>2. /\ WroteStep(s) /\ j.at = "rows" /\ j.door = "accept"
      /\ SameHand(job'[s], j) /\ job'[s].at = "rows" /\ job'[s].door = "accept"
  BY WriteRowLeaves
<1>3. PICK d \in Cards, e \in Edits :
        /\ d = j.card /\ e = j.edit /\ e = edit[d]
        /\ wrote[d] \subseteq Touches[e] /\ Touches[e] \subseteq Content \cup Rows
        /\ Working(s, d) /\ Underway(s) /\ card[d] = "accepted" /\ done[d] = 0
        /\ \A c \in Cards : Working(s, c) => c = d
  BY <1>2, CardOf DEF Owned
<1>4. PICK x \in j.left : wrote' = [wrote EXCEPT ![d] = wrote[d] \cup {x}] /\ job'[s].left = j.left \ {x}
  BY <1>3, WriteRowLeaves
<1>5. wrote'[d] = wrote[d] \cup {x} /\ \A c \in Cards : c # d => wrote'[c] = wrote[c]
  BY <1>4, CommonTypes
<1>6. job'[s].card = d /\ job'[s].edit = e
  BY <1>2, <1>3 DEF SameHand
<1>12. j.left \subseteq Touches[e] \cap Rows
  BY <1>2, <1>3, JobKnown DEF Filled, Owned
<1>13. wrote'[d] = kept'[d] \cup (Touches[e] \cap Content) \cup ((Touches[e] \cap Rows) \ job'[s].left)
  <2>1. wrote[d] = kept[d] \cup (Touches[e] \cap Content) \cup ((Touches[e] \cap Rows) \ j.left)
    BY <1>2, <1>3 DEF Underway
  <2> QED BY <1>1, <1>4, <1>5, <1>12, <2>1
<1>7. Underway(s)'
  BY <1>1, <1>2, <1>3, <1>6, <1>13 DEF Underway
<1>8. /\ \A c \in Cards : Working(s, c)' => c = d /\ Underway(s)'
      /\ Working(s, d)' /\ ~At(s, "claim")'
  BY <1>2, <1>6, <1>7 DEF Working, At
<1>9. \A c \in Cards : c # d => card'[c] = card[c] /\ wrote'[c] = wrote[c] /\ kept'[c] = kept[c] /\ done'[c] = done[c]
  BY <1>1, <1>5
<1>10. \A r \in Strands \ {s} : Stays(r)
  BY <1>2 DEF WroteStep, Passed
<1>11. card'[d] = "accepted" /\ UNCHANGED <<cut, edit>>
  BY <1>1, <1>3
<1> QED BY <1>3, <1>8, <1>9, <1>10, <1>11, ActsOn

LEMMA UndoRowActs ==
  ASSUME TInv, AInv, NEW s \in Strands, UndoRow(s)
  PROVE  AInv'
<1> DEFINE j == job[s]
<1>1. UNCHANGED <<card, edit, done, cut>>
  BY DEF UndoRow, cards
<1>2. j.at = "unrow" /\ j.door = "undo"
  BY UndoRowLeaves
<1>3. PICK d \in Cards, e \in Edits :
        /\ d = j.card /\ e = j.edit /\ e = edit[d]
        /\ wrote[d] \subseteq Touches[e] /\ Touches[e] \subseteq Content \cup Rows
        /\ Working(s, d) /\ Underway(s) /\ card[d] = "accepted" /\ done[d] = 0
        /\ \A c \in Cards : Working(s, c) => c = d
  BY <1>2, CardOf DEF Owned
<1> DEFINE C == Touches[e] \cap Content
           R == Touches[e] \cap Rows
<1>4. PICK x \in R \ j.left : UndoneRow(s, x) /\ BackFrom(job'[s], j, x)
  BY <1>3, UndoRowLeaves DEF Moved
<1>5. /\ job'[s].card = d /\ job'[s].edit = e /\ job'[s].door = "undo" /\ job'[s].left = j.left \cup {x}
      /\ \/ job'[s].at = "unrow"
         \/ job'[s].at = "write" /\ R \subseteq job'[s].left
         \/ job'[s].at = "revert" /\ R \subseteq job'[s].left /\ C = {}
  BY <1>3, <1>4 DEF BackFrom, SameHand
<1>6. wrote[d] = kept[d] \cup C \cup (R \ j.left) /\ x \notin C
  BY <1>2, <1>3, SpotsAssumption DEF Underway
<1>7. /\ \A c \in Cards : c # d => wrote'[c] = wrote[c] /\ kept'[c] = kept[c]
      /\ \/ wrote'[d] = wrote[d] \ ({x} \ kept[d]) /\ kept'[d] = kept[d]
         \/ wrote'[d] = wrote[d] /\ kept'[d] = kept[d] \cup {x}
  BY <1>3, <1>4, CommonTypes DEF UndoneRow
<1>8. wrote'[d] = kept'[d] \cup C \cup (R \ job'[s].left)
  BY <1>4, <1>5, <1>6, <1>7
<1>9. job'[s].left \subseteq R
  BY <1>2, <1>3, <1>4, <1>5, JobKnown DEF Filled, Owned
<1>10. Underway(s)'
  BY <1>1, <1>3, <1>5, <1>8, <1>9 DEF Underway, Accepts
<1>11. /\ \A c \in Cards : Working(s, c)' => c = d /\ Underway(s)'
       /\ Working(s, d)' /\ ~At(s, "claim")'
  BY <1>5, <1>10 DEF Working, At
<1>12. \A c \in Cards : c # d => card'[c] = card[c] /\ wrote'[c] = wrote[c] /\ kept'[c] = kept[c] /\ done'[c] = done[c]
  BY <1>1, <1>7
<1>13. \A r \in Strands \ {s} : Stays(r)
  BY <1>4 DEF UndoneRow, WroteStep, ReadStep, Passed
<1>14. card'[d] = "accepted" /\ UNCHANGED <<cut, edit>>
  BY <1>1, <1>3
<1> QED BY <1>3, <1>11, <1>12, <1>13, <1>14, ActsOn

LEMMA FailApplyActs ==
  ASSUME TInv, AInv, NEW s \in Strands, FailApply(s)
  PROVE  AInv'
<1> DEFINE j == job[s]
           C == Touches[j.edit] \cap Content
<1>1. UNCHANGED <<card, edit, wrote, done, cut>>
  BY DEF FailApply, cards
<1>2. /\ ReadStep(s) /\ Owned(j) /\ j.card \in Cards
      /\ \/ /\ j.at = "write" /\ GoesOn(job'[s], j, "revert", j.door)
            /\ IF j.door = "accept" THEN kept' = kept ELSE KeepsContent(j)
         \/ /\ j.at = "rows" /\ j.door = "accept" /\ kept' = kept
            /\ Moved(j) # {} => GoesOn(job'[s], j, "unrow", "undo")
            /\ Moved(j) = {} /\ C # {} => GoesOn(job'[s], j, "write", "undo")
            /\ Moved(j) = {} /\ C = {} => GoesOn(job'[s], j, "revert", "accept")
  BY FailApplyLeaves
<1>3. Underway(s) /\ \A r \in Strands \ {s} : Stays(r)
  BY <1>2, InHandKnown DEF AInv, Owned, ReadStep
<1>4. CASE /\ j.at = "write" /\ GoesOn(job'[s], j, "revert", j.door)
           /\ IF j.door = "accept" THEN kept' = kept ELSE KeepsContent(j)
  BY <1>1, <1>2, <1>3, <1>4, LetGoActs DEF Owned
<1>5. CASE /\ j.at = "rows" /\ j.door = "accept" /\ kept' = kept
           /\ Moved(j) # {} => GoesOn(job'[s], j, "unrow", "undo")
           /\ Moved(j) = {} /\ C # {} => GoesOn(job'[s], j, "write", "undo")
           /\ Moved(j) = {} /\ C = {} => GoesOn(job'[s], j, "revert", "accept")
  <2>1. /\ job'[s].card = j.card /\ job'[s].edit = j.edit /\ job'[s].left = j.left
        /\ \/ job'[s].at = "unrow" /\ job'[s].door = "undo"
           \/ job'[s].at = "write" /\ job'[s].door = "undo" /\ Moved(j) = {}
           \/ job'[s].at = "revert" /\ job'[s].door = "accept" /\ Moved(j) = {} /\ C = {}
    BY <1>5 DEF GoesOn, SameHand
  <2>2. j.left \subseteq Touches[j.edit] \cap Rows
    BY <1>2, JobKnown DEF Filled
  <2>3. Underway(s)'
    BY <1>1, <1>3, <1>5, <2>1, <2>2 DEF Underway, Accepts, Moved
  <2>4. job'[s].at \notin {"idle", "claim"} /\ job'[s].card = job[s].card
    BY <2>1
  <2> QED BY <1>1, <1>2, <1>3, <1>5, <2>3, <2>4, OnwardActs
<1> QED BY <1>2, <1>4, <1>5

LEMMA AInvNext ==
  TInv /\ AInv /\ [Next]_vars => AInv'
<1> SUFFICES ASSUME TInv, AInv, [Next]_vars PROVE AInv'
  OBVIOUS
<1>1. CASE UNCHANGED vars
  BY <1>1 DEF vars, AInv, Works, OneWorks, NotAccepted, CardActsOnce, Working, Underway, Accepts, At
<1>2. CASE MoveByHand \/ ReadCards \/ Settles
  BY <1>2, PassActs
<1>3. ASSUME NEW s \in Strands, StrandActs(s) PROVE AInv'
  BY <1>3, BeginsActs, LastWritesActs, RevertActs, ReturnWritesActs, ApproveWritesActs, AnnounceActs, PlaceActs,
     StoreActs, ClaimActs, WriteContentActs, DirectWritesActs, WriteRowActs, EndAcceptActs, FailApplyActs,
     UndoRowActs, CrashActs DEF StrandActs
<1> QED BY <1>1, <1>2, <1>3, NextKinds

LEMMA AInvInit == Init => AInv
<1> SUFFICES ASSUME Init PROVE AInv
  OBVIOUS
<1>1. \A s \in Strands : ~At(s, "claim") /\ \A c \in Cards : ~Working(s, c)
  BY IdleTyped DEF Init, At, Working
<1> QED BY <1>1 DEF Init, AInv, Works, OneWorks, NotAccepted, CardActsOnce

----------------------------------------------------------------------------
(* What the strand of a card finds. *)

WasKept == \A c \in Cards : card[c] # "none" => was'[c] = was[c]

\* A strand that waits while another one, or nobody's request, writes.
LEMMA CalmPassed ==
  ASSUME TInv, Calm, NEW r \in Strands, Stays(r), job'[r].alone => job[r].at = "idle", WasKept
  PROVE  CalmFor(job[r])'
<1>1. DoorFits(job[r]) /\ Filled(job[r]) /\ CalmFor(job[r])
  BY JobKnown DEF Calm
<1>2. Owned(job[r])' => Owned(job[r]) /\ ~job'[r].alone
  BY <1>1 DEF Stays, DoorFits, Owned
<1>3. Accepts(job[r])' => Foreseen(job[r])'
  <2> SUFFICES ASSUME Accepts(job[r])' PROVE Foreseen(job[r])'
    OBVIOUS
  <2>1. Accepts(job[r]) /\ Owned(job[r]) /\ Foreseen(job[r])
    BY <1>1 DEF Stays, Accepts, Owned, CalmFor
  <2>2. was'[job[r].card] = was[job[r].card]
    BY <1>1, <2>1 DEF WasKept, DoorFits, Filled
  <2> QED BY <2>1, <2>2 DEF Stays, SameHand, Foreseen
<1> QED BY <1>2, <1>3 DEF CalmFor

\* A strand that waits while another one reads, begins or ends.
LEMMA CalmRead ==
  ASSUME TInv, Calm, NEW r \in Strands, job'[r] = job[r], UNCHANGED <<made, status, content, row, was>>
  PROVE  CalmFor(job[r])'
<1>1. CalmFor(job[r])
  BY DEF Calm
<1> QED BY <1>1 DEF CalmFor, Owned, Accepts, Undisturbed, Foreseen, Approved

LEMMA CalmFree ==
  ASSUME NEW s \in Strands, ~Owned(job'[s])
  PROVE  CalmFor(job[s])'
  BY DEF CalmFor, Owned, Accepts

\* A step that writes: the others wait, and only its own strand is to be looked at.
LEMMA CalmWrote ==
  ASSUME TInv, Calm, NEW s \in Strands, WroteStep(s), WasKept, CalmFor(job[s])'
  PROVE  Calm'
  BY CalmPassed DEF WroteStep, Passed, Calm

LEMMA CalmReads ==
  ASSUME TInv, Calm, NEW s \in Strands, \A r \in Strands \ {s} : job'[r] = job[r],
         UNCHANGED <<made, status, content, row, was>>, CalmFor(job[s])'
  PROVE  Calm'
  BY CalmRead DEF Calm

\* The strand of a card goes on, with what it read.
LEMMA CalmOnward ==
  ASSUME TInv, Calm, NEW s \in Strands, Owned(job[s]), SameHand(job'[s], job[s]), job'[s].alone => job[s].alone,
         job'[s].door = job[s].door \/ job'[s].door = "undo",
         job'[s].at \in {"write", "announce", "rows", "unrow", "revert"},
         job'[s].door = "accept" /\ job'[s].at = "write" => job[s].at = "claim" /\ content' = content,
         job[s].alone => made' = made /\ status' = status,
         job'[s].door = "accept" => \A x \in job'[s].left : x \in job[s].left /\ row'[x] = row[x],
         was' = was
  PROVE  CalmFor(job[s])'
<1>1. CalmFor(job[s]) /\ (Accepts(job'[s]) => Accepts(job[s])) /\ Owned(job'[s])
  BY DEF Calm, Accepts, Owned
<1>2. Owned(job[s])' /\ job'[s].alone => Undisturbed(job[s])'
  <2> SUFFICES ASSUME job'[s].alone PROVE Undisturbed(job[s])'
    OBVIOUS
  <2>1. Undisturbed(job[s]) /\ made' = made /\ status' = status
    BY <1>1 DEF CalmFor
  <2>2. IF job'[s].direct THEN job'[s].plan = made' /\ status'[made'] = "approved" ELSE status'[made'] \in InHand
    BY <2>1 DEF Undisturbed, SameHand, Approved
  <2>3. Accepts(job'[s]) => \A x \in job'[s].left : row'[x] = job'[s].look[x]
    BY <1>1, <2>1 DEF Undisturbed, SameHand, Accepts
  <2>4. Accepts(job'[s]) /\ job'[s].at = "write" => \A x \in Content : content'[made'][x] = job'[s].look[x]
    BY <1>1, <2>1 DEF Undisturbed, SameHand, Accepts
  <2> QED BY <2>2, <2>3, <2>4 DEF Undisturbed, Approved, Accepts
<1>3. Accepts(job[s])' => Foreseen(job[s])'
  BY <1>1 DEF CalmFor, Foreseen, SameHand, Accepts
<1> QED BY <1>2, <1>3 DEF CalmFor

LEMMA GoesOnSame ==
  ASSUME NEW k, NEW j, NEW a, NEW d, GoesOn(k, j, a, d)
  PROVE  SameHand(k, j) /\ k.at = a /\ k.door = d /\ k.left = j.left /\ k.alone = j.alone
  BY DEF GoesOn

\* The content is done with.
LEMMA CalmEnded ==
  ASSUME TInv, Calm, NEW s \in Strands, Owned(job[s]), Ended(job'[s], job[s]),
         job[s].alone => made' = made /\ status' = status, row' = row, was' = was
  PROVE  CalmFor(job[s])'
<1>1. CASE job[s].door = "accept"
  BY <1>1, CalmOnward, GoesOnSame DEF Ended
<1>2. CASE job[s].door = "undo"
  BY <1>2, CalmOnward, GoesOnSame DEF Ended
<1> QED BY <1>1, <1>2 DEF Owned

LEMMA AcceptCalm ==
  ASSUME TInv, Calm, NEW s \in Strands, Accept(s)
  PROVE  CalmFor(job[s])'
<1>1. UNCHANGED plans /\ UNCHANGED cards /\ row' = row
  BY DEF Accept
<1>2. made' = made /\ status' = status /\ content' = content /\ was' = was /\ edit' = edit
  BY <1>1 DEF plans, cards
<1> DEFINE k == job'[s]
<1>3. Accepting(s)
  BY AcceptLeaves
<1>4. /\ k.at = "claim" /\ k.door = "accept" /\ k.plan = made /\ k.look = Look(made)
      /\ k.direct => Approved(made)
      /\ k.direct \/ status[made] \in InHand
      /\ k.left \subseteq Rows /\ k.edit = edit[k.card]
      /\ ~k.force => \A x \in Touches[k.edit] : k.look[x] = was[k.card][x]
  BY <1>3 DEF Accepting, Stale
<1>5. /\ \A x \in Content : Look(made)[x] = content[made][x]
      /\ \A x \in Rows : Look(made)[x] = row[x]
  BY SpotsAssumption DEF Look, Spots
<1> HIDE DEF k
<1>6. (Undisturbed(k) /\ Foreseen(k))
  BY <1>4, <1>5 DEF Undisturbed, Foreseen
<1>7. (Undisturbed(job[s]) /\ Foreseen(job[s]))'
  BY <1>1, <1>2, <1>6 DEF k, Undisturbed, Foreseen, Approved, Accepts
<1> QED BY <1>7 DEF CalmFor

LEMMA BeginsCalm ==
  ASSUME TInv, Calm, NEW s \in Strands, Begins(s)
  PROVE  Calm'
<1>1. UNCHANGED plans /\ UNCHANGED cards /\ row' = row /\ UNCHANGED <<made, card, edit>>
  BY BeginsKeeps
<1>2. UNCHANGED <<made, status, content, row, was>>
  BY <1>1 DEF plans, cards
<1>3. \A r \in Strands \ {s} : job'[r] = job[r]
  BY <1>1, BeginsFits DEF ReadStep
<1>4. CalmFor(job[s])'
  <2>1. CASE Save(s)
    <3>1. PICK page \in [Content -> Texts], j \in Job : j.door = "page" /\ Saves(job'[s], j, page)
      BY <2>1, SaveLeaves
    <3>2. ~Owned(job'[s])
      BY <3>1, IdleTyped DEF Saves, Saving, Owned
    <3> QED BY <3>2, CalmFree
  <2>2. CASE Submit(s)
    BY <2>2, SubmitLeaves, CalmFree DEF Owned
  <2>3. CASE Return(s) \/ Postpone(s) \/ Approve(s)
    BY <2>3, ReturnLeaves, PostponeLeaves, ApproveLeaves, CalmFree DEF Owned, StaffBegins
  <2>4. CASE Upload(s) \/ SendClashFree(s)
    BY <2>4, UploadLeaves, SendClashFreeLeaves, CalmFree DEF Owned, StaffBegins, UploadBegins
  <2>5. CASE Accept(s)
    BY <2>5, AcceptCalm
  <2> QED BY <2>1, <2>2, <2>3, <2>4, <2>5 DEF Begins
<1> QED BY <1>2, <1>3, <1>4, CalmReads

\* A step of a strand that has no card in hand.
LEMMA CalmAside ==
  ASSUME TInv, Calm, NEW s \in Strands, WroteStep(s), WasKept, ~Owned(job'[s])
  PROVE  Calm'
  BY CalmFree, CalmWrote

LEMMA EnsureNotesKeeps ==
  ASSUME TInv, NEW p \in Plans, EnsureNotes(p), UNCHANGED <<made, status, postponed, content, wrote, done>>
  PROVE  WasKept
<1>1. \/ UNCHANGED cards
      \/ \E c \in Cards : card[c] = "none" /\ was' = [was EXCEPT ![c] = Nothing(Spots)]
  BY EnsureNotesTyped
<1> QED BY <1>1, CommonTypes DEF WasKept, CardsTyped, cards

LEMMA LastWritesCalm ==
  ASSUME TInv, Calm, NEW s \in Strands, LastWrites(s)
  PROVE  Calm'
<1>1. WroteStep(s) /\ job'[s] = Idle
  BY LastWritesLeaves
<1>2. WasKept
  <2>1. CASE ReturnNotes(s)
    <3>1. /\ EnsureNotes(job[s].plan) /\ job[s].at = "notes"
          /\ UNCHANGED <<made, status, postponed, content, wrote, done>>
      BY <2>1 DEF ReturnNotes, At, history
    <3>2. job[s].plan \in Plans
      BY <3>1, JobKnown DEF Filled
    <3> QED BY <3>1, <3>2, EnsureNotesKeeps
  <2>2. CASE UploadWrites(s)
    <3>1. \E c \in Cards : card[c] = "none" /\ was' = [was EXCEPT ![c] = Snapshot(job[s].edit, job[s].look)]
      BY <2>2, UploadWritesIs
    <3> QED BY <3>1, CommonTypes DEF WasKept, CardsTyped
  <2>3. CASE SubmitWrites(s) \/ PostponeWrites(s) \/ ApproveLapses(s) \/ Revert(s)
    BY <2>3 DEF SubmitWrites, PostponeWrites, ApproveLapses, Revert, cards, WasKept
  <2> QED BY <2>1, <2>2, <2>3 DEF LastWrites
<1> QED BY <1>1, <1>2, CalmAside, IdleTyped DEF Owned

LEMMA PassCalm ==
  ASSUME TInv, Calm, MoveByHand \/ ReadCards \/ Settles
  PROVE  Calm'
<1>1. PassStep
  <2>1. Pass
    BY SettlesIs DEF MoveByHand, ReadCards
  <2> QED BY <2>1, PassIs DEF TInv, TypeOK
<1>2. WasKept
  <2>1. CASE MoveByHand
    BY <2>1 DEF MoveByHand, cards, WasKept
  <2>2. CASE ReadCards
    <3>1. EnsureNotes(made) /\ UNCHANGED <<made, status, postponed, content, wrote, done>> /\ made \in Plans
      BY <2>2, MadeKnown DEF ReadCards, history, TInv
    <3> QED BY <3>1, EnsureNotesKeeps
  <2>3. CASE Settles
    BY <2>3, SettlesIs DEF WasKept
  <2> QED BY <2>1, <2>2, <2>3
<1> QED BY <1>1, <1>2, CalmPassed DEF PassStep, Calm

LEMMA ClaimCalm ==
  ASSUME TInv, Calm, NEW s \in Strands, Claim(s)
  PROVE  Calm'
<1>1. UNCHANGED plans /\ UNCHANGED <<row, announced, on, edit, was>>
  BY DEF Claim
<1>2. UNCHANGED <<made, status, content, row, was>> /\ WasKept
  BY <1>1 DEF plans, WasKept
<1>3. CASE card[job[s].card] # "pending"
  <2>1. ReadStep(s) /\ job'[s] = Idle
    BY <1>3, ClaimLeaves
  <2>2. CalmFor(job[s])'
    BY <2>1, CalmFree, IdleTyped DEF Owned
  <2> QED BY <1>2, <2>1, <2>2, CalmReads DEF ReadStep
<1>4. CASE card[job[s].card] = "pending"
  <2>1. /\ WroteStep(s) /\ job[s].at = "claim" /\ job[s].door = "accept"
        /\ GoesOn(job'[s], job[s], "rows", "accept") \/ GoesOn(job'[s], job[s], "write", "accept")
    BY <1>4, ClaimLeaves
  <2>2. /\ SameHand(job'[s], job[s]) /\ job'[s].at \in {"rows", "write"} /\ job'[s].door = "accept"
        /\ job'[s].left = job[s].left /\ job'[s].alone = job[s].alone
    BY <2>1, GoesOnSame
  <2>3. CalmFor(job[s])'
    BY <1>2, <2>1, <2>2, CalmOnward DEF Owned
  <2> QED BY <1>2, <2>1, <2>3, CalmWrote
<1> QED BY <1>3, <1>4

LEMMA AnnounceCalm ==
  ASSUME TInv, Calm, NEW s \in Strands, Announce(s)
  PROVE  Calm'
<1>1. UNCHANGED plans /\ UNCHANGED cards /\ row' = row
  BY DEF Announce
<1>2. made' = made /\ status' = status /\ was' = was /\ WasKept
  BY <1>1 DEF plans, cards, WasKept
<1>3. WroteStep(s)
  BY AnnounceLeaves
<1>4. CASE job[s].door = "staff"
  <2>1. ~Owned(job'[s])
    BY <1>4, AnnounceLeaves, GoesOnSame DEF Owned
  <2> QED BY <1>2, <1>3, <2>1, CalmAside
<1>5. CASE job[s].door # "staff"
  <2>1. CalmFor(job[s])'
    BY <1>1, <1>2, <1>5, AnnounceLeaves, CalmEnded DEF Owned
  <2> QED BY <1>2, <1>3, <2>1, CalmWrote
<1> QED BY <1>4, <1>5

LEMMA DirectWritesCalm ==
  ASSUME TInv, Calm, NEW s \in Strands, DirectWrites(s)
  PROVE  Calm'
<1>1. made' = made /\ status' = status /\ row' = row /\ was' = was /\ WasKept
  BY DEF DirectWrites, cards, WasKept
<1>2. /\ WroteStep(s) /\ Owned(job[s])
      /\ GoesOn(job'[s], job[s], "announce", job[s].door) \/ Ended(job'[s], job[s])
  BY DirectWritesLeaves DEF Owned
<1>3. CASE Ended(job'[s], job[s])
  <2>1. CalmFor(job[s])'
    BY <1>1, <1>2, <1>3, CalmEnded
  <2> QED BY <1>1, <1>2, <2>1, CalmWrote
<1>4. CASE GoesOn(job'[s], job[s], "announce", job[s].door)
  <2>1. CalmFor(job[s])'
    BY <1>1, <1>2, <1>4, CalmOnward, GoesOnSame
  <2> QED BY <1>1, <1>2, <2>1, CalmWrote
<1> QED BY <1>2, <1>3, <1>4

LEMMA StoreCalm ==
  ASSUME TInv, Calm, NEW s \in Strands, Store(s)
  PROVE  Calm'
<1>1. row' = row /\ was' = was /\ WasKept
  BY DEF Store, WasKept
<1>2. WroteStep(s) /\ job[s].at = "store" /\ job[s].door \in {"page", "accept", "undo"} /\ Ended(job'[s], job[s])
  BY StoreLeaves
<1>3. CASE job[s].door = "page"
  BY <1>1, <1>2, <1>3, CalmAside, IdleTyped DEF Ended, Owned
<1>4. CASE job[s].door # "page"
  <2>1. Owned(job[s]) /\ (job[s].alone => ~job[s].fresh)
    BY <1>2, <1>4 DEF Owned, Calm, CalmFor, Undisturbed
  <2>2. job[s].alone => made' = made /\ status' = status
    BY <2>1, StoreIs
  <2>3. CalmFor(job[s])'
    BY <1>1, <1>2, <2>1, <2>2, CalmEnded
  <2> QED BY <1>1, <1>2, <2>3, CalmWrote
<1> QED BY <1>3, <1>4

LEMMA PlaceCalm ==
  ASSUME TInv, Calm, NEW s \in Strands, Place(s)
  PROVE  Calm'
<1> DEFINE j == job[s]
           k == job'[s]
<1>1. made' = made /\ status' = status /\ row' = row /\ was' = was /\ WasKept
  BY DEF Place, cards, WasKept
<1>2. /\ WroteStep(s) /\ j.at = "place" /\ j.door \in {"page", "accept", "undo"}
      /\ j.enough => Ended(k, j)
      /\ ~j.enough => GoesOn(k, j, "store", j.door)
  BY PlaceLeaves
<1>3. CASE j.door = "page"
  <2>1. ~Owned(k)
    BY <1>2, <1>3, IdleTyped, GoesOnSame DEF Ended, Owned
  <2> QED BY <1>1, <1>2, <2>1, CalmAside
<1>4. CASE j.door # "page" /\ j.enough
  <2>1. CalmFor(job[s])'
    BY <1>1, <1>2, <1>4, CalmEnded DEF Owned
  <2> QED BY <1>1, <1>2, <2>1, CalmWrote
<1>5. CASE j.door # "page" /\ ~j.enough
  <2>1. SameHand(k, j) /\ k.at = "store" /\ k.door = j.door /\ k.left = j.left /\ k.alone = j.alone
    BY <1>2, <1>5, GoesOnSame
  <2>2. CalmFor(j) /\ Owned(j)
    BY <1>2, <1>5 DEF Calm, Owned
  <2>3. \A p \in Plans : p # j.vis => content'[p] = content[p]
    <3>1. content' = [content EXCEPT ![j.vis] = j.seen]
      BY DEF Place
    <3> QED BY <3>1, CommonTypes DEF PlansTyped
  <2>4. made \in Plans
    BY MadeKnown DEF TInv
  <2>5. k.alone => Undisturbed(job[s])'
    <3> SUFFICES ASSUME k.alone PROVE Undisturbed(job[s])'
      OBVIOUS
    <3>1. Undisturbed(j)
      BY <2>1, <2>2 DEF CalmFor
    <3>2. Accepts(j) => content'[made] = content[made]
      BY <1>2, <2>3, <2>4, <3>1 DEF Undisturbed
    <3> QED BY <1>1, <1>2, <2>1, <3>1, <3>2 DEF Undisturbed, SameHand, Accepts, Approved
  <2>6. Accepts(k) => Foreseen(job[s])'
    BY <1>1, <1>2, <2>1, <2>2 DEF CalmFor, Foreseen, SameHand, Accepts
  <2>7. CalmFor(job[s])'
    BY <2>5, <2>6 DEF CalmFor, Accepts
  <2> QED BY <1>1, <1>2, <2>7, CalmWrote
<1> QED BY <1>3, <1>4, <1>5

LEMMA WriteContentCalm ==
  ASSUME TInv, Calm, NEW s \in Strands, WriteContent(s)
  PROVE  Calm'
<1> DEFINE j == job[s]
           k == job'[s]
<1>1. UNCHANGED plans /\ UNCHANGED cards /\ row' = row
  BY DEF WriteContent
<1>2. UNCHANGED <<made, status, content, row, was>>
  BY <1>1 DEF plans, cards
<1>3. /\ ReadStep(s) /\ j.at = "write" /\ j.door \in {"accept", "undo"}
      /\ \/ GoesOn(k, j, "revert", j.door)
         \/ \E page : PageOf(j, page) /\ Directing(k, j, page)
         \/ ~j.direct /\ \E page : PageOf(j, page) /\ Saves(k, j, page)
  BY WriteContentLeaves
<1>4. CalmFor(j) /\ Owned(j)
  BY <1>3 DEF Calm, Owned
<1>8. CalmFor(job[s])'
  <2>5. CASE GoesOn(k, j, "revert", j.door)
    BY <1>2, <1>3, <1>4, <2>5, CalmOnward, GoesOnSame
  <2>6. CASE \E page : PageOf(j, page) /\ Directing(k, j, page)
    <3>1. PICK page : PageOf(j, page) /\ Directing(k, j, page)
      BY <2>6
    <3>2. k.alone => Undisturbed(job[s])'
      BY <1>2, <1>3, <1>4, <3>1 DEF CalmFor, Undisturbed, Directing, Accepts, Approved
    <3>3. Accepts(k) => Foreseen(job[s])'
      BY <1>2, <1>3, <1>4, <3>1 DEF CalmFor, Foreseen, Directing, PageOf, Accepts
    <3> QED BY <3>2, <3>3 DEF CalmFor, Accepts
  <2>7. CASE ~j.direct /\ \E page : PageOf(j, page) /\ Saves(k, j, page)
    <3>1. PICK page : PageOf(j, page) /\ Saves(k, j, page)
      BY <2>7
    <3>2. /\ Saving(k, j, page)
          /\ \/ k.at = "place" /\ Approved(k.vis)
             \/ k.at = "store"
             \/ k.at \in {"rows", "revert"}
      BY <1>3, <3>1 DEF Saves
    <3>3. k.alone => Undisturbed(job[s])'
      <4> SUFFICES ASSUME k.alone PROVE Undisturbed(job[s])'
        OBVIOUS
      <4>1. Undisturbed(j) /\ status[made] \in InHand
        BY <1>4, <2>7, <3>2 DEF CalmFor, Saving, Undisturbed
      <4>2. k.at = "place" => k.vis # made
        BY <3>2, <4>1 DEF Approved, InHand
      <4> QED BY <1>2, <1>3, <2>7, <3>2, <4>1, <4>2 DEF Undisturbed, Saving, Accepts
    <3>4. Accepts(k) => Foreseen(job[s])'
      <4> SUFFICES ASSUME Accepts(k) PROVE Foreseen(job[s])'
        OBVIOUS
      <4>1. Foreseen(j) /\ \A x \in Content \ Touches[j.edit] : page[x] = j.look[x]
        BY <1>4, <3>1, <3>2 DEF CalmFor, Saving, PageOf, Accepts
      <4> QED BY <1>2, <3>2, <4>1 DEF Foreseen, Saving
    <3> QED BY <3>3, <3>4 DEF CalmFor, Accepts
  <2> QED BY <1>3, <2>5, <2>6, <2>7
<1> QED BY <1>2, <1>3, <1>8, CalmReads DEF ReadStep

LEMMA RowsCalm ==
  ASSUME TInv, Calm, NEW s \in Strands, WriteRow(s) \/ UndoRow(s)
  PROVE  Calm'
<1>1. UNCHANGED plans /\ UNCHANGED cards
  BY DEF WriteRow, UndoRow
<1>2. made' = made /\ status' = status /\ was' = was /\ WasKept
  BY <1>1 DEF plans, cards, WasKept
<1>3. CASE WriteRow(s)
  <2>1. PICK x \in job[s].left : row' = [row EXCEPT ![x] = job[s].edit] /\ job'[s].left = job[s].left \ {x}
    BY <1>3, WriteRowLeaves
  <2>2. job[s].left \subseteq Rows
    BY JobKnown DEF Job
  <2>3. \A y \in job'[s].left : y \in job[s].left /\ row'[y] = row[y]
    BY <2>1, <2>2, CommonTypes
  <2>4. /\ WroteStep(s) /\ Owned(job[s]) /\ SameHand(job'[s], job[s]) /\ job'[s].at = "rows"
        /\ job'[s].door = job[s].door /\ job'[s].alone = job[s].alone
    BY <1>3, WriteRowLeaves DEF Owned
  <2>5. CalmFor(job[s])'
    BY <1>2, <2>3, <2>4, CalmOnward
  <2> QED BY <1>2, <2>4, <2>5, CalmWrote
<1>4. CASE UndoRow(s)
  <2>1. PICK x \in Moved(job[s]) : UndoneRow(s, x) /\ BackFrom(job'[s], job[s], x)
    BY <1>4, UndoRowLeaves
  <2>2. Owned(job[s])
    BY <1>4, UndoRowLeaves DEF Owned
  <2>3. /\ SameHand(job'[s], job[s]) /\ job'[s].at \in {"unrow", "write", "revert"} /\ job'[s].door = "undo"
        /\ job'[s].alone = job[s].alone
    BY <2>1 DEF BackFrom
  <2>4. CalmFor(job[s])'
    BY <1>2, <2>2, <2>3, CalmOnward
  <2>5. CASE WroteStep(s)
    BY <1>2, <2>4, <2>5, CalmWrote
  <2>6. CASE ReadStep(s) /\ row' = row
    <3>1. UNCHANGED <<made, status, content, row, was>>
      BY <1>1, <2>6 DEF plans, cards
    <3> QED BY <2>4, <2>6, <3>1, CalmReads DEF ReadStep
  <2> QED BY <2>1, <2>5, <2>6 DEF UndoneRow
<1> QED BY <1>3, <1>4

LEMMA FailApplyCalm ==
  ASSUME TInv, Calm, NEW s \in Strands, FailApply(s)
  PROVE  Calm'
<1>1. UNCHANGED plans /\ UNCHANGED cards /\ row' = row
  BY DEF FailApply
<1>2. UNCHANGED <<made, status, content, row, was>>
  BY <1>1 DEF plans, cards
<1>3. /\ ReadStep(s) /\ Owned(job[s])
      /\ \/ GoesOn(job'[s], job[s], "unrow", "undo")
         \/ GoesOn(job'[s], job[s], "write", "undo")
         \/ GoesOn(job'[s], job[s], "revert", job[s].door)
         \/ job[s].door = "accept" /\ GoesOn(job'[s], job[s], "revert", "accept")
  BY FailApplyLeaves
<1>4. /\ SameHand(job'[s], job[s]) /\ job'[s].at \in {"unrow", "write", "revert"}
      /\ job'[s].door = "undo" \/ (job'[s].door = job[s].door /\ job'[s].at # "write")
      /\ job'[s].left = job[s].left /\ job'[s].alone = job[s].alone
  BY <1>3, GoesOnSame
<1>5. CalmFor(job[s])'
  BY <1>2, <1>3, <1>4, CalmOnward
<1> QED BY <1>2, <1>3, <1>5, CalmReads DEF ReadStep

LEMMA OtherCalm ==
  ASSUME TInv, Calm, NEW s \in Strands, ReturnWrites(s) \/ ApproveWrites(s) \/ EndAccept(s) \/ Crash(s)
  PROVE  Calm'
<1>1. CASE ReturnWrites(s) \/ ApproveWrites(s)
  <2>1. WasKept
    BY <1>1 DEF ReturnWrites, ApproveWrites, cards, WasKept
  <2>2. WroteStep(s) /\ job[s].at \in {"return", "approve"} /\ job'[s].door = job[s].door
    BY <1>1, ReturnWritesLeaves, ApproveWritesLeaves, GoesOnSame
  <2>3. ~Owned(job'[s])
    BY <2>2, JobKnown DEF DoorFits, Owned, OwnPlaces
  <2> QED BY <2>1, <2>2, <2>3, CalmAside
<1>2. CASE EndAccept(s) \/ Crash(s)
  <2>1. UNCHANGED plans /\ UNCHANGED cards /\ row' = row
    BY <1>2 DEF EndAccept, Crash
  <2>2. UNCHANGED <<made, status, content, row, was>>
    BY <2>1 DEF plans, cards
  <2>3. job'[s] = Idle /\ \A r \in Strands \ {s} : job'[r] = job[r]
    BY <1>2, EndAcceptLeaves, CrashLeaves DEF ReadStep
  <2>4. CalmFor(job[s])'
    BY <2>3, CalmFree, IdleTyped DEF Owned
  <2> QED BY <2>2, <2>3, <2>4, CalmReads
<1> QED BY <1>1, <1>2

LEMMA CalmNext ==
  TInv /\ Calm /\ [Next]_vars => Calm'
<1> SUFFICES ASSUME TInv, Calm, [Next]_vars PROVE Calm'
  OBVIOUS
<1>1. CASE UNCHANGED vars
  BY <1>1 DEF vars, Calm, CalmFor, Owned, Accepts, Undisturbed, Foreseen, Approved
<1>2. CASE MoveByHand \/ ReadCards \/ Settles
  BY <1>2, PassCalm
<1>3. ASSUME NEW s \in Strands, StrandActs(s) PROVE Calm'
  BY <1>3, BeginsCalm, LastWritesCalm, OtherCalm, AnnounceCalm, PlaceCalm, StoreCalm, ClaimCalm, WriteContentCalm,
     DirectWritesCalm, RowsCalm, FailApplyCalm DEF StrandActs
<1> QED BY <1>1, <1>2, <1>3, NextKinds

LEMMA CalmInit == Init => Calm
  BY IdleTyped DEF Init, Calm, CalmFor, Owned, Accepts

----------------------------------------------------------------------------
(* What follows of the cards. *)

CardInv == TInv /\ AInv /\ Calm

LEMMA CardInvInit == Init => CardInv
  BY TInvInit, AInvInit, CalmInit DEF CardInv

LEMMA CardInvNext == CardInv /\ [Next]_vars => CardInv'
  BY TInvNext, AInvNext, CalmNext DEF CardInv

\* An accepted card is carried out once, and wholly; of what failed attempts wrote
\* all is put back but what an undoing was refused, however requests come in
\* between and wherever one is cut short (plan-edit 535, 642, 680).
THEOREM CarriedOutOnce == Spec => []CardActsOnce
<1>1. CardInv => CardActsOnce
  BY DEF CardInv, AInv
<1> QED BY <1>1, CardInvInit, CardInvNext, PTL DEF Spec

\* Only the strand that has a card in hand changes what the card has written.
LEMMA WritesOwn ==
  ASSUME TInv, [Next]_vars, wrote' # wrote
  PROVE  \E r \in Strands :
           /\ Owned(job[r]) /\ job[r].at \notin {"idle", "claim"}
           /\ \A c \in Cards : c # job[r].card => wrote'[c] = wrote[c]
           /\ \/ Store(r) \/ DirectWrites(r) \/ WriteRow(r)
              \/ job[r].at \in {"place", "write", "unrow"}
<1>1. ~(UNCHANGED vars \/ MoveByHand \/ ReadCards \/ Settles)
  <2>1. UNCHANGED vars \/ MoveByHand \/ ReadCards \/ Settles => UNCHANGED wrote
    BY SettlesIs DEF vars, MoveByHand, ReadCards, history
  <2> QED BY <2>1
<1>2. PICK r \in Strands : StrandActs(r)
  BY <1>1, NextKinds
<1>3. Place(r) \/ Store(r) \/ WriteContent(r) \/ DirectWrites(r) \/ WriteRow(r) \/ UndoRow(r)
  <2>1. ~Begins(r)
    BY BeginsKeeps DEF history
  <2>2. ~LastWrites(r)
    BY DEF LastWrites, SubmitWrites, ReturnNotes, PostponeWrites, ApproveLapses, UploadWrites, Revert, history
  <2>3. ~(ReturnWrites(r) \/ ApproveWrites(r) \/ Announce(r) \/ Claim(r) \/ EndAccept(r) \/ FailApply(r) \/ Crash(r))
    BY DEF ReturnWrites, ApproveWrites, Announce, Claim, EndAccept, FailApply, Crash, history
  <2> QED BY <1>2, <2>1, <2>2, <2>3 DEF StrandActs
<1>4. DoorFits(job[r])
  BY JobKnown
<1>5. CASE WriteRow(r) \/ UndoRow(r)
  <2>1. /\ wrote \in [Cards -> SUBSET Spots] /\ Owned(job[r]) /\ job[r].at \in {"rows", "unrow"}
        /\ \E w : wrote' = [wrote EXCEPT ![job[r].card] = w]
        /\ WriteRow(r) \/ job[r].at = "unrow"
    BY <1>1, <1>5, WriteRowLeaves, UndoRowLeaves, CommonTypes DEF Owned, UndoneRow
  <2> QED BY <2>1
<1>6. CASE Place(r) \/ Store(r) \/ WriteContent(r) \/ DirectWrites(r)
  <2>1. WroteContent(r)
    BY <1>6 DEF Place, Store, WriteContent, DirectWrites
  <2>2. /\ job[r].at \in {"place", "store", "write", "direct"} /\ job[r].door \in {"page", "accept", "undo"}
        /\ Store(r) \/ DirectWrites(r) \/ job[r].at \in {"place", "write"}
    BY <1>4, <1>6 DEF Place, Store, WriteContent, DirectWrites, At, DoorFits, Owned
  <2>3. /\ \A c \in Cards : c # job[r].card => wrote'[c] = wrote[c]
        /\ job[r].door = "page" => wrote' = wrote
    BY <2>1, <2>2, WroteContentIs
  <2> QED BY <2>2, <2>3 DEF Owned
<1> QED BY <1>3, <1>5, <1>6

\* What a strand that nobody overtook writes for its card.
Heeds(s) ==
  LET j == job[s]
      c == j.card
      p == IF j.at = "direct" THEN j.plan ELSE made
  IN /\ ~j.force => \A x \in wrote'[c] \ wrote[c] : Look(p)[x] = was[c][x]
     /\ \A x \in Content \ Touches[edit[c]] : content'[p][x] = content[p][x]
     /\ \A x \in Rows \ Touches[edit[c]] : row'[x] = row[x]

LEMMA WritesHeed ==
  ASSUME CardInv, NEW s \in Strands, job[s].alone, job[s].door = "accept",
         Store(s) \/ DirectWrites(s) \/ WriteRow(s)
  PROVE  Heeds(s)
<1> DEFINE j == job[s]
<1>1. /\ CalmFor(j) /\ Accepts(j) /\ Owned(j) /\ DoorFits(j) /\ Filled(j) /\ TInv /\ AInv
  BY JobKnown DEF CardInv, Calm, Accepts, Owned
<1>2. Undisturbed(j) /\ Foreseen(j)
  BY <1>1 DEF CalmFor
<1>3. PICK c \in Cards, e \in Edits : c = j.card /\ e = j.edit /\ e = edit[c]
  BY <1>1, InHandKnown DEF AInv
<1>4. /\ wrote \in [Cards -> SUBSET Spots] /\ made \in Plans
      /\ content \in [Plans -> [Content -> Texts]] /\ row \in [Rows -> Texts] /\ Touches[e] \subseteq Spots
  BY <1>1, CommonTypes, SpotsAssumption DEF PlansTyped
<1>5. /\ \A x \in Content : Look(made)[x] = content[made][x]
      /\ \A x \in Rows : Look(made)[x] = row[x]
  BY SpotsAssumption DEF Look, Spots
<1>6. CASE Store(s) \/ DirectWrites(s)
  <2>1. /\ j.at \in {"store", "direct"} /\ row' = row
        /\ WroteContent(s) /\ j.plan = made /\ content' = [content EXCEPT ![made] = j.page]
    <3>1. CASE Store(s)
      <4>1. j.at = "store" /\ row' = row /\ WroteContent(s)
        BY <3>1 DEF Store, At
      <4>2. j.plan = made /\ ~j.fresh
        BY <1>2, <4>1 DEF Undisturbed
      <4> QED BY <1>1, <3>1, <4>1, <4>2, StoreIs
    <3>2. CASE DirectWrites(s)
      <4>1. j.at = "direct" /\ row' = row /\ WroteContent(s) /\ content' = [content EXCEPT ![j.plan] = j.page]
        BY <3>2 DEF DirectWrites, At
      <4>2. j.plan = made
        BY <1>1, <1>2, <4>1 DEF Undisturbed, DoorFits
      <4> QED BY <4>1, <4>2
    <3> QED BY <1>6, <3>1, <3>2
  <2>2. wrote'[c] = wrote[c] \cup (Content \cap Touches[e])
    BY <1>1, <1>3, <2>1, WroteContentIs
  <2>3. \A x \in Content : content[made][x] = j.look[x]
    BY <1>1, <1>2, <2>1 DEF Undisturbed
  <2>4. /\ \A x \in Content \ Touches[e] : j.page[x] = j.look[x]
        /\ ~j.force => \A x \in Touches[e] : j.look[x] = was[c][x]
    BY <1>2, <1>3, <2>1 DEF Foreseen
  <2>5. content'[made] = j.page
    BY <1>4, <2>1
  <2>6. ~j.force => \A x \in wrote'[c] \ wrote[c] : Look(made)[x] = was[c][x]
    BY <1>5, <2>2, <2>3, <2>4
  <2> HIDE DEF j
  <2> QED BY <1>3, <2>1, <2>3, <2>4, <2>5, <2>6 DEF Heeds, j
<1>7. CASE WriteRow(s)
  <2>1. j.at = "rows" /\ content' = content
    BY <1>7 DEF WriteRow, At, plans
  <2>2. PICK x \in j.left : row' = [row EXCEPT ![x] = j.edit] /\ wrote' = [wrote EXCEPT ![c] = wrote[c] \cup {x}]
    BY <1>1, <1>3, <1>7, WriteRowLeaves
  <2>3. x \in Touches[e] \cap Rows /\ row[x] = j.look[x]
    BY <1>1, <1>2, <1>3 DEF Filled, Undisturbed
  <2>4. ~j.force => j.look[x] = was[c][x]
    BY <1>2, <1>3, <2>3 DEF Foreseen
  <2>5. wrote'[c] = wrote[c] \cup {x} /\ \A y \in Rows : y # x => row'[y] = row[y]
    BY <1>4, <2>2
  <2> HIDE DEF j
  <2> QED BY <1>3, <1>5, <2>1, <2>3, <2>4, <2>5 DEF Heeds, j
<1> QED BY <1>6, <1>7

\* A card writes over what stood there when it was uploaded, or over what the trainer
\* forced it to, and over nothing it does not name (plan-edit, limit 2).
THEOREM OverwritesNothingUnseen == Spec => NoSilentOverwrite
<1>1. ASSUME CardInv, [Next]_vars, NEW s \in Strands, job[s].alone, job[s].door = "accept",
             job[s].at \in {"store", "direct", "rows"}, wrote'[job[s].card] # wrote[job[s].card]
      PROVE  Heeds(s)
  <2>1. TInv /\ OneWorks /\ DoorFits(job[s])
    BY <1>1, JobKnown DEF CardInv, AInv
  <2>2. job[s].card \in Cards /\ Working(s, job[s].card)
    BY <1>1, <2>1 DEF DoorFits, Owned, Working
  <2>3. PICK r \in Strands :
           /\ Owned(job[r]) /\ job[r].at \notin {"idle", "claim"}
           /\ \A c \in Cards : c # job[r].card => wrote'[c] = wrote[c]
           /\ \/ Store(r) \/ DirectWrites(r) \/ WriteRow(r)
              \/ job[r].at \in {"place", "write", "unrow"}
    BY <1>1, <2>1, WritesOwn
  <2>4. Working(r, job[s].card)
    BY <1>1, <2>2, <2>3 DEF Working
  <2>5. r = s
    BY <2>1, <2>2, <2>4 DEF OneWorks
  <2> QED BY <1>1, <2>3, <2>5, WritesHeed
<1>2. CardInv /\ [Next]_vars =>
        [\A s \in Strands :
           LET j == job[s]
               c == j.card
               p == IF j.at = "direct" THEN j.plan ELSE made
           IN j.alone /\ j.door = "accept" /\ j.at \in {"store", "direct", "rows"} /\ wrote'[c] # wrote[c] =>
                /\ ~j.force => \A x \in wrote'[c] \ wrote[c] : Look(p)[x] = was[c][x]
                /\ \A x \in Content \ Touches[edit[c]] : content'[p][x] = content[p][x]
                /\ \A x \in Rows \ Touches[edit[c]] : row'[x] = row[x]]_vars
  BY <1>1 DEF Heeds
<1> QED BY <1>2, CardInvInit, CardInvNext, PTL DEF Spec, NoSilentOverwrite

----------------------------------------------------------------------------
(* What stands while nothing is cut short or written out of turn. *)

LEMMA IdleInTurn ==
  ASSUME NEW j, j.at = "idle", j.door = "none"
  PROVE  InTurn(j)
  BY DEF InTurn, Owned

\* What stands while one strand is on its way, and it alone.
StandsFor(j) ==
  /\ OlderSettled /\ UndecidedLast
  /\ ~Tells(j) => Told
  /\ ~Stores(j) => Sits
  /\ ~Reviews(j) => Open
  /\ j.alone => InTurn(j)

LEMMA SoundWrote ==
  ASSUME TInv, NEW s \in Strands, WroteStep(s), Sound'
  PROVE  /\ Sound /\ job[s].alone
         /\ \A r \in Strands \ {s} : /\ job[r].at \notin Busy /\ job'[r].at \notin Busy
                                     /\ job'[r].alone => job'[r].at = "idle" /\ job'[r].door = "none"
<1>1. orderly /\ job[s].alone
  BY DEF WroteStep, Sound
<1>2. ASSUME NEW r \in Strands \ {s}
      PROVE  /\ job[r].at \notin Busy /\ job'[r].at \notin Busy
             /\ job'[r].alone => job'[r].at = "idle" /\ job'[r].door = "none"
  <2>1. Stays(r) /\ (job'[r].alone => job[r].at = "idle") /\ DoorFits(job[r])
    BY JobKnown DEF WroteStep, Passed
  <2>2. job'[r].at = job[r].at /\ job'[r].door = job[r].door /\ (job[r].at = "idle" => job[r].door = "none")
    BY <2>1 DEF Stays, DoorFits
  <2>3. job'[r].at \notin Busy
    BY <2>1, <2>2 DEF Sound, Busy
  <2> QED BY <2>1, <2>2, <2>3
<1> QED BY <1>1, <1>2 DEF Sound

\* A step that writes: only what its own strand is about is to be looked at.
LEMMA StandWrote ==
  ASSUME TInv, Standing, NEW s \in Strands, WroteStep(s),
         orderly /\ job[s].alone /\ StandsFor(job[s]) => StandsFor(job[s])'
  PROVE  Standing'
<1> SUFFICES ASSUME Sound'
             PROVE  (OlderSettled /\ UndecidedLast /\ Mended /\ \A r \in Strands : job[r].alone => InTurn(job[r]))'
  BY DEF Standing
<1>1. /\ Sound /\ job[s].alone /\ orderly
      /\ \A r \in Strands \ {s} : /\ job[r].at \notin Busy /\ job'[r].at \notin Busy
                                  /\ job'[r].alone => job'[r].at = "idle" /\ job'[r].door = "none"
  BY SoundWrote DEF Sound
<1>2. \A r \in Strands \ {s} : /\ ~Tells(job[r]) /\ ~Stores(job[r]) /\ ~Reviews(job[r])
                               /\ ~Tells(job'[r]) /\ ~Stores(job'[r]) /\ ~Reviews(job'[r])
  BY <1>1 DEF Busy, Tells, Stores, Reviews
<1>3. StandsFor(job[s])
  BY <1>1, <1>2 DEF Standing, Mended, StandsFor
<1>4. StandsFor(job[s])'
  BY <1>1, <1>3
<1>5. \A r \in Strands : job'[r].alone => InTurn(job[r])'
  <2>1. \A r \in Strands \ {s} : job'[r].alone => InTurn(job[r])'
    BY <1>1, IdleInTurn DEF InTurn, Owned
  <2> QED BY <1>4, <2>1 DEF StandsFor
<1>6. Mended'
  BY <1>4 DEF StandsFor, Mended
<1> QED BY <1>4, <1>5, <1>6 DEF StandsFor

\* A step that reads: nothing else changes.
LEMMA StandRead ==
  ASSUME TInv, Standing, NEW s \in Strands, \A r \in Strands \ {s} : job'[r] = job[r], orderly' = orderly,
         job[s].at \notin Busy, UNCHANGED <<made, status, content, announced, card, on>>,
         OlderSettled /\ UndecidedLast /\ job'[s].alone /\ (job[s].alone => InTurn(job[s])) => InTurn(job'[s])
  PROVE  Standing'
<1> SUFFICES ASSUME Sound'
             PROVE  (OlderSettled /\ UndecidedLast /\ Mended /\ \A r \in Strands : job[r].alone => InTurn(job[r]))'
  BY DEF Standing
<1>1. Sound
  BY DEF Sound
<1>2. OlderSettled /\ UndecidedLast /\ Mended /\ \A r \in Strands : job[r].alone => InTurn(job[r])
  BY <1>1 DEF Standing
<1>3. OlderSettled' /\ UndecidedLast'
  BY <1>2 DEF OlderSettled, UndecidedLast, Approved
<1>4. Mended'
  <2>1. ~Tells(job[s]) /\ ~Stores(job[s]) /\ ~Reviews(job[s])
    BY DEF Tells, Stores, Reviews, Busy
  <2>2. (Told => Told') /\ (Sits => Sits') /\ (Open => Open')
    BY DEF Told, Sits, Open, Approved
  <2> QED BY <1>2, <2>1, <2>2 DEF Mended, Tells, Stores, Reviews
<1>5. \A r \in Strands : job'[r].alone => InTurn(job'[r])
  BY <1>2
<1>6. \A r \in Strands : job'[r].alone => InTurn(job[r])'
  BY <1>5 DEF InTurn, Owned, Approved
<1> QED BY <1>3, <1>4, <1>6

LEMMA PassStands ==
  ASSUME TInv, Standing, MoveByHand \/ ReadCards \/ Settles
  PROVE  Standing'
<1>1. PassStep /\ UNCHANGED <<made, status, content, announced>>
  <2>1. Pass /\ UNCHANGED <<made, status, content, announced>>
    BY SettlesIs DEF MoveByHand, ReadCards, plans
  <2> QED BY <2>1, PassIs DEF TInv, TypeOK
<1> SUFFICES ASSUME Sound'
             PROVE  (OlderSettled /\ UndecidedLast /\ Mended /\ \A r \in Strands : job[r].alone => InTurn(job[r]))'
  BY DEF Standing
<1>2. \A r \in Strands : /\ job[r].at \notin Busy /\ job'[r].at \notin Busy
                         /\ job'[r].alone => job'[r].at = "idle" /\ job'[r].door = "none"
  <2> SUFFICES ASSUME NEW r \in Strands
               PROVE  /\ job[r].at \notin Busy /\ job'[r].at \notin Busy
                      /\ job'[r].alone => job'[r].at = "idle" /\ job'[r].door = "none"
    OBVIOUS
  <2>1. Stays(r) /\ (job'[r].alone => job[r].at = "idle") /\ DoorFits(job[r])
    BY <1>1, JobKnown DEF PassStep
  <2>2. job'[r].at = job[r].at /\ job'[r].door = job[r].door /\ (job[r].at = "idle" => job[r].door = "none")
    BY <2>1 DEF Stays, DoorFits
  <2> QED BY <2>1, <2>2 DEF Sound, Busy
<1>3. Sound
  BY <1>1, <1>2 DEF Sound, PassStep
<1>4. OlderSettled /\ UndecidedLast /\ Told /\ Sits /\ Open
  BY <1>2, <1>3 DEF Standing, Mended, Tells, Stores, Reviews, Busy
<1>5. /\ \A c \in Cards : card'[c] \in Undecided => (card[c] \in Undecided /\ on'[c] = on[c]) \/ on'[c] = made
      /\ \A c \in Cards : card'[c] = "proposed" => card[c] = "proposed" /\ on'[c] = on[c]
  <2>1. CASE MoveByHand
    <3>1. UNCHANGED cards
      BY <2>1 DEF MoveByHand
    <3> QED BY <3>1 DEF cards
  <2>2. CASE ReadCards
    <3>1. EnsureNotes(made) /\ UNCHANGED <<made, status, postponed, content, wrote, done>> /\ made \in Plans
      BY <2>2, MadeKnown DEF ReadCards, history, TInv
    <3>2. \/ UNCHANGED cards
          \/ \E c \in Cards : /\ card[c] = "none" /\ card' = [card EXCEPT ![c] = "pending"]
                              /\ on' = [on EXCEPT ![c] = made]
      BY <3>1, EnsureNotesTyped
    <3> QED BY <3>2, CommonTypes DEF CardsTyped, cards
  <2>3. CASE Settles
    <3>1. PICK S \in SUBSET {c \in Cards : card[c] \in Undecided}, st \in CardStatus \ {"none", "accepted", "proposed"} :
            card' = Settle(S, st)
      BY <2>3, SettlesIs
    <3>2. on' = on /\ \A c \in Cards : card'[c] = IF c \in S THEN st ELSE card[c]
      BY <2>3, <3>1, SettlesIs DEF Settle
    <3> QED BY <3>1, <3>2
  <2> QED BY <2>1, <2>2, <2>3
<1>6. OlderSettled' /\ UndecidedLast'
  BY <1>1, <1>4, <1>5 DEF OlderSettled, UndecidedLast, Approved
<1>7. Mended'
  <2>1. Told' /\ Sits'
    BY <1>1, <1>4 DEF Told, Sits, Approved
  <2>2. Open'
    BY <1>1, <1>4, <1>5 DEF Open, Approved
  <2> QED BY <2>1, <2>2 DEF Mended
<1>8. \A r \in Strands : job'[r].alone => InTurn(job[r])'
  BY <1>2, IdleInTurn DEF InTurn, Owned
<1> QED BY <1>6, <1>7, <1>8

\* A plan that is not settled is the last.
LEMMA UnsettledIsLast ==
  ASSUME TInv, OlderSettled, NEW p \in Plans, status[p] \in {"draft", "submitted", "changes_requested"}
  PROVE  p = made
<1>1. p \in Int /\ made \in Int /\ p <= made
  BY MadeKnown DEF TInv
<1> QED BY <1>1 DEF OlderSettled

\* A step that leaves plans, dates and cards alone but for a decision on some of them.
LEMMA SettleStands ==
  ASSUME UNCHANGED <<made, status, content, announced, on>>, OlderSettled, UndecidedLast,
         \A c \in Cards : card'[c] \in Undecided => card[c] \in Undecided \/ on[c] = made,
         \A c \in Cards : card'[c] = "proposed" => card[c] = "proposed"
  PROVE  OlderSettled' /\ UndecidedLast' /\ (Told => Told') /\ (Sits => Sits') /\ (Open => Open')
  BY DEF OlderSettled, UndecidedLast, Told, Sits, Open, Approved

LEMMA SubmitWritesStands ==
  ASSUME TInv, Standing, NEW s \in Strands, SubmitWrites(s)
  PROVE  Standing'
<1>1. WroteStep(s) /\ job'[s] = Idle /\ job[s].at = "submit"
  BY LastWritesLeaves DEF LastWrites, SubmitWrites, At
<1> SUFFICES ASSUME job[s].alone, StandsFor(job[s]) PROVE StandsFor(job[s])'
  BY <1>1, StandWrote
<1>2. UNCHANGED <<made, content, announced, card, on>> /\ status' = [status EXCEPT ![job[s].plan] = "submitted"]
  BY DEF SubmitWrites, cards
<1>3. InTurn(job[s])
  BY DEF StandsFor
<1>4. job[s].plan = made /\ status[made] \notin {"submitted", "approved"}
  BY <1>1, <1>3 DEF InTurn
<1>5. made \in Plans /\ status'[made] = "submitted" /\ \A p \in Plans : p # made => status'[p] = status[p]
  BY <1>2, <1>4, CommonTypes DEF PlansTyped
<1>6. \A p \in Plans : Approved(p)' => Approved(p)
  BY <1>5 DEF Approved
<1>7. OlderSettled' /\ UndecidedLast'
  <2>1. OlderSettled /\ UndecidedLast
    BY DEF StandsFor
  <2>2. OlderSettled'
    <3>1. \A p \in Plans : p < made => p # made
      BY CommonTypes
    <3>2. (\E p \in Plans : status'[p] = "superseded") => \E p \in Plans : Approved(p)'
      BY <1>4, <1>5, <2>1 DEF OlderSettled, Approved
    <3> QED BY <1>2, <1>5, <2>1, <3>1, <3>2 DEF OlderSettled
  <2> QED BY <1>2, <2>1, <2>2 DEF UndecidedLast
<1>8. Told /\ Sits /\ Open
  BY <1>1 DEF StandsFor, Tells, Stores, Reviews
<1>9. Told' /\ Sits' /\ Open'
  <2>1. Told' /\ Sits'
    BY <1>2, <1>6, <1>8 DEF Told, Sits
  <2>2. Open'
    <3>1. \A p \in Plans : ~Approved(p) => ~Approved(p)'
      BY <1>6
    <3>2. \A c \in Cards : card[c] = "proposed" => on[c] \in Plans
      BY CommonTypes, BoundsAssumption DEF CardsTyped, Plans
    <3> QED BY <1>2, <1>8, <3>1, <3>2 DEF Open
  <2> QED BY <2>1, <2>2
<1>10. InTurn(job[s])'
  BY <1>1, IdleTyped DEF InTurn, Owned
<1> QED BY <1>7, <1>9, <1>10 DEF StandsFor

\* A plan is handed back: it was the last, and no plan is approved that was not.
LEMMA HandedBack ==
  ASSUME TInv, OlderSettled, NEW p \in Plans, status[p] = "submitted",
         status' = [status EXCEPT ![p] = "changes_requested"], UNCHANGED <<made, content, announced, card, on>>
  PROVE  /\ p = made /\ OlderSettled' /\ (UndecidedLast => UndecidedLast')
         /\ (Told => Told') /\ (Sits => Sits') /\ (Open => Open')
<1>1. p = made /\ made \in Int
  BY UnsettledIsLast, MadeKnown DEF TInv
<1>2. \A q \in Plans : status'[q] = IF q = p THEN "changes_requested" ELSE status[q]
  BY CommonTypes DEF PlansTyped
<1>3. \A q \in Plans : Approved(q)' <=> Approved(q)
  BY <1>2 DEF Approved
<1>4. OlderSettled'
  <2>1. \A q \in Plans : q < made => q # p
    BY <1>1
  <2>2. (\E q \in Plans : status'[q] = "superseded") => \E q \in Plans : Approved(q)'
    BY <1>2, <1>3 DEF OlderSettled
  <2> QED BY <1>1, <1>2, <2>1, <2>2 DEF OlderSettled
<1>5. (Told => Told') /\ (Sits => Sits')
  BY <1>3 DEF Told, Sits
<1>6. Open => Open'
  <2>1. \A c \in Cards : card[c] = "proposed" => on[c] \in Plans
    BY CommonTypes, BoundsAssumption DEF CardsTyped, Plans
  <2> QED BY <1>3, <2>1 DEF Open
<1> QED BY <1>1, <1>4, <1>5, <1>6 DEF UndecidedLast

LEMMA ReturnStands ==
  ASSUME TInv, Standing, NEW s \in Strands, ReturnWrites(s) \/ PostponeWrites(s)
  PROVE  Standing'
<1>1. /\ WroteStep(s) /\ job[s].at \in {"return", "postpone"}
      /\ job'[s].at \in {"idle", "notes"} /\ ~Owned(job[s])' /\ job[s].plan \in Plans
  <2>1. CASE ReturnWrites(s)
    <3>1. WroteStep(s) /\ job[s].at = "return" /\ job'[s].at = "notes" /\ job'[s].door = job[s].door
      BY <2>1, ReturnWritesLeaves, GoesOnSame
    <3> QED BY <3>1, JobKnown DEF Filled, DoorFits, Owned, OwnPlaces
  <2>2. CASE PostponeWrites(s)
    <3>1. WroteStep(s) /\ job'[s] = Idle /\ job[s].at = "postpone"
      BY <2>2, LastWritesLeaves DEF LastWrites, PostponeWrites, At
    <3> QED BY <3>1, JobKnown, IdleTyped DEF Filled, Owned
  <2> QED BY <2>1, <2>2
<1> SUFFICES ASSUME job[s].alone, StandsFor(job[s]) PROVE StandsFor(job[s])'
  BY <1>1, StandWrote
<1>2. /\ UNCHANGED <<made, content, announced, card, on>>
      /\ status' = [status EXCEPT ![job[s].plan] = "changes_requested"]
  BY DEF ReturnWrites, PostponeWrites, cards
<1>3. status[job[s].plan] = "submitted" /\ OlderSettled /\ UndecidedLast
  BY <1>1 DEF StandsFor, InTurn
<1>4. Told /\ Sits /\ Open
  BY <1>1 DEF StandsFor, Tells, Stores, Reviews
<1>5. OlderSettled' /\ UndecidedLast' /\ Told' /\ Sits' /\ Open'
  BY <1>1, <1>2, <1>3, <1>4, HandedBack
<1>6. InTurn(job[s])'
  BY <1>1 DEF InTurn
<1> QED BY <1>5, <1>6 DEF StandsFor

LEMMA ReturnNotesStands ==
  ASSUME TInv, Standing, NEW s \in Strands, ReturnNotes(s)
  PROVE  Standing'
<1>1. WroteStep(s) /\ job'[s] = Idle /\ job[s].at = "notes"
  BY LastWritesLeaves DEF LastWrites, ReturnNotes, At
<1> SUFFICES ASSUME job[s].alone, StandsFor(job[s]) PROVE StandsFor(job[s])'
  BY <1>1, StandWrote
<1>2. OlderSettled /\ UndecidedLast /\ Told /\ Sits /\ Open
  BY <1>1 DEF StandsFor, Tells, Stores, Reviews
<1>3. /\ EnsureNotes(job[s].plan) /\ job[s].plan \in Plans
      /\ UNCHANGED <<made, status, postponed, content, wrote, done>> /\ UNCHANGED <<made, status, content, announced>>
  BY <1>1, JobKnown DEF Filled, ReturnNotes, history
<1>4. \/ UNCHANGED cards
      \/ /\ job[s].plan = made
         /\ \E c \in Cards : /\ card[c] = "none" /\ card' = [card EXCEPT ![c] = "pending"]
                             /\ on' = [on EXCEPT ![c] = made]
  BY <1>2, <1>3, EnsureNotesTyped, UnsettledIsLast
<1>5. /\ \A c \in Cards : card'[c] \in Undecided => (card[c] \in Undecided /\ on'[c] = on[c]) \/ on'[c] = made
      /\ \A c \in Cards : card'[c] = "proposed" => card[c] = "proposed" /\ on'[c] = on[c]
  BY <1>4, CommonTypes DEF CardsTyped, cards
<1>6. OlderSettled' /\ UndecidedLast' /\ Told' /\ Sits' /\ Open'
  BY <1>2, <1>3, <1>5 DEF OlderSettled, UndecidedLast, Told, Sits, Open, Approved
<1>7. InTurn(job[s])'
  BY <1>1, IdleTyped DEF InTurn, Owned
<1> QED BY <1>6, <1>7 DEF StandsFor

LEMMA ApproveWritesStands ==
  ASSUME TInv, Standing, NEW s \in Strands, ApproveWrites(s)
  PROVE  Standing'
<1> DEFINE j == job[s]
           k == job'[s]
<1>1. WroteStep(s) /\ j.at = "approve" /\ GoesOn(k, j, "announce", j.door)
  BY ApproveWritesLeaves
<1> SUFFICES ASSUME j.alone, StandsFor(j) PROVE StandsFor(job[s])'
  BY <1>1, StandWrote
<1>2. j.plan \in Plans /\ j.door = "staff"
  <2>1. j.door \in {"none", "page", "accept", "undo", "staff"} /\ DoorFits(j) /\ Filled(j)
    BY JobKnown DEF Job
  <2> QED BY <1>1, <2>1 DEF Filled, DoorFits, Owned, OwnPlaces
<1>3. OlderSettled /\ UndecidedLast /\ InTurn(j)
  BY DEF StandsFor
<1>4. j.plan = made /\ j.page = content[made]
  BY <1>1, <1>2, <1>3, UnsettledIsLast DEF InTurn
<1>5. /\ status' = [q \in Plans |-> IF q = made THEN "approved" ELSE IF Approved(q) THEN "superseded" ELSE status[q]]
      /\ card' = Settle({c \in Cards : on[c] # made /\ card[c] \in Undecided}, "lapsed")
      /\ UNCHANGED <<made, content, on>>
  BY <1>4 DEF ApproveWrites
<1>6. made \in Plans /\ made \in Int
  BY MadeKnown DEF TInv
<1>7. OlderSettled'
  <2>1. status'[made] = "approved"
    BY <1>5, <1>6
  <2>2. ASSUME NEW p \in Plans, p < made
        PROVE  status'[p] = "superseded"
    <3>1. p # made /\ status[p] \in {"approved", "superseded"}
      BY <1>3, <1>6, <2>2 DEF OlderSettled
    <3> QED BY <1>5, <3>1 DEF Approved
  <2> QED BY <1>5, <1>6, <2>1, <2>2 DEF OlderSettled, Approved
<1>8. UndecidedLast'
  <2>1. \A c \in Cards : card'[c] \in Undecided => on[c] = made
    BY <1>5 DEF Settle, Undecided
  <2> QED BY <1>5, <2>1 DEF UndecidedLast
<1>9. Sits'
  <2>1. \A p \in Plans : Approved(p)' => p = made
    BY <1>5 DEF Approved
  <2> QED BY <1>5, <2>1 DEF Sits
<1>10. k.at = "announce" /\ k.door = "staff" /\ k.plan = made /\ k.page = content[made]
  BY <1>1, <1>2, <1>4 DEF GoesOn, SameHand
<1>11. InTurn(job[s])'
  <2>1. status'[made] = "approved"
    BY <1>5, <1>6
  <2> QED BY <1>5, <1>10, <2>1 DEF InTurn, Owned, Approved
<1> QED BY <1>7, <1>8, <1>9, <1>10, <1>11 DEF StandsFor, Tells, Stores, Reviews

LEMMA AnnounceStands ==
  ASSUME TInv, Standing, NEW s \in Strands, Announce(s)
  PROVE  Standing'
<1> DEFINE j == job[s]
           k == job'[s]
<1>1. /\ WroteStep(s) /\ j.at = "announce"
      /\ j.door = "staff" => GoesOn(k, j, "lapse", "staff")
      /\ j.door # "staff" => Ended(k, j) /\ j.door \in {"accept", "undo"}
  BY AnnounceLeaves
<1> SUFFICES ASSUME j.alone, StandsFor(j) PROVE StandsFor(job[s])'
  BY <1>1, StandWrote
<1>2. UNCHANGED plans /\ UNCHANGED cards /\ announced' = j.page[Period]
  BY DEF Announce
<1>3. UNCHANGED <<made, status, content, card, on>>
  BY <1>2 DEF plans, cards
<1>4. OlderSettled /\ UndecidedLast /\ Sits /\ InTurn(j)
  BY <1>1 DEF StandsFor, Stores
<1>5. Approved(made) /\ j.plan = made /\ j.page[Period] = content[made][Period] /\ made \in Plans
  BY <1>1, <1>4, MadeKnown DEF InTurn, TInv
<1>6. Told'
  <2>1. \A p \in Plans : Approved(p) => p = made
    BY <1>5, CommonTypes DEF OneApproved
  <2> QED BY <1>2, <1>3, <1>5, <2>1 DEF Told, Approved
<1>7. OlderSettled' /\ UndecidedLast' /\ Sits' /\ (Open => Open')
  BY <1>3, <1>4 DEF OlderSettled, UndecidedLast, Sits, Open, Approved
<1>8. CASE j.door = "staff"
  <2>1. k.at = "lapse" /\ k.door = "staff" /\ k.plan = made
    BY <1>1, <1>5, <1>8 DEF GoesOn, SameHand
  <2>2. InTurn(job[s])'
    BY <1>3, <2>1 DEF InTurn, Owned
  <2> QED BY <1>6, <1>7, <2>1, <2>2 DEF StandsFor, Reviews
<1>9. CASE j.door # "staff"
  <2>1. Open
    BY <1>9 DEF StandsFor, Reviews
  <2>2. k.at \in {"rows", "revert"} /\ Owned(k) /\ k.card = j.card /\ Owned(j)
    BY <1>1, <1>9 DEF Ended, GoesOn, SameHand, Owned
  <2>3. InTurn(job[s])'
    BY <1>3, <1>4, <2>2 DEF InTurn, Owned
  <2> QED BY <1>6, <1>7, <2>1, <2>3 DEF StandsFor
<1> QED BY <1>8, <1>9

LEMMA ApproveLapsesStands ==
  ASSUME TInv, Standing, NEW s \in Strands, ApproveLapses(s)
  PROVE  Standing'
<1>1. WroteStep(s) /\ job'[s] = Idle /\ job[s].at = "lapse"
  BY LastWritesLeaves DEF LastWrites, ApproveLapses, At
<1> SUFFICES ASSUME job[s].alone, StandsFor(job[s]) PROVE StandsFor(job[s])'
  BY <1>1, StandWrote
<1>2. OlderSettled /\ UndecidedLast /\ Told /\ Sits /\ job[s].plan = made
  BY <1>1 DEF StandsFor, Tells, Stores, InTurn
<1> DEFINE S == CardsOn(made, {"proposed"}) \cup {c \in CardsOn(made, {"pending"}) : edit[c] = Note}
<1>3. UNCHANGED plans /\ UNCHANGED <<announced, on>> /\ card' = Settle(S, "lapsed")
  BY <1>2 DEF ApproveLapses
<1>4. UNCHANGED <<made, status, content, announced, on>>
  BY <1>3 DEF plans
<1>5. /\ \A c \in Cards : card'[c] \in Undecided => card[c] \in Undecided
      /\ \A c \in Cards : card'[c] # "proposed"
  <2>1. \A c \in Cards : card[c] = "proposed" => c \in S
    BY <1>2 DEF CardsOn, UndecidedLast, Undecided
  <2> HIDE DEF S
  <2> QED BY <1>3, <2>1 DEF Settle, Undecided
<1>6. OlderSettled' /\ UndecidedLast' /\ Told' /\ Sits' /\ Open'
  BY <1>2, <1>4, <1>5 DEF OlderSettled, UndecidedLast, Told, Sits, Open, Approved
<1>7. InTurn(job[s])'
  BY <1>1, IdleTyped DEF InTurn, Owned
<1> QED BY <1>6, <1>7 DEF StandsFor

LEMMA UploadWritesStands ==
  ASSUME TInv, Standing, NEW s \in Strands, UploadWrites(s)
  PROVE  Standing'
<1> DEFINE j == job[s]
           st == Settle({c \in j.gone : card[c] \in Undecided}, "withdrawn")
<1>1. WroteStep(s) /\ job'[s] = Idle /\ j.at = "upload"
  BY LastWritesLeaves DEF LastWrites, UploadWrites, At
<1> SUFFICES ASSUME j.alone, StandsFor(j) PROVE StandsFor(job[s])'
  BY <1>1, StandWrote
<1>2. OlderSettled /\ UndecidedLast /\ Told /\ Sits /\ Open /\ j.plan = made /\ (~j.direct => ~Approved(made))
  BY <1>1 DEF StandsFor, Tells, Stores, Reviews, InTurn
<1>3. UNCHANGED plans /\ UNCHANGED announced
  BY DEF UploadWrites
<1>4. UNCHANGED <<made, status, content, announced>>
  BY <1>3 DEF plans
<1>5. /\ \A c \in Cards : st[c] = card[c] \/ (card[c] \in Undecided /\ st[c] = "withdrawn")
      /\ st \in [Cards -> CardStatus]
      /\ \E c \in Cards : /\ on' = [on EXCEPT ![c] = made]
                          /\ card' = [st EXCEPT ![c] = IF j.direct THEN "pending" ELSE "proposed"]
  BY <1>2, UploadWritesIs
<1> HIDE DEF st
<1>6. PICK c \in Cards : /\ on' = [on EXCEPT ![c] = made]
                         /\ card' = [st EXCEPT ![c] = IF j.direct THEN "pending" ELSE "proposed"]
  BY <1>5
<1>7. /\ on'[c] = made /\ \A d \in Cards : d # c => on'[d] = on[d] /\ card'[d] = st[d]
      /\ card'[c] = "proposed" => ~j.direct
  BY <1>5, <1>6, CommonTypes DEF CardsTyped
<1>8. /\ \A d \in Cards : card'[d] \in Undecided => (card[d] \in Undecided /\ on'[d] = on[d]) \/ on'[d] = made
      /\ \A d \in Cards : card'[d] = "proposed" => (card[d] = "proposed" /\ on'[d] = on[d]) \/ ~Approved(on'[d])
  BY <1>2, <1>5, <1>7 DEF Undecided
<1>9. OlderSettled' /\ UndecidedLast' /\ Told' /\ Sits'
  BY <1>2, <1>4, <1>8 DEF OlderSettled, UndecidedLast, Told, Sits, Approved
<1>10. Open'
  BY <1>2, <1>4, <1>8 DEF Open, Approved
<1>11. InTurn(job[s])'
  BY <1>1, IdleTyped DEF InTurn, Owned
<1> QED BY <1>9, <1>10, <1>11 DEF StandsFor

LEMMA RevertStands ==
  ASSUME TInv, Standing, NEW s \in Strands, Revert(s)
  PROVE  Standing'
<1>1. WroteStep(s) /\ job'[s] = Idle /\ job[s].at = "revert" /\ Owned(job[s]) /\ card' = Settle({job[s].card}, "pending")
  BY RevertLeaves
<1> SUFFICES ASSUME job[s].alone, StandsFor(job[s]) PROVE StandsFor(job[s])'
  BY <1>1, StandWrote
<1>2. OlderSettled /\ UndecidedLast /\ Told /\ Sits /\ Open /\ on[job[s].card] = made
  BY <1>1 DEF StandsFor, Tells, Stores, Reviews, InTurn
<1>3. UNCHANGED plans /\ UNCHANGED <<announced, on>>
  BY DEF Revert
<1>4. UNCHANGED <<made, status, content, announced, on>>
  BY <1>3 DEF plans
<1>5. /\ \A c \in Cards : card'[c] \in Undecided => card[c] \in Undecided \/ on[c] = made
      /\ \A c \in Cards : card'[c] = "proposed" => card[c] = "proposed"
  BY <1>1, <1>2 DEF Settle
<1>6. OlderSettled' /\ UndecidedLast' /\ Told' /\ Sits' /\ Open'
  BY <1>2, <1>4, <1>5, SettleStands
<1>7. InTurn(job[s])'
  BY <1>1, IdleTyped DEF InTurn, Owned
<1> QED BY <1>6, <1>7 DEF StandsFor

LEMMA PlaceStands ==
  ASSUME TInv, Standing, NEW s \in Strands, Place(s)
  PROVE  Standing'
<1> DEFINE j == job[s]
           k == job'[s]
<1>1. /\ WroteStep(s) /\ j.at = "place" /\ j.door \in {"page", "accept", "undo"}
      /\ j.enough => Ended(k, j)
      /\ ~j.enough => GoesOn(k, j, "store", j.door)
  BY PlaceLeaves
<1> SUFFICES ASSUME j.alone, StandsFor(j) PROVE StandsFor(job[s])'
  BY <1>1, StandWrote
<1>2. UNCHANGED cards /\ UNCHANGED <<made, status, announced>> /\ content' = [content EXCEPT ![j.vis] = j.seen]
  BY DEF Place
<1>3. UNCHANGED <<made, status, announced, card, on>>
  BY <1>2 DEF cards
<1>4. OlderSettled /\ UndecidedLast /\ Told /\ Sits /\ Open /\ InTurn(j)
  BY <1>1 DEF StandsFor, Tells, Stores, Reviews
<1>5. /\ j.plan = made /\ status[made] # "submitted" /\ (j.fresh <=> status[made] \notin InHand)
      /\ Approved(j.vis) /\ (j.enough => j.vis = made \/ status[made] \notin InHand)
      /\ \A x \in Placed : j.seen[x] = j.page[x]
      /\ \A x \in Content \ Placed : j.seen[x] = content[j.vis][x]
      /\ Owned(j) => on[j.card] = made
  BY <1>1, <1>4 DEF InTurn
<1>6. j.vis \in Plans /\ made \in Plans
  BY <1>1, JobKnown, MadeKnown DEF Filled, TInv
<1>7. \A p \in Plans : Approved(p) <=> p = j.vis
  BY <1>5, <1>6, CommonTypes DEF OneApproved
<1>8. content'[j.vis] = j.seen /\ \A p \in Plans : p # j.vis => content'[p] = content[p]
  BY <1>2, <1>6, CommonTypes DEF PlansTyped
<1>9. Told'
  <2>1. announced = content[j.vis][Period] /\ j.seen[Period] = content[j.vis][Period]
    BY <1>4, <1>5, <1>6, SpotsAssumption DEF Told
  <2> QED BY <1>3, <1>7, <1>8, <2>1 DEF Told, Approved
<1>10. j.enough => Sits'
  <2>1. status[made] \in PlanStatus /\ status[made] # "none"
    BY <1>6, CommonTypes DEF PlansTyped
  <2>2. status[made] \notin InHand => j.vis = made
    BY <1>4, <1>5, <1>6, <1>7, <2>1 DEF OlderSettled, PlanStatus, InHand, Approved
  <2> QED BY <1>3, <1>5, <1>7, <2>2 DEF Sits, Approved
<1>11. OlderSettled' /\ UndecidedLast' /\ Open'
  BY <1>3, <1>4 DEF OlderSettled, UndecidedLast, Open, Approved
<1>12. CASE j.enough
  <2>1. \/ k.at = "idle" /\ k.door = "none"
        \/ k.at \in {"rows", "revert"} /\ Owned(k) /\ k.card = j.card /\ Owned(j)
    BY <1>1, <1>12, IdleTyped DEF Ended, GoesOn, SameHand, Owned
  <2>2. InTurn(job[s])'
    BY <1>3, <1>5, <2>1 DEF InTurn, Owned
  <2> QED BY <1>9, <1>10, <1>11, <1>12, <2>2 DEF StandsFor
<1>13. CASE ~j.enough
  <2>1. k.at = "store" /\ k.door = j.door /\ SameHand(k, j)
    BY <1>1, <1>13, GoesOnSame
  <2>2. \A p \in Plans : Approved(p) => \A x \in Placed : content'[p][x] = j.page[x]
    BY <1>5, <1>7, <1>8
  <2>3. InTurn(job[s])'
    BY <1>3, <1>5, <2>1, <2>2 DEF InTurn, Owned, SameHand, Approved
  <2> QED BY <1>9, <1>11, <2>1, <2>3 DEF StandsFor, Stores
<1> QED BY <1>12, <1>13

LEMMA StoreStands ==
  ASSUME TInv, Calm, Standing, NEW s \in Strands, Store(s)
  PROVE  Standing'
<1> DEFINE j == job[s]
           k == job'[s]
<1>1. WroteStep(s) /\ j.at = "store" /\ j.door \in {"page", "accept", "undo"} /\ Ended(k, j)
  BY StoreLeaves
<1> SUFFICES ASSUME j.alone, StandsFor(j) PROVE StandsFor(job[s])'
  BY <1>1, StandWrote
<1>2. UNCHANGED <<announced, card>>
  BY DEF Store
<1>3. OlderSettled /\ UndecidedLast /\ Told /\ Open /\ InTurn(j)
  BY <1>1 DEF StandsFor, Tells, Reviews
<1>4. /\ j.plan = made /\ status[made] # "submitted" /\ (j.fresh <=> status[made] \notin InHand)
      /\ \A p \in Plans : Approved(p) => \A x \in Placed : content[p][x] = j.page[x]
      /\ Owned(j) => on[j.card] = made
  BY <1>1, <1>3 DEF InTurn
<1>5. /\ made \in Plans /\ made \in Int /\ made + 1 # made /\ ~(made + 1 <= made) /\ ~(made < made)
      /\ \A p \in Plans : p \in Int /\ (status[p] = "none" <=> p > made)
  BY MadeKnown DEF TInv, TypeOK
<1>6. \/ k.at = "idle" /\ k.door = "none"
      \/ k.at \in {"rows", "revert"} /\ Owned(k) /\ k.card = j.card /\ Owned(j)
  BY <1>1, IdleTyped DEF Ended, GoesOn, SameHand, Owned
<1>7. CASE ~j.fresh
  <2>1. content' = [content EXCEPT ![made] = j.page] /\ UNCHANGED <<made, status, on>>
    BY <1>4, <1>7, StoreIs
  <2>2. content'[made] = j.page /\ \A p \in Plans : p # made => content'[p] = content[p]
    BY <1>5, <2>1, CommonTypes DEF PlansTyped
  <2>3. ~Approved(made)
    BY <1>4, <1>7 DEF InHand, Approved
  <2>4. Told' /\ Sits'
    BY <1>2, <1>3, <1>4, <2>1, <2>2, <2>3 DEF Told, Sits, Approved
  <2>5. OlderSettled' /\ UndecidedLast' /\ Open'
    BY <1>2, <1>3, <2>1 DEF OlderSettled, UndecidedLast, Open, Approved
  <2>6. InTurn(job[s])'
    BY <1>4, <1>6, <2>1 DEF InTurn, Owned
  <2> QED BY <2>4, <2>5, <2>6 DEF StandsFor
<1>8. CASE j.fresh
  <2>1. /\ made + 1 \in Plans /\ made' = made + 1 /\ status' = [status EXCEPT ![made + 1] = "draft"]
        /\ content' = [content EXCEPT ![made + 1] = j.page]
        /\ on' = [c \in Cards |-> IF c \in CardsOn(made, {"pending"}) THEN made + 1 ELSE on[c]]
    BY <1>4, <1>8, StoreIs
  <2>2. Approved(made)
    <3>1. status[made] \in PlanStatus /\ status[made] # "none"
      BY <1>5, CommonTypes DEF PlansTyped
    <3> QED BY <1>3, <1>4, <1>8, <3>1 DEF OlderSettled, PlanStatus, InHand, Approved
  <2>3. /\ content'[made + 1] = j.page /\ \A p \in Plans : p # made + 1 => content'[p] = content[p]
        /\ status'[made + 1] = "draft" /\ \A p \in Plans : p # made + 1 => status'[p] = status[p]
    BY <2>1, CommonTypes DEF PlansTyped
  <2>4. status[made + 1] = "none"
    <3>1. made + 1 > made
      BY <1>5
    <3> QED BY <1>5, <2>1, <3>1
  <2>5. \A p \in Plans : Approved(p)' => Approved(p) /\ p # made + 1
    BY <2>3 DEF Approved
  <2>6. Told' /\ Sits'
    BY <1>2, <1>3, <1>4, <2>1, <2>3, <2>5 DEF Told, Sits
  <2>7. OlderSettled'
    <3>1. ASSUME NEW p \in Plans, p < made + 1
          PROVE  status'[p] \in {"approved", "superseded"}
      <4>1. p < made \/ p = made
        BY <1>5, <3>1
      <4>2. p # made + 1
        BY <1>5, <3>1
      <4> QED BY <1>3, <2>2, <2>3, <4>1, <4>2 DEF OlderSettled, Approved
    <3>2. status'[made] = "approved"
      BY <1>5, <2>2, <2>3 DEF Approved
    <3>3. status'[made + 1] # "superseded"
      BY <2>3
    <3> QED BY <1>5, <2>1, <3>1, <3>2, <3>3 DEF OlderSettled, Approved
  <2>8. \A c \in Cards : card[c] # "proposed"
    BY <1>3, <2>2 DEF UndecidedLast, Open, Undecided
  <2>9. UndecidedLast' /\ Open'
    <3>1. \A c \in Cards : card[c] \in Undecided => on'[c] = made + 1
      BY <1>3, <2>1, <2>8 DEF UndecidedLast, Undecided, CardsOn
    <3> QED BY <1>2, <2>1, <2>8, <3>1 DEF UndecidedLast, Open
  <2>10. ~Owned(j)
    BY <1>1, <1>8 DEF Calm, CalmFor, Undisturbed
  <2>11. InTurn(job[s])'
    BY <1>6, <2>10 DEF InTurn, Owned
  <2> QED BY <2>6, <2>7, <2>9, <2>11 DEF StandsFor
<1> QED BY <1>7, <1>8

LEMMA DirectWritesStands ==
  ASSUME TInv, Calm, Standing, NEW s \in Strands, DirectWrites(s)
  PROVE  Standing'
<1> DEFINE j == job[s]
           k == job'[s]
<1>1. /\ WroteStep(s) /\ j.at = "direct" /\ j.door \in {"accept", "undo"} /\ Owned(j)
      /\ j.page[Period] # j.old => GoesOn(k, j, "announce", j.door)
      /\ j.page[Period] = j.old => Ended(k, j)
  BY DirectWritesLeaves DEF Owned
<1> SUFFICES ASSUME j.alone, StandsFor(j) PROVE StandsFor(job[s])'
  BY <1>1, StandWrote
<1>2. UNCHANGED cards /\ UNCHANGED <<made, status, announced>> /\ content' = [content EXCEPT ![j.plan] = j.page]
  BY DEF DirectWrites
<1>3. UNCHANGED <<made, status, announced, card, on>>
  BY <1>2 DEF cards
<1>4. OlderSettled /\ UndecidedLast /\ Told /\ Open /\ on[j.card] = made /\ j.old = content[j.plan][Period]
  BY <1>1 DEF StandsFor, Tells, Reviews, InTurn
<1>5. j.plan = made /\ Approved(made) /\ made \in Plans
  <2>1. j.direct /\ Undisturbed(j)
    BY <1>1, JobKnown DEF Calm, CalmFor, DoorFits
  <2> QED BY <2>1, MadeKnown DEF Undisturbed, TInv
<1>6. \A p \in Plans : Approved(p) <=> p = made
  BY <1>5, CommonTypes DEF OneApproved
<1>7. content'[made] = j.page
  BY <1>2, <1>5, CommonTypes DEF PlansTyped
<1>8. OlderSettled' /\ UndecidedLast' /\ Open'
  BY <1>3, <1>4 DEF OlderSettled, UndecidedLast, Open, Approved
<1>9. Sits'
  BY <1>3, <1>6 DEF Sits, Approved
<1>10. CASE j.page[Period] = j.old
  <2>1. Told'
    BY <1>3, <1>4, <1>5, <1>6, <1>7, <1>10 DEF Told, Approved
  <2>2. k.at \in {"rows", "revert"} /\ Owned(k) /\ k.card = j.card
    BY <1>1, <1>10 DEF Ended, GoesOn, SameHand, Owned
  <2>3. InTurn(job[s])'
    BY <1>3, <1>4, <2>2 DEF InTurn, Owned
  <2> QED BY <1>8, <1>9, <2>1, <2>3 DEF StandsFor
<1>11. CASE j.page[Period] # j.old
  <2>1. k.at = "announce" /\ k.door = j.door /\ k.card = j.card /\ k.plan = made /\ k.page = j.page
    BY <1>1, <1>5, <1>11 DEF GoesOn, SameHand
  <2>2. InTurn(job[s])'
    BY <1>1, <1>3, <1>4, <1>5, <1>7, <2>1 DEF InTurn, Owned, Approved
  <2> QED BY <1>8, <1>9, <2>1, <2>2 DEF StandsFor, Tells
<1> QED BY <1>10, <1>11

LEMMA ClaimStands ==
  ASSUME TInv, Standing, NEW s \in Strands, Claim(s)
  PROVE  Standing'
<1> DEFINE j == job[s]
           k == job'[s]
<1>1. UNCHANGED plans /\ UNCHANGED <<announced, on>> /\ j.at = "claim" /\ j.door = "accept"
  BY ClaimLeaves DEF Claim
<1>2. UNCHANGED <<made, status, content, announced, on>>
  BY <1>1 DEF plans
<1>3. CASE card[j.card] # "pending"
  <2>1. ReadStep(s) /\ k = Idle /\ card' = card
    BY <1>3, ClaimLeaves
  <2>2. InTurn(k)
    BY <2>1, IdleInTurn, IdleTyped
  <2> QED BY <1>1, <1>2, <2>1, <2>2, StandRead DEF ReadStep, Busy
<1>4. CASE card[j.card] = "pending"
  <2>1. /\ WroteStep(s) /\ card' = Settle({j.card}, "accepted")
        /\ GoesOn(k, j, "rows", "accept") \/ GoesOn(k, j, "write", "accept")
    BY <1>4, ClaimLeaves
  <2> SUFFICES ASSUME j.alone, StandsFor(j) PROVE StandsFor(job[s])'
    BY <2>1, StandWrote
  <2>2. OlderSettled /\ UndecidedLast /\ Told /\ Sits /\ Open /\ on[j.card] = made
    BY <1>1 DEF StandsFor, Tells, Stores, Reviews, InTurn, Owned
  <2>3. /\ \A c \in Cards : card'[c] \in Undecided => card[c] \in Undecided \/ on[c] = made
        /\ \A c \in Cards : card'[c] = "proposed" => card[c] = "proposed"
    BY <2>1 DEF Settle, Undecided
  <2>4. OlderSettled' /\ UndecidedLast' /\ Told' /\ Sits' /\ Open'
    BY <1>2, <2>2, <2>3, SettleStands
  <2>5. k.at \in {"rows", "write"} /\ k.card = j.card
    BY <2>1 DEF GoesOn, SameHand
  <2>6. InTurn(job[s])'
    BY <1>2, <2>2, <2>5 DEF InTurn, Owned
  <2> QED BY <2>4, <2>6 DEF StandsFor
<1> QED BY <1>3, <1>4

LEMMA RowsStand ==
  ASSUME TInv, Standing, NEW s \in Strands, WriteRow(s) \/ UndoRow(s)
  PROVE  Standing'
<1> DEFINE j == job[s]
           k == job'[s]
<1>1. UNCHANGED plans /\ UNCHANGED cards /\ announced' = announced
  BY DEF WriteRow, UndoRow
<1>2. UNCHANGED <<made, status, content, announced, card, on>>
  BY <1>1 DEF plans, cards
<1>3. /\ WroteStep(s) \/ ReadStep(s)
      /\ Owned(j) /\ j.at \in {"rows", "unrow"} /\ k.alone = j.alone
      /\ k.card = j.card /\ k.at \in {"rows", "unrow", "write", "revert"}
  <2>1. CASE WriteRow(s)
    BY <2>1, WriteRowLeaves DEF Owned, SameHand
  <2>2. CASE UndoRow(s)
    BY <2>2, UndoRowLeaves DEF Owned, UndoneRow, BackFrom, SameHand
  <2> QED BY <2>1, <2>2
<1>4. CASE ReadStep(s)
  <2>1. InTurn(j) => InTurn(k)
    BY <1>3 DEF InTurn, Owned
  <2>2. j.at \notin Busy
    BY <1>3 DEF Busy
  <2> HIDE DEF k
  <2> QED BY <1>2, <1>3, <1>4, <2>1, <2>2, StandRead DEF k, ReadStep
<1>5. CASE WroteStep(s)
  <2> SUFFICES ASSUME j.alone, StandsFor(j) PROVE StandsFor(job[s])'
    BY <1>5, StandWrote
  <2>1. OlderSettled /\ UndecidedLast /\ Told /\ Sits /\ Open /\ on[j.card] = made
    BY <1>3 DEF StandsFor, Tells, Stores, Reviews, InTurn
  <2>2. OlderSettled' /\ UndecidedLast' /\ Told' /\ Sits' /\ Open'
    BY <1>2, <2>1, SettleStands
  <2>3. InTurn(job[s])'
    BY <1>2, <1>3, <2>1 DEF InTurn, Owned
  <2> QED BY <2>2, <2>3 DEF StandsFor
<1> QED BY <1>3, <1>4, <1>5

LEMMA BeginsStands ==
  ASSUME TInv, Standing, NEW s \in Strands, Begins(s)
  PROVE  Standing'
<1> DEFINE k == job'[s]
<1>1. UNCHANGED plans /\ UNCHANGED cards /\ announced' = announced /\ UNCHANGED <<made, card, edit>>
  BY BeginsKeeps
<1>2. UNCHANGED <<made, status, content, announced, card, on>>
  BY <1>1 DEF plans, cards
<1>3. ReadStep(s)
  BY <1>1, BeginsFits
<1>4. job[s].at = "idle"
  BY SaveLeaves, SubmitLeaves, ReturnLeaves, PostponeLeaves, ApproveLeaves, UploadLeaves, SendClashFreeLeaves,
     AcceptLeaves DEF Begins, StaffBegins, UploadBegins, Accepting
<1>5. ASSUME OlderSettled, UndecidedLast
      PROVE  InTurn(k)
  <2>1. CASE Save(s)
    <3>1. PICK page \in [Content -> Texts], j \in Job : j.door = "page" /\ Saves(k, j, page)
      BY <2>1, SaveLeaves
    <3>2. status[made] # "submitted"
      BY <2>1, SaveLeaves
    <3>3. CASE k = Idle
      BY <3>3, IdleInTurn, IdleTyped
    <3>4. CASE k # Idle
      <4>1. k.door = "page" /\ k.plan = made /\ k.page = page /\ (k.fresh <=> status[made] \notin InHand)
        BY <3>1, <3>4 DEF Saves, Saving
      <4>2. \/ /\ k.at = "place" /\ Approved(k.vis)
               /\ \A x \in Placed : k.seen[x] = page[x]
               /\ \A x \in Content \ Placed : k.seen[x] = content[k.vis][x]
               /\ k.enough => k.vis = made \/ status[made] \notin InHand
            \/ k.at = "store" /\ \A p \in Plans : Approved(p) => \A x \in Placed : content[p][x] = page[x]
        BY <3>1, <3>4 DEF Saves
      <4> HIDE DEF k
      <4> QED BY <3>2, <4>1, <4>2 DEF InTurn, Owned
    <3> QED BY <3>3, <3>4
  <2>2. CASE Submit(s)
    BY <2>2, SubmitLeaves DEF InTurn, Owned
  <2>3. CASE Return(s)
    BY <2>3, ReturnLeaves DEF StaffBegins, InTurn, Owned
  <2>4. CASE Postpone(s)
    BY <2>4, PostponeLeaves DEF StaffBegins, InTurn, Owned
  <2>5. CASE Approve(s)
    BY <2>5, ApproveLeaves DEF StaffBegins, InTurn, Owned
  <2>6. CASE Upload(s)
    <3>1. /\ k.at = "upload" /\ k.door = "staff" /\ k.plan \in Plans
          /\ status[k.plan] \in {"draft", "submitted", "changes_requested"}
      BY <2>6, UploadLeaves DEF UploadBegins, StaffBegins, InHand
    <3>2. k.plan = made
      BY <1>5, <3>1, UnsettledIsLast
    <3>3. ~Approved(made)
      BY <3>1, <3>2 DEF Approved
    <3> QED BY <3>1, <3>2, <3>3 DEF InTurn, Owned
  <2>7. CASE SendClashFree(s)
    BY <2>7, SendClashFreeLeaves DEF UploadBegins, StaffBegins, InTurn, Owned
  <2>8. CASE Accept(s)
    <3>1. k.at = "claim" /\ k.card \in Cards /\ card[k.card] = "pending"
      BY <2>8, AcceptLeaves DEF Accepting
    <3>2. on[k.card] = made
      BY <1>5, <3>1 DEF UndecidedLast, Undecided
    <3> QED BY <3>1, <3>2 DEF InTurn
  <2> QED BY <2>1, <2>2, <2>3, <2>4, <2>5, <2>6, <2>7, <2>8 DEF Begins
<1> QED BY <1>2, <1>3, <1>4, <1>5, StandRead DEF ReadStep, Busy

LEMMA WriteContentStands ==
  ASSUME TInv, Standing, NEW s \in Strands, WriteContent(s)
  PROVE  Standing'
<1> DEFINE j == job[s]
           k == job'[s]
<1>1. UNCHANGED plans /\ UNCHANGED cards /\ announced' = announced
  BY DEF WriteContent
<1>2. UNCHANGED <<made, status, content, announced, card, on>>
  BY <1>1 DEF plans, cards
<1>3. /\ ReadStep(s) /\ j.at = "write" /\ j.door \in {"accept", "undo"} /\ Owned(j)
      /\ \/ GoesOn(k, j, "revert", j.door)
         \/ \E page : Directing(k, j, page)
         \/ status[made] # "submitted" /\ \E page : Saves(k, j, page)
  BY WriteContentLeaves DEF Owned
<1>4. ASSUME k.alone, j.alone => InTurn(j)
      PROVE  InTurn(k)
  <2>1. CASE GoesOn(k, j, "revert", j.door)
    BY <1>3, <1>4, <2>1 DEF GoesOn, SameHand, InTurn, Owned
  <2>2. CASE \E page : Directing(k, j, page)
    <3>1. k.at = "direct" /\ k.card = j.card /\ k.plan = j.plan /\ k.old = content[j.plan][Period] /\ k.alone = j.alone
      BY <2>2 DEF Directing
    <3> QED BY <1>3, <1>4, <3>1 DEF InTurn, Owned
  <2>3. CASE status[made] # "submitted" /\ \E page : Saves(k, j, page)
    <3>1. PICK page : Saves(k, j, page)
      BY <2>3
    <3>2. /\ k.door = j.door /\ k.card = j.card /\ k.plan = made /\ k.page = page /\ k.alone = j.alone
          /\ k.fresh <=> status[made] \notin InHand
      BY <1>3, <3>1 DEF Saves, Saving
    <3>3. \/ /\ k.at = "place" /\ Approved(k.vis)
             /\ \A x \in Placed : k.seen[x] = page[x]
             /\ \A x \in Content \ Placed : k.seen[x] = content[k.vis][x]
             /\ k.enough => k.vis = made \/ status[made] \notin InHand
          \/ k.at = "store" /\ \A p \in Plans : Approved(p) => \A x \in Placed : content[p][x] = page[x]
          \/ k.at \in {"rows", "revert"}
      BY <1>3, <3>1 DEF Saves
    <3>4. on[k.card] = made
      BY <1>3, <1>4, <3>2 DEF InTurn
    <3> HIDE DEF k
    <3> QED BY <2>3, <3>2, <3>3, <3>4 DEF InTurn
  <2> QED BY <1>3, <2>1, <2>2, <2>3
<1> QED BY <1>2, <1>3, <1>4, StandRead DEF ReadStep, Busy

LEMMA OtherStands ==
  ASSUME TInv, Standing, NEW s \in Strands, EndAccept(s) \/ FailApply(s)
  PROVE  Standing'
<1> DEFINE j == job[s]
           k == job'[s]
<1>1. UNCHANGED plans /\ UNCHANGED cards /\ announced' = announced
  BY DEF EndAccept, FailApply
<1>2. UNCHANGED <<made, status, content, announced, card, on>>
  BY <1>1 DEF plans, cards
<1>3. ReadStep(s) /\ j.at \in {"write", "rows"}
  BY EndAcceptLeaves, FailApplyLeaves
<1>4. ASSUME k.alone, j.alone => InTurn(j)
      PROVE  InTurn(k)
  <2>1. CASE EndAccept(s)
    BY <2>1, EndAcceptLeaves, IdleTyped, IdleInTurn
  <2>2. CASE FailApply(s)
    <3>1. Owned(j) /\ k.at \in {"unrow", "write", "revert"} /\ k.card = j.card /\ k.alone = j.alone
      BY <2>2, FailApplyLeaves DEF GoesOn, SameHand, Owned
    <3> QED BY <1>4, <3>1 DEF InTurn, Owned
  <2> QED BY <2>1, <2>2
<1> QED BY <1>2, <1>3, <1>4, StandRead DEF ReadStep, Busy

LEMMA StandingNext ==
  TInv /\ Calm /\ Standing /\ [Next]_vars => Standing'
<1> SUFFICES ASSUME TInv, Calm, Standing, [Next]_vars PROVE Standing'
  OBVIOUS
<1>1. CASE UNCHANGED vars
  BY <1>1 DEF vars, Standing, Sound, OlderSettled, UndecidedLast, Mended, Told, Sits, Open, Tells, Stores, Reviews,
     InTurn, Owned, Approved
<1>2. CASE MoveByHand \/ ReadCards \/ Settles
  BY <1>2, PassStands
<1>3. ASSUME NEW s \in Strands, StrandActs(s) PROVE Standing'
  <2>1. CASE Crash(s)
    BY <2>1, CrashLeaves DEF Standing, Sound
  <2> QED BY <1>3, <2>1, BeginsStands, SubmitWritesStands, ReturnStands, ReturnNotesStands, ApproveLapsesStands,
     UploadWritesStands, RevertStands, ApproveWritesStands, AnnounceStands, PlaceStands, StoreStands, ClaimStands,
     WriteContentStands, DirectWritesStands, RowsStand, OtherStands DEF StrandActs, LastWrites
<1> QED BY <1>1, <1>2, <1>3, NextKinds

LEMMA StandingInit == Init => Standing
<1> SUFFICES ASSUME Init PROVE Standing
  OBVIOUS
<1>1. \A s \in Strands : job[s] = Idle
  BY DEF Init
<1>2. PICK st \in {"draft", "approved"} : status = [p \in Plans |-> IF p = 1 THEN st ELSE "none"]
  BY DEF Init
<1>3. 1 \in Plans /\ made = 1 /\ \A p \in Plans : ~(p < made)
  BY BoundsAssumption DEF Init, Plans
<1>4. OlderSettled
  BY <1>2, <1>3 DEF OlderSettled
<1>5. UndecidedLast
  BY DEF Init, UndecidedLast, Undecided
<1>6. Mended
  <2>1. \A p \in Plans : content[p] = content[made] /\ content[p][Period] = announced
    BY <1>3, SpotsAssumption DEF Init
  <2> QED BY <2>1 DEF Init, Mended, Told, Sits, Open
<1>7. \A s \in Strands : InTurn(job[s])
  BY <1>1, IdleTyped, IdleInTurn
<1> QED BY <1>4, <1>5, <1>6, <1>7 DEF Standing

LEMMA IInvInit == Init => IInv
  BY CardInvInit, StandingInit DEF CardInv, IInv

LEMMA IInvNext == IInv /\ [Next]_vars => IInv'
  BY CardInvNext, StandingNext DEF CardInv, IInv

\* While no strand is on its way to mend it, everything stands.
LEMMA QuietStands ==
  ASSUME IInv, Quiet
  PROVE  OlderSettled /\ UndecidedLast /\ Told /\ Sits /\ Open
<1>1. Sound
  BY DEF Quiet, Sound, Busy
<1>2. \A s \in Strands : ~Tells(job[s]) /\ ~Stores(job[s]) /\ ~Reviews(job[s])
  BY DEF Quiet, Tells, Stores, Reviews
<1>3. OlderSettled /\ UndecidedLast /\ Mended
  BY <1>1 DEF IInv, Standing
<1> QED BY <1>2, <1>3 DEF Mended

\* A card nobody has decided is on the plan the trainer works on, and one the staff
\* have still to review is never on an approved plan: else nobody would see it again
\* (cohort-plan 987, 1466, 1491).
THEOREM UndecidedStaySeen == Spec => []UndecidedSeen
<1>1. IInv => UndecidedSeen
  BY QuietStands DEF UndecidedSeen, UndecidedLast, Open
<1> QED BY <1>1, IInvInit, IInvNext, PTL DEF Spec
=============================================================================
