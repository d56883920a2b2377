-------------------------- MODULE WorkflowRunProofs --------------------------
(* Proofs about WorkflowRun, for every workflow file, any number of         *)
(* reviewers, and any commands, failures and restarts.                      *)
EXTENDS WorkflowRun, SequenceTheorems, TLAPS

(* The fields of a run these proofs are about. *)
Keyed(r) ==
  {"mode", "stage", "asker", "barrier", "round", "extra", "pause", "pending", "active", "votes",
   "prior", "seq", "starting", "verdicts", "closed"} \subseteq DOMAIN r

(* Barrier ids are given out in order: none is closed before it was open,  *)
(* and the open one is the last or nobody's.                               *)
IdsOK(r) ==
  /\ r.seq \in Nat /\ r.barrier \in 0..r.seq
  /\ r.closed \subseteq 1..r.seq /\ r.barrier \notin r.closed

(* Reviewers' children have the reviewer's seat. *)
KidsOK(kids) ==
  /\ kids \in Seq(ChildRecords)
  /\ \A c \in DOMAIN kids : kids[c].stage = "Review" => kids[c].seat \in Reviewers

(* What every operator of the engine takes for granted. *)
Fit(r, kids) ==
  /\ Keyed(r) /\ IdsOK(r) /\ KidsOK(kids)
  /\ r.round \in Nat /\ r.extra \in Nat /\ spec.max_rounds \in Nat \ {0}
  /\ r.round <= max_rounds(r) /\ r.verdicts \in Nat
  /\ r.votes \in [Reviewers -> Verdicts \cup {"none"}]
  /\ \A i \in Reviewers :
       r.prior[i] # 0 => r.prior[i] \in DOMAIN kids /\ kids[r.prior[i]].stage = "Review"

Room(r) == r.round < max_rounds(r)

(* Between two stages: nobody is at work, and a round is left. *)
Ready(r, kids) ==
  Fit(r, kids) /\ Room(r) /\ r.active = {} /\ ~r.starting /\ r.round = r.verdicts

(* A run that may come to a review without asking first. *)
Open(r) ==
  /\ r.mode \in {"New", "Running", "Paused", "AwaitingReply", "AwaitingVerify"}
  /\ ~Reviewing(r)

Counted(r) == IF Reviewing(r) THEN r.round = r.verdicts + 1 ELSE r.round = r.verdicts

(* Who is at work in which state. *)
Staffed(r, kids) ==
  /\ r.active \subseteq DOMAIN kids
  /\ r.mode \notin {"Running", "AwaitingReply"} => r.active = {}
  /\ r.mode = "AwaitingReply" =>
       /\ r.asker \in DOMAIN kids /\ r.active = {r.asker}
       /\ r.stage = kids[r.asker].stage /\ r.stage \notin {"Review", "Verify"}
  /\ r.mode = "Running" =>
       /\ \A c \in r.active : kids[c].stage = r.stage /\ Reports(kids[c])
       /\ IF r.stage = "Review" THEN r.pending = r.active ELSE \A c, d \in r.active : c = d
  /\ r.starting => r.mode = "Running" /\ r.stage = "Implement" /\ r.active = {}
  /\ r.mode = "New" => r.stage = "Implement" /\ ~r.pause
  /\ r.mode = "AwaitingVerify" => r.stage = "Verify"
  /\ r.mode = "AwaitingLimit" => r.stage = "Review" /\ r.round > 0

Good(r, kids) ==
  /\ Fit(r, kids) /\ Staffed(r, kids)
  /\ r.mode \in Modes /\ r.stage \in Stages
  /\ r.mode \in Waits => r.barrier # 0
  /\ Open(r) => Room(r)
  /\ r.mode \notin {"Failed", "Lost"} => Counted(r)
  /\ r.mode \in {"Done", "Failed"} => \A c \in DOMAIN kids : ~kids[c].alive

-----------------------------------------------------------------------------
(* The children *)

(* all: the children kids, later *)
Kin(kids, all) ==
  /\ KidsOK(all) /\ DOMAIN kids \subseteq DOMAIN all
  /\ \A c \in DOMAIN kids : all[c].stage = kids[c].stage

LEMMA FitKin ==
  ASSUME NEW r, NEW kids, NEW all, Fit(r, kids), Kin(kids, all)
  PROVE  Fit(r, all)
  BY DEF Fit, Kin

(* Children that are changed in place. *)
LEMMA KinSame ==
  ASSUME NEW kids, KidsOK(kids), NEW all,
         all = [c \in DOMAIN kids |-> all[c]],
         \A c \in DOMAIN kids : /\ all[c] \in ChildRecords
                                /\ all[c].stage = kids[c].stage /\ all[c].seat = kids[c].seat
  PROVE  Kin(kids, all) /\ DOMAIN all = DOMAIN kids
<1>1. kids \in Seq(ChildRecords) /\ Len(kids) \in Nat /\ DOMAIN kids = 1..Len(kids)
  BY LenProperties DEF KidsOK
<1>2. all \in [1..Len(kids) -> ChildRecords]
  BY <1>1
<1>3. all \in Seq(ChildRecords) /\ DOMAIN all = DOMAIN kids
  BY <1>1, <1>2, SeqDef
<1>. QED
  BY <1>3 DEF Kin, KidsOK

LEMMA KinPrompted ==
  ASSUME NEW kids, KidsOK(kids), NEW asked
  PROVE  /\ Kin(kids, Prompted(kids, asked)) /\ DOMAIN Prompted(kids, asked) = DOMAIN kids
         /\ \A c \in DOMAIN kids :
              /\ Reports(kids[c]) => Reports(Prompted(kids, asked)[c])
              /\ c \in asked /\ kids[c].alive => Reports(Prompted(kids, asked)[c])
<1>. DEFINE all == Prompted(kids, asked)
<1>1. ASSUME NEW c \in DOMAIN kids
      PROVE  /\ all[c] \in ChildRecords
             /\ all[c].stage = kids[c].stage /\ all[c].seat = kids[c].seat
             /\ Reports(kids[c]) => Reports(all[c])
             /\ c \in asked /\ kids[c].alive => Reports(all[c])
  <2>1. kids[c] \in ChildRecords
    BY DEF KidsOK
  <2>2. CASE c \in asked /\ kids[c].alive
    <3>1. all[c] = [kids[c] EXCEPT !.owed = kids[c].owed + 1]
      BY <2>2 DEF Prompted
    <3>. HIDE DEF all
    <3>. QED
      BY <2>1, <3>1 DEF ChildRecords, Reports
  <2>3. CASE ~(c \in asked /\ kids[c].alive)
    <3>1. all[c] = kids[c]
      BY <2>3 DEF Prompted
    <3>. QED
      BY <2>1, <2>3, <3>1
  <2>. QED
    BY <2>2, <2>3
<1>2. all = [c \in DOMAIN kids |-> all[c]]
  BY DEF Prompted
<1>. HIDE DEF all
<1>3. Kin(kids, all) /\ DOMAIN all = DOMAIN kids
  BY <1>1, <1>2, KinSame
<1>. QED
  BY <1>1, <1>3 DEF all

LEMMA DroppedFacts ==
  ASSUME NEW kid \in ChildRecords
  PROVE  /\ Dropped(kid) \in ChildRecords /\ ~Dropped(kid).alive
         /\ Dropped(kid).stage = kid.stage /\ Dropped(kid).seat = kid.seat
         /\ Dropped(kid).ended = kid.ended /\ Dropped(kid).err = kid.err
<1>1. Dropped(kid) \in ChildRecords
  BY DEF Dropped, ChildRecords
<1>. QED
  BY <1>1 DEF Dropped, ChildRecords

LEMMA KinSwept ==
  ASSUME NEW kids, KidsOK(kids)
  PROVE  /\ Kin(kids, Swept(kids)) /\ DOMAIN Swept(kids) = DOMAIN kids
         /\ \A c \in DOMAIN kids : ~Swept(kids)[c].alive
<1>. DEFINE all == Swept(kids)
<1>1. ASSUME NEW c \in DOMAIN kids
      PROVE  /\ all[c] \in ChildRecords
             /\ all[c].stage = kids[c].stage /\ all[c].seat = kids[c].seat
             /\ ~all[c].alive
  <2>1. kids[c] \in ChildRecords
    BY DEF KidsOK
  <2>2. all[c] = Dropped(kids[c])
    BY DEF Swept
  <2>. HIDE DEF all
  <2>. QED
    BY <2>1, <2>2, DroppedFacts
<1>2. all = [c \in DOMAIN kids |-> all[c]]
  BY DEF Swept
<1>. HIDE DEF all
<1>3. Kin(kids, all) /\ DOMAIN all = DOMAIN kids
  BY <1>1, <1>2, KinSame
<1>. QED
  BY <1>1, <1>3 DEF all

LEMMA KinChild ==
  ASSUME NEW kids, KidsOK(kids), NEW stage \in Stages \ {"Review"}, NEW started \in BOOLEAN
  PROVE  LET all == Append(kids, Child(stage, 0, started)) IN
         /\ Kin(kids, all) /\ Len(all) \in DOMAIN all
         /\ all[Len(all)].stage = stage
         /\ started => Reports(all[Len(all)])
<1>. DEFINE child == Child(stage, 0, started)
            all == Append(kids, child)
<1>1. kids \in Seq(ChildRecords) /\ Len(kids) \in Nat /\ DOMAIN kids = 1..Len(kids)
  BY LenProperties DEF KidsOK
<1>2. child \in ChildRecords /\ child.stage = stage /\ (started => child.owed = 1)
  BY WorkflowAssumption DEF Child, ChildRecords, WorkflowAssumption
<1>. HIDE DEF child
<1>3. /\ all \in Seq(ChildRecords) /\ Len(all) = Len(kids) + 1
      /\ all[Len(kids) + 1] = child /\ \A c \in 1..Len(kids) : all[c] = kids[c]
  BY <1>1, <1>2, AppendProperties
<1>4. DOMAIN all = 1..(Len(kids) + 1)
  BY <1>3, LenProperties
<1>. HIDE DEF all
<1>5. Kin(kids, all)
  <2>1. ASSUME NEW c \in DOMAIN all, all[c].stage = "Review" PROVE all[c].seat \in Reviewers
    <3>1. CASE c = Len(kids) + 1
      BY <1>2, <1>3, <2>1, <3>1
    <3>2. CASE c \in 1..Len(kids)
      BY <1>1, <1>3, <2>1, <3>2 DEF KidsOK
    <3>. QED
      BY <1>1, <1>4, <3>1, <3>2
  <2>. QED
    BY <1>1, <1>3, <1>4, <2>1 DEF Kin, KidsOK
<1>6. Len(all) \in DOMAIN all /\ all[Len(all)] = child
  BY <1>1, <1>3, <1>4
<1>. QED
  BY <1>2, <1>5, <1>6 DEF all, child, Reports

-----------------------------------------------------------------------------
(* The run *)

LEMMA EnterFacts ==
  ASSUME NEW r, NEW kids, Fit(r, kids), NEW mode, NEW stage
  PROVE  LET e == Enter(r, mode, stage) IN
         /\ Fit(e, kids)
         /\ e.mode = mode /\ e.stage = stage /\ e.barrier = 0
         /\ e.seq = r.seq /\ e.round = r.round /\ e.extra = r.extra /\ e.verdicts = r.verdicts
         /\ e.active = r.active /\ e.pending = r.pending /\ e.starting = r.starting
         /\ e.prior = r.prior /\ e.votes = r.votes
<1>. DEFINE e == Enter(r, mode, stage)
<1>1. /\ Keyed(e) /\ e.mode = mode /\ e.stage = stage /\ e.barrier = 0
      /\ e.seq = r.seq /\ e.round = r.round /\ e.extra = r.extra /\ e.verdicts = r.verdicts
      /\ e.closed = r.closed \cup ({r.barrier} \ {0})
      /\ e.active = r.active /\ e.pending = r.pending /\ e.starting = r.starting
      /\ e.prior = r.prior /\ e.votes = r.votes
  BY DEF Enter, Fit, Keyed
<1>. HIDE DEF e
<1>2. IdsOK(e)
  BY <1>1 DEF Fit, IdsOK
<1>3. Fit(e, kids)
  BY <1>1, <1>2 DEF Fit, max_rounds
<1>. QED
  BY <1>1, <1>3 DEF e

LEMMA AwaitFacts ==
  ASSUME NEW r, NEW kids, Fit(r, kids), NEW mode, NEW stage
  PROVE  LET a == Await(r, mode, stage) IN
         /\ Fit(a, kids)
         /\ a.mode = mode /\ a.stage = stage /\ a.barrier # 0
         /\ a.round = r.round /\ a.extra = r.extra /\ a.verdicts = r.verdicts
         /\ a.active = r.active /\ a.starting = r.starting
<1>. DEFINE e == Enter(r, mode, stage)
            a == Await(r, mode, stage)
<1>1. /\ Fit(e, kids) /\ e.mode = mode /\ e.stage = stage /\ e.seq = r.seq
      /\ e.round = r.round /\ e.extra = r.extra /\ e.verdicts = r.verdicts
      /\ e.active = r.active /\ e.starting = r.starting
  BY EnterFacts
<1>2. a = [e EXCEPT !.barrier = r.seq + 1, !.seq = r.seq + 1]
  BY DEF Await, next_barrier_id
<1>. HIDE DEF e, a
<1>3. /\ Keyed(a) /\ a.mode = mode /\ a.stage = stage /\ a.barrier = r.seq + 1
      /\ a.seq = r.seq + 1 /\ a.closed = e.closed
      /\ a.round = r.round /\ a.extra = r.extra /\ a.verdicts = r.verdicts
      /\ a.active = r.active /\ a.starting = r.starting
      /\ a.prior = e.prior /\ a.votes = e.votes
  BY <1>1, <1>2 DEF Fit, Keyed
<1>4. IdsOK(a)
  BY <1>1, <1>3 DEF Fit, IdsOK
<1>5. Fit(a, kids)
  BY <1>1, <1>3, <1>4 DEF Fit, max_rounds
<1>6. a.barrier # 0
  BY <1>3 DEF Fit, IdsOK
<1>. QED
  BY <1>3, <1>5, <1>6 DEF a

(* A stage that is entered later: the run is parked before it. *)
LEMMA ParkedGood ==
  ASSUME NEW r, NEW kids, Ready(r, kids), NEW stage \in Stages, Put(Parked(r, stage), kids)
  PROVE  Good(run', children')
<1>. DEFINE e == Enter(r, "Paused", stage)
            p == Parked(r, stage)
<1>1. /\ Fit(e, kids) /\ e.mode = "Paused" /\ e.stage = stage
      /\ e.round = r.round /\ e.extra = r.extra /\ e.verdicts = r.verdicts
      /\ e.active = {} /\ e.starting = r.starting
  BY EnterFacts DEF Ready
<1>2. p = [e EXCEPT !.pause = FALSE]
  BY DEF Parked
<1>. HIDE DEF e, p
<1>3. /\ Fit(p, kids) /\ p.mode = "Paused" /\ p.stage = stage
      /\ p.round = r.round /\ p.extra = r.extra /\ p.verdicts = r.verdicts
      /\ p.active = {} /\ p.starting = r.starting
  <2>1. /\ Keyed(p) /\ \A f \in DOMAIN e : f # "pause" => p[f] = e[f]
    BY <1>1, <1>2 DEF Fit, Keyed
  <2>. QED
    BY <1>1, <2>1 DEF Fit, Keyed, IdsOK, max_rounds
<1>4. Good(p, kids)
  BY <1>3 DEF Good, Staffed, Open, Reviewing, Room, Ready, Counted, max_rounds, Modes, Waits
<1>. QED
  BY <1>4 DEF Put, p

LEMMA FinalizeGood ==
  ASSUME NEW r, NEW kids, Fit(r, kids), r.stage \in Stages,
         NEW mode \in {"Done", "Failed"}, mode = "Done" => r.round = r.verdicts,
         Finalize(r, kids, mode)
  PROVE  Good(run', children')
<1>. DEFINE e == Enter(r, mode, r.stage)
            f == [e EXCEPT !.active = {}, !.pending = {}, !.starting = FALSE]
            all == Swept(kids)
<1>1. /\ Fit(e, kids) /\ e.mode = mode /\ e.stage = r.stage
      /\ e.round = r.round /\ e.extra = r.extra /\ e.verdicts = r.verdicts
  BY EnterFacts
<1>2. Kin(kids, all) /\ DOMAIN all = DOMAIN kids /\ \A c \in DOMAIN kids : ~all[c].alive
  BY KinSwept DEF Fit
<1>3. Put(f, all)
  BY DEF Finalize
<1>. HIDE DEF e, all
<1>4. /\ f.mode = mode /\ f.stage = r.stage
      /\ f.round = r.round /\ f.extra = r.extra /\ f.verdicts = r.verdicts
      /\ f.active = {} /\ ~f.starting
      /\ Keyed(f) /\ f.seq = e.seq /\ f.barrier = e.barrier /\ f.closed = e.closed
      /\ f.votes = e.votes /\ f.prior = e.prior
  BY <1>1 DEF Fit, Keyed
<1>. HIDE DEF f
<1>5. Fit(f, kids)
  BY <1>1, <1>4 DEF Fit, IdsOK, max_rounds
<1>6. Fit(f, all)
  BY <1>2, <1>5, FitKin
<1>7. Staffed(f, all)
  BY <1>4 DEF Staffed
<1>8. ~Open(f) /\ f.mode \in Modes \ Waits /\ (f.mode = "Done" => Counted(f))
  BY <1>4, <1>1 DEF Open, Reviewing, Counted, Modes, Waits, Fit
<1>9. Good(f, all)
  BY <1>2, <1>4, <1>6, <1>7, <1>8 DEF Good
<1>. QED
  BY <1>3, <1>9 DEF Put

(* Two runs that differ in nothing Fit is about. *)
Alike(r, x) ==
  /\ Keyed(x)
  /\ x.seq = r.seq /\ x.barrier = r.barrier /\ x.closed = r.closed
  /\ x.round = r.round /\ x.extra = r.extra /\ x.verdicts = r.verdicts
  /\ x.votes = r.votes /\ x.prior = r.prior

LEMMA FitAlike ==
  ASSUME NEW r, NEW x, NEW kids, Fit(r, kids), Alike(r, x)
  PROVE  Fit(x, kids)
  BY DEF Fit, Alike, IdsOK, max_rounds

(* Two runs that differ in nothing Good is about. *)
LEMMA GoodAlike ==
  ASSUME NEW r, NEW x, NEW kids, Good(r, kids), Alike(r, x),
         r.mode # "New", x.mode = r.mode, x.stage = r.stage, x.asker = r.asker,
         x.active = r.active, x.pending = r.pending, x.starting = r.starting
  PROVE  Good(x, kids)
<1>1. Fit(x, kids)
  BY FitAlike DEF Good
<1>2. Staffed(x, kids)
  BY DEF Good, Staffed, Alike
<1>. QED
  BY <1>1, <1>2 DEF Good, Alike, Open, Reviewing, Room, Counted, max_rounds

-----------------------------------------------------------------------------
(* Stages start *)

(* A running stage with one child. *)
LEMMA RunningGood ==
  ASSUME NEW r, NEW kids, Fit(r, kids), Room(r), ~r.starting, r.round = r.verdicts,
         r.mode = "Running", r.stage \in Stages \ {"Review"},
         NEW c \in DOMAIN kids, r.active = {c}, kids[c].stage = r.stage, Reports(kids[c])
  PROVE  Good(r, kids)
<1>1. Staffed(r, kids)
  BY DEF Staffed
<1>. QED
  BY <1>1 DEF Good, Open, Reviewing, Counted, Modes, Waits

LEMMA SpawnSoloGood ==
  ASSUME NEW r, NEW kids, Ready(r, kids), NEW stage \in {"Plan", "Implement", "Fix"},
         SpawnSolo(r, kids, stage)
  PROVE  Good(run', children')
<1>1. PICK started \in Starts, base \in FixBases(r, stage) :
        LET new == [Enter(r, "Running", stage) EXCEPT
                      !.note = "none", !.fixBase = base,
                      !.blind = @ \/ (stage = "Fix" /\ base = 0)]
            all == Append(kids, Child(stage, 0, started))
        IN IF started
           THEN Put([new EXCEPT !.active = @ \cup {Len(all)}], all)
           ELSE Finalize(new, all, "Failed")
  BY DEF SpawnSolo
<1>. DEFINE e == Enter(r, "Running", stage)
            new == [e EXCEPT !.note = "none", !.fixBase = base,
                             !.blind = @ \/ (stage = "Fix" /\ base = 0)]
            all == Append(kids, Child(stage, 0, started))
            next == [new EXCEPT !.active = @ \cup {Len(all)}]
<1>2. /\ Fit(e, kids) /\ e.mode = "Running" /\ e.stage = stage
      /\ e.round = r.round /\ e.extra = r.extra /\ e.verdicts = r.verdicts
      /\ e.active = {} /\ e.starting = r.starting
  BY EnterFacts DEF Ready
<1>3. /\ Kin(kids, all) /\ Len(all) \in DOMAIN all /\ all[Len(all)].stage = stage
      /\ started => Reports(all[Len(all)])
  <2>1. started \in BOOLEAN /\ stage \in Stages \ {"Review"} /\ KidsOK(kids)
    BY DEF Starts, Ready, Fit, Stages
  <2>. QED
    BY <2>1, KinChild
<1>4. Fit(e, all)
  BY <1>2, <1>3, FitKin
<1>. HIDE DEF e, all
<1>5. /\ Alike(e, new) /\ new.mode = "Running" /\ new.stage = stage
      /\ new.active = {} /\ new.starting = r.starting
  BY <1>2 DEF Alike, Fit, Keyed
<1>6. Fit(new, all)
  BY <1>4, <1>5, FitAlike
<1>. HIDE DEF new
<1>7. CASE started
  <2>1. /\ Alike(new, next) /\ next.mode = "Running" /\ next.stage = stage
        /\ next.active = {Len(all)} /\ next.starting = r.starting
    BY <1>5, <1>6 DEF Alike, Fit, Keyed
  <2>2. Fit(next, all)
    BY <1>6, <2>1, FitAlike
  <2>3. Room(next) /\ next.round = next.verdicts /\ ~next.starting
    BY <1>2, <1>5, <2>1 DEF Ready, Room, max_rounds, Alike
  <2>. HIDE DEF next
  <2>4. Good(next, all)
    BY <1>3, <1>7, <2>1, <2>2, <2>3, RunningGood DEF Stages
  <2>5. Put(next, all)
    BY <1>1, <1>7 DEF next, new, e, all
  <2>. QED
    BY <2>4, <2>5 DEF Put
<1>8. CASE ~started
  <2>1. Finalize(new, all, "Failed")
    BY <1>1, <1>8 DEF new, e, all
  <2>2. new.stage \in Stages
    BY <1>5 DEF Stages
  <2>. QED
    BY <1>6, <2>1, <2>2, FinalizeGood
<1>. QED
  BY <1>7, <1>8

(* The children after a review has started. *)
Crew(kids, asked, new) == Prompted(kids, asked) \o new

LEMMA KinReviewers ==
  ASSUME NEW kids, KidsOK(kids), NEW asked, NEW new,
         new \in [Reviewers -> ChildRecords],
         \A i \in Reviewers : new[i].stage = "Review" /\ new[i].seat = i,
         NEW all, all = Crew(kids, asked, new)
  PROVE  /\ Kin(kids, all)
         /\ \A c \in DOMAIN kids : all[c] = Prompted(kids, asked)[c]
         /\ \A i \in Reviewers : Len(kids) + i \in DOMAIN all /\ all[Len(kids) + i] = new[i]
<1>. DEFINE told == Prompted(kids, asked)
<1>1. kids \in Seq(ChildRecords) /\ Len(kids) \in Nat /\ DOMAIN kids = 1..Len(kids)
  BY LenProperties DEF KidsOK
<1>2. KidsOK(told) /\ DOMAIN told = DOMAIN kids
      /\ \A c \in DOMAIN kids : told[c].stage = kids[c].stage
  BY KinPrompted DEF Kin
<1>3. told \in Seq(ChildRecords) /\ Len(told) = Len(kids)
  BY <1>1, <1>2, LenProperties DEF KidsOK
<1>4. NumReviewers \in Nat /\ Reviewers = 1..NumReviewers
  BY WorkflowAssumption DEF WorkflowAssumption, Reviewers
<1>5. new \in Seq(ChildRecords) /\ Len(new) = NumReviewers
  BY <1>4, LenProperties, SeqDef
<1>. HIDE DEF told
<1>6. /\ all \in Seq(ChildRecords) /\ Len(all) = Len(kids) + NumReviewers
      /\ \A c \in 1..Len(kids) : all[c] = told[c]
      /\ \A i \in 1..NumReviewers : all[Len(kids) + i] = new[i]
  <2>1. /\ all \in Seq(ChildRecords) /\ Len(all) = Len(told) + Len(new)
        /\ \A i \in 1..Len(told) + Len(new) :
             all[i] = IF i <= Len(told) THEN told[i] ELSE new[i - Len(told)]
    BY <1>3, <1>5, ConcatProperties DEF told, Crew
  <2>2. /\ all \in Seq(ChildRecords) /\ Len(all) = Len(kids) + NumReviewers
        /\ \A i \in 1..(Len(kids) + NumReviewers) :
             all[i] = IF i <= Len(kids) THEN told[i] ELSE new[i - Len(kids)]
    BY <1>3, <1>5, <2>1
  <2>3. ASSUME NEW c \in 1..Len(kids) PROVE all[c] = told[c]
    <3>1. c \in 1..(Len(kids) + NumReviewers) /\ c <= Len(kids)
      BY <1>1, <1>4
    <3>. QED
      BY <2>2, <3>1
  <2>4. ASSUME NEW i \in 1..NumReviewers PROVE all[Len(kids) + i] = new[i]
    <3>1. /\ Len(kids) + i \in 1..(Len(kids) + NumReviewers)
          /\ ~(Len(kids) + i <= Len(kids)) /\ (Len(kids) + i) - Len(kids) = i
      BY <1>1, <1>4
    <3>2. \A n : n \in 1..(Len(kids) + NumReviewers) /\ ~(n <= Len(kids))
                  => all[n] = new[n - Len(kids)]
      BY <2>2
    <3>. QED
      BY <3>1, <3>2
  <2>. QED
    BY <2>2, <2>3, <2>4
<1>7. DOMAIN all = 1..(Len(kids) + NumReviewers)
  BY <1>6, LenProperties
<1>8. ASSUME NEW c \in DOMAIN all, all[c].stage = "Review" PROVE all[c].seat \in Reviewers
  <2>1. CASE c \in 1..Len(kids)
    BY <1>1, <1>2, <1>6, <1>8, <2>1 DEF KidsOK
  <2>2. CASE c \notin 1..Len(kids)
    <3>1. c - Len(kids) \in 1..NumReviewers /\ c = Len(kids) + (c - Len(kids))
      BY <1>1, <1>4, <1>7, <2>2
    <3>. QED
      BY <1>4, <1>6, <3>1
  <2>. QED
    BY <2>1, <2>2
<1>9. Kin(kids, all)
  BY <1>1, <1>2, <1>4, <1>6, <1>7, <1>8 DEF Kin, KidsOK
<1>10. \A i \in Reviewers : Len(kids) + i \in DOMAIN all
  BY <1>1, <1>4, <1>7
<1>. QED
  BY <1>1, <1>4, <1>6, <1>9, <1>10 DEF told

(* A review in which everybody the round waits for has been prompted. *)
LEMMA ReviewerType ==
  ASSUME NEW i \in Reviewers, NEW u \in BOOLEAN
  PROVE  LET kid == Child("Review", i, u) IN
         /\ kid \in ChildRecords /\ kid.stage = "Review" /\ kid.seat = i
         /\ u => Reports(kid)
<1>. DEFINE kid == Child("Review", i, u)
<1>1. i \in 0..NumReviewers /\ "Review" \in Stages
  BY WorkflowAssumption DEF WorkflowAssumption, Reviewers, Stages
<1>2. CASE u
  <2>1. kid = [stage |-> "Review", seat |-> i, alive |-> TRUE, owed |-> 1,
               ended |-> 0, err |-> FALSE]
    BY <1>2 DEF Child
  <2>. HIDE DEF kid
  <2>2. kid \in ChildRecords /\ kid.owed = 1
    BY <1>1, <2>1 DEF ChildRecords
  <2>3. Reports(kid)
    BY <2>2 DEF Reports
  <2>4. kid.stage = "Review" /\ kid.seat = i
    BY <2>1
  <2>. QED
    BY <2>2, <2>3, <2>4 DEF kid
<1>3. CASE ~u
  <2>1. kid = [stage |-> "Review", seat |-> i, alive |-> FALSE, owed |-> 0,
               ended |-> 0, err |-> FALSE]
    BY <1>3 DEF Child
  <2>. HIDE DEF kid
  <2>2. kid \in ChildRecords
    BY <1>1, <2>1 DEF ChildRecords
  <2>3. kid.stage = "Review" /\ kid.seat = i
    BY <2>1
  <2>. QED
    BY <1>3, <2>2, <2>3 DEF kid
<1>. HIDE DEF kid
<1>. QED
  BY <1>2, <1>3 DEF kid

(* The children when a review starts: whoever is up has something to say. *)
Summoned(kids, asked, up) ==
  Crew(kids, asked, [i \in Reviewers |-> Child("Review", i, i \in up)])

LEMMA SummonedFacts ==
  ASSUME NEW kids, KidsOK(kids), NEW asked, NEW up
  PROVE  /\ Kin(kids, Summoned(kids, asked, up))
         /\ \A c \in DOMAIN kids : Summoned(kids, asked, up)[c] = Prompted(kids, asked)[c]
         /\ \A i \in Reviewers :
              /\ Len(kids) + i \in DOMAIN Summoned(kids, asked, up)
              /\ Summoned(kids, asked, up)[Len(kids) + i].stage = "Review"
              /\ i \in up => Reports(Summoned(kids, asked, up)[Len(kids) + i])
<1>1. PICK news : news = [i \in Reviewers |-> Child("Review", i, i \in up)]
  OBVIOUS
<1>2. PICK all : all = Summoned(kids, asked, up)
  OBVIOUS
<1>3. ASSUME NEW i \in Reviewers
      PROVE  /\ news[i] \in ChildRecords /\ news[i].stage = "Review" /\ news[i].seat = i
             /\ i \in up => Reports(news[i])
  <2>1. (i \in up) \in BOOLEAN /\ news[i] = Child("Review", i, i \in up)
    BY <1>1
  <2>. QED
    BY <2>1, ReviewerType
<1>4. news \in [Reviewers -> ChildRecords]
  BY <1>1, <1>3
<1>5. all = Crew(kids, asked, news)
  BY <1>1, <1>2 DEF Summoned
<1>6. /\ Kin(kids, all)
      /\ \A c \in DOMAIN kids : all[c] = Prompted(kids, asked)[c]
      /\ \A i \in Reviewers : Len(kids) + i \in DOMAIN all /\ all[Len(kids) + i] = news[i]
  BY <1>3, <1>4, <1>5, KinReviewers
<1>7. \A i \in Reviewers :
        /\ Len(kids) + i \in DOMAIN all /\ all[Len(kids) + i].stage = "Review"
        /\ i \in up => Reports(all[Len(kids) + i])
  BY <1>3, <1>6
<1>. QED
  BY <1>2, <1>6, <1>7

LEMMA SummonedOf ==
  ASSUME NEW started \in [Reviewers -> Starts], NEW reused, NEW kids, NEW asked
  PROVE  Prompted(kids, asked) \o
           [i \in Reviewers |-> Child("Review", i, started[i] /\ i \notin reused)]
           = Summoned(kids, asked, {i \in Reviewers : started[i] /\ i \notin reused})
<1>. DEFINE up == {i \in Reviewers : started[i] /\ i \notin reused}
            new(i) == Child("Review", i, started[i] /\ i \notin reused)
            same(i) == Child("Review", i, i \in up)
<1>1. ASSUME NEW i \in Reviewers
      PROVE  new(i) = same(i)
  <2>1. CASE i \in up
    <3>1. new(i) = Child("Review", i, TRUE)
      BY <2>1
    <3>2. same(i) = Child("Review", i, TRUE)
      BY <2>1
    <3>. QED
      BY <3>1, <3>2
  <2>2. CASE i \notin up
    <3>1. (started[i] /\ i \notin reused) = FALSE
      BY <2>2
    <3>2. new(i) = Child("Review", i, FALSE)
      BY <3>1
    <3>. HIDE DEF up
    <3>3. (i \in up) = FALSE
      BY <2>2
    <3>4. same(i) = Child("Review", i, FALSE)
      BY <3>3
    <3>. QED
      BY <3>2, <3>4
  <2>. QED
    BY <2>1, <2>2
<1>. HIDE DEF new, same
<1>2. [i \in Reviewers |-> new(i)] = [i \in Reviewers |-> same(i)]
  BY <1>1
<1>. QED
  BY <1>2 DEF new, same, Summoned, Crew

LEMMA SpawnReviewGood ==
  ASSUME NEW r, NEW kids, Ready(r, kids), SpawnReview(r, kids)
  PROVE  Good(run', children')
<1>. DEFINE reused == {i \in Reviewers : /\ spec.same_session /\ r.round > 0
                                         /\ r.prior[i] # 0 /\ kids[r.prior[i]].alive}
            fresh(i) == Len(kids) + i
            of(i) == IF i \in reused THEN r.prior[i] ELSE fresh(i)
            asked == {r.prior[i] : i \in reused}
            e == Enter(r, "Running", "Review")
<1>1. PICK started \in [Reviewers -> Starts] :
        LET here == {i \in Reviewers : i \in reused \/ started[i]}
            staff == {of(i) : i \in here}
        IN /\ \A i \in reused : started[i]
           /\ Put([e EXCEPT !.round = @ + 1, !.pending = staff, !.active = @ \cup staff,
                            !.votes = NoVotes, !.reasked = {},
                            !.prior = [i \in Reviewers |-> IF i \in here THEN of(i) ELSE 0]],
                  Prompted(kids, asked) \o
                    [i \in Reviewers |-> Child("Review", i, started[i] /\ i \notin reused)])
  BY DEF SpawnReview
<1>. DEFINE here == {i \in Reviewers : i \in reused \/ started[i]}
            staff == {of(i) : i \in here}
            prior == [i \in Reviewers |-> IF i \in here THEN of(i) ELSE 0]
            up == {i \in Reviewers : started[i] /\ i \notin reused}
            all == Summoned(kids, asked, up)
            next == [e EXCEPT !.round = @ + 1, !.pending = staff, !.active = @ \cup staff,
                              !.votes = NoVotes, !.reasked = {}, !.prior = prior]
<1>2. Put(next, all)
  BY <1>1, SummonedOf
<1>3. KidsOK(kids) /\ Fit(r, kids)
  BY DEF Ready, Fit
<1>4. /\ Kin(kids, all)
      /\ \A c \in DOMAIN kids : all[c] = Prompted(kids, asked)[c]
      /\ \A i \in Reviewers :
           /\ fresh(i) \in DOMAIN all /\ all[fresh(i)].stage = "Review"
           /\ i \in up => Reports(all[fresh(i)])
  <2>. HIDE DEF asked, up
  <2>. QED
    BY <1>3, SummonedFacts
<1>. HIDE DEF all
<1>5. ASSUME NEW i \in here
      PROVE  of(i) \in DOMAIN all /\ all[of(i)].stage = "Review" /\ Reports(all[of(i)])
  <2>1. CASE i \in reused
    <3>1. /\ of(i) = r.prior[i] /\ of(i) \in DOMAIN kids /\ kids[of(i)].alive
          /\ of(i) \in asked /\ kids[of(i)].stage = "Review"
      BY <1>3, <2>1 DEF Fit
    <3>2. Reports(Prompted(kids, asked)[of(i)])
      BY <1>3, <3>1, KinPrompted
    <3>. QED
      BY <1>4, <3>1, <3>2 DEF Kin
  <2>2. CASE i \notin reused
    <3>1. of(i) = fresh(i) /\ i \in Reviewers /\ started[i]
      BY <2>2
    <3>. QED
      BY <1>4, <2>2, <3>1
  <2>. QED
    BY <2>1, <2>2
<1>6. prior = [i \in Reviewers |-> prior[i]] /\ \A i \in Reviewers :
        prior[i] # 0 => prior[i] \in DOMAIN all /\ all[prior[i]].stage = "Review"
  BY <1>5
<1>7. staff \subseteq DOMAIN all
      /\ \A c \in staff : all[c].stage = "Review" /\ Reports(all[c])
  BY <1>5
<1>. HIDE DEF staff, prior
<1>8. /\ Fit(e, kids) /\ e.mode = "Running" /\ e.stage = "Review"
      /\ e.round = r.round /\ e.extra = r.extra /\ e.verdicts = r.verdicts
      /\ e.active = {} /\ e.starting = r.starting
  BY EnterFacts DEF Ready
<1>9. Fit(e, all)
  BY <1>4, <1>8, FitKin
<1>. HIDE DEF e
<1>10. /\ next.mode = "Running" /\ next.stage = "Review" /\ next.round = r.round + 1
       /\ next.extra = r.extra /\ next.verdicts = r.verdicts /\ next.starting = r.starting
       /\ next.pending = staff /\ next.active = staff /\ next.prior = prior
       /\ next.votes = NoVotes /\ Keyed(next)
       /\ next.seq = e.seq /\ next.barrier = e.barrier /\ next.closed = e.closed
  BY <1>8 DEF Fit, Keyed
<1>. HIDE DEF next
<1>11. Fit(next, all)
  <2>1. next.round \in Nat /\ next.round <= max_rounds(next)
    BY <1>8, <1>10 DEF Ready, Room, Fit, max_rounds
  <2>2. next.votes \in [Reviewers -> Verdicts \cup {"none"}]
    BY <1>10 DEF NoVotes
  <2>3. IdsOK(next)
    BY <1>9, <1>10 DEF Fit, IdsOK
  <2>. QED
    BY <1>6, <1>8, <1>9, <1>10, <2>1, <2>2, <2>3 DEF Fit
<1>12. Staffed(next, all)
  BY <1>7, <1>10 DEF Staffed, Ready
<1>13. Counted(next) /\ ~Open(next)
  BY <1>10 DEF Counted, Reviewing, Open, Ready
<1>14. Good(next, all)
  BY <1>10, <1>11, <1>12, <1>13 DEF Good, Modes, Waits, Stages
<1>. QED
  BY <1>2, <1>14 DEF Put

LEMMA ReadyAlike ==
  ASSUME NEW r, NEW x, NEW kids, Ready(r, kids), Alike(r, x),
         x.active = {}, ~x.starting
  PROVE  Ready(x, kids)
<1>1. Fit(x, kids)
  BY FitAlike DEF Ready
<1>. QED
  BY <1>1 DEF Ready, Room, max_rounds, Alike

LEMMA SpawnWorkGood ==
  ASSUME NEW r, NEW kids, Ready(r, kids), NEW stage \in Stages \ {"Verify"},
         SpawnWork(r, kids, stage)
  PROVE  Good(run', children')
<1>1. CASE Refused(r, kids, stage)
  BY <1>1, ParkedGood DEF Refused
<1>2. CASE stage = "Review" /\ SpawnReview(r, kids)
  BY <1>2, SpawnReviewGood
<1>3. CASE stage # "Review" /\ SpawnSolo(r, kids, stage)
  <2>1. stage \in {"Plan", "Implement", "Fix"}
    BY <1>3 DEF Stages
  <2>. QED
    BY <1>3, <2>1, SpawnSoloGood
<1>. QED
  BY <1>1, <1>2, <1>3 DEF SpawnWork

LEMMA AdvanceToWorkGood ==
  ASSUME NEW r, NEW kids, Ready(r, kids), NEW stage \in Stages \ {"Verify"},
         AdvanceToWork(r, kids, stage)
  PROVE  Good(run', children')
<1>1. CASE r.pause
  BY <1>1, ParkedGood DEF AdvanceToWork
<1>2. CASE ~r.pause
  BY <1>2, SpawnWorkGood DEF AdvanceToWork
<1>. QED
  BY <1>1, <1>2

(* A run that waits for the user with nobody at work. *)
LEMMA AwaitGood ==
  ASSUME NEW r, NEW kids, Fit(r, kids), r.active = {}, ~r.starting, r.round = r.verdicts,
         NEW mode, NEW stage \in Stages,
         \/ mode = "AwaitingVerify" /\ stage = "Verify" /\ Room(r)
         \/ mode = "AwaitingLimit" /\ stage = "Review" /\ r.round > 0
  PROVE  Good(Await(r, mode, stage), kids)
<1>. DEFINE a == Await(r, mode, stage)
<1>1. /\ Fit(a, kids) /\ a.mode = mode /\ a.stage = stage /\ a.barrier # 0
      /\ a.round = r.round /\ a.extra = r.extra /\ a.verdicts = r.verdicts
      /\ a.active = {} /\ ~a.starting
  BY AwaitFacts
<1>. HIDE DEF a
<1>2. Staffed(a, kids)
  BY <1>1 DEF Staffed
<1>3. Good(a, kids)
  BY <1>1, <1>2 DEF Good, Open, Reviewing, Room, Counted, max_rounds, Modes, Waits
<1>. QED
  BY <1>3 DEF a

(* Whatever verification says, and however often it failed. *)
LEMMA RouteVerifyGood ==
  ASSUME NEW r, NEW kids, Ready(r, kids), NEW verdict,
         RouteVerify(r, kids, verdict)
  PROVE  Good(run', children')
<1>. DEFINE wait == Await(r, "AwaitingVerify", "Verify")
            held == [wait EXCEPT !.blocked = verdict = "blocked"]
            excused == [Excused(r) EXCEPT !.source = "Review"]
<1>1. \/ AdvanceToWork(Cleared(r), kids, "Review")
      \/ AdvanceToWork(r, kids, "Fix")
      \/ Put(held, kids)
      \/ AdvanceToWork(excused, kids, "Review")
  BY DEF RouteVerify
<1>2. Ready(Cleared(r), kids)
  <2>1. Alike(r, Cleared(r)) /\ Cleared(r).active = {} /\ ~Cleared(r).starting
    BY DEF Cleared, Alike, Ready, Fit, Keyed
  <2>. QED
    BY <2>1, ReadyAlike
<1>3. Ready(excused, kids)
  <2>1. Ready(Excused(r), kids)
    BY <1>2 DEF Excused
  <2>2. \A x : Ready(x, kids) => Ready([x EXCEPT !.source = "Review"], kids)
    <3>. SUFFICES ASSUME NEW x, Ready(x, kids)
                  PROVE  Ready([x EXCEPT !.source = "Review"], kids)
      OBVIOUS
    <3>. DEFINE y == [x EXCEPT !.source = "Review"]
    <3>1. Alike(x, y) /\ y.active = {} /\ ~y.starting
      BY DEF Alike, Ready, Fit, Keyed
    <3>. HIDE DEF y
    <3>2. Ready(y, kids)
      BY <3>1, ReadyAlike
    <3>. QED
      BY <3>2 DEF y
  <2>. QED
    BY <2>1, <2>2
<1>4. Good(held, kids)
  <2>1. Good(wait, kids) /\ wait.mode = "AwaitingVerify"
    BY AwaitGood, AwaitFacts DEF Ready, Stages
  <2>. HIDE DEF wait
  <2>2. /\ Alike(wait, held) /\ held.mode = wait.mode /\ held.stage = wait.stage
        /\ held.asker = wait.asker /\ held.active = wait.active
        /\ held.pending = wait.pending /\ held.starting = wait.starting
    BY <2>1 DEF Good, Fit, Alike, Keyed
  <2>. HIDE DEF held
  <2>. QED
    BY <2>1, <2>2, GoodAlike
<1>. HIDE DEF held, excused
<1>5. "Review" \in Stages \ {"Verify"} /\ "Fix" \in Stages \ {"Verify"}
  BY DEF Stages
<1>6. CASE Put(held, kids)
  BY <1>4, <1>6 DEF Put
<1>. QED
  BY <1>1, <1>2, <1>3, <1>5, <1>6, AdvanceToWorkGood

LEMMA SpawnVerifyGood ==
  ASSUME NEW r, NEW kids, Ready(r, kids), SpawnVerify(r, kids)
  PROVE  Good(run', children')
<1>. DEFINE e == Enter(r, "Running", "Verify")
<1>1. /\ Fit(e, kids) /\ e.mode = "Running" /\ e.stage = "Verify"
      /\ e.round = r.round /\ e.extra = r.extra /\ e.verdicts = r.verdicts
      /\ e.active = {} /\ e.starting = r.starting
  BY EnterFacts DEF Ready
<1>2. Ready(e, kids)
  BY <1>1 DEF Ready, Room, max_rounds
<1>3. CASE checkout = "ready"
  <2>1. RouteVerify(e, kids, "blocked")
    BY <1>3 DEF SpawnVerify
  <2>. QED
    BY <1>2, <2>1, RouteVerifyGood
<1>4. CASE checkout # "ready"
  <2>1. PICK started \in Starts :
          LET told == [e EXCEPT !.note = "none"]
              all == Append(kids, Child("Verify", 0, started))
          IN IF started
             THEN Put([told EXCEPT !.active = @ \cup {Len(all)}], all)
             ELSE Finalize(told, all, "Failed")
    BY <1>4 DEF SpawnVerify
  <2>. DEFINE told == [e EXCEPT !.note = "none"]
              all == Append(kids, Child("Verify", 0, started))
              next == [told EXCEPT !.active = @ \cup {Len(all)}]
  <2>2. /\ Kin(kids, all) /\ Len(all) \in DOMAIN all /\ all[Len(all)].stage = "Verify"
        /\ started => Reports(all[Len(all)])
    <3>1. started \in BOOLEAN /\ "Verify" \in Stages \ {"Review"} /\ KidsOK(kids)
      BY DEF Starts, Ready, Fit, Stages
    <3>. QED
      BY <3>1, KinChild
  <2>3. Fit(e, all)
    BY <1>1, <2>2, FitKin
  <2>. HIDE DEF e, all
  <2>4. /\ Alike(e, told) /\ told.mode = "Running" /\ told.stage = "Verify"
        /\ told.active = {} /\ told.starting = r.starting
    BY <1>1 DEF Alike, Fit, Keyed
  <2>5. Fit(told, all)
    BY <2>3, <2>4, FitAlike
  <2>. HIDE DEF told
  <2>6. CASE started
    <3>1. /\ Alike(told, next) /\ next.mode = "Running" /\ next.stage = "Verify"
          /\ next.active = {Len(all)} /\ next.starting = r.starting
      BY <2>4, <2>5 DEF Alike, Fit, Keyed
    <3>2. Fit(next, all)
      BY <2>5, <3>1, FitAlike
    <3>3. Room(next) /\ next.round = next.verdicts /\ ~next.starting
      BY <1>1, <2>4, <3>1 DEF Ready, Room, max_rounds, Alike
    <3>. HIDE DEF next
    <3>4. Good(next, all)
      BY <2>2, <2>6, <3>1, <3>2, <3>3, RunningGood DEF Stages
    <3>5. Put(next, all)
      BY <2>1, <2>6 DEF next, told, e, all
    <3>. QED
      BY <3>4, <3>5 DEF Put
  <2>7. CASE ~started
    <3>1. Finalize(told, all, "Failed")
      BY <2>1, <2>7 DEF told, e, all
    <3>2. told.stage \in Stages
      BY <2>4 DEF Stages
    <3>. QED
      BY <2>5, <3>1, <3>2, FinalizeGood
  <2>. QED
    BY <2>6, <2>7
<1>. QED
  BY <1>3, <1>4

LEMMA SpawnStageGood ==
  ASSUME NEW r, NEW kids, Ready(r, kids), NEW stage \in Stages, SpawnStage(r, kids, stage)
  PROVE  Good(run', children')
<1>1. CASE stage = "Verify" /\ Refused(r, kids, stage)
  BY <1>1, ParkedGood DEF Refused
<1>2. CASE stage = "Verify" /\ SpawnVerify(r, kids)
  BY <1>2, SpawnVerifyGood
<1>3. CASE stage # "Verify" /\ SpawnWork(r, kids, stage)
  BY <1>3, SpawnWorkGood
<1>. QED
  BY <1>1, <1>2, <1>3 DEF SpawnStage

LEMMA AdvanceGood ==
  ASSUME NEW r, NEW kids, Ready(r, kids), NEW stage \in Stages, Advance(r, kids, stage)
  PROVE  Good(run', children')
<1>1. CASE r.pause
  BY <1>1, ParkedGood DEF Advance
<1>2. CASE ~r.pause
  BY <1>2, SpawnStageGood DEF Advance
<1>. QED
  BY <1>1, <1>2

-----------------------------------------------------------------------------
(* Stages end *)

(* Losing an agent is no verdict, and loses no round. *)
LEMMA ParkAfterFailureGood ==
  ASSUME NEW r, NEW kids, Fit(r, kids), ~r.starting, NEW stage \in Stages,
         IF stage = "Review" THEN r.round = r.verdicts + 1 ELSE Room(r) /\ r.round = r.verdicts,
         ParkAfterFailure(r, kids, stage)
  PROVE  Good(run', children')
<1>. DEFINE e == Enter(r, "Paused", stage)
            p == Parked(r, stage)
            idle == [p EXCEPT !.active = {}, !.note = "lost"]
            lost == [idle EXCEPT !.pending = {}, !.votes = NoVotes, !.reasked = {},
                                 !.round = IF @ > 0 THEN @ - 1 ELSE 0]
            next == IF stage = "Review" THEN lost ELSE idle
<1>1. /\ Fit(e, kids) /\ e.mode = "Paused" /\ e.stage = stage
      /\ e.round = r.round /\ e.extra = r.extra /\ e.verdicts = r.verdicts
      /\ e.starting = r.starting
  BY EnterFacts
<1>2. p = [e EXCEPT !.pause = FALSE]
  BY DEF Parked
<1>. HIDE DEF e, p
<1>3. /\ Keyed(p) /\ \A f \in DOMAIN e : f # "pause" => p[f] = e[f]
  BY <1>1, <1>2 DEF Fit, Keyed
<1>. DEFINE kept == {"mode", "stage", "barrier", "round", "extra", "votes", "prior", "seq",
                     "starting", "verdicts", "closed"}
<1>4. Keyed(idle) /\ idle.active = {} /\ \A f \in kept : idle[f] = e[f]
  BY <1>1, <1>3 DEF Fit, Keyed
<1>. HIDE DEF idle
<1>5. /\ idle.mode = "Paused" /\ idle.stage = stage /\ ~idle.starting /\ Alike(e, idle)
  BY <1>1, <1>4 DEF Alike
<1>6. Fit(idle, kids)
  BY <1>1, <1>5, FitAlike
<1>7. CASE stage # "Review"
  <2>1. Room(idle) /\ idle.round = idle.verdicts
    BY <1>1, <1>5, <1>7 DEF Room, max_rounds, Alike
  <2>2. Good(idle, kids)
    BY <1>4, <1>5, <1>6, <1>7, <2>1 DEF Good, Staffed, Open, Reviewing, Counted, Modes, Waits
  <2>. QED
    BY <1>7, <2>2 DEF ParkAfterFailure, Put, idle, p
<1>8. CASE stage = "Review"
  <2>1. /\ Keyed(lost) /\ lost.mode = "Paused" /\ lost.stage = stage /\ ~lost.starting
        /\ lost.active = {} /\ lost.votes = NoVotes /\ lost.prior = idle.prior
        /\ lost.seq = idle.seq /\ lost.barrier = idle.barrier /\ lost.closed = idle.closed
        /\ lost.extra = idle.extra /\ lost.verdicts = idle.verdicts
        /\ lost.round = IF idle.round > 0 THEN idle.round - 1 ELSE 0
    BY <1>4, <1>5 DEF Keyed
  <2>2. lost.round = lost.verdicts /\ lost.round < idle.round
    BY <1>1, <1>5, <1>6, <1>8, <2>1 DEF Alike, Fit
  <2>. HIDE DEF lost
  <2>3. Fit(lost, kids) /\ Room(lost)
    <3>1. lost.round \in Nat /\ lost.round < max_rounds(lost)
      BY <1>6, <2>1, <2>2 DEF Fit, max_rounds
    <3>2. lost.votes \in [Reviewers -> Verdicts \cup {"none"}]
      BY <2>1 DEF NoVotes
    <3>3. IdsOK(lost)
      BY <1>6, <2>1 DEF Fit, IdsOK
    <3>4. lost.round <= max_rounds(lost)
      BY <1>6, <2>1, <2>2 DEF Fit, max_rounds
    <3>. QED
      BY <1>6, <2>1, <3>1, <3>2, <3>3, <3>4 DEF Fit, Room
  <2>4. Good(lost, kids)
    BY <1>8, <2>1, <2>2, <2>3 DEF Good, Staffed, Open, Reviewing, Counted, Modes, Waits
  <2>. QED
    BY <1>8, <2>4 DEF ParkAfterFailure, Put, lost, idle, p
<1>. QED
  BY <1>7, <1>8

(* A round in progress: those it still waits for will be heard of. *)
Round(r, kids) ==
  /\ Fit(r, kids) /\ Reviewing(r) /\ ~r.starting /\ r.round = r.verdicts + 1
  /\ r.pending = r.active /\ r.active \subseteq DOMAIN kids
  /\ \A c \in r.active : kids[c].stage = "Review" /\ Reports(kids[c])

LEMMA RoundGood ==
  ASSUME NEW r, NEW kids, Round(r, kids)
  PROVE  Good(r, kids)
<1>1. Staffed(r, kids)
  BY DEF Round, Staffed, Reviewing
<1>. QED
  BY <1>1 DEF Round, Good, Open, Reviewing, Counted, Modes, Waits, Stages

(* The verdict of a round is counted, and a round is only left for a fix   *)
(* while the limit allows another.                                         *)
LEMMA MergeReviewsGood ==
  ASSUME NEW r, NEW kids, Round(r, kids), r.active = {}, r.votes # NoVotes,
         MergeReviews(r, kids)
  PROVE  Good(run', children')
<1>. DEFINE given == {r.votes[i] : i \in Reviewers} \ {"none"}
            done == [r EXCEPT !.votes = NoVotes, !.verdicts = IF given = {} THEN @ ELSE @ + 1]
            found == [done EXCEPT !.source = "Review"]
<1>1. given # {}
  <2>1. r.votes = [i \in Reviewers |-> r.votes[i]]
    BY DEF Round, Fit
  <2>2. PICK i \in Reviewers : r.votes[i] # "none"
    BY <2>1 DEF NoVotes
  <2>. QED
    BY <2>2
<1>2. \/ Finalize(done, kids, "Done")
      \/ may_fix(r) /\ Advance(found, kids, "Fix")
      \/ Put(Await(found, "AwaitingLimit", "Review"), kids)
      \/ Finalize(found, kids, "Done")
  BY DEF MergeReviews
<1>. HIDE DEF given
<1>3. /\ Keyed(done) /\ done.stage = "Review" /\ ~done.starting /\ done.active = {}
      /\ done.verdicts = r.verdicts + 1 /\ done.round = r.round /\ done.extra = r.extra
      /\ done.votes = NoVotes /\ done.prior = r.prior
      /\ done.seq = r.seq /\ done.barrier = r.barrier /\ done.closed = r.closed
  BY <1>1 DEF Round, Reviewing, Fit, Keyed
<1>. HIDE DEF done
<1>4. Fit(done, kids)
  <2>1. done.votes \in [Reviewers -> Verdicts \cup {"none"}]
    BY <1>3 DEF NoVotes
  <2>2. IdsOK(done)
    BY <1>3 DEF Round, Fit, IdsOK
  <2>3. /\ done.round \in Nat /\ done.extra \in Nat /\ done.verdicts \in Nat
        /\ done.round <= max_rounds(done)
    BY <1>3 DEF Round, Fit, max_rounds
  <2>. QED
    BY <1>3, <2>1, <2>2, <2>3 DEF Round, Fit
<1>5. done.round = done.verdicts
  BY <1>3 DEF Round
<1>6. Alike(done, found) /\ found.active = {} /\ ~found.starting /\ found.stage = "Review"
  BY <1>3 DEF Alike, Keyed
<1>7. Fit(found, kids) /\ found.round = found.verdicts
  BY <1>4, <1>5, <1>6, FitAlike DEF Alike
<1>8. may_fix(r) => Ready(found, kids)
  BY <1>3, <1>6, <1>7 DEF Ready, Room, may_fix, max_rounds, Alike
<1>9. "Review" \in Stages /\ "Fix" \in Stages
  BY DEF Stages
<1>. HIDE DEF found
<1>10. CASE Finalize(done, kids, "Done")
  BY <1>3, <1>4, <1>5, <1>9, <1>10, FinalizeGood
<1>11. CASE Finalize(found, kids, "Done")
  BY <1>6, <1>7, <1>9, <1>11, FinalizeGood
<1>12. CASE may_fix(r) /\ Advance(found, kids, "Fix")
  BY <1>8, <1>9, <1>12, AdvanceGood
<1>13. CASE Put(Await(found, "AwaitingLimit", "Review"), kids)
  <2>1. found.round > 0
    BY <1>3, <1>6 DEF Round, Fit, Alike
  <2>2. Good(Await(found, "AwaitingLimit", "Review"), kids)
    BY <1>6, <1>7, <1>9, <2>1, AwaitGood
  <2>. QED
    BY <1>13, <2>2 DEF Put
<1>. QED
  BY <1>2, <1>10, <1>11, <1>12, <1>13

LEMMA CloseIfLastGood ==
  ASSUME NEW r, NEW kids, Round(r, kids), r.pending = {} => r.votes # NoVotes,
         CloseIfLast(r, kids)
  PROVE  Good(run', children')
<1>1. CASE r.pending = {}
  BY <1>1, MergeReviewsGood DEF CloseIfLast, Round
<1>2. CASE r.pending # {}
  BY <1>2, RoundGood DEF CloseIfLast, Put
<1>. QED
  BY <1>1, <1>2

(* A child c the engine heeds has been heard of: it need not be again. *)
Heard(r, kids, c) ==
  /\ Fit(r, kids) /\ ~r.starting /\ r.stage \in Stages /\ r.mode \in Modes
  /\ c \in DOMAIN kids /\ c \in r.active /\ kids[c].stage = r.stage
  /\ r.stage \in {"Review", "Verify"} => r.mode = "Running"
  /\ IF r.stage = "Review"
     THEN /\ r.round = r.verdicts + 1
          /\ r.pending = r.active /\ r.active \subseteq DOMAIN kids
          /\ \A d \in r.active \ {c} : kids[d].stage = "Review" /\ Reports(kids[d])
     ELSE r.active = {c} /\ Room(r) /\ r.round = r.verdicts

(* A reviewer leaves a round. *)
LEMMA LeavesRound ==
  ASSUME NEW r, NEW kids, NEW c, Heard(r, kids, c), r.stage = "Review",
         NEW x, Keyed(x),
         x.mode = r.mode, x.stage = r.stage, x.starting = r.starting,
         x.seq = r.seq, x.barrier = r.barrier, x.closed = r.closed,
         x.round = r.round, x.extra = r.extra, x.verdicts = r.verdicts, x.prior = r.prior,
         x.votes \in [Reviewers -> Verdicts \cup {"none"}],
         x.pending = r.pending \ {c}, x.active = r.active \ {c}
  PROVE  Round(x, kids)
<1>1. Fit(x, kids)
  BY DEF Heard, Fit, IdsOK, max_rounds
<1>. QED
  BY <1>1 DEF Heard, Round, Reviewing

LEMMA ChildFailedGood ==
  ASSUME NEW r, NEW kids, NEW c, Heard(r, kids, c), ChildFailed(r, kids, c)
  PROVE  Good(run', children')
<1>. DEFINE left == [Leaves(r, c) EXCEPT !.reasked = @ \ {c}]
<1>1. CASE kids[c].stage # "Review"
  <2>1. ParkAfterFailure(r, kids, r.stage)
    BY <1>1 DEF ChildFailed, Heard
  <2>. QED
    BY <1>1, <2>1, ParkAfterFailureGood DEF Heard
<1>2. CASE kids[c].stage = "Review"
  <2>1. Round(left, kids)
    <3>1. /\ Keyed(left) /\ left.mode = r.mode /\ left.stage = r.stage
          /\ left.starting = r.starting
          /\ left.seq = r.seq /\ left.barrier = r.barrier /\ left.closed = r.closed
          /\ left.round = r.round /\ left.extra = r.extra /\ left.verdicts = r.verdicts
          /\ left.prior = r.prior /\ left.votes = r.votes
          /\ left.pending = r.pending \ {c} /\ left.active = r.active \ {c}
      BY DEF Heard, Fit, Keyed, Leaves
    <3>2. r.stage = "Review" /\ r.votes \in [Reviewers -> Verdicts \cup {"none"}]
      BY <1>2 DEF Heard, Fit
    <3>. HIDE DEF left
    <3>. QED
      BY <3>1, <3>2, LeavesRound
  <2>2. IF left.pending = {} /\ left.votes = NoVotes
        THEN ParkAfterFailure(left, kids, "Review") ELSE CloseIfLast(left, kids)
    BY <1>2 DEF ChildFailed
  <2>. HIDE DEF left
  <2>3. CASE left.pending = {} /\ left.votes = NoVotes
    <3>1. /\ Fit(left, kids) /\ ~left.starting /\ "Review" \in Stages
          /\ left.round = left.verdicts + 1
      BY <2>1 DEF Round, Stages
    <3>. QED
      BY <2>2, <2>3, <3>1, ParkAfterFailureGood
  <2>4. CASE ~(left.pending = {} /\ left.votes = NoVotes)
    BY <2>1, <2>2, <2>4, CloseIfLastGood
  <2>. QED
    BY <2>3, <2>4
<1>. QED
  BY <1>1, <1>2

LEMMA StageAfterType ==
  ASSUME NEW stage, NEW r, NEW changed
  PROVE  stage_after(stage, r, changed) \in Stages
  BY DEF stage_after, Stages

LEMMA SoloEndedGood ==
  ASSUME NEW r, NEW kids, NEW c, Heard(r, kids, c), r.stage \notin {"Review", "Verify"},
         SoloEnded(r, kids, c)
  PROVE  Good(run', children')
<1>. DEFINE left == [r EXCEPT !.active = @ \ {c}]
            fixed == [left EXCEPT !.fixBase = 0]
            wait == Await(r, "AwaitingReply", r.stage)
            asks == [wait EXCEPT !.asker = c]
<1>1. \/ Put(asks, kids)
      \/ Advance(left, kids, stage_after(r.stage, r, FALSE))
      \/ \E changed \in fix_changed(r) : Advance(fixed, kids, stage_after(r.stage, r, changed))
  BY DEF SoloEnded, Heard
<1>2. Ready(left, kids)
  <2>1. Alike(r, left) /\ left.active = {} /\ ~left.starting
    BY DEF Heard, Alike, Fit, Keyed
  <2>2. Fit(left, kids)
    BY <2>1, FitAlike DEF Heard
  <2>. HIDE DEF left
  <2>. QED
    BY <2>1, <2>2 DEF Heard, Ready, Room, max_rounds, Alike
<1>. HIDE DEF left
<1>3. Ready(fixed, kids)
  <2>1. Alike(left, fixed) /\ fixed.active = {} /\ ~fixed.starting
    BY <1>2 DEF Ready, Alike, Fit, Keyed
  <2>. QED
    BY <1>2, <2>1, ReadyAlike
<1>. HIDE DEF fixed
<1>4. Good(asks, kids)
  <2>1. /\ Fit(wait, kids) /\ wait.mode = "AwaitingReply" /\ wait.stage = r.stage
        /\ wait.barrier # 0 /\ wait.round = r.round /\ wait.extra = r.extra
        /\ wait.verdicts = r.verdicts /\ wait.active = {c} /\ ~wait.starting
    BY AwaitFacts DEF Heard
  <2>. HIDE DEF wait
  <2>2. /\ Alike(wait, asks) /\ asks.mode = "AwaitingReply" /\ asks.stage = r.stage
        /\ asks.asker = c /\ asks.active = {c} /\ ~asks.starting
    BY <2>1 DEF Alike, Fit, Keyed
  <2>3. Fit(asks, kids)
    BY <2>1, <2>2, FitAlike
  <2>. HIDE DEF asks
  <2>4. Staffed(asks, kids)
    BY <2>2 DEF Staffed, Heard
  <2>5. Room(asks) /\ Counted(asks) /\ asks.barrier # 0
    BY <2>1, <2>2 DEF Heard, Room, max_rounds, Counted, Reviewing, Alike
  <2>. QED
    BY <2>2, <2>3, <2>4, <2>5 DEF Good, Heard, Modes, Waits
<1>5. CASE Put(asks, kids)
  BY <1>4, <1>5 DEF Put
<1>. HIDE DEF asks, wait
<1>. QED
  BY <1>1, <1>2, <1>3, <1>5, StageAfterType, AdvanceGood

LEMMA ReviewEndedGood ==
  ASSUME NEW r, NEW kids, NEW c, Heard(r, kids, c), r.stage = "Review",
         ReviewEnded(r, kids, c)
  PROVE  Good(run', children')
<1>. DEFINE voted(v) == [Leaves(r, c) EXCEPT !.votes[kids[c].seat] = v]
            left == [Leaves(r, c) EXCEPT !.reasked = @ \ {c}]
<1>1. \/ \E v \in Verdicts : CloseIfLast(voted(v), kids)
      \/ kids[c].alive /\ Reask(r, kids, c)
      \/ left.pending = {} /\ left.votes = NoVotes /\ Finalize(left, kids, "Failed")
      \/ ~(left.pending = {} /\ left.votes = NoVotes) /\ CloseIfLast(left, kids)
  <2>1. c \in r.pending
    BY DEF Heard
  <2>. QED
    BY <2>1 DEF ReviewEnded, MayReask
<1>2. ASSUME NEW v \in Verdicts, CloseIfLast(voted(v), kids)
      PROVE  Good(run', children')
  <2>. DEFINE x == voted(v)
              seat == kids[c].seat
  <2>1. seat \in Reviewers
    BY DEF Heard, Fit, KidsOK
  <2>2. /\ Keyed(x) /\ x.mode = r.mode /\ x.stage = r.stage
        /\ x.starting = r.starting
        /\ x.seq = r.seq /\ x.barrier = r.barrier /\ x.closed = r.closed
        /\ x.round = r.round /\ x.extra = r.extra /\ x.verdicts = r.verdicts
        /\ x.prior = r.prior /\ x.votes = [r.votes EXCEPT ![seat] = v]
        /\ x.pending = r.pending \ {c} /\ x.active = r.active \ {c}
    BY DEF Heard, Fit, Keyed, Leaves
  <2>3. CloseIfLast(x, kids)
    BY <1>2
  <2>. HIDE DEF x, seat
  <2>4. x.votes \in [Reviewers -> Verdicts \cup {"none"}] /\ x.votes[seat] = v
    BY <2>1, <2>2 DEF Heard, Fit
  <2>5. x.votes # NoVotes
    BY <2>1, <2>4 DEF NoVotes, Verdicts
  <2>6. Round(x, kids)
    BY <2>2, <2>4, LeavesRound
  <2>. QED
    BY <2>3, <2>5, <2>6, CloseIfLastGood
<1>3. Round(left, kids)
  <2>1. /\ Keyed(left) /\ left.mode = r.mode /\ left.stage = r.stage
        /\ left.starting = r.starting
        /\ left.seq = r.seq /\ left.barrier = r.barrier /\ left.closed = r.closed
        /\ left.round = r.round /\ left.extra = r.extra /\ left.verdicts = r.verdicts
        /\ left.prior = r.prior /\ left.votes = r.votes
        /\ left.pending = r.pending \ {c} /\ left.active = r.active \ {c}
    BY DEF Heard, Fit, Keyed, Leaves
  <2>2. r.votes \in [Reviewers -> Verdicts \cup {"none"}]
    BY DEF Heard, Fit
  <2>. HIDE DEF left
  <2>. QED
    BY <2>1, <2>2, LeavesRound
<1>. HIDE DEF left, voted
<1>4. CASE left.pending = {} /\ left.votes = NoVotes /\ Finalize(left, kids, "Failed")
  BY <1>3, <1>4, FinalizeGood DEF Round, Reviewing, Stages
<1>5. CASE ~(left.pending = {} /\ left.votes = NoVotes) /\ CloseIfLast(left, kids)
  BY <1>3, <1>5, CloseIfLastGood
<1>6. CASE kids[c].alive /\ Reask(r, kids, c)
  <2>. DEFINE x == [r EXCEPT !.reasked = @ \cup {c}]
              all == Prompted(kids, {c})
  <2>1. Put(x, all)
    BY <1>6 DEF Reask
  <2>2. /\ Kin(kids, all) /\ DOMAIN all = DOMAIN kids /\ Reports(all[c])
        /\ \A d \in DOMAIN kids : Reports(kids[d]) => Reports(all[d])
    BY <1>6, KinPrompted DEF Heard, Fit
  <2>3. /\ Alike(r, x) /\ x.mode = r.mode /\ x.stage = r.stage /\ x.starting = r.starting
        /\ x.pending = r.pending /\ x.active = r.active
    BY DEF Heard, Fit, Keyed, Alike
  <2>. HIDE DEF x, all
  <2>4. Fit(x, all)
    <3>1. Fit(x, kids)
      BY <2>3, FitAlike DEF Heard
    <3>. QED
      BY <2>2, <3>1, FitKin
  <2>5. \A d \in r.active : all[d].stage = "Review" /\ Reports(all[d])
    BY <2>2 DEF Heard, Kin
  <2>6. Round(x, all)
    BY <2>2, <2>3, <2>4, <2>5 DEF Heard, Round, Reviewing, Alike
  <2>. QED
    BY <2>1, <2>6, RoundGood DEF Put
<1>. QED
  BY <1>1, <1>2, <1>3, <1>4, <1>5, <1>6

LEMMA VerifyReportedGood ==
  ASSUME NEW r, NEW kids, NEW c, Heard(r, kids, c), r.stage = "Verify", NEW verdict,
         VerifyReported(r, kids, c, verdict)
  PROVE  Good(run', children')
<1>. DEFINE left == [r EXCEPT !.reasked = @ \ {c}, !.active = @ \ {c}]
            passed == [left EXCEPT !.failures = 0, !.vextra = 0]
            failed == [left EXCEPT !.failures = @ + 1, !.source = "Verify"]
<1>1. \/ RouteVerify(passed, kids, verdict)
      \/ RouteVerify(failed, kids, verdict)
      \/ RouteVerify(left, kids, verdict)
  BY DEF VerifyReported
<1>2. Ready(left, kids)
  <2>1. Alike(r, left) /\ left.active = {} /\ ~left.starting
    BY DEF Heard, Alike, Fit, Keyed
  <2>2. Fit(left, kids)
    BY <2>1, FitAlike DEF Heard
  <2>. HIDE DEF left
  <2>. QED
    BY <2>1, <2>2 DEF Heard, Ready, Room, max_rounds, Alike
<1>. HIDE DEF left
<1>3. /\ Alike(left, passed) /\ passed.active = {} /\ ~passed.starting
      /\ Alike(left, failed) /\ failed.active = {} /\ ~failed.starting
  BY <1>2 DEF Ready, Alike, Fit, Keyed
<1>. HIDE DEF passed, failed
<1>4. Ready(passed, kids) /\ Ready(failed, kids)
  BY <1>2, <1>3, ReadyAlike
<1>. QED
  BY <1>1, <1>2, <1>4, RouteVerifyGood

LEMMA VerifyEndedGood ==
  ASSUME NEW r, NEW kids, NEW c, Heard(r, kids, c), r.stage = "Verify",
         VerifyEnded(r, kids, c)
  PROVE  Good(run', children')
<1>1. \/ \E verdict : VerifyReported(r, kids, c, verdict)
      \/ kids[c].alive /\ Reask(r, kids, c)
  BY DEF VerifyEnded, MayReask
<1>2. CASE kids[c].alive /\ Reask(r, kids, c)
  <2>. DEFINE x == [r EXCEPT !.reasked = @ \cup {c}]
              all == Prompted(kids, {c})
  <2>1. Put(x, all)
    BY <1>2 DEF Reask
  <2>2. /\ Kin(kids, all) /\ DOMAIN all = DOMAIN kids /\ Reports(all[c])
    BY <1>2, KinPrompted DEF Heard, Fit
  <2>3. /\ Alike(r, x) /\ x.mode = "Running" /\ x.stage = "Verify" /\ ~x.starting
        /\ x.active = {c}
    BY DEF Heard, Fit, Keyed, Alike
  <2>. HIDE DEF x, all
  <2>4. Fit(x, all)
    <3>1. Fit(x, kids)
      BY <2>3, FitAlike DEF Heard
    <3>. QED
      BY <2>2, <3>1, FitKin
  <2>5. /\ c \in DOMAIN all /\ all[c].stage = "Verify"
        /\ Room(x) /\ x.round = x.verdicts
    BY <2>2, <2>3 DEF Heard, Kin, Room, max_rounds, Alike
  <2>6. Good(x, all)
    BY <2>2, <2>3, <2>4, <2>5, RunningGood DEF Stages
  <2>. QED
    BY <2>1, <2>6 DEF Put
<1>. QED
  BY <1>1, <1>2, VerifyReportedGood

-----------------------------------------------------------------------------
(* The actions *)

(* all: the children kids, of which only c has changed *)
Touched(kids, all, c) ==
  /\ c \in DOMAIN kids /\ Kin(kids, all) /\ DOMAIN all = DOMAIN kids
  /\ \A d \in DOMAIN kids \ {c} : all[d] = kids[d]
  /\ all[c].alive => kids[c].alive

LEMMA TouchedFacts ==
  ASSUME NEW kids, KidsOK(kids), NEW c \in DOMAIN kids, NEW kid \in ChildRecords,
         kid.stage = kids[c].stage, kid.seat = kids[c].seat, kid.alive => kids[c].alive,
         NEW all, all = [kids EXCEPT ![c] = kid]
  PROVE  Touched(kids, all, c) /\ all[c] = kid
<1>1. kids \in Seq(ChildRecords) /\ DOMAIN kids = 1..Len(kids)
  BY LenProperties DEF KidsOK
<1>2. /\ all = [d \in DOMAIN kids |-> all[d]] /\ all[c] = kid
      /\ \A d \in DOMAIN kids \ {c} : all[d] = kids[d]
  BY <1>1
<1>3. \A d \in DOMAIN kids : /\ all[d] \in ChildRecords
                             /\ all[d].stage = kids[d].stage /\ all[d].seat = kids[d].seat
  BY <1>1, <1>2
<1>4. Kin(kids, all) /\ DOMAIN all = DOMAIN kids
  BY <1>2, <1>3, KinSame
<1>. QED
  BY <1>2, <1>4 DEF Touched

(* A child the engine does not wait for changes, or will still be heard of. *)
LEMMA TouchedGood ==
  ASSUME NEW r, NEW kids, NEW all, NEW c, Good(r, kids), Touched(kids, all, c),
         r.mode = "Running" /\ c \in r.active => Reports(all[c])
  PROVE  Good(r, all)
<1>1. Fit(r, all)
  BY FitKin DEF Good, Touched
<1>2. \A d \in DOMAIN kids : all[d].stage = kids[d].stage
  BY DEF Touched, Kin
<1>3. r.mode = "Running" => \A d \in r.active : all[d].stage = r.stage /\ Reports(all[d])
  BY <1>2 DEF Good, Staffed, Touched
<1>4. Staffed(r, all)
  BY <1>2, <1>3 DEF Good, Staffed, Touched
<1>5. (\A d \in DOMAIN kids : ~kids[d].alive) => (\A d \in DOMAIN all : ~all[d].alive)
  BY DEF Touched
<1>. QED
  BY <1>1, <1>4, <1>5 DEF Good

LEMMA HeardFacts ==
  ASSUME NEW kids, NEW c, Good(run, children), Touched(children, kids, c), Heeded(c)
  PROVE  Heard(run, kids, c)
<1>1. Fit(run, kids) /\ ~run.starting
  BY FitKin DEF Good, Touched, Heeded, Staffed
<1>2. /\ c \in DOMAIN kids /\ c \in run.active /\ run.stage \in Stages /\ run.mode \in Modes
      /\ kids[c].stage = children[c].stage
  BY DEF Good, Touched, Kin, Heeded
<1>3. /\ run.mode \in {"Running", "AwaitingReply"} /\ run.stage = children[c].stage
      /\ run.mode = "AwaitingReply" => run.stage \notin {"Review", "Verify"}
  BY DEF Good, Staffed, Heeded
<1>4. CASE run.stage = "Review"
  <2>1. Reviewing(run) /\ run.round = run.verdicts + 1
    BY <1>3, <1>4 DEF Good, Counted, Reviewing
  <2>2. /\ run.pending = run.active /\ run.active \subseteq DOMAIN kids
        /\ \A d \in run.active \ {c} : kids[d].stage = "Review" /\ Reports(kids[d])
    BY <1>3, <1>4 DEF Good, Staffed, Touched
  <2>. QED
    BY <1>1, <1>2, <1>3, <1>4, <2>1, <2>2 DEF Heard
<1>5. CASE run.stage # "Review"
  <2>1. ~Reviewing(run) /\ Open(run)
    BY <1>3, <1>5 DEF Reviewing, Open
  <2>2. Room(run) /\ run.round = run.verdicts
    BY <1>3, <2>1 DEF Good, Counted
  <2>3. run.active = {c}
    BY <1>2, <1>3, <1>5 DEF Good, Staffed, Heeded
  <2>. QED
    BY <1>1, <1>2, <1>3, <1>5, <2>2, <2>3 DEF Heard
<1>. QED
  BY <1>4, <1>5

(* What a child reports, in whatever state the run is by then. *)
LEMMA StageFinishedGood ==
  ASSUME NEW kids, NEW c, Good(run, children), Touched(children, kids, c), NEW success,
         StageFinished(kids, c, success)
  PROVE  Good(run', children')
<1>1. CASE ~Heeded(c)
  <2>1. ~(run.mode = "Running" /\ c \in run.active)
    BY <1>1 DEF Heeded, Good, Staffed, is_active
  <2>2. Good(run, kids)
    BY <2>1, TouchedGood
  <2>. QED
    BY <1>1, <2>2 DEF StageFinished, Put
<1>2. CASE Heeded(c)
  <2>1. Heard(run, kids, c)
    BY <1>2, HeardFacts
  <2>2. kids[c].stage = run.stage
    BY <2>1 DEF Heard
  <2>3. \/ ChildFailed(run, kids, c)
        \/ run.stage = "Review" /\ ReviewEnded(run, kids, c)
        \/ run.stage = "Verify" /\ VerifyEnded(run, kids, c)
        \/ run.stage \notin {"Review", "Verify"} /\ SoloEnded(run, kids, c)
    BY <1>2, <2>2 DEF StageFinished
  <2>. QED
    BY <2>1, <2>3, ChildFailedGood, ReviewEndedGood, VerifyEndedGood, SoloEndedGood
<1>. QED
  BY <1>1, <1>2

(* A run that is not at work, and may go on. *)
LEMMA ReadyFacts ==
  ASSUME NEW r, NEW kids, Good(r, kids), r.mode \in {"New", "Paused", "AwaitingVerify"}
  PROVE  Ready(r, kids)
  BY DEF Good, Ready, Staffed, Open, Reviewing, Counted

LEMMA CreateGood ==
  ASSUME Good(run, children), Create
  PROVE  Good(run', children')
<1>. DEFINE x == [run EXCEPT !.mode = "Running"]
            y == [run EXCEPT !.mode = "Running", !.starting = TRUE]
<1>1. run.mode = "New" /\ (Put(y, children) \/ SpawnStage(x, children, first_stage))
  BY DEF Create
<1>2. Ready(run, children)
  BY <1>1, ReadyFacts
<1>3. Ready(x, children)
  <2>1. Alike(run, x) /\ x.active = {} /\ ~x.starting
    BY <1>2 DEF Ready, Alike, Fit, Keyed
  <2>. QED
    BY <1>2, <2>1, ReadyAlike
<1>4. Good(y, children)
  <2>1. /\ Alike(run, y) /\ y.mode = "Running" /\ y.starting /\ y.active = {}
        /\ y.stage = run.stage
    BY <1>2 DEF Ready, Alike, Fit, Keyed
  <2>2. run.stage = "Implement" /\ "Implement" \in Stages
    BY <1>1 DEF Good, Staffed, Stages
  <2>3. Fit(y, children) /\ Room(y) /\ y.round = y.verdicts
    BY <1>2, <2>1, FitAlike DEF Ready, Room, max_rounds, Alike
  <2>. HIDE DEF y
  <2>4. Staffed(y, children)
    BY <2>1, <2>2 DEF Staffed
  <2>. QED
    BY <2>1, <2>2, <2>3, <2>4 DEF Good, Open, Reviewing, Counted, Modes, Waits
<1>5. first_stage \in Stages
  BY DEF first_stage, Stages
<1>. HIDE DEF x, y
<1>6. CASE Put(y, children)
  BY <1>4, <1>6 DEF Put
<1>. QED
  BY <1>1, <1>3, <1>5, <1>6, SpawnStageGood

LEMMA CheckoutLandsGood ==
  ASSUME Good(run, children), CheckoutLands
  PROVE  Good(run', children')
<1>. DEFINE x == [run EXCEPT !.starting = FALSE]
<1>1. \/ run.starting /\ SpawnStage(x, children, first_stage)
      \/ run.starting /\ Finalize(x, children, "Failed")
      \/ Put(run, children)
  BY DEF CheckoutLands
<1>2. ASSUME run.starting
      PROVE  Ready(x, children) /\ Fit(x, children) /\ x.stage \in Stages
  <2>1. /\ Fit(run, children) /\ run.mode = "Running" /\ run.stage # "Review"
        /\ run.active = {} /\ run.stage \in Stages
    BY <1>2 DEF Good, Staffed
  <2>2. Room(run) /\ run.round = run.verdicts
    BY <2>1 DEF Good, Open, Reviewing, Counted
  <2>3. Alike(run, x) /\ x.active = {} /\ ~x.starting /\ x.stage = run.stage
    BY <2>1 DEF Alike, Fit, Keyed
  <2>4. Fit(x, children)
    BY <2>1, <2>3, FitAlike
  <2>. HIDE DEF x
  <2>. QED
    BY <2>1, <2>2, <2>3, <2>4 DEF Ready, Room, max_rounds, Alike
<1>3. first_stage \in Stages
  BY DEF first_stage, Stages
<1>. HIDE DEF x
<1>4. CASE Put(run, children)
  BY <1>4 DEF Put
<1>. QED
  BY <1>1, <1>2, <1>3, <1>4, SpawnStageGood, FinalizeGood

(* What the sessions do on their own. *)
LEMMA SessionGood ==
  ASSUME Good(run, children), NEW c \in DOMAIN children,
         EndsTurn(c) \/ Dies(c) \/ Chats(c)
  PROVE  Good(run', children')
<1>1. KidsOK(children) /\ children[c] \in ChildRecords
  BY DEF Good, Fit, KidsOK
<1>2. PICK kid :
        /\ kid \in ChildRecords /\ Reports(kid)
        /\ kid.stage = children[c].stage /\ kid.seat = children[c].seat
        /\ kid.alive => children[c].alive
        /\ children' = [children EXCEPT ![c] = kid]
  <2>1. CASE EndsTurn(c)
    <3>. DEFINE kid == [children[c] EXCEPT !.owed = @ - 1, !.ended = @ + 1]
    <3>1. /\ kid \in ChildRecords /\ kid.ended > 0 /\ kid.alive = children[c].alive
          /\ kid.stage = children[c].stage /\ kid.seat = children[c].seat
      <4>1. /\ children[c].owed \in Nat /\ children[c].owed > 0 /\ children[c].ended \in Nat
            /\ children[c].owed - 1 \in Nat /\ children[c].ended + 1 \in Nat
            /\ children[c].ended + 1 > 0
        BY <1>1, <2>1 DEF EndsTurn, ChildRecords
      <4>. DEFINE owed == children[c].owed - 1
                  ended == children[c].ended + 1
      <4>2. kid = [children[c] EXCEPT !.owed = owed, !.ended = ended]
        OBVIOUS
      <4>. HIDE DEF owed, ended, kid
      <4>3. owed \in Nat /\ ended \in Nat /\ ended > 0
        BY <4>1 DEF owed, ended
      <4>. QED
        BY <1>1, <4>2, <4>3 DEF ChildRecords
    <3>2. children' = [children EXCEPT ![c] = kid]
      BY <2>1 DEF EndsTurn
    <3>. HIDE DEF kid
    <3>. QED
      BY <3>1, <3>2 DEF Reports
  <2>2. CASE Dies(c)
    <3>. DEFINE kid == [Dropped(children[c]) EXCEPT !.err = TRUE]
    <3>1. /\ kid \in ChildRecords /\ kid.err /\ ~kid.alive
          /\ kid.stage = children[c].stage /\ kid.seat = children[c].seat
      BY <1>1 DEF Dropped, ChildRecords
    <3>2. children' = [children EXCEPT ![c] = kid]
      BY <2>2 DEF Dies
    <3>. HIDE DEF kid
    <3>. QED
      BY <3>1, <3>2 DEF Reports
  <2>3. CASE Chats(c)
    <3>. DEFINE kid == [children[c] EXCEPT !.owed = @ + 1]
    <3>1. /\ kid \in ChildRecords /\ kid.owed > 0 /\ kid.alive = children[c].alive
          /\ kid.stage = children[c].stage /\ kid.seat = children[c].seat
      BY <1>1 DEF ChildRecords
    <3>2. children' = [children EXCEPT ![c] = kid]
      BY <2>3 DEF Chats
    <3>. HIDE DEF kid
    <3>. QED
      BY <3>1, <3>2 DEF Reports
  <2>. QED
    BY <2>1, <2>2, <2>3
<1>3. run' = run
  BY DEF EndsTurn, Dies, Chats
<1>4. \A all : all = [children EXCEPT ![c] = kid] => Good(run, all)
  <2>. SUFFICES ASSUME NEW all, all = [children EXCEPT ![c] = kid]
                PROVE  Good(run, all)
    OBVIOUS
  <2>1. Touched(children, all, c) /\ all[c] = kid
    BY <1>1, <1>2, TouchedFacts
  <2>. QED
    BY <1>2, <2>1, TouchedGood
<1>. QED
  BY <1>2, <1>3, <1>4

(* What the actor sees of a child: the child it leaves behind. *)
LEMMA ReportedKid ==
  ASSUME NEW c \in DOMAIN children, children[c] \in ChildRecords,
         SeesTurnEnded(c) \/ SeesError(c) \/ CancelChild(c)
  PROVE  \E kid, success :
           /\ kid \in ChildRecords
           /\ kid.stage = children[c].stage /\ kid.seat = children[c].seat
           /\ kid.alive => children[c].alive
           /\ StageFinished([children EXCEPT ![c] = kid], c, success)
<1>1. CASE SeesTurnEnded(c)
  <2>. DEFINE kid == [children[c] EXCEPT !.ended = @ - 1]
  <2>1. /\ kid \in ChildRecords /\ kid.alive = children[c].alive
        /\ kid.stage = children[c].stage /\ kid.seat = children[c].seat
    BY <1>1 DEF SeesTurnEnded, ChildRecords
  <2>2. StageFinished([children EXCEPT ![c] = kid], c, TRUE)
    BY <1>1 DEF SeesTurnEnded
  <2>. HIDE DEF kid
  <2>. QED
    BY <2>1, <2>2
<1>2. CASE SeesError(c)
  <2>. DEFINE kid == [children[c] EXCEPT !.err = FALSE]
  <2>1. /\ kid \in ChildRecords /\ kid.alive = children[c].alive
        /\ kid.stage = children[c].stage /\ kid.seat = children[c].seat
    BY DEF ChildRecords
  <2>2. StageFinished([children EXCEPT ![c] = kid], c, FALSE)
    BY <1>2 DEF SeesError
  <2>. HIDE DEF kid
  <2>. QED
    BY <2>1, <2>2
<1>3. CASE CancelChild(c)
  <2>. DEFINE kid == Dropped(children[c])
  <2>1. /\ kid \in ChildRecords /\ ~kid.alive
        /\ kid.stage = children[c].stage /\ kid.seat = children[c].seat
    BY DroppedFacts
  <2>2. StageFinished([children EXCEPT ![c] = kid], c, FALSE)
    BY <1>3 DEF CancelChild
  <2>. HIDE DEF kid
  <2>. QED
    BY <2>1, <2>2
<1>. QED
  BY <1>1, <1>2, <1>3

LEMMA ReportGood ==
  ASSUME Good(run, children), NEW c \in DOMAIN children,
         SeesTurnEnded(c) \/ SeesError(c) \/ CancelChild(c)
  PROVE  Good(run', children')
<1>1. KidsOK(children) /\ children[c] \in ChildRecords
  BY DEF Good, Fit, KidsOK
<1>2. PICK kid, success :
        /\ kid \in ChildRecords
        /\ kid.stage = children[c].stage /\ kid.seat = children[c].seat
        /\ kid.alive => children[c].alive
        /\ StageFinished([children EXCEPT ![c] = kid], c, success)
  BY <1>1, ReportedKid
<1>. DEFINE all == [children EXCEPT ![c] = kid]
<1>3. StageFinished(all, c, success)
  BY <1>2
<1>4. all = [children EXCEPT ![c] = kid]
  OBVIOUS
<1>. HIDE DEF all
<1>5. Touched(children, all, c)
  BY <1>1, <1>2, <1>4, TouchedFacts
<1>. QED
  BY <1>3, <1>5, StageFinishedGood

(* What the user asks of the run, the limits' decisions excepted. *)
LEMMA UserGood ==
  ASSUME Good(run, children),
         StopRun \/ workflow_pause \/ workflow_resume \/ workflow_reply
  PROVE  Good(run', children')
<1>1. CASE StopRun
  <2>1. Fit(run, children) /\ run.stage \in Stages /\ Finalize(run, children, "Failed")
    BY <1>1 DEF StopRun, Good
  <2>. QED
    BY <2>1, FinalizeGood
<1>2. CASE workflow_pause
  <2>. DEFINE x == [run EXCEPT !.pause = TRUE]
  <2>1. run.mode # "New" /\ Put(x, children)
    BY <1>2 DEF workflow_pause
  <2>2. /\ Alike(run, x) /\ x.mode = run.mode /\ x.stage = run.stage /\ x.asker = run.asker
        /\ x.active = run.active /\ x.pending = run.pending /\ x.starting = run.starting
    BY DEF Good, Fit, Keyed, Alike
  <2>. HIDE DEF x
  <2>3. Good(x, children)
    BY <2>1, <2>2, GoodAlike
  <2>. QED
    BY <2>1, <2>3 DEF Put
<1>3. CASE workflow_resume
  <2>1. run.mode = "Paused" /\ run.stage \in Stages
    BY <1>3 DEF workflow_resume, Good
  <2>2. PICK note : SpawnStage([run EXCEPT !.pause = FALSE, !.note = note],
                               children, run.stage)
    BY <1>3 DEF workflow_resume
  <2>. DEFINE x == [run EXCEPT !.pause = FALSE, !.note = note]
  <2>3. Ready(run, children)
    BY <2>1, ReadyFacts
  <2>4. Alike(run, x) /\ x.active = {} /\ ~x.starting
    BY <2>3 DEF Ready, Alike, Fit, Keyed
  <2>5. SpawnStage(x, children, run.stage)
    BY <2>2
  <2>. HIDE DEF x
  <2>6. Ready(x, children)
    BY <2>3, <2>4, ReadyAlike
  <2>. QED
    BY <2>1, <2>5, <2>6, SpawnStageGood
<1>4. CASE workflow_reply
  <2>. DEFINE c == run.asker
              e == Enter(run, "Running", run.stage)
              all == Prompted(children, {c})
              x == [run EXCEPT !.active = @ \ {c}, !.note = "answer"]
  <2>1. /\ Fit(run, children) /\ run.mode = "AwaitingReply" /\ ~run.starting
        /\ c \in DOMAIN children /\ run.active = {c} /\ run.stage = children[c].stage
        /\ run.stage \in Stages \ {"Review"}
    BY <1>4 DEF workflow_reply, Good, Staffed
  <2>2. Room(run) /\ run.round = run.verdicts
    BY <2>1 DEF Good, Open, Reviewing, Counted
  <2>3. \/ children[c].alive /\ Put(e, all)
        \/ SpawnStage(x, children, run.stage)
    BY <1>4 DEF workflow_reply
  <2>4. CASE children[c].alive /\ Put(e, all)
    <3>1. /\ Fit(e, children) /\ e.mode = "Running" /\ e.stage = run.stage
          /\ e.round = run.round /\ e.extra = run.extra /\ e.verdicts = run.verdicts
          /\ e.active = {c} /\ ~e.starting
      BY <2>1, EnterFacts
    <3>2. Kin(children, all) /\ DOMAIN all = DOMAIN children /\ Reports(all[c])
      BY <2>1, <2>4, KinPrompted DEF Fit
    <3>3. Put(e, all)
      BY <2>4
    <3>. HIDE DEF e, all
    <3>4. Fit(e, all) /\ all[c].stage = run.stage /\ c \in DOMAIN all
      BY <2>1, <3>1, <3>2, FitKin DEF Kin
    <3>5. Room(e) /\ e.round = e.verdicts
      BY <2>2, <3>1 DEF Room, max_rounds
    <3>6. Good(e, all)
      BY <2>1, <3>1, <3>2, <3>4, <3>5, RunningGood
    <3>. QED
      BY <3>3, <3>6 DEF Put
  <2>5. CASE SpawnStage(x, children, run.stage)
    <3>1. Alike(run, x) /\ x.active = {} /\ ~x.starting
      BY <2>1 DEF Alike, Fit, Keyed
    <3>. HIDE DEF x
    <3>2. Ready(x, children)
      BY <2>1, <2>2, <3>1, FitAlike DEF Ready, Room, max_rounds, Alike
    <3>. QED
      BY <2>1, <2>5, <3>2, SpawnStageGood
  <2>. QED
    BY <2>3, <2>4, <2>5
<1>. QED
  BY <1>1, <1>2, <1>3, <1>4

(* Rounds are granted, at least one. *)
LEMMA DecideLimitGood ==
  ASSUME Good(run, children), DecideLimit
  PROVE  Good(run', children')
<1>1. /\ Fit(run, children) /\ run.mode = "AwaitingLimit" /\ ~run.starting
      /\ run.active = {} /\ run.stage \in Stages
  BY DEF DecideLimit, Good, Staffed
<1>2. run.round = run.verdicts
  BY <1>1 DEF Good, Counted, Reviewing
<1>3. CASE Finalize(run, children, "Done")
  BY <1>1, <1>2, <1>3, FinalizeGood
<1>4. ASSUME NEW n \in Asked, NEW note,
             Advance([Extended(run, note) EXCEPT !.extra = @ + Granted(n)], children, "Fix")
      PROVE  Good(run', children')
  <2>. DEFINE m == Extended(run, note)
              x == [m EXCEPT !.extra = @ + Granted(n)]
  <2>1. Advance(x, children, "Fix") /\ "Fix" \in Stages
    BY <1>4 DEF Stages
  <2>2. Granted(n) \in Nat /\ Granted(n) >= 1
    BY WorkflowAssumption DEF WorkflowAssumption, Granted
  <2>3. Alike(run, m) /\ m.active = {} /\ ~m.starting
    BY <1>1 DEF Extended, Alike, Fit, Keyed
  <2>. HIDE DEF m
  <2>4. /\ Keyed(x) /\ x.extra = run.extra + Granted(n) /\ x.active = {} /\ ~x.starting
        /\ x.seq = run.seq /\ x.barrier = run.barrier /\ x.closed = run.closed
        /\ x.round = run.round /\ x.verdicts = run.verdicts
        /\ x.votes = run.votes /\ x.prior = run.prior
    BY <2>3 DEF Alike, Keyed
  <2>. HIDE DEF x
  <2>5. x.extra \in Nat /\ x.round <= max_rounds(x) /\ Room(x)
    BY <1>1, <2>2, <2>4 DEF Fit, Room, max_rounds
  <2>6. Fit(x, children)
    <3>1. IdsOK(x)
      BY <1>1, <2>4 DEF Fit, IdsOK
    <3>. QED
      BY <1>1, <2>4, <2>5, <3>1 DEF Fit
  <2>7. Ready(x, children)
    BY <1>2, <2>4, <2>5, <2>6 DEF Ready
  <2>. QED
    BY <2>1, <2>7, AdvanceGood
<1>. QED
  BY <1>3, <1>4 DEF DecideLimit

LEMMA DecideVerifyGood ==
  ASSUME Good(run, children), DecideVerify
  PROVE  Good(run', children')
<1>1. Ready(run, children)
  BY ReadyFacts DEF DecideVerify
<1>2. ASSUME NEW x,
             Keyed(run) => /\ Alike(run, x)
                           /\ x.active = run.active /\ x.starting = run.starting,
             NEW stage \in Stages, Advance(x, children, stage)
      PROVE  Good(run', children')
  <2>1. Ready(x, children)
    BY <1>1, <1>2, ReadyAlike DEF Ready, Fit
  <2>. QED
    BY <1>2, <2>1, AdvanceGood
<1>3. ASSUME NEW note
      PROVE  Keyed(run) => /\ Alike(run, Extended(run, note))
                           /\ Extended(run, note).active = run.active
                           /\ Extended(run, note).starting = run.starting
  BY DEF Extended, Alike, Keyed
<1>4. ASSUME NEW n, NEW note
      PROVE  LET x == [Extended(run, note) EXCEPT !.vextra = @ + Granted(n)] IN
             Keyed(run) => /\ Alike(run, x)
                           /\ x.active = run.active /\ x.starting = run.starting
  BY DEF Extended, Alike, Keyed
<1>5. LET x == [Cleared(run) EXCEPT !.source = "Review"] IN
      Keyed(run) => Alike(run, x) /\ x.active = run.active /\ x.starting = run.starting
  BY DEF Cleared, Alike, Keyed
<1>6. {"Verify", "Fix", "Review"} \subseteq Stages
  BY DEF Stages
<1>7. \/ \E n \in Asked, note \in {"none", "note"} :
            \/ Advance(Extended(run, note), children, "Verify")
            \/ Advance([Extended(run, note) EXCEPT !.vextra = @ + Granted(n)], children, "Fix")
      \/ Advance([Cleared(run) EXCEPT !.source = "Review"], children, "Review")
  BY DEF DecideVerify
<1>8. ASSUME NEW n, NEW note, Advance(Extended(run, note), children, "Verify")
      PROVE  Good(run', children')
  BY <1>2, <1>3, <1>6, <1>8
<1>9. ASSUME NEW n, NEW note,
             Advance([Extended(run, note) EXCEPT !.vextra = @ + Granted(n)], children, "Fix")
      PROVE  Good(run', children')
  BY <1>2, <1>4, <1>6, <1>9
<1>10. CASE Advance([Cleared(run) EXCEPT !.source = "Review"], children, "Review")
  BY <1>2, <1>5, <1>6, <1>10
<1>. QED
  BY <1>7, <1>8, <1>9, <1>10

(* A restart ends every session; what was running is parked, and a round   *)
(* in progress is taken back.                                              *)
LEMMA RestartGood ==
  ASSUME Good(run, children), Restart
  PROVE  Good(run', children')
<1>. DEFINE gone(kid) == [Dropped(kid) EXCEPT !.ended = 0, !.err = FALSE]
            lost == [run EXCEPT !.mode = "Lost", !.starting = FALSE]
            e == Enter(run, "Paused", run.stage)
            back == [e EXCEPT !.active = {}, !.pending = {}, !.votes = NoVotes,
                              !.note = "restart", !.starting = FALSE,
                              !.round = IF run.stage = "Review" /\ @ > 0 THEN @ - 1 ELSE @]
<1>1. /\ children' = [c \in DOMAIN children |-> gone(children[c])]
      /\ \/ run.starting /\ run' = lost
         \/ run.mode = "Running" /\ run' = back
         \/ run.mode # "Running" /\ run' = run
  <2>1. CASE run.starting /\ ~run.pause
    BY <2>1 DEF Restart
  <2>2. CASE ~(run.starting /\ ~run.pause)
    BY <2>2 DEF Restart
  <2>. QED
    BY <2>1, <2>2
<1>2. KidsOK(children) /\ Fit(run, children)
  BY DEF Good, Fit
<1>3. /\ Kin(children, children') /\ DOMAIN children' = DOMAIN children
      /\ \A c \in DOMAIN children : ~children'[c].alive
  <2>1. ASSUME NEW kid \in ChildRecords
        PROVE  /\ gone(kid) \in ChildRecords /\ ~gone(kid).alive
               /\ gone(kid).stage = kid.stage /\ gone(kid).seat = kid.seat
    <3>. DEFINE d == Dropped(kid)
    <3>1. /\ d \in ChildRecords /\ ~d.alive
          /\ d.stage = kid.stage /\ d.seat = kid.seat
      BY DroppedFacts
    <3>. DEFINE g == [d EXCEPT !.ended = 0, !.err = FALSE]
    <3>. HIDE DEF d
    <3>2. g \in ChildRecords
      BY <3>1 DEF ChildRecords
    <3>3. g.alive = d.alive /\ g.stage = d.stage /\ g.seat = d.seat
      BY <3>1 DEF ChildRecords
    <3>. QED
      BY <3>1, <3>2, <3>3 DEF d
  <2>2. \A c \in DOMAIN children : /\ children'[c] \in ChildRecords /\ ~children'[c].alive
                                   /\ children'[c].stage = children[c].stage
                                   /\ children'[c].seat = children[c].seat
    <3>1. \A c \in DOMAIN children : children[c] \in ChildRecords
      BY <1>2 DEF KidsOK
    <3>. HIDE DEF gone
    <3>. QED
      BY <1>1, <2>1, <3>1
  <2>3. children' = [c \in DOMAIN children |-> children'[c]]
    BY <1>1
  <2>. QED
    BY <1>2, <2>2, <2>3, KinSame
<1>4. Fit(run, children')
  BY <1>2, <1>3, FitKin
<1>5. CASE run.starting /\ run' = lost
  <2>1. run.active = {} /\ run.stage \in Stages
    BY <1>5 DEF Good, Staffed
  <2>2. /\ Alike(run, lost) /\ lost.mode = "Lost" /\ lost.active = {} /\ ~lost.starting
        /\ lost.stage = run.stage
    BY <1>2, <2>1 DEF Fit, Keyed, Alike
  <2>3. Fit(lost, children')
    BY <1>4, <2>2, FitAlike
  <2>. HIDE DEF lost
  <2>4. Good(lost, children')
    BY <2>1, <2>2, <2>3 DEF Good, Staffed, Open, Reviewing, Modes, Waits
  <2>. QED
    BY <1>5, <2>4
<1>6. CASE run.mode = "Running" /\ run' = back
  <2>1. /\ Fit(e, children') /\ e.mode = "Paused" /\ e.stage = run.stage
        /\ e.round = run.round /\ e.extra = run.extra /\ e.verdicts = run.verdicts
    BY <1>4, EnterFacts
  <2>. HIDE DEF e
  <2>2. /\ Keyed(back) /\ back.mode = "Paused" /\ back.stage = run.stage /\ ~back.starting
        /\ back.active = {} /\ back.votes = NoVotes /\ back.prior = e.prior
        /\ back.seq = e.seq /\ back.barrier = e.barrier /\ back.closed = e.closed
        /\ back.extra = run.extra /\ back.verdicts = run.verdicts
        /\ back.round = IF run.stage = "Review" /\ run.round > 0
                        THEN run.round - 1 ELSE run.round
    BY <2>1 DEF Fit, Keyed
  <2>3. back.round = back.verdicts /\ Room(back)
    <3>1. CASE run.stage = "Review"
      <4>1. run.round = run.verdicts + 1
        BY <1>6, <3>1 DEF Good, Counted, Reviewing
      <4>2. back.round = run.verdicts
        BY <1>2, <2>2, <3>1, <4>1 DEF Fit
      <4>. HIDE DEF back
      <4>. QED
        BY <1>2, <2>2, <4>1, <4>2 DEF Fit, Room, max_rounds
    <3>2. CASE run.stage # "Review"
      <4>1. run.round = run.verdicts /\ Room(run)
        BY <1>6, <3>2 DEF Good, Counted, Reviewing, Open
      <4>2. back.round = run.round
        BY <2>2, <3>2
      <4>. HIDE DEF back
      <4>. QED
        BY <2>2, <4>1, <4>2 DEF Room, max_rounds
    <3>. QED
      BY <3>1, <3>2
  <2>. HIDE DEF back
  <2>4. Fit(back, children')
    <3>1. back.votes \in [Reviewers -> Verdicts \cup {"none"}]
      BY <2>2 DEF NoVotes
    <3>2. IdsOK(back)
      BY <2>1, <2>2 DEF Fit, IdsOK
    <3>3. /\ back.round \in Nat /\ back.extra \in Nat /\ back.verdicts \in Nat
          /\ back.round <= max_rounds(back)
      BY <1>2, <2>2, <2>3 DEF Fit, Room, max_rounds
    <3>. QED
      BY <2>1, <2>2, <3>1, <3>2, <3>3 DEF Fit
  <2>5. run.stage \in Stages
    BY DEF Good
  <2>6. Good(back, children')
    BY <2>2, <2>3, <2>4, <2>5 DEF Good, Staffed, Open, Reviewing, Counted, Modes, Waits
  <2>. QED
    BY <1>6, <2>6
<1>7. CASE run.mode # "Running" /\ run' = run
  <2>1. Staffed(run, children')
    BY <1>3, <1>7 DEF Good, Staffed, Kin
  <2>2. Good(run, children')
    BY <1>3, <1>4, <2>1 DEF Good
  <2>. QED
    BY <1>7, <2>2
<1>. QED
  BY <1>1, <1>5, <1>6, <1>7

-----------------------------------------------------------------------------
(* The run is good in every state. *)
Inv == Good(run, children)

LEMMA InitInv == Init => Inv
<1>. SUFFICES ASSUME Init PROVE Good(NewRun, <<>>) /\ run = NewRun /\ children = <<>>
  BY DEF Inv
<1>1. run = NewRun /\ children = <<>>
  BY DEF Init
<1>2. spec.max_rounds \in Nat \ {0}
  BY WorkflowAssumption DEF Init, WorkflowAssumption, SpecRecords
<1>3. KidsOK(<<>>)
  BY DEF KidsOK
<1>4. Keyed(NewRun) /\ IdsOK(NewRun)
  BY DEF NewRun, Keyed, IdsOK
<1>5. /\ NewRun.mode = "New" /\ NewRun.stage = "Implement" /\ NewRun.round = 0
      /\ NewRun.extra = 0 /\ NewRun.verdicts = 0 /\ NewRun.active = {} /\ ~NewRun.starting
      /\ ~NewRun.pause /\ NewRun.votes = NoVotes /\ NewRun.prior = [i \in Reviewers |-> 0]
  BY DEF NewRun
<1>6. NewRun.round < max_rounds(NewRun)
  BY <1>2, <1>5 DEF max_rounds
<1>7. Fit(NewRun, <<>>)
  <2>1. NewRun.votes \in [Reviewers -> Verdicts \cup {"none"}]
    BY <1>5 DEF NoVotes
  <2>2. \A i \in Reviewers : NewRun.prior[i] = 0
    BY <1>5
  <2>3. NewRun.round <= max_rounds(NewRun)
    BY <1>2, <1>5 DEF max_rounds
  <2>. QED
    BY <1>2, <1>3, <1>4, <1>5, <2>1, <2>2, <2>3 DEF Fit
<1>8. Good(NewRun, <<>>)
  BY <1>5, <1>6, <1>7
     DEF Good, Staffed, Room, Open, Reviewing, Counted, Modes, Waits, Stages
<1>. QED
  BY <1>1, <1>8

LEMMA NextGood == Inv /\ [Next]_vars => Good(run', children') /\ spec' = spec
<1>. SUFFICES ASSUME Inv, [Next]_vars
              PROVE  Good(run', children') /\ spec' = spec
  OBVIOUS
<1>1. Good(run, children)
  BY DEF Inv
<1>2. CASE Create
  BY <1>1, <1>2, CreateGood DEF Create
<1>3. CASE CheckoutLands
  BY <1>1, <1>3, CheckoutLandsGood DEF CheckoutLands
<1>4. ASSUME NEW c \in DOMAIN children, EndsTurn(c) \/ Dies(c) \/ Chats(c)
      PROVE  Good(run', children') /\ spec' = spec
  BY <1>1, <1>4, SessionGood DEF EndsTurn, Dies, Chats
<1>5. ASSUME NEW c \in DOMAIN children, Edits(c)
      PROVE  Good(run', children') /\ spec' = spec
  BY <1>1, <1>5 DEF Edits
<1>6. ASSUME NEW c \in DOMAIN children, SeesTurnEnded(c) \/ SeesError(c) \/ CancelChild(c)
      PROVE  Good(run', children') /\ spec' = spec
  BY <1>1, <1>6, ReportGood DEF SeesTurnEnded, SeesError, CancelChild
<1>7. CASE StopRun \/ workflow_pause \/ workflow_resume \/ workflow_reply
  BY <1>1, <1>7, UserGood DEF StopRun, workflow_pause, workflow_resume, workflow_reply
<1>8. CASE DecideLimit
  BY <1>1, <1>8, DecideLimitGood DEF DecideLimit
<1>9. CASE DecideVerify
  BY <1>1, <1>9, DecideVerifyGood DEF DecideVerify
<1>10. CASE Restart
  BY <1>1, <1>10, RestartGood DEF Restart
<1>11. CASE UNCHANGED vars
  BY <1>1, <1>11 DEF vars
<1>. QED
  BY <1>2, <1>3, <1>4, <1>5, <1>6, <1>7, <1>8, <1>9, <1>10, <1>11 DEF Next, Actor

LEMMA NextInv == Inv /\ [Next]_vars => Inv'
<1>. SUFFICES ASSUME Inv, [Next]_vars PROVE Inv'
  OBVIOUS
<1>1. Good(run', children') /\ spec' = spec
  BY NextGood
<1>. QED
  BY <1>1 DEF Inv, Good, Fit, Staffed, Open, Reviewing, Room, Counted, max_rounds,
              Keyed, IdsOK, KidsOK

LEMMA SpecInv == Spec => []Inv
  BY InitInv, NextInv, PTL DEF Spec

(* A request that waits for the user carries an id no earlier request had, *)
(* a restart in between included.                                          *)
THEOREM IdsAreNew == Spec => []BarrierIdsAreNew
<1>1. Inv => BarrierIdsAreNew
  BY DEF Inv, Good, Fit, IdsOK, BarrierIdsAreNew
<1>. QED
  BY <1>1, SpecInv, PTL

(* Review rounds stay within the limit of the workflow and what its user   *)
(* granted, whatever is lost, run again, paused or restarted.              *)
THEOREM RoundsLimited == Spec => []RoundsStayWithinLimit
<1>1. Inv => RoundsStayWithinLimit
  BY DEF Inv, Good, Fit, RoundsStayWithinLimit
<1>. QED
  BY <1>1, SpecInv, PTL

(* The round counter counts the rounds that gave a verdict, and the one in *)
(* progress: no round is lost and none counted twice.                      *)
THEOREM RoundsCounted == Spec => []RoundsCountVerdicts
<1>1. Inv => RoundsCountVerdicts
  <2>. SUFFICES ASSUME Inv, is_active(run) \/ run.mode = "Done"
                PROVE  run.round = run.verdicts + (IF Reviewing(run) THEN 1 ELSE 0)
    BY DEF RoundsCountVerdicts
  <2>1. Counted(run) /\ run.verdicts \in Nat
    BY DEF Inv, Good, Fit, is_active, Waits
  <2>. QED
    BY <2>1 DEF Counted
<1>. QED
  BY <1>1, SpecInv, PTL

(* A running stage never waits for a child that has nothing left to report. *)
THEOREM NoneSilent == Spec => []NoSilentChild
<1>1. Inv => NoSilentChild
  BY DEF Inv, Good, Staffed, NoSilentChild
<1>. QED
  BY <1>1, SpecInv, PTL

(* A pipeline that ended has no session left and starts none later.        *)
THEOREM EndIsQuiet == Spec => []EndedIsQuiet
<1>1. Inv => EndedIsQuiet
  BY DEF Inv, Good, Staffed, EndedIsQuiet
<1>. QED
  BY <1>1, SpecInv, PTL

-----------------------------------------------------------------------------
(* Types *)

(* A run whose fields have their types, and that names no child it has not *)
(* got.                                                                    *)
Typed(r, kids) ==
  /\ r \in RunRecords /\ KidsOK(kids)
  /\ r.active \subseteq DOMAIN kids /\ r.pending \subseteq DOMAIN kids
  /\ r.reasked \subseteq DOMAIN kids
  /\ \A i \in Reviewers : r.prior[i] \in 0..Len(kids)

LEMMA KidsDomain ==
  ASSUME NEW kids, KidsOK(kids)
  PROVE  /\ kids \in Seq(ChildRecords) /\ Len(kids) \in Nat /\ DOMAIN kids = 1..Len(kids)
         /\ DOMAIN kids \subseteq Nat
  BY LenProperties DEF KidsOK

(* Children only come. *)
LEMMA TypedMore ==
  ASSUME NEW r, NEW kids, NEW all, Typed(r, kids), KidsOK(all), DOMAIN kids \subseteq DOMAIN all
  PROVE  Typed(r, all)
<1>1. /\ Len(kids) \in Nat /\ DOMAIN kids = 1..Len(kids)
      /\ Len(all) \in Nat /\ DOMAIN all = 1..Len(all)
  BY KidsDomain DEF Typed
<1>2. Len(kids) <= Len(all)
  <2>1. CASE Len(kids) = 0
    BY <1>1, <2>1
  <2>2. CASE Len(kids) # 0
    <3>1. Len(kids) \in DOMAIN all
      BY <1>1, <2>2
    <3>. QED
      BY <1>1, <3>1
  <2>. QED
    BY <2>1, <2>2
<1>3. \A i \in Reviewers : r.prior[i] \in 0..Len(all)
  BY <1>1, <1>2 DEF Typed
<1>. QED
  BY <1>3 DEF Typed

LEMMA TypedKin ==
  ASSUME NEW r, NEW kids, NEW all, Typed(r, kids), Kin(kids, all)
  PROVE  Typed(r, all)
  BY TypedMore DEF Kin

(* A run that names the children another names, or fewer. *)
Within(r, x) ==
  /\ x \in RunRecords
  /\ x.active \subseteq r.active /\ x.pending \subseteq r.pending
  /\ x.reasked \subseteq r.reasked /\ x.prior = r.prior

LEMMA TypedWithin ==
  ASSUME NEW r, NEW x, NEW kids, Typed(r, kids), Within(r, x)
  PROVE  Typed(x, kids)
  BY DEF Typed, Within

LEMMA EnterTyped ==
  ASSUME NEW r, NEW kids, Typed(r, kids), NEW mode \in Modes, NEW stage \in Stages
  PROVE  /\ Typed(Enter(r, mode, stage), kids) /\ Within(r, Enter(r, mode, stage))
         /\ Enter(r, mode, stage).stage = stage
<1>. DEFINE e == Enter(r, mode, stage)
<1>1. r \in RunRecords
  BY DEF Typed
<1>2. r.closed \cup ({r.barrier} \ {0}) \in SUBSET Nat
  BY <1>1 DEF RunRecords
<1>3. /\ e \in RunRecords /\ e.stage = stage
      /\ e.active = r.active /\ e.pending = r.pending
      /\ e.reasked = r.reasked /\ e.prior = r.prior
  BY <1>1, <1>2 DEF Enter, RunRecords
<1>. HIDE DEF e
<1>4. Within(r, e)
  BY <1>3 DEF Within
<1>5. Typed(e, kids)
  BY <1>4, TypedWithin
<1>. QED
  BY <1>3, <1>4, <1>5 DEF e

LEMMA AwaitTyped ==
  ASSUME NEW r, NEW kids, Typed(r, kids), NEW mode \in Modes, NEW stage \in Stages
  PROVE  Typed(Await(r, mode, stage), kids) /\ Within(r, Await(r, mode, stage))
<1>. DEFINE e == Enter(r, mode, stage)
            a == Await(r, mode, stage)
<1>1. Within(r, e)
  BY EnterTyped
<1>2. r.seq + 1 \in Nat
  BY DEF Typed, RunRecords
<1>3. a = [e EXCEPT !.barrier = r.seq + 1, !.seq = r.seq + 1]
  BY DEF Await, next_barrier_id
<1>. HIDE DEF e, a
<1>4. Within(r, a)
  BY <1>1, <1>2, <1>3 DEF Within, RunRecords
<1>5. Typed(a, kids)
  BY <1>4, TypedWithin
<1>. QED
  BY <1>4, <1>5 DEF a

LEMMA ParkedTyped ==
  ASSUME NEW r, NEW kids, Typed(r, kids), NEW stage \in Stages
  PROVE  Typed(Parked(r, stage), kids) /\ Within(r, Parked(r, stage))
<1>. DEFINE e == Enter(r, "Paused", stage)
            p == Parked(r, stage)
<1>1. Within(r, e)
  BY EnterTyped DEF Modes
<1>2. p = [e EXCEPT !.pause = FALSE]
  BY DEF Parked
<1>. HIDE DEF e, p
<1>3. Within(r, p)
  BY <1>1, <1>2 DEF Within, RunRecords
<1>4. Typed(p, kids)
  BY <1>3, TypedWithin
<1>. QED
  BY <1>3, <1>4 DEF p

LEMMA FinalizeTyped ==
  ASSUME NEW r, NEW kids, Typed(r, kids), NEW mode \in {"Done", "Failed"},
         Finalize(r, kids, mode)
  PROVE  Typed(run', children')
<1>. DEFINE e == Enter(r, mode, r.stage)
            all == Swept(kids)
<1>1. r.stage \in Stages /\ mode \in Modes
  BY DEF Typed, RunRecords, Modes
<1>2. Within(r, e)
  BY <1>1, EnterTyped
<1>3. Kin(kids, all)
  BY KinSwept DEF Typed
<1>4. PICK f : f = [e EXCEPT !.active = {}, !.pending = {}, !.starting = FALSE]
  OBVIOUS
<1>5. run' = f /\ children' = all
  BY <1>4 DEF Finalize, Put
<1>. HIDE DEF e, all
<1>6. Within(r, f)
  BY <1>2, <1>4 DEF Within, RunRecords
<1>7. Typed(f, all)
  BY <1>3, <1>6, TypedWithin, TypedKin
<1>. QED
  BY <1>5, <1>7

(* One more child at work. *)
LEMMA AddedTyped ==
  ASSUME NEW r, NEW kids, Typed(r, kids), NEW c \in DOMAIN kids
  PROVE  Typed([r EXCEPT !.active = r.active \cup {c}], kids)
<1>1. r \in RunRecords /\ c \in Nat /\ r.active \cup {c} \in SUBSET Nat
  BY KidsDomain DEF Typed, RunRecords
<1>2. PICK x : x = [r EXCEPT !.active = r.active \cup {c}]
  OBVIOUS
<1>3. /\ x \in RunRecords /\ x.active = r.active \cup {c} /\ x.pending = r.pending
      /\ x.reasked = r.reasked /\ x.prior = r.prior
  BY <1>1, <1>2 DEF RunRecords
<1>4. Typed(x, kids)
  BY <1>3 DEF Typed
<1>. QED
  BY <1>2, <1>4

-----------------------------------------------------------------------------
LEMMA FixBasesType ==
  ASSUME NEW r \in RunRecords, code \in 1..MaxCode, NEW stage, NEW base \in FixBases(r, stage)
  PROVE  base \in 0..MaxCode
  BY WorkflowAssumption DEF WorkflowAssumption, FixBases, RunRecords

LEMMA SpawnSoloTyped ==
  ASSUME NEW r, NEW kids, Typed(r, kids), code \in 1..MaxCode,
         NEW stage \in {"Plan", "Implement", "Fix"}, SpawnSolo(r, kids, stage)
  PROVE  Typed(run', children')
<1>1. PICK started \in Starts, base \in FixBases(r, stage) :
        LET new == [Enter(r, "Running", stage) EXCEPT
                      !.note = "none", !.fixBase = base,
                      !.blind = @ \/ (stage = "Fix" /\ base = 0)]
            all == Append(kids, Child(stage, 0, started))
        IN IF started
           THEN Put([new EXCEPT !.active = @ \cup {Len(all)}], all)
           ELSE Finalize(new, all, "Failed")
  BY DEF SpawnSolo
<1>2. PICK e : e = Enter(r, "Running", stage)
  OBVIOUS
<1>3. PICK all : all = Append(kids, Child(stage, 0, started))
  OBVIOUS
<1>4. PICK b \in BOOLEAN : b = (e.blind \/ (stage = "Fix" /\ base = 0))
  OBVIOUS
<1>5. PICK new : new = [e EXCEPT !.note = "none", !.fixBase = base, !.blind = b]
  OBVIOUS
<1>6. IF started THEN Put([new EXCEPT !.active = new.active \cup {Len(all)}], all)
                 ELSE Finalize(new, all, "Failed")
  BY <1>1, <1>2, <1>3, <1>4, <1>5
<1>7. Typed(e, kids) /\ base \in 0..MaxCode
  BY <1>2, EnterTyped, FixBasesType DEF Typed, Modes, Waits, Stages
<1>8. Within(e, new)
  BY <1>5, <1>7 DEF Typed, Within, RunRecords
<1>9. Kin(kids, all) /\ Len(all) \in DOMAIN all
  <2>1. started \in BOOLEAN /\ stage \in Stages \ {"Review"} /\ KidsOK(kids)
    BY DEF Starts, Typed, Stages
  <2>. QED
    BY <1>3, <2>1, KinChild
<1>10. Typed(new, all)
  BY <1>7, <1>8, <1>9, TypedWithin, TypedKin
<1>11. CASE started
  BY <1>6, <1>9, <1>10, <1>11, AddedTyped DEF Put
<1>12. CASE ~started
  BY <1>6, <1>10, <1>12, FinalizeTyped
<1>. QED
  BY <1>11, <1>12

LEMMA SpawnReviewTyped ==
  ASSUME NEW r, NEW kids, Typed(r, kids), SpawnReview(r, kids)
  PROVE  Typed(run', children')
<1>1. PICK reused \in SUBSET Reviewers, started \in [Reviewers -> Starts] :
        LET here == {i \in Reviewers : i \in reused \/ started[i]}
            of(i) == IF i \in reused THEN r.prior[i] ELSE Len(kids) + i
            staff == {of(i) : i \in here}
        IN /\ \A i \in reused : r.prior[i] # 0
           /\ Put([Enter(r, "Running", "Review") EXCEPT
                     !.round = @ + 1, !.pending = staff, !.active = @ \cup staff,
                     !.votes = NoVotes, !.reasked = {},
                     !.prior = [i \in Reviewers |-> IF i \in here THEN of(i) ELSE 0]],
                  Prompted(kids, {r.prior[i] : i \in reused}) \o
                    [i \in Reviewers |-> Child("Review", i, started[i] /\ i \notin reused)])
  BY DEF SpawnReview
<1>. DEFINE here == {i \in Reviewers : i \in reused \/ started[i]}
            of(i) == IF i \in reused THEN r.prior[i] ELSE Len(kids) + i
            staff == {of(i) : i \in here}
            prior == [i \in Reviewers |-> IF i \in here THEN of(i) ELSE 0]
            asked == {r.prior[i] : i \in reused}
            up == {i \in Reviewers : started[i] /\ i \notin reused}
            all == Summoned(kids, asked, up)
            e == Enter(r, "Running", "Review")
<1>2. PICK x : x = [e EXCEPT !.round = e.round + 1, !.pending = staff,
                             !.active = e.active \cup staff,
                             !.votes = NoVotes, !.reasked = {}, !.prior = prior]
  OBVIOUS
<1>3. run' = x /\ children' = all
  BY <1>1, <1>2, SummonedOf DEF Put
<1>4. /\ Kin(kids, all)
      /\ \A i \in Reviewers : Len(kids) + i \in DOMAIN all
  <2>. HIDE DEF asked, up
  <2>. QED
    BY SummonedFacts DEF Typed
<1>. HIDE DEF all
<1>5. Typed(r, all) /\ DOMAIN all = 1..Len(all) /\ Len(all) \in Nat
  BY <1>4, TypedKin, KidsDomain DEF Kin
<1>6. ASSUME NEW i \in here
      PROVE  of(i) \in DOMAIN all
  <2>1. CASE i \in reused
    BY <1>1, <1>5, <2>1 DEF Typed
  <2>2. CASE i \notin reused
    BY <1>4, <2>2
  <2>. QED
    BY <2>1, <2>2
<1>7. staff \subseteq DOMAIN all
  BY <1>6
<1>8. \A i \in Reviewers : prior[i] \in 0..Len(all)
  <2>. SUFFICES ASSUME NEW i \in Reviewers PROVE prior[i] \in 0..Len(all)
    OBVIOUS
  <2>1. CASE i \in here
    <3>1. prior[i] = of(i) /\ of(i) \in DOMAIN all
      BY <1>6, <2>1
    <3>. HIDE DEF prior, of
    <3>. QED
      BY <1>5, <3>1
  <2>2. CASE i \notin here
    <3>1. prior[i] = 0
      BY <2>2
    <3>. HIDE DEF prior
    <3>. QED
      BY <1>5, <3>1
  <2>. QED
    BY <2>1, <2>2
<1>9. prior \in [Reviewers -> Nat]
  <2>1. prior = [i \in Reviewers |-> prior[i]]
    OBVIOUS
  <2>. HIDE DEF prior
  <2>. QED
    BY <1>5, <1>8, <2>1
<1>10. NoVotes \in [Reviewers -> Verdicts \cup {"none"}]
  BY DEF NoVotes
<1>11. e \in RunRecords /\ e.active = r.active
  <2>1. "Running" \in Modes /\ "Review" \in Stages
    BY DEF Modes, Stages
  <2>2. e \in RunRecords
    BY <2>1, EnterTyped DEF Within
  <2>3. e.active = r.active
    BY DEF Enter, Typed, RunRecords
  <2>. QED
    BY <2>2, <2>3
<1>. HIDE DEF staff, prior, e
<1>12. staff \subseteq Nat
  BY <1>5, <1>7
<1>13. /\ e.round + 1 \in Nat /\ e.active \cup staff \in SUBSET Nat
       /\ staff \in SUBSET Nat /\ {} \in SUBSET Nat
  <2>1. e.round \in Nat /\ e.active \in SUBSET Nat
    BY <1>11 DEF RunRecords
  <2>2. e.round + 1 \in Nat
    BY <2>1
  <2>3. e.active \cup staff \in SUBSET Nat
    BY <1>12, <2>1
  <2>. QED
    BY <1>12, <2>2, <2>3
<1>14. x \in RunRecords
  BY <1>2, <1>9, <1>10, <1>11, <1>13 DEF RunRecords
<1>15. /\ x.active = r.active \cup staff /\ x.pending = staff
       /\ x.reasked = {} /\ x.prior = prior
  BY <1>2, <1>11 DEF RunRecords
<1>16. Typed(x, all)
  BY <1>5, <1>7, <1>8, <1>14, <1>15 DEF Typed
<1>. QED
  BY <1>3, <1>16

LEMMA SpawnWorkTyped ==
  ASSUME NEW r, NEW kids, Typed(r, kids), code \in 1..MaxCode,
         NEW stage \in Stages \ {"Verify"}, SpawnWork(r, kids, stage)
  PROVE  Typed(run', children')
<1>1. CASE Refused(r, kids, stage)
  BY <1>1, ParkedTyped DEF Refused, Put
<1>2. CASE stage = "Review" /\ SpawnReview(r, kids)
  BY <1>2, SpawnReviewTyped
<1>3. CASE stage # "Review" /\ SpawnSolo(r, kids, stage)
  <2>1. stage \in {"Plan", "Implement", "Fix"}
    BY <1>3 DEF Stages
  <2>. QED
    BY <1>3, <2>1, SpawnSoloTyped
<1>. QED
  BY <1>1, <1>2, <1>3 DEF SpawnWork

LEMMA AdvanceToWorkTyped ==
  ASSUME NEW r, NEW kids, Typed(r, kids), code \in 1..MaxCode,
         NEW stage \in Stages \ {"Verify"}, AdvanceToWork(r, kids, stage)
  PROVE  Typed(run', children')
  BY ParkedTyped, SpawnWorkTyped DEF AdvanceToWork, Put

LEMMA ClearedTyped ==
  ASSUME NEW r, NEW kids, Typed(r, kids), code \in 1..MaxCode
  PROVE  Typed(Cleared(r), kids) /\ Typed(Excused(r), kids)
<1>1. PICK x : x = [r EXCEPT !.cleared = code, !.blind = FALSE]
  OBVIOUS
<1>2. code \in 0..MaxCode /\ r \in RunRecords
  BY WorkflowAssumption DEF WorkflowAssumption, Typed
<1>3. Within(r, x)
  BY <1>1, <1>2 DEF Within, RunRecords
<1>4. Typed(x, kids)
  BY <1>3, TypedWithin
<1>. QED
  BY <1>1, <1>4 DEF Cleared, Excused

(* What sends the run on: where the fix comes from. *)
LEMMA SourceTyped ==
  ASSUME NEW r, NEW kids, Typed(r, kids), NEW source \in {"Review", "Verify"}
  PROVE  Typed([r EXCEPT !.source = source], kids)
<1>1. PICK x : x = [r EXCEPT !.source = source]
  OBVIOUS
<1>2. Within(r, x)
  BY <1>1 DEF Typed, Within, RunRecords
<1>. QED
  BY <1>1, <1>2, TypedWithin

LEMMA RouteVerifyTyped ==
  ASSUME NEW r, NEW kids, Typed(r, kids), code \in 1..MaxCode, NEW verdict,
         RouteVerify(r, kids, verdict)
  PROVE  Typed(run', children')
<1>1. {"Review", "Fix"} \subseteq Stages \ {"Verify"}
  BY DEF Stages
<1>2. CASE AdvanceToWork(Cleared(r), kids, "Review")
  BY <1>1, <1>2, ClearedTyped, AdvanceToWorkTyped
<1>3. CASE AdvanceToWork(r, kids, "Fix")
  BY <1>1, <1>3, AdvanceToWorkTyped
<1>4. CASE Put([Await(r, "AwaitingVerify", "Verify") EXCEPT !.blocked = verdict = "blocked"], kids)
  <2>1. PICK a : a = Await(r, "AwaitingVerify", "Verify")
    OBVIOUS
  <2>2. PICK b \in BOOLEAN : b = (verdict = "blocked")
    OBVIOUS
  <2>3. PICK x : x = [a EXCEPT !.blocked = b]
    OBVIOUS
  <2>4. Typed(a, kids)
    BY <2>1, AwaitTyped DEF Modes, Waits, Stages
  <2>5. Within(a, x)
    BY <2>2, <2>3, <2>4 DEF Typed, Within, RunRecords
  <2>6. run' = x /\ children' = kids
    BY <1>4, <2>1, <2>2, <2>3 DEF Put
  <2>. QED
    BY <2>4, <2>5, <2>6, TypedWithin
<1>5. CASE AdvanceToWork([Excused(r) EXCEPT !.source = "Review"], kids, "Review")
  <2>1. Typed([Excused(r) EXCEPT !.source = "Review"], kids)
    BY ClearedTyped, SourceTyped
  <2>. QED
    BY <1>1, <1>5, <2>1, AdvanceToWorkTyped
<1>. QED
  BY <1>2, <1>3, <1>4, <1>5 DEF RouteVerify

LEMMA SpawnVerifyTyped ==
  ASSUME NEW r, NEW kids, Typed(r, kids), code \in 1..MaxCode, SpawnVerify(r, kids)
  PROVE  Typed(run', children')
<1>1. PICK new : new = Enter(r, "Running", "Verify")
  OBVIOUS
<1>2. Typed(new, kids)
  BY <1>1, EnterTyped DEF Modes, Stages
<1>3. CASE checkout = "ready"
  BY <1>1, <1>2, <1>3, RouteVerifyTyped DEF SpawnVerify
<1>4. CASE checkout # "ready"
  <2>1. PICK told : told = [new EXCEPT !.note = "none"]
    OBVIOUS
  <2>2. PICK started \in Starts :
          IF started
          THEN Put([told EXCEPT !.active = @ \cup {Len(Append(kids, Child("Verify", 0, started)))}],
                   Append(kids, Child("Verify", 0, started)))
          ELSE Finalize(told, Append(kids, Child("Verify", 0, started)), "Failed")
    BY <1>1, <1>4, <2>1 DEF SpawnVerify
  <2>3. PICK all : all = Append(kids, Child("Verify", 0, started))
    OBVIOUS
  <2>4. IF started THEN Put([told EXCEPT !.active = told.active \cup {Len(all)}], all)
                   ELSE Finalize(told, all, "Failed")
    BY <2>2, <2>3
  <2>5. Kin(kids, all) /\ Len(all) \in DOMAIN all
    <3>1. started \in BOOLEAN /\ "Verify" \in Stages \ {"Review"} /\ KidsOK(kids)
      BY DEF Starts, Typed, Stages
    <3>. QED
      BY <2>3, <3>1, KinChild
  <2>6. Within(new, told)
    BY <1>2, <2>1 DEF Typed, Within, RunRecords
  <2>7. Typed(told, all)
    BY <1>2, <2>5, <2>6, TypedWithin, TypedKin
  <2>8. CASE started
    BY <2>4, <2>5, <2>7, <2>8, AddedTyped DEF Put
  <2>9. CASE ~started
    BY <2>4, <2>7, <2>9, FinalizeTyped
  <2>. QED
    BY <2>8, <2>9
<1>. QED
  BY <1>3, <1>4

LEMMA SpawnStageTyped ==
  ASSUME NEW r, NEW kids, Typed(r, kids), code \in 1..MaxCode, NEW stage \in Stages,
         SpawnStage(r, kids, stage)
  PROVE  Typed(run', children')
<1>1. CASE stage = "Verify" /\ Refused(r, kids, stage)
  BY <1>1, ParkedTyped DEF Refused, Put
<1>2. CASE stage = "Verify" /\ SpawnVerify(r, kids)
  BY <1>2, SpawnVerifyTyped
<1>3. CASE stage # "Verify" /\ SpawnWork(r, kids, stage)
  BY <1>3, SpawnWorkTyped
<1>. QED
  BY <1>1, <1>2, <1>3 DEF SpawnStage

LEMMA AdvanceTyped ==
  ASSUME NEW r, NEW kids, Typed(r, kids), code \in 1..MaxCode, NEW stage \in Stages,
         Advance(r, kids, stage)
  PROVE  Typed(run', children')
  BY ParkedTyped, SpawnStageTyped DEF Advance, Put

LEMMA ParkAfterFailureTyped ==
  ASSUME NEW r, NEW kids, Typed(r, kids), NEW stage \in Stages, ParkAfterFailure(r, kids, stage)
  PROVE  Typed(run', children')
<1>1. PICK p : p = Parked(r, stage)
  OBVIOUS
<1>2. PICK idle : idle = [p EXCEPT !.active = {}, !.note = "lost"]
  OBVIOUS
<1>3. PICK n : n = IF idle.round > 0 THEN idle.round - 1 ELSE 0
  OBVIOUS
<1>4. PICK x : x = [idle EXCEPT !.pending = {}, !.votes = NoVotes, !.reasked = {}, !.round = n]
  OBVIOUS
<1>5. children' = kids /\ run' \in {idle, x}
  BY <1>1, <1>2, <1>3, <1>4 DEF ParkAfterFailure, Put
<1>6. Typed(p, kids)
  BY <1>1, ParkedTyped
<1>7. Within(p, idle)
  BY <1>2, <1>6 DEF Typed, Within, RunRecords
<1>8. n \in Nat /\ NoVotes \in [Reviewers -> Verdicts \cup {"none"}]
  <2>1. idle.round \in Nat
    BY <1>7 DEF Within, RunRecords
  <2>. QED
    BY <1>3, <2>1 DEF NoVotes
<1>9. Within(idle, x)
  BY <1>4, <1>7, <1>8 DEF Within, RunRecords
<1>. QED
  BY <1>5, <1>6, <1>7, <1>9, TypedWithin

LEMMA ChildStage ==
  ASSUME NEW kids, KidsOK(kids), NEW c \in DOMAIN kids
  PROVE  kids[c].stage \in Stages
<1>1. kids[c] \in ChildRecords
  BY DEF KidsOK
<1>. QED
  BY <1>1 DEF ChildRecords

LEMMA MergeReviewsTyped ==
  ASSUME NEW r, NEW kids, Typed(r, kids), code \in 1..MaxCode, MergeReviews(r, kids)
  PROVE  Typed(run', children')
<1>1. PICK n : n = IF {r.votes[i] : i \in Reviewers} \ {"none"} = {} THEN r.verdicts
                  ELSE r.verdicts + 1
  OBVIOUS
<1>2. PICK done : done = [r EXCEPT !.votes = NoVotes, !.verdicts = n]
  OBVIOUS
<1>3. PICK found : found = [done EXCEPT !.source = "Review"]
  OBVIOUS
<1>4. \/ Finalize(done, kids, "Done") \/ Advance(found, kids, "Fix")
      \/ Put(Await(found, "AwaitingLimit", "Review"), kids)
      \/ Finalize(found, kids, "Done")
  BY <1>1, <1>2, <1>3 DEF MergeReviews
<1>5. NoVotes \in [Reviewers -> Verdicts \cup {"none"}]
  BY DEF NoVotes
<1>6. Within(r, done)
  <2>1. n \in Nat
    BY <1>1 DEF Typed, RunRecords
  <2>. QED
    BY <1>2, <1>5, <2>1 DEF Typed, Within, RunRecords
<1>7. Typed(done, kids)
  BY <1>6, TypedWithin
<1>8. Typed(found, kids)
  BY <1>3, <1>7, SourceTyped
<1>9. "Fix" \in Stages /\ "Review" \in Stages /\ "AwaitingLimit" \in Modes
  BY DEF Stages, Modes, Waits
<1>10. CASE Put(Await(found, "AwaitingLimit", "Review"), kids)
  BY <1>8, <1>9, <1>10, AwaitTyped DEF Put
<1>. QED
  BY <1>4, <1>7, <1>8, <1>9, <1>10, FinalizeTyped, AdvanceTyped

LEMMA CloseIfLastTyped ==
  ASSUME NEW r, NEW kids, Typed(r, kids), code \in 1..MaxCode, CloseIfLast(r, kids)
  PROVE  Typed(run', children')
  BY MergeReviewsTyped DEF CloseIfLast, Put

LEMMA LeavesTyped ==
  ASSUME NEW r, NEW kids, Typed(r, kids), NEW c
  PROVE  /\ Typed(Leaves(r, c), kids)
         /\ Typed([Leaves(r, c) EXCEPT !.reasked = @ \ {c}], kids)
<1>1. PICK x : x = [r EXCEPT !.pending = r.pending \ {c}, !.active = r.active \ {c}]
  OBVIOUS
<1>2. PICK y : y = [x EXCEPT !.reasked = x.reasked \ {c}]
  OBVIOUS
<1>3. r.pending \ {c} \in SUBSET Nat /\ r.active \ {c} \in SUBSET Nat
  BY DEF Typed, RunRecords
<1>4. Within(r, x)
  BY <1>1, <1>3 DEF Typed, Within, RunRecords
<1>5. x.reasked \ {c} \in SUBSET Nat
  BY <1>4 DEF Within, RunRecords
<1>6. Within(x, y)
  BY <1>2, <1>4, <1>5 DEF Within, RunRecords
<1>7. Typed(x, kids) /\ Typed(y, kids)
  BY <1>4, <1>6, TypedWithin
<1>. QED
  BY <1>1, <1>2, <1>7 DEF Leaves

LEMMA ChildFailedTyped ==
  ASSUME NEW r, NEW kids, Typed(r, kids), code \in 1..MaxCode, NEW c \in DOMAIN kids,
         ChildFailed(r, kids, c)
  PROVE  Typed(run', children')
<1>1. kids[c].stage \in Stages /\ "Review" \in Stages
  BY ChildStage DEF Typed, Stages
<1>2. PICK left : left = [Leaves(r, c) EXCEPT !.reasked = @ \ {c}]
  OBVIOUS
<1>3. Typed(left, kids)
  BY <1>2, LeavesTyped
<1>4. \/ ParkAfterFailure(r, kids, kids[c].stage)
      \/ ParkAfterFailure(left, kids, "Review") \/ CloseIfLast(left, kids)
  BY <1>2 DEF ChildFailed
<1>. QED
  BY <1>1, <1>3, <1>4, ParkAfterFailureTyped, CloseIfLastTyped

LEMMA SoloEndedTyped ==
  ASSUME NEW r, NEW kids, Typed(r, kids), code \in 1..MaxCode, NEW c \in DOMAIN kids,
         SoloEnded(r, kids, c)
  PROVE  Typed(run', children')
<1>1. PICK stage \in Stages : stage = kids[c].stage
  BY ChildStage DEF Typed
<1>2. PICK left : left = [r EXCEPT !.active = r.active \ {c}]
  OBVIOUS
<1>3. PICK anew : anew = [left EXCEPT !.fixBase = 0]
  OBVIOUS
<1>4. PICK a : a = Await(r, "AwaitingReply", stage)
  OBVIOUS
<1>5. PICK x : x = [a EXCEPT !.asker = c]
  OBVIOUS
<1>6. \/ Put(x, kids)
      \/ \E next \in Stages : Advance(left, kids, next) \/ Advance(anew, kids, next)
  <2>1. \A changed : stage_after(stage, r, changed) \in Stages
    BY StageAfterType
  <2>. QED
    BY <1>1, <1>2, <1>3, <1>4, <1>5, <2>1 DEF SoloEnded
<1>7. r.active \ {c} \in SUBSET Nat /\ c \in Nat /\ 0 \in 0..MaxCode
  BY KidsDomain, WorkflowAssumption DEF WorkflowAssumption, Typed, RunRecords
<1>8. Within(r, left)
  BY <1>2, <1>7 DEF Typed, Within, RunRecords
<1>9. Within(left, anew)
  BY <1>3, <1>7, <1>8 DEF Within, RunRecords
<1>10. Typed(left, kids) /\ Typed(anew, kids)
  BY <1>8, <1>9, TypedWithin
<1>11. Typed(a, kids)
  BY <1>4, AwaitTyped DEF Modes, Waits
<1>12. Within(a, x)
  BY <1>5, <1>7, <1>11 DEF Typed, Within, RunRecords
<1>13. CASE Put(x, kids)
  BY <1>11, <1>12, <1>13, TypedWithin DEF Put
<1>. QED
  BY <1>6, <1>10, <1>13, AdvanceTyped

LEMMA ReaskTyped ==
  ASSUME NEW r, NEW kids, Typed(r, kids), NEW c \in DOMAIN kids, Reask(r, kids, c)
  PROVE  Typed(run', children')
<1>1. PICK x : x = [r EXCEPT !.reasked = r.reasked \cup {c}]
  OBVIOUS
<1>2. r.reasked \cup {c} \in SUBSET Nat
  BY KidsDomain DEF Typed, RunRecords
<1>3. /\ x \in RunRecords /\ x.reasked = r.reasked \cup {c} /\ x.active = r.active
      /\ x.pending = r.pending /\ x.prior = r.prior
  BY <1>1, <1>2 DEF Typed, RunRecords
<1>4. Typed(x, kids)
  BY <1>3 DEF Typed
<1>5. Kin(kids, Prompted(kids, {c}))
  BY KinPrompted DEF Typed
<1>. QED
  BY <1>1, <1>4, <1>5, TypedKin DEF Reask, Put

LEMMA ReviewEndedTyped ==
  ASSUME NEW r, NEW kids, Typed(r, kids), code \in 1..MaxCode, NEW c \in DOMAIN kids,
         kids[c].stage = "Review", ReviewEnded(r, kids, c)
  PROVE  Typed(run', children')
<1>1. PICK l : l = Leaves(r, c)
  OBVIOUS
<1>2. PICK left : left = [Leaves(r, c) EXCEPT !.reasked = @ \ {c}]
  OBVIOUS
<1>3. Typed(l, kids) /\ Typed(left, kids)
  BY <1>1, <1>2, LeavesTyped
<1>4. \/ Put(r, kids) \/ Reask(r, kids, c)
      \/ \E v \in Verdicts : CloseIfLast([l EXCEPT !.votes[kids[c].seat] = v], kids)
      \/ Finalize(left, kids, "Failed") \/ CloseIfLast(left, kids)
  BY <1>1, <1>2 DEF ReviewEnded
<1>5. ASSUME NEW v \in Verdicts, CloseIfLast([l EXCEPT !.votes[kids[c].seat] = v], kids)
      PROVE  Typed(run', children')
  <2>1. PICK votes : votes = [l.votes EXCEPT ![kids[c].seat] = v]
    OBVIOUS
  <2>2. PICK x : x = [l EXCEPT !.votes = votes]
    OBVIOUS
  <2>3. kids[c].seat \in Reviewers /\ l.votes \in [Reviewers -> Verdicts \cup {"none"}]
    BY <1>3 DEF Typed, KidsOK, RunRecords
  <2>4. votes \in [Reviewers -> Verdicts \cup {"none"}]
    BY <2>1, <2>3
  <2>5. Within(l, x)
    BY <1>3, <2>2, <2>4 DEF Typed, Within, RunRecords
  <2>6. Typed(x, kids)
    BY <1>3, <2>5, TypedWithin
  <2>7. CloseIfLast(x, kids)
    BY <1>5, <2>1, <2>2
  <2>. QED
    BY <2>6, <2>7, CloseIfLastTyped
<1>. QED
  BY <1>3, <1>4, <1>5, ReaskTyped, FinalizeTyped, CloseIfLastTyped DEF Put

LEMMA VerifyReportedTyped ==
  ASSUME NEW r, NEW kids, Typed(r, kids), code \in 1..MaxCode, NEW c, NEW verdict,
         VerifyReported(r, kids, c, verdict)
  PROVE  Typed(run', children')
<1>1. PICK left : left = [r EXCEPT !.reasked = r.reasked \ {c}, !.active = r.active \ {c}]
  OBVIOUS
<1>2. PICK well : well = [left EXCEPT !.failures = 0, !.vextra = 0]
  OBVIOUS
<1>3. PICK worse : worse = [left EXCEPT !.failures = left.failures + 1, !.source = "Verify"]
  OBVIOUS
<1>4. \E x \in {left, well, worse} : RouteVerify(x, kids, verdict)
  BY <1>1, <1>2, <1>3 DEF VerifyReported
<1>5. r.reasked \ {c} \in SUBSET Nat /\ r.active \ {c} \in SUBSET Nat
  BY DEF Typed, RunRecords
<1>6. Within(r, left)
  BY <1>1, <1>5 DEF Typed, Within, RunRecords
<1>7. left.failures + 1 \in Nat
  BY <1>6 DEF Within, RunRecords
<1>8. Within(left, well) /\ Within(left, worse)
  BY <1>2, <1>3, <1>6, <1>7 DEF Within, RunRecords
<1>9. Typed(left, kids) /\ Typed(well, kids) /\ Typed(worse, kids)
  BY <1>6, <1>8, TypedWithin
<1>. QED
  BY <1>4, <1>9, RouteVerifyTyped

LEMMA VerifyEndedTyped ==
  ASSUME NEW r, NEW kids, Typed(r, kids), code \in 1..MaxCode, NEW c \in DOMAIN kids,
         VerifyEnded(r, kids, c)
  PROVE  Typed(run', children')
  BY ReaskTyped, VerifyReportedTyped DEF VerifyEnded

LEMMA StageFinishedTyped ==
  ASSUME NEW kids, Typed(run, kids), code \in 1..MaxCode, NEW c \in DOMAIN kids, NEW success,
         StageFinished(kids, c, success)
  PROVE  Typed(run', children')
<1>1. \/ Put(run, kids) \/ ChildFailed(run, kids, c)
      \/ kids[c].stage = "Review" /\ ReviewEnded(run, kids, c)
      \/ VerifyEnded(run, kids, c) \/ SoloEnded(run, kids, c)
  BY DEF StageFinished
<1>. QED
  BY <1>1, ChildFailedTyped, ReviewEndedTyped, VerifyEndedTyped, SoloEndedTyped DEF Put

-----------------------------------------------------------------------------
(* The actions keep the types. *)

LEMMA CreateTyped ==
  ASSUME Typed(run, children), code \in 1..MaxCode, Create
  PROVE  Typed(run', children')
<1>1. PICK x : x = [run EXCEPT !.mode = "Running", !.starting = TRUE]
  OBVIOUS
<1>2. PICK y : y = [run EXCEPT !.mode = "Running"]
  OBVIOUS
<1>3. Put(x, children) \/ SpawnStage(y, children, first_stage)
  BY <1>1, <1>2 DEF Create
<1>4. Within(run, x) /\ Within(run, y)
  BY <1>1, <1>2 DEF Typed, Within, RunRecords, Modes
<1>5. Typed(x, children) /\ Typed(y, children)
  BY <1>4, TypedWithin
<1>6. first_stage \in Stages
  BY DEF first_stage, Stages
<1>. QED
  BY <1>3, <1>5, <1>6, SpawnStageTyped DEF Put

LEMMA CheckoutLandsTyped ==
  ASSUME Typed(run, children), code \in 1..MaxCode, CheckoutLands
  PROVE  Typed(run', children')
<1>1. PICK x : x = [run EXCEPT !.starting = FALSE]
  OBVIOUS
<1>2. \/ SpawnStage(x, children, first_stage) \/ Put(run, children)
      \/ Finalize(x, children, "Failed")
  BY <1>1 DEF CheckoutLands
<1>3. Within(run, x)
  BY <1>1 DEF Typed, Within, RunRecords
<1>4. Typed(x, children)
  BY <1>3, TypedWithin
<1>5. first_stage \in Stages
  BY DEF first_stage, Stages
<1>. QED
  BY <1>2, <1>4, <1>5, SpawnStageTyped, FinalizeTyped DEF Put

LEMMA SessionTyped ==
  ASSUME Typed(run, children), KidsOK(children'), NEW c \in DOMAIN children,
         EndsTurn(c) \/ Dies(c) \/ Chats(c)
  PROVE  Typed(run', children')
<1>1. DOMAIN children' = DOMAIN children /\ run' = run
  BY DEF EndsTurn, Dies, Chats
<1>. QED
  BY <1>1, TypedMore

LEMMA ReportTyped ==
  ASSUME Typed(run, children), code \in 1..MaxCode, NEW c \in DOMAIN children,
         SeesTurnEnded(c) \/ SeesError(c) \/ CancelChild(c)
  PROVE  Typed(run', children')
<1>1. KidsOK(children) /\ children[c] \in ChildRecords
  BY DEF Typed, KidsOK
<1>2. PICK kid, success :
        /\ kid \in ChildRecords
        /\ kid.stage = children[c].stage /\ kid.seat = children[c].seat
        /\ kid.alive => children[c].alive
        /\ StageFinished([children EXCEPT ![c] = kid], c, success)
  BY <1>1, ReportedKid
<1>3. PICK all : all = [children EXCEPT ![c] = kid]
  OBVIOUS
<1>4. Kin(children, all) /\ c \in DOMAIN all
  BY <1>1, <1>2, <1>3, TouchedFacts DEF Touched
<1>5. Typed(run, all)
  BY <1>4, TypedKin
<1>. QED
  BY <1>2, <1>3, <1>4, <1>5, StageFinishedTyped

LEMMA UserTyped ==
  ASSUME Typed(run, children), code \in 1..MaxCode,
         StopRun \/ workflow_pause \/ workflow_resume \/ workflow_reply
  PROVE  Typed(run', children')
<1>0. run \in RunRecords /\ run.stage \in Stages
  BY DEF Typed, RunRecords
<1>1. CASE StopRun
  BY <1>1, FinalizeTyped DEF StopRun
<1>2. CASE workflow_pause
  <2>1. PICK x : x = [run EXCEPT !.pause = TRUE]
    OBVIOUS
  <2>2. Within(run, x)
    BY <1>0, <2>1 DEF Within, RunRecords
  <2>. QED
    BY <1>2, <2>1, <2>2, TypedWithin DEF workflow_pause, Put
<1>3. CASE workflow_resume
  <2>1. PICK note \in {"note", run.note} :
          SpawnStage([run EXCEPT !.pause = FALSE, !.note = note], children, run.stage)
    BY <1>3 DEF workflow_resume
  <2>2. PICK x : x = [run EXCEPT !.pause = FALSE, !.note = note]
    OBVIOUS
  <2>3. Within(run, x)
    BY <1>0, <2>1, <2>2 DEF Within, RunRecords
  <2>4. Typed(x, children)
    BY <2>3, TypedWithin
  <2>. QED
    BY <1>0, <2>1, <2>2, <2>4, SpawnStageTyped
<1>4. CASE workflow_reply
  <2>1. PICK e : e = Enter(run, "Running", run.stage)
    OBVIOUS
  <2>2. PICK x : x = [run EXCEPT !.active = run.active \ {run.asker}, !.note = "answer"]
    OBVIOUS
  <2>3. \/ Put(e, Prompted(children, {run.asker}))
        \/ SpawnStage(x, children, run.stage)
    BY <1>4, <2>1, <2>2 DEF workflow_reply
  <2>4. Typed(e, children)
    BY <1>0, <2>1, EnterTyped DEF Modes
  <2>5. Typed(e, Prompted(children, {run.asker}))
    <3>1. Kin(children, Prompted(children, {run.asker}))
      BY KinPrompted DEF Typed
    <3>. QED
      BY <2>4, <3>1, TypedKin
  <2>6. run.active \ {run.asker} \in SUBSET Nat
    BY <1>0 DEF RunRecords
  <2>7. Within(run, x)
    BY <1>0, <2>2, <2>6 DEF Within, RunRecords
  <2>8. Typed(x, children)
    BY <2>7, TypedWithin
  <2>. QED
    BY <1>0, <2>3, <2>5, <2>8, SpawnStageTyped DEF Put
<1>. QED
  BY <1>1, <1>2, <1>3, <1>4

LEMMA GrantedType ==
  ASSUME NEW n \in Asked
  PROVE  Granted(n) \in Nat
  BY WorkflowAssumption DEF WorkflowAssumption, Granted

LEMMA ExtendedTyped ==
  ASSUME Typed(run, children), NEW note \in {"none", "note"}
  PROVE  Typed(Extended(run, note), children)
<1>1. PICK x : x = [run EXCEPT !.note = note, !.pause = FALSE]
  OBVIOUS
<1>2. Within(run, x)
  BY <1>1 DEF Typed, Within, RunRecords
<1>. QED
  BY <1>1, <1>2, TypedWithin DEF Extended

LEMMA DecideTyped ==
  ASSUME Typed(run, children), code \in 1..MaxCode, DecideLimit \/ DecideVerify
  PROVE  Typed(run', children')
<1>1. PICK cleared : cleared = Cleared(run)
  OBVIOUS
<1>2. \/ \E n \in Asked, note \in {"none", "note"} :
           \/ Advance(Extended(run, note), children, "Verify")
           \/ Advance([Extended(run, note) EXCEPT !.extra = @ + Granted(n)], children, "Fix")
           \/ Advance([Extended(run, note) EXCEPT !.vextra = @ + Granted(n)], children, "Fix")
      \/ Advance([cleared EXCEPT !.source = "Review"], children, "Review")
      \/ Finalize(run, children, "Done")
  <2>1. CASE DecideLimit
    BY <2>1 DEF DecideLimit
  <2>2. CASE DecideVerify
    BY <1>1, <2>2 DEF DecideVerify
  <2>. QED
    BY <2>1, <2>2
<1>3. {"Verify", "Fix", "Review"} \subseteq Stages
  BY DEF Stages
<1>4. ASSUME NEW n \in Asked, NEW note \in {"none", "note"},
             \/ Advance(Extended(run, note), children, "Verify")
             \/ Advance([Extended(run, note) EXCEPT !.extra = @ + Granted(n)], children, "Fix")
             \/ Advance([Extended(run, note) EXCEPT !.vextra = @ + Granted(n)], children, "Fix")
      PROVE  Typed(run', children')
  <2>1. PICK x : x = Extended(run, note)
    OBVIOUS
  <2>2. PICK y : y = [x EXCEPT !.extra = x.extra + Granted(n)]
    OBVIOUS
  <2>3. PICK z : z = [x EXCEPT !.vextra = x.vextra + Granted(n)]
    OBVIOUS
  <2>4. \E stage \in {"Verify", "Fix"}, w \in {x, y, z} : Advance(w, children, stage)
    BY <1>4, <2>1, <2>2, <2>3
  <2>5. Typed(x, children)
    BY <2>1, ExtendedTyped
  <2>6. x.extra + Granted(n) \in Nat /\ x.vextra + Granted(n) \in Nat
    <3>1. x.extra \in Nat /\ x.vextra \in Nat
      BY <2>5 DEF Typed, RunRecords
    <3>2. Granted(n) \in Nat
      BY GrantedType
    <3>. QED
      BY <3>1, <3>2
  <2>7. Within(x, y) /\ Within(x, z)
    BY <2>2, <2>3, <2>5, <2>6 DEF Typed, Within, RunRecords
  <2>8. Typed(y, children) /\ Typed(z, children)
    BY <2>5, <2>7, TypedWithin
  <2>. QED
    BY <1>3, <2>4, <2>5, <2>8, AdvanceTyped
<1>5. Typed([cleared EXCEPT !.source = "Review"], children)
  BY <1>1, ClearedTyped, SourceTyped
<1>. QED
  BY <1>2, <1>3, <1>4, <1>5, AdvanceTyped, FinalizeTyped

LEMMA RestartTyped ==
  ASSUME Typed(run, children), KidsOK(children'), Restart
  PROVE  Typed(run', children')
<1>1. PICK lost : lost = [run EXCEPT !.mode = "Lost", !.starting = FALSE]
  OBVIOUS
<1>2. PICK e : e = Enter(run, "Paused", run.stage)
  OBVIOUS
<1>3. PICK n : n = IF run.stage = "Review" /\ e.round > 0 THEN e.round - 1 ELSE e.round
  OBVIOUS
<1>4. PICK back : back = [e EXCEPT !.active = {}, !.pending = {}, !.votes = NoVotes,
                                   !.note = "restart", !.starting = FALSE, !.round = n]
  OBVIOUS
<1>5. run' \in {lost, back, run}
  BY <1>1, <1>2, <1>3, <1>4 DEF Restart
<1>6. run \in RunRecords /\ run.stage \in Stages
  BY DEF Typed, RunRecords
<1>7. Typed(e, children)
  BY <1>2, <1>6, EnterTyped DEF Modes
<1>8. n \in Nat /\ NoVotes \in [Reviewers -> Verdicts \cup {"none"}]
  <2>1. e.round \in Nat
    BY <1>7 DEF Typed, RunRecords
  <2>. QED
    BY <1>3, <2>1 DEF NoVotes
<1>9. Within(e, back)
  BY <1>4, <1>7, <1>8 DEF Typed, Within, RunRecords
<1>10. Within(run, lost)
  BY <1>1, <1>6 DEF Within, RunRecords, Modes
<1>11. Typed(run', children)
  BY <1>5, <1>7, <1>9, <1>10, TypedWithin
<1>12. DOMAIN children' = DOMAIN children
  BY DEF Restart
<1>. QED
  BY <1>11, <1>12, TypedMore

(* The inductive invariant behind TypeOK: a good run, typed. *)
TInv ==
  /\ Inv /\ Typed(run, children)
  /\ spec \in Specs /\ checkout \in {"none", "running", "ready"}
  /\ code \in 1..MaxCode /\ used \in 0..MaxEvents

LEMMA InitTInv == Init => TInv
<1>. SUFFICES ASSUME Init PROVE TInv
  OBVIOUS
<1>1. KidsOK(children) /\ Inv
  BY InitInv DEF Inv, Good, Fit
<1>2. run = NewRun /\ children = <<>>
  BY DEF Init
<1>3. NoVotes \in [Reviewers -> Verdicts \cup {"none"}] /\ 0 \in 0..MaxCode
  BY WorkflowAssumption DEF WorkflowAssumption, NoVotes
<1>4. PICK prior : prior = [i \in Reviewers |-> 0]
  OBVIOUS
<1>5. prior \in [Reviewers -> Nat] /\ \A i \in Reviewers : prior[i] = 0
  BY <1>4
<1>6. NewRun.prior = prior
  BY <1>4 DEF NewRun
<1>7. NewRun \in RunRecords
  BY <1>3, <1>4, <1>5 DEF NewRun, RunRecords, Modes, Stages
<1>8. NewRun.active = {} /\ NewRun.pending = {} /\ NewRun.reasked = {}
  BY DEF NewRun
<1>9. Typed(run, children)
  <2>1. Len(children) \in Nat
    BY <1>1, KidsDomain
  <2>. QED
    BY <1>1, <1>2, <1>5, <1>6, <1>7, <1>8, <2>1 DEF Typed
<1>. QED
  BY <1>1, <1>9, WorkflowAssumption DEF TInv, Init, WorkflowAssumption

LEMMA NextTyped == TInv /\ [Next]_vars => Typed(run', children')
<1>. SUFFICES ASSUME TInv, [Next]_vars PROVE Typed(run', children')
  OBVIOUS
<1>1. Typed(run, children) /\ code \in 1..MaxCode
  BY DEF TInv
<1>2. KidsOK(children')
  BY NextGood DEF TInv, Good, Fit
<1>3. CASE Create
  BY <1>1, <1>3, CreateTyped
<1>4. CASE CheckoutLands
  BY <1>1, <1>4, CheckoutLandsTyped
<1>5. ASSUME NEW c \in DOMAIN children, EndsTurn(c) \/ Dies(c) \/ Chats(c)
      PROVE  Typed(run', children')
  BY <1>1, <1>2, <1>5, SessionTyped
<1>6. ASSUME NEW c \in DOMAIN children, Edits(c)
      PROVE  Typed(run', children')
  BY <1>1, <1>6 DEF Edits
<1>7. ASSUME NEW c \in DOMAIN children, SeesTurnEnded(c) \/ SeesError(c) \/ CancelChild(c)
      PROVE  Typed(run', children')
  BY <1>1, <1>7, ReportTyped
<1>8. CASE StopRun \/ workflow_pause \/ workflow_resume \/ workflow_reply
  BY <1>1, <1>8, UserTyped
<1>9. CASE DecideLimit \/ DecideVerify
  BY <1>1, <1>9, DecideTyped
<1>10. CASE Restart
  BY <1>1, <1>2, <1>10, RestartTyped
<1>11. CASE UNCHANGED vars
  BY <1>1, <1>11 DEF vars
<1>. QED
  BY <1>3, <1>4, <1>5, <1>6, <1>7, <1>8, <1>9, <1>10, <1>11 DEF Next, Actor

(* What the run does not hold: the workflow, the checkout, the working     *)
(* copy and the bound.                                                     *)
LEMMA NextRest ==
  TInv /\ [Next]_vars =>
    /\ spec' = spec /\ checkout' \in {"none", "running", "ready"}
    /\ code' \in 1..MaxCode /\ used' \in 0..MaxEvents
<1>. SUFFICES ASSUME TInv, [Next]_vars
              PROVE  /\ spec' = spec /\ checkout' \in {"none", "running", "ready"}
                     /\ code' \in 1..MaxCode /\ used' \in 0..MaxEvents
  OBVIOUS
<1>1. /\ checkout \in {"none", "running", "ready"}
      /\ code \in 1..MaxCode /\ used \in 0..MaxEvents /\ MaxCode \in Nat /\ MaxEvents \in Nat
  BY WorkflowAssumption DEF TInv, WorkflowAssumption
<1>2. spec' = spec
  BY NextGood DEF TInv
<1>3. checkout' \in {"none", "running", "ready"}
  BY <1>1 DEF Next, Create, CheckoutLands, EndsTurn, Edits, Dies, Actor, SeesTurnEnded,
              SeesError, Chats, CancelChild, StopRun, workflow_pause, workflow_resume,
              workflow_reply, DecideLimit, DecideVerify, Restart, vars
<1>4. code' = code \/ (code < MaxCode /\ code' = code + 1)
  BY DEF Next, Create, CheckoutLands, EndsTurn, Edits, Dies, Actor, SeesTurnEnded,
         SeesError, Chats, CancelChild, StopRun, workflow_pause, workflow_resume,
         workflow_reply, DecideLimit, DecideVerify, Restart, vars
<1>5. used' = used \/ Spend
  BY DEF Next, Create, CheckoutLands, EndsTurn, Edits, Dies, Actor, SeesTurnEnded,
         SeesError, Chats, CancelChild, StopRun, workflow_pause, workflow_resume,
         workflow_reply, DecideLimit, DecideVerify, Restart, vars
<1>6. code' \in 1..MaxCode
  BY <1>1, <1>4
<1>7. used' \in 0..MaxEvents
  BY <1>1, <1>5 DEF Spend
<1>. QED
  BY <1>2, <1>3, <1>6, <1>7

LEMMA NextTInv == TInv /\ [Next]_vars => TInv'
<1>. SUFFICES ASSUME TInv, [Next]_vars PROVE TInv'
  OBVIOUS
<1>1. Inv' /\ spec' \in Specs
  BY NextInv, NextRest DEF TInv
<1>2. Typed(run', children')
  BY NextTyped
<1>3. /\ checkout' \in {"none", "running", "ready"}
      /\ code' \in 1..MaxCode /\ used' \in 0..MaxEvents
  BY NextRest
<1>. QED
  BY <1>1, <1>2, <1>3 DEF TInv, Typed, KidsOK

(* Every field has its type, and a run names no child it has not got: not  *)
(* one at work, awaited, asked again, or kept for a reviewer's next round. *)
THEOREM WorkflowTypes == Spec => []TypeOK
<1>1. TInv => TypeOK
  <2>. SUFFICES ASSUME TInv PROVE TypeOK
    OBVIOUS
  <2>1. children \in Seq(ChildRecords) /\ DOMAIN children = 1..Len(children)
    BY KidsDomain DEF TInv, Typed
  <2>2. run.mode = "AwaitingReply" => run.asker \in DOMAIN children
    BY DEF TInv, Inv, Good, Staffed
  <2>. QED
    BY <2>1, <2>2 DEF TInv, Typed, TypeOK
<1>. QED
  BY <1>1, InitTInv, NextTInv, PTL DEF Spec

==============================================================================
