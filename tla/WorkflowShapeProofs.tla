------------------------- MODULE WorkflowShapeProofs -------------------------
(* What a step of a pipeline may do, for any instance: WorkflowRun          *)
(* implements PipelineShape, keeps a pause request, and shows reviewers     *)
(* cleared code.                                                            *)
EXTENDS WorkflowRunProofs

(* r was to come to stage `to`, and is r2 now: there, parked before it, or *)
(* failed - or, past a verify stage no agent may take and that may be      *)
(* waived, in review.  A review that runs has spent its round.             *)
Went(r, to, r2) ==
  /\ ~r2.starting /\ r2.extra = r.extra
  /\ r2.mode \in {"Running", "Paused", "AwaitingVerify", "Failed"}
  /\ r2.mode # "Paused" => r2.pause = r.pause
  /\ r2.mode # "Failed" =>
       \/ r2.stage = to
       \/ to = "Verify" /\ ~spec.required /\ r2.stage = "Review"
  /\ \/ r2.round = r.round
     \/ r2.round = r.round + 1 /\ r2.mode = "Running" /\ r2.stage = "Review"

(* Between two stages: what starts a stage is given. *)
Idle(r) == Keyed(r) /\ ~r.starting

LEMMA EnterKeeps ==
  ASSUME NEW r, Keyed(r), NEW mode, NEW stage
  PROVE  LET e == Enter(r, mode, stage) IN
         /\ Keyed(e) /\ e.mode = mode /\ e.stage = stage
         /\ e.starting = r.starting /\ e.extra = r.extra
         /\ e.pause = r.pause /\ e.round = r.round
  BY DEF Enter, Keyed

LEMMA AwaitKeeps ==
  ASSUME NEW r, Keyed(r), NEW mode, NEW stage
  PROVE  LET a == Await(r, mode, stage) IN
         /\ Keyed(a) /\ a.mode = mode /\ a.stage = stage
         /\ a.starting = r.starting /\ a.extra = r.extra
         /\ a.pause = r.pause /\ a.round = r.round
<1>. DEFINE e == Enter(r, mode, stage)
<1>1. /\ Keyed(e) /\ e.mode = mode /\ e.stage = stage
      /\ e.starting = r.starting /\ e.extra = r.extra
      /\ e.pause = r.pause /\ e.round = r.round
  BY EnterKeeps
<1>2. Await(r, mode, stage) = [e EXCEPT !.barrier = r.seq + 1, !.seq = r.seq + 1]
  BY DEF Await, next_barrier_id
<1>. HIDE DEF e
<1>. QED
  BY <1>1, <1>2 DEF Keyed

LEMMA ParkedWent ==
  ASSUME NEW r, Idle(r), NEW stage, NEW kids, Put(Parked(r, stage), kids)
  PROVE  Went(r, stage, run') /\ run'.mode = "Paused"
<1>. DEFINE e == Enter(r, "Paused", stage)
            p == [e EXCEPT !.pause = FALSE]
<1>1. /\ Keyed(e) /\ e.mode = "Paused" /\ e.stage = stage
      /\ e.starting = r.starting /\ e.extra = r.extra /\ e.round = r.round
  BY EnterKeeps DEF Idle
<1>2. run' = p
  BY DEF Put, Parked
<1>. HIDE DEF e
<1>3. /\ p.mode = "Paused" /\ p.stage = stage
      /\ p.starting = r.starting /\ p.extra = r.extra /\ p.round = r.round
  BY <1>1 DEF Keyed
<1>. HIDE DEF p
<1>. QED
  BY <1>2, <1>3 DEF Went, Idle

LEMMA FinalizeKeeps ==
  ASSUME NEW r, Keyed(r), NEW kids, NEW mode, Finalize(r, kids, mode)
  PROVE  /\ run'.mode = mode /\ run'.stage = r.stage /\ ~run'.starting
         /\ run'.extra = r.extra /\ run'.pause = r.pause /\ run'.round = r.round
<1>. DEFINE e == Enter(r, mode, r.stage)
            f == [e EXCEPT !.active = {}, !.pending = {}, !.starting = FALSE]
<1>1. /\ Keyed(e) /\ e.mode = mode /\ e.stage = r.stage
      /\ e.extra = r.extra /\ e.pause = r.pause /\ e.round = r.round
  BY EnterKeeps
<1>2. run' = f
  BY DEF Finalize, Put
<1>. HIDE DEF e
<1>3. /\ f.mode = mode /\ f.stage = r.stage /\ ~f.starting
      /\ f.extra = r.extra /\ f.pause = r.pause /\ f.round = r.round
  BY <1>1 DEF Keyed
<1>. QED
  BY <1>2, <1>3

LEMMA SpawnSoloWent ==
  ASSUME NEW r, Idle(r), NEW kids, NEW stage, SpawnSolo(r, kids, stage)
  PROVE  Went(r, stage, run')
<1>1. PICK started \in Starts, base \in FixBases(r, stage) :
        LET new == [Enter(r, "Running", stage) EXCEPT
                      !.note = "none", !.fixBase = base,
                      !.blind = @ \/ (stage = "Fix" /\ base = 0)]
            all == Append(kids, Child(stage, 0, started))
        IN IF started
           THEN Put([new EXCEPT !.active = @ \cup {Len(all)}], all)
           ELSE Finalize(new, all, "Failed")
  BY DEF SpawnSolo
<1>. DEFINE e == Enter(r, "Running", stage)
            new == [e EXCEPT !.note = "none", !.fixBase = base,
                             !.blind = @ \/ (stage = "Fix" /\ base = 0)]
            all == Append(kids, Child(stage, 0, started))
            next == [new EXCEPT !.active = @ \cup {Len(all)}]
<1>2. /\ Keyed(e) /\ e.mode = "Running" /\ e.stage = stage
      /\ e.starting = r.starting /\ e.extra = r.extra
      /\ e.pause = r.pause /\ e.round = r.round
  BY EnterKeeps DEF Idle
<1>. HIDE DEF e, all
<1>3. /\ Keyed(new) /\ new.mode = "Running" /\ new.stage = stage
      /\ new.starting = r.starting /\ new.extra = r.extra
      /\ new.pause = r.pause /\ new.round = r.round
  BY <1>2 DEF Keyed
<1>. HIDE DEF new
<1>4. CASE started
  <2>1. /\ next.mode = "Running" /\ next.stage = stage
        /\ next.starting = r.starting /\ next.extra = r.extra
        /\ next.pause = r.pause /\ next.round = r.round
    BY <1>3 DEF Keyed
  <2>2. run' = next
    BY <1>1, <1>4 DEF Put, next, new, e, all
  <2>. HIDE DEF next
  <2>. QED
    BY <2>1, <2>2 DEF Went, Idle
<1>5. CASE ~started
  <2>1. Finalize(new, all, "Failed")
    BY <1>1, <1>5 DEF new, e, all
  <2>. QED
    BY <1>3, <2>1, FinalizeKeeps DEF Went
<1>. QED
  BY <1>4, <1>5

LEMMA SpawnReviewWent ==
  ASSUME NEW r, Idle(r), NEW kids, SpawnReview(r, kids)
  PROVE  Went(r, "Review", run')
<1>. DEFINE e == Enter(r, "Running", "Review")
<1>1. PICK staff, prior :
        run' = [e EXCEPT !.round = @ + 1, !.pending = staff, !.active = @ \cup staff,
                         !.votes = NoVotes, !.reasked = {}, !.prior = prior]
  BY DEF SpawnReview, Put
<1>2. /\ Keyed(e) /\ e.mode = "Running" /\ e.stage = "Review"
      /\ e.starting = r.starting /\ e.extra = r.extra
      /\ e.pause = r.pause /\ e.round = r.round
  BY EnterKeeps DEF Idle
<1>. HIDE DEF e
<1>. DEFINE x == [e EXCEPT !.round = @ + 1, !.pending = staff, !.active = @ \cup staff,
                           !.votes = NoVotes, !.reasked = {}, !.prior = prior]
<1>3. /\ x.mode = "Running" /\ x.stage = "Review"
      /\ x.starting = r.starting /\ x.extra = r.extra
      /\ x.pause = r.pause /\ x.round = r.round + 1
  BY <1>2 DEF Keyed
<1>4. run' = x
  BY <1>1
<1>. HIDE DEF x
<1>. QED
  BY <1>3, <1>4 DEF Went, Idle

(* Went asks only for these of what r was. *)
LEMMA WentSame ==
  ASSUME NEW r, NEW x, x.extra = r.extra, x.pause = r.pause, x.round = r.round,
         NEW to, NEW r2, Went(x, to, r2)
  PROVE  Went(r, to, r2)
  BY DEF Went

LEMMA SpawnWorkWent ==
  ASSUME NEW r, Idle(r), NEW kids, NEW stage, SpawnWork(r, kids, stage)
  PROVE  Went(r, stage, run')
<1>1. CASE Refused(r, kids, stage)
  BY <1>1, ParkedWent DEF Refused
<1>2. CASE stage = "Review" /\ SpawnReview(r, kids)
  BY <1>2, SpawnReviewWent
<1>3. CASE SpawnSolo(r, kids, stage)
  BY <1>3, SpawnSoloWent
<1>. QED
  BY <1>1, <1>2, <1>3 DEF SpawnWork

LEMMA AdvanceToWorkWent ==
  ASSUME NEW r, Idle(r), NEW kids, NEW stage, AdvanceToWork(r, kids, stage)
  PROVE  Went(r, stage, run') /\ (r.pause => run'.mode = "Paused")
<1>1. CASE r.pause
  BY <1>1, ParkedWent DEF AdvanceToWork
<1>2. CASE ~r.pause
  BY <1>2, SpawnWorkWent DEF AdvanceToWork
<1>. QED
  BY <1>1, <1>2

(* Where a verdict leads, and nowhere else without an agent. *)
LEMMA RouteVerifyWent ==
  ASSUME NEW r, Idle(r), NEW kids, NEW verdict, RouteVerify(r, kids, verdict)
  PROVE  /\ Went(r, "Verify", run') \/ Went(r, "Fix", run') \/ Went(r, "Review", run')
         /\ verdict = "blocked" => Went(r, "Verify", run')
         /\ r.pause => \/ run'.mode = "Paused"
                       \/ run'.mode = "AwaitingVerify" /\ run'.stage = "Verify"
<1>. DEFINE wait == Await(r, "AwaitingVerify", "Verify")
            held == [wait EXCEPT !.blocked = verdict = "blocked"]
            cleared == Cleared(r)
            excused == [Excused(r) EXCEPT !.source = "Review"]
<1>1. \/ verdict = "pass" /\ AdvanceToWork(cleared, kids, "Review")
      \/ verdict = "fail" /\ AdvanceToWork(r, kids, "Fix")
      \/ Put(held, kids)
      \/ ~spec.required /\ AdvanceToWork(excused, kids, "Review")
  BY DEF RouteVerify
<1>2. /\ Idle(cleared) /\ cleared.extra = r.extra /\ cleared.pause = r.pause
      /\ cleared.round = r.round
  BY DEF Cleared, Idle, Keyed
<1>3. /\ Idle(excused) /\ excused.extra = r.extra /\ excused.pause = r.pause
      /\ excused.round = r.round
  <2>. DEFINE x == Excused(r)
  <2>1. /\ Idle(x) /\ x.extra = r.extra /\ x.pause = r.pause /\ x.round = r.round
    BY <1>2 DEF Excused
  <2>2. excused = [x EXCEPT !.source = "Review"]
    OBVIOUS
  <2>. HIDE DEF x, excused
  <2>. QED
    BY <2>1, <2>2 DEF Idle, Keyed
<1>4. CASE verdict = "pass" /\ AdvanceToWork(cleared, kids, "Review")
  <2>. HIDE DEF cleared
  <2>1. Went(cleared, "Review", run') /\ (cleared.pause => run'.mode = "Paused")
    BY <1>2, <1>4, AdvanceToWorkWent
  <2>. QED
    BY <1>2, <1>4, <2>1, WentSame
<1>5. CASE verdict = "fail" /\ AdvanceToWork(r, kids, "Fix")
  BY <1>5, AdvanceToWorkWent
<1>6. CASE Put(held, kids)
  <2>1. /\ Keyed(wait) /\ wait.mode = "AwaitingVerify" /\ wait.stage = "Verify"
        /\ wait.starting = r.starting /\ wait.extra = r.extra
        /\ wait.pause = r.pause /\ wait.round = r.round
    BY AwaitKeeps DEF Idle
  <2>. HIDE DEF wait
  <2>2. /\ held.mode = "AwaitingVerify" /\ held.stage = "Verify"
        /\ held.starting = r.starting /\ held.extra = r.extra
        /\ held.pause = r.pause /\ held.round = r.round
    BY <2>1 DEF Keyed
  <2>3. run' = held
    BY <1>6 DEF Put
  <2>. HIDE DEF held
  <2>. QED
    BY <2>2, <2>3 DEF Went, Idle
<1>7. CASE ~spec.required /\ AdvanceToWork(excused, kids, "Review")
  <2>. HIDE DEF excused
  <2>1. Went(excused, "Review", run') /\ (excused.pause => run'.mode = "Paused")
    BY <1>3, <1>7, AdvanceToWorkWent
  <2>2. Went(r, "Review", run')
    BY <1>3, <2>1, WentSame
  <2>3. Went(r, "Verify", run')
    BY <1>7, <2>2 DEF Went
  <2>. QED
    BY <1>3, <2>1, <2>2, <2>3
<1>. QED
  BY <1>1, <1>4, <1>5, <1>6, <1>7

LEMMA SpawnVerifyWent ==
  ASSUME NEW r, Idle(r), NEW kids, SpawnVerify(r, kids)
  PROVE  Went(r, "Verify", run')
<1>. DEFINE e == Enter(r, "Running", "Verify")
<1>1. /\ Keyed(e) /\ e.mode = "Running" /\ e.stage = "Verify"
      /\ e.starting = r.starting /\ e.extra = r.extra
      /\ e.pause = r.pause /\ e.round = r.round
  BY EnterKeeps DEF Idle
<1>2. CASE checkout = "ready"
  <2>1. RouteVerify(e, kids, "blocked")
    BY <1>2 DEF SpawnVerify
  <2>. HIDE DEF e
  <2>2. Went(e, "Verify", run')
    BY <1>1, <2>1, RouteVerifyWent DEF Idle
  <2>. QED
    BY <1>1, <2>2, WentSame
<1>3. CASE checkout # "ready"
  <2>1. PICK started \in Starts :
          LET told == [e EXCEPT !.note = "none"]
              all == Append(kids, Child("Verify", 0, started))
          IN IF started
             THEN Put([told EXCEPT !.active = @ \cup {Len(all)}], all)
             ELSE Finalize(told, all, "Failed")
    BY <1>3 DEF SpawnVerify
  <2>. DEFINE told == [e EXCEPT !.note = "none"]
              all == Append(kids, Child("Verify", 0, started))
              next == [told EXCEPT !.active = @ \cup {Len(all)}]
  <2>. HIDE DEF e, all
  <2>2. /\ Keyed(told) /\ told.mode = "Running" /\ told.stage = "Verify"
        /\ told.starting = r.starting /\ told.extra = r.extra
        /\ told.pause = r.pause /\ told.round = r.round
    BY <1>1 DEF Keyed
  <2>. HIDE DEF told
  <2>3. CASE started
    <3>1. /\ next.mode = "Running" /\ next.stage = "Verify"
          /\ next.starting = r.starting /\ next.extra = r.extra
          /\ next.pause = r.pause /\ next.round = r.round
      BY <2>2 DEF Keyed
    <3>2. run' = next
      BY <2>1, <2>3 DEF Put, next, told, e, all
    <3>. HIDE DEF next
    <3>. QED
      BY <3>1, <3>2 DEF Went, Idle
  <2>4. CASE ~started
    <3>1. Finalize(told, all, "Failed")
      BY <2>1, <2>4 DEF told, e, all
    <3>. QED
      BY <2>2, <3>1, FinalizeKeeps DEF Went
  <2>. QED
    BY <2>3, <2>4
<1>. QED
  BY <1>2, <1>3

LEMMA SpawnStageWent ==
  ASSUME NEW r, Idle(r), NEW kids, NEW stage, SpawnStage(r, kids, stage)
  PROVE  Went(r, stage, run')
<1>1. CASE Refused(r, kids, stage)
  BY <1>1, ParkedWent DEF Refused
<1>2. CASE stage = "Verify" /\ SpawnVerify(r, kids)
  BY <1>2, SpawnVerifyWent
<1>3. CASE SpawnWork(r, kids, stage)
  BY <1>3, SpawnWorkWent
<1>. QED
  BY <1>1, <1>2, <1>3 DEF SpawnStage

LEMMA AdvanceWent ==
  ASSUME NEW r, Idle(r), NEW kids, NEW stage, Advance(r, kids, stage)
  PROVE  Went(r, stage, run') /\ (r.pause => run'.mode = "Paused")
<1>1. CASE r.pause
  BY <1>1, ParkedWent DEF Advance
<1>2. CASE ~r.pause
  BY <1>2, SpawnStageWent DEF Advance
<1>. QED
  BY <1>1, <1>2

-----------------------------------------------------------------------------
(* What a stage child's report may do to the run. *)

(* Mirrors PipelineShape: r, a run at work or waiting, is r2 now. *)
Moved(r, r2) ==
  /\ ~r2.starting /\ r2.extra = r.extra
  /\ \/ r2.mode = "Failed" /\ r2.round = r.round
     \/ /\ r2.mode = "Done" /\ r2.stage = "Review" /\ r.stage = "Review"
        /\ r2.round = r.round /\ r.round > 0
     \/ /\ r2.mode \in Waits \cup {"Running", "Paused"}
        /\ r2.stage = r.stage \/ Shape!Arrow(r.stage, r2.stage)
        /\ \/ r2.round = r.round
           \/ r2.round = r.round + 1 /\ r2.mode = "Running" /\ r2.stage = "Review"
           \/ r2.round = r.round - 1 /\ Reviewing(r) /\ r2.mode = "Paused"
  /\ r.pause => \/ r2.mode \in {"Paused", "Done", "Failed"}
                \/ r2.pause /\ r2.stage = r.stage

LEMMA WentMoved ==
  ASSUME NEW r, NEW to, NEW r2, Went(r, to, r2),
         to = r.stage \/ Shape!Arrow(r.stage, to),
         to = "Verify" => r.stage \in {"Implement", "Verify", "Fix"},
         r.pause => r2.mode = "Paused" \/ r2.stage = r.stage
  PROVE  Moved(r, r2)
  BY DEF Went, Moved, Shape!Arrow, Waits

LEMMA ParkAfterFailureMoved ==
  ASSUME NEW r, NEW kids, Idle(r), r.round \in Nat, NEW stage, r.stage = stage,
         stage = "Review" => Reviewing(r) /\ r.round > 0,
         ParkAfterFailure(r, kids, stage)
  PROVE  Moved(r, run')
<1>. DEFINE e == Enter(r, "Paused", stage)
            p == [e EXCEPT !.pause = FALSE]
            idle == [p EXCEPT !.active = {}, !.note = "lost"]
            lost == [idle EXCEPT !.pending = {}, !.votes = NoVotes, !.reasked = {},
                                 !.round = IF @ > 0 THEN @ - 1 ELSE 0]
<1>1. /\ Keyed(e) /\ e.mode = "Paused" /\ e.stage = stage
      /\ e.starting = r.starting /\ e.extra = r.extra /\ e.round = r.round
  BY EnterKeeps DEF Idle
<1>2. run' = IF stage = "Review" THEN lost ELSE idle
  BY DEF ParkAfterFailure, Put, Parked
<1>. HIDE DEF e
<1>3. /\ Keyed(idle) /\ idle.mode = "Paused" /\ idle.stage = stage
      /\ idle.starting = r.starting /\ idle.extra = r.extra /\ idle.round = r.round
  BY <1>1 DEF Keyed
<1>. HIDE DEF idle
<1>4. CASE stage = "Review"
  <2>1. /\ lost.mode = "Paused" /\ lost.stage = stage
        /\ lost.starting = r.starting /\ lost.extra = r.extra
        /\ lost.round = IF r.round > 0 THEN r.round - 1 ELSE 0
    BY <1>3 DEF Keyed
  <2>2. run' = lost
    BY <1>2, <1>4
  <2>. HIDE DEF lost
  <2>3. run'.round = r.round - 1
    BY <1>4, <2>1, <2>2
  <2>. QED
    BY <1>4, <2>1, <2>2, <2>3 DEF Moved, Idle
<1>5. CASE stage # "Review"
  BY <1>2, <1>3, <1>5 DEF Moved, Idle
<1>. QED
  BY <1>4, <1>5

(* Moved asks only for these of what r was. *)
LEMMA MovedSame ==
  ASSUME NEW r, NEW x, NEW r2, Moved(x, r2),
         x.mode = r.mode, x.stage = r.stage, x.extra = r.extra,
         x.pause = r.pause, x.round = r.round
  PROVE  Moved(r, r2)
  BY DEF Moved, Reviewing

LEMMA MergeReviewsMoved ==
  ASSUME NEW r, NEW kids, Idle(r), Reviewing(r), r.round > 0, MergeReviews(r, kids)
  PROVE  Moved(r, run')
<1>. DEFINE given == {r.votes[i] : i \in Reviewers} \ {"none"}
            done == [r EXCEPT !.votes = NoVotes, !.verdicts = IF given = {} THEN @ ELSE @ + 1]
            found == [done EXCEPT !.source = "Review"]
            wait == Await(found, "AwaitingLimit", "Review")
<1>1. \/ Finalize(done, kids, "Done")
      \/ Advance(found, kids, "Fix")
      \/ Put(wait, kids)
      \/ Finalize(found, kids, "Done")
  BY DEF MergeReviews
<1>. HIDE DEF given
<1>2. /\ Idle(done) /\ done.mode = r.mode /\ done.stage = r.stage /\ done.extra = r.extra
      /\ done.pause = r.pause /\ done.round = r.round
  BY DEF Idle, Keyed
<1>. HIDE DEF done
<1>3. /\ Idle(found) /\ found.mode = r.mode /\ found.stage = r.stage /\ found.extra = r.extra
      /\ found.pause = r.pause /\ found.round = r.round
  BY <1>2 DEF Idle, Keyed
<1>. HIDE DEF found
<1>4. r.stage = "Review"
  BY DEF Reviewing
<1>5. ASSUME NEW x, Keyed(x), x.stage = r.stage, x.extra = r.extra, x.round = r.round,
             Finalize(x, kids, "Done")
      PROVE  Moved(r, run')
  BY <1>4, <1>5, FinalizeKeeps DEF Moved
<1>6. CASE Advance(found, kids, "Fix")
  <2>1. Went(found, "Fix", run') /\ (found.pause => run'.mode = "Paused")
    BY <1>3, <1>6, AdvanceWent
  <2>2. Moved(found, run')
    BY <1>3, <1>4, <2>1, WentMoved DEF Shape!Arrow
  <2>. QED
    BY <1>3, <2>2, MovedSame
<1>7. CASE Put(wait, kids)
  <2>1. /\ wait.mode = "AwaitingLimit" /\ wait.stage = "Review"
        /\ ~wait.starting /\ wait.extra = r.extra
        /\ wait.pause = r.pause /\ wait.round = r.round
    BY <1>3, AwaitKeeps DEF Idle
  <2>. HIDE DEF wait
  <2>. QED
    BY <1>4, <1>7, <2>1 DEF Put, Moved, Idle, Waits
<1>. QED
  BY <1>1, <1>2, <1>3, <1>5, <1>6, <1>7 DEF Idle

LEMMA CloseIfLastMoved ==
  ASSUME NEW r, NEW kids, Idle(r), Reviewing(r), r.round > 0, CloseIfLast(r, kids)
  PROVE  Moved(r, run')
<1>1. CASE r.pending = {}
  BY <1>1, MergeReviewsMoved DEF CloseIfLast
<1>2. CASE r.pending # {}
  BY <1>2 DEF CloseIfLast, Put, Moved, Reviewing, Idle
<1>. QED
  BY <1>1, <1>2

LEMMA ChildFailedMoved ==
  ASSUME NEW r, NEW kids, NEW c, Heard(r, kids, c), ChildFailed(r, kids, c)
  PROVE  Moved(r, run')
<1>. DEFINE left == [Leaves(r, c) EXCEPT !.reasked = @ \ {c}]
<1>1. /\ Idle(r) /\ r.round \in Nat /\ r.stage = kids[c].stage
      /\ r.stage = "Review" => Reviewing(r) /\ r.round > 0
  BY DEF Heard, Fit, Idle, Reviewing
<1>2. CASE r.stage # "Review"
  <2>1. ParkAfterFailure(r, kids, r.stage)
    BY <1>1, <1>2 DEF ChildFailed
  <2>. QED
    BY <1>1, <1>2, <2>1, ParkAfterFailureMoved
<1>3. CASE r.stage = "Review"
  <2>1. /\ Idle(left) /\ left.mode = r.mode /\ left.stage = r.stage
        /\ left.extra = r.extra /\ left.pause = r.pause /\ left.round = r.round
    BY <1>1 DEF Idle, Keyed, Leaves
  <2>2. ParkAfterFailure(left, kids, "Review") \/ CloseIfLast(left, kids)
    BY <1>1, <1>3 DEF ChildFailed
  <2>. HIDE DEF left
  <2>3. Reviewing(left) /\ left.round \in Nat /\ left.round > 0 /\ left.stage = "Review"
    BY <1>1, <1>3, <2>1 DEF Reviewing
  <2>4. Moved(left, run')
    BY <2>1, <2>2, <2>3, ParkAfterFailureMoved, CloseIfLastMoved
  <2>. QED
    BY <2>1, <2>4, MovedSame
<1>. QED
  BY <1>2, <1>3

LEMMA SoloEndedMoved ==
  ASSUME NEW r, NEW kids, NEW c, Heard(r, kids, c), r.stage \in {"Plan", "Implement", "Fix"},
         SoloEnded(r, kids, c)
  PROVE  Moved(r, run')
<1>. DEFINE left == [r EXCEPT !.active = @ \ {c}]
            fixed == [left EXCEPT !.fixBase = 0]
            wait == Await(r, "AwaitingReply", r.stage)
            asks == [wait EXCEPT !.asker = c]
<1>1. \/ Put(asks, kids)
      \/ \E changed : Advance(left, kids, stage_after(r.stage, r, changed))
      \/ \E changed : Advance(fixed, kids, stage_after(r.stage, r, changed))
  BY DEF SoloEnded, Heard
<1>2. Idle(r)
  BY DEF Heard, Fit, Idle
<1>3. /\ Idle(left) /\ left.mode = r.mode /\ left.stage = r.stage
      /\ left.extra = r.extra /\ left.pause = r.pause /\ left.round = r.round
  BY <1>2 DEF Idle, Keyed
<1>. HIDE DEF left
<1>4. /\ Idle(fixed) /\ fixed.mode = r.mode /\ fixed.stage = r.stage
      /\ fixed.extra = r.extra /\ fixed.pause = r.pause /\ fixed.round = r.round
  BY <1>3 DEF Idle, Keyed
<1>. HIDE DEF fixed
<1>5. ASSUME NEW x, Idle(x), x.mode = r.mode, x.stage = r.stage,
             x.extra = r.extra, x.pause = r.pause, x.round = r.round,
             NEW changed, Advance(x, kids, stage_after(r.stage, r, changed))
      PROVE  Moved(r, run')
  <2>. DEFINE to == stage_after(r.stage, r, changed)
  <2>1. Shape!Arrow(x.stage, to) /\ (to = "Verify" => x.stage \in {"Implement", "Fix"})
    BY <1>5 DEF stage_after, Shape!Arrow
  <2>2. Advance(x, kids, to)
    BY <1>5
  <2>. HIDE DEF to
  <2>3. Went(x, to, run') /\ (x.pause => run'.mode = "Paused")
    BY <1>5, <2>2, AdvanceWent
  <2>4. Moved(x, run')
    BY <2>1, <2>3, WentMoved
  <2>. QED
    BY <1>5, <2>4, MovedSame
<1>6. CASE Put(asks, kids)
  <2>1. /\ Keyed(wait) /\ wait.mode = "AwaitingReply" /\ wait.stage = r.stage
        /\ wait.starting = r.starting /\ wait.extra = r.extra
        /\ wait.pause = r.pause /\ wait.round = r.round
    BY <1>2, AwaitKeeps DEF Idle
  <2>. HIDE DEF wait
  <2>2. /\ asks.mode = "AwaitingReply" /\ asks.stage = r.stage
        /\ asks.starting = r.starting /\ asks.extra = r.extra
        /\ asks.pause = r.pause /\ asks.round = r.round
    BY <2>1 DEF Keyed
  <2>. HIDE DEF asks
  <2>. QED
    BY <1>2, <1>6, <2>2 DEF Put, Moved, Idle, Waits
<1>. QED
  BY <1>1, <1>3, <1>4, <1>5, <1>6

LEMMA ReviewEndedMoved ==
  ASSUME NEW r, NEW kids, NEW c, Heard(r, kids, c), r.stage = "Review",
         ReviewEnded(r, kids, c)
  PROVE  Moved(r, run')
<1>. DEFINE voted(v) == [Leaves(r, c) EXCEPT !.votes[kids[c].seat] = v]
            left == [Leaves(r, c) EXCEPT !.reasked = @ \ {c}]
            again == [r EXCEPT !.reasked = @ \cup {c}]
<1>1. \/ \E v \in Verdicts : CloseIfLast(voted(v), kids)
      \/ run' = again
      \/ Finalize(left, kids, "Failed")
      \/ CloseIfLast(left, kids)
  <2>1. c \in r.pending
    BY DEF Heard
  <2>. QED
    BY <2>1 DEF ReviewEnded, Reask, Put
<1>2. Idle(r) /\ r.round \in Nat /\ Reviewing(r) /\ r.round > 0
  BY DEF Heard, Fit, Idle, Reviewing
<1>3. ASSUME NEW x, Idle(x), x.mode = r.mode, x.stage = r.stage,
             x.extra = r.extra, x.pause = r.pause, x.round = r.round,
             CloseIfLast(x, kids)
      PROVE  Moved(r, run')
  <2>1. Moved(x, run')
    BY <1>2, <1>3, CloseIfLastMoved DEF Reviewing
  <2>. QED
    BY <1>3, <2>1, MovedSame
<1>4. /\ Idle(left) /\ left.mode = r.mode /\ left.stage = r.stage
      /\ left.extra = r.extra /\ left.pause = r.pause /\ left.round = r.round
  BY <1>2 DEF Idle, Keyed, Leaves
<1>5. ASSUME NEW v \in Verdicts, CloseIfLast(voted(v), kids)
      PROVE  Moved(r, run')
  <2>. DEFINE x == voted(v)
  <2>1. /\ Idle(x) /\ x.mode = r.mode /\ x.stage = r.stage
        /\ x.extra = r.extra /\ x.pause = r.pause /\ x.round = r.round
    BY <1>2 DEF Idle, Keyed, Leaves
  <2>2. CloseIfLast(x, kids)
    BY <1>5
  <2>. HIDE DEF x
  <2>. QED
    BY <1>3, <2>1, <2>2
<1>6. CASE run' = again
  <2>1. /\ again.mode = r.mode /\ again.stage = r.stage /\ ~again.starting
        /\ again.extra = r.extra /\ again.pause = r.pause /\ again.round = r.round
    BY <1>2 DEF Idle, Keyed
  <2>. HIDE DEF again
  <2>. QED
    BY <1>2, <1>6, <2>1 DEF Moved, Reviewing
<1>. HIDE DEF left, voted, again
<1>7. CASE Finalize(left, kids, "Failed")
  BY <1>4, <1>7, FinalizeKeeps DEF Moved, Idle
<1>. QED
  BY <1>1, <1>3, <1>4, <1>5, <1>6, <1>7

LEMMA VerifyReportedMoved ==
  ASSUME NEW r, NEW kids, NEW c, Heard(r, kids, c), r.stage = "Verify", NEW verdict,
         VerifyReported(r, kids, c, verdict)
  PROVE  Moved(r, run')
<1>. DEFINE left == [r EXCEPT !.reasked = @ \ {c}, !.active = @ \ {c}]
            passed == [left EXCEPT !.failures = 0, !.vextra = 0]
            failed == [left EXCEPT !.failures = @ + 1, !.source = "Verify"]
<1>1. \/ RouteVerify(passed, kids, verdict)
      \/ RouteVerify(failed, kids, verdict)
      \/ RouteVerify(left, kids, verdict)
  BY DEF VerifyReported
<1>2. /\ Idle(left) /\ left.mode = r.mode /\ left.stage = r.stage
      /\ left.extra = r.extra /\ left.pause = r.pause /\ left.round = r.round
  BY DEF Heard, Fit, Idle, Keyed
<1>. HIDE DEF left
<1>3. /\ Idle(passed) /\ passed.mode = r.mode /\ passed.stage = r.stage
      /\ passed.extra = r.extra /\ passed.pause = r.pause /\ passed.round = r.round
      /\ Idle(failed) /\ failed.mode = r.mode /\ failed.stage = r.stage
      /\ failed.extra = r.extra /\ failed.pause = r.pause /\ failed.round = r.round
  BY <1>2 DEF Idle, Keyed
<1>. HIDE DEF passed, failed
<1>4. ASSUME NEW x, Idle(x), x.mode = r.mode, x.stage = r.stage,
             x.extra = r.extra, x.pause = r.pause, x.round = r.round,
             RouteVerify(x, kids, verdict)
      PROVE  Moved(r, run')
  <2>1. /\ Went(x, "Verify", run') \/ Went(x, "Fix", run') \/ Went(x, "Review", run')
        /\ x.pause => \/ run'.mode = "Paused"
                      \/ run'.mode = "AwaitingVerify" /\ run'.stage = "Verify"
    BY <1>4, RouteVerifyWent
  <2>2. /\ x.stage = "Verify" /\ Shape!Arrow("Verify", "Fix") /\ Shape!Arrow("Verify", "Review")
    BY <1>4 DEF Shape!Arrow
  <2>3. Moved(x, run')
    BY <2>1, <2>2, WentMoved
  <2>. QED
    BY <1>4, <2>3, MovedSame
<1>. QED
  BY <1>1, <1>2, <1>3, <1>4

LEMMA VerifyEndedMoved ==
  ASSUME NEW r, NEW kids, NEW c, Heard(r, kids, c), r.stage = "Verify",
         VerifyEnded(r, kids, c)
  PROVE  Moved(r, run')
<1>. DEFINE again == [r EXCEPT !.reasked = @ \cup {c}]
<1>1. \/ \E verdict : VerifyReported(r, kids, c, verdict)
      \/ run' = again
  BY DEF VerifyEnded, Reask, Put
<1>2. CASE run' = again
  <2>1. /\ again.mode = "Running" /\ again.stage = r.stage /\ ~again.starting
        /\ again.extra = r.extra /\ again.pause = r.pause /\ again.round = r.round
    BY DEF Heard, Fit, Keyed
  <2>. HIDE DEF again
  <2>. QED
    BY <1>2, <2>1 DEF Moved
<1>. QED
  BY <1>1, <1>2, VerifyReportedMoved

LEMMA StageFinishedMoved ==
  ASSUME NEW kids, NEW c, Good(run, children), Touched(children, kids, c), NEW success,
         StageFinished(kids, c, success)
  PROVE  run' = run \/ (is_active(run) /\ ~run.starting /\ Moved(run, run'))
<1>1. CASE ~Heeded(c)
  BY <1>1 DEF StageFinished, Put
<1>2. CASE Heeded(c)
  <2>1. Heard(run, kids, c)
    BY <1>2, HeardFacts
  <2>2. kids[c].stage = run.stage /\ ~run.starting /\ run.stage \in Stages
    BY <2>1 DEF Heard
  <2>3. \/ ChildFailed(run, kids, c)
        \/ run.stage = "Review" /\ ReviewEnded(run, kids, c)
        \/ run.stage = "Verify" /\ VerifyEnded(run, kids, c)
        \/ run.stage \in {"Plan", "Implement", "Fix"} /\ SoloEnded(run, kids, c)
    BY <1>2, <2>2 DEF StageFinished, Stages
  <2>4. Moved(run, run')
    BY <2>1, <2>3, ChildFailedMoved, ReviewEndedMoved, VerifyEndedMoved, SoloEndedMoved
  <2>. QED
    BY <1>2, <2>2, <2>4 DEF Heeded
<1>. QED
  BY <1>1, <1>2

-----------------------------------------------------------------------------
(* Steps of the abstract pipeline *)

(* The stage the pipeline's user sees the run in. *)
Phase(r) == IF r.mode = "New" \/ r.starting THEN first_stage ELSE r.stage

LEMMA ShapeNext ==
  ASSUME Good(run, children), Good(run', children'), spec' = spec, run'.extra >= run.extra,
         is_active(run) \/ run.mode = "New",
         \/ run'.mode \in {"Failed", "Lost"} /\ run'.round = run.round
         \/ /\ run'.mode = "Done" /\ Phase(run) = "Review" /\ Phase(run') = "Review"
            /\ run'.round = run.round /\ run.round > 0
         \/ /\ run'.mode \in Waits \cup {"Running", "Paused"}
            /\ Phase(run') = Phase(run) \/ Shape!Arrow(Phase(run), Phase(run'))
            /\ \/ run'.round = run.round
               \/ run'.round = run.round + 1 /\ run'.mode = "Running" /\ Phase(run') = "Review"
               \/ /\ run'.round = run.round - 1 /\ run.mode = "Running" /\ Phase(run) = "Review"
                  /\ run'.mode = "Paused"
  PROVE  Shape!Next
<1>. DEFINE shape == [plan |-> spec.plan, verify |-> spec.verify, waivable |-> ~spec.required]
            status == CASE run.mode \in {"New", "Running"} -> "working"
                        [] run.mode = "Done" -> "succeeded"
                        [] run.mode \in {"Failed", "Lost"} -> "failed"
                        [] OTHER -> "parked"
            phase == IF run.mode = "New" \/ run.starting THEN first_stage ELSE run.stage
<1>1. phase = Phase(run) /\ phase' = Phase(run') /\ shape' = shape
  BY DEF Phase, first_stage
<1>2. /\ run.mode \in {"New", "Running"} => status = "working"
      /\ run.mode \in Waits \cup {"Paused"} => status = "parked"
      /\ run'.mode = "Running" => status' = "working"
      /\ run'.mode \in Waits \cup {"Paused"} => status' = "parked"
      /\ run'.mode = "Done" => status' = "succeeded"
      /\ run'.mode \in {"Failed", "Lost"} => status' = "failed"
  BY DEF Waits
<1>3. status \in {"working", "parked"}
  BY <1>2 DEF is_active, Waits
<1>4. /\ run.round \in Nat /\ run'.round \in Nat /\ run'.round <= max_rounds(run')
      /\ max_rounds(run)' = max_rounds(run') /\ max_rounds(run') >= max_rounds(run)
  BY DEF Good, Fit, max_rounds
<1>. HIDE DEF shape, status, phase
<1>5. \/ /\ status' = "failed" /\ run'.round = run.round
      \/ /\ status' = "succeeded" /\ phase = "Review" /\ phase' = phase
         /\ run'.round = run.round /\ run.round > 0
      \/ /\ status' \in {"working", "parked"}
         /\ phase' = phase \/ Shape!Arrow(phase, phase')
         /\ run'.round \in {run.round, run.round + 1} \cup {n \in {run.round - 1} : run.round > 0}
         /\ run'.round > run.round => phase' = "Review" /\ status' = "working"
         /\ run'.round < run.round => phase = "Review" /\ status = "working" /\ status' = "parked"
  <2>1. CASE run'.mode \in {"Failed", "Lost"} /\ run'.round = run.round
    BY <1>2, <2>1
  <2>2. CASE /\ run'.mode = "Done" /\ Phase(run) = "Review" /\ Phase(run') = "Review"
             /\ run'.round = run.round /\ run.round > 0
    BY <1>1, <1>2, <2>2
  <2>3. CASE /\ run'.mode \in Waits \cup {"Running", "Paused"}
             /\ Phase(run') = Phase(run) \/ Shape!Arrow(Phase(run), Phase(run'))
             /\ \/ run'.round = run.round
                \/ /\ run'.round = run.round + 1 /\ run'.mode = "Running"
                   /\ Phase(run') = "Review"
                \/ /\ run'.round = run.round - 1 /\ run.mode = "Running"
                   /\ Phase(run) = "Review" /\ run'.mode = "Paused"
    <3>1. status' \in {"working", "parked"} /\ (phase' = phase \/ Shape!Arrow(phase, phase'))
      BY <1>1, <1>2, <2>3
    <3>2. CASE run'.round = run.round
      BY <1>4, <3>1, <3>2
    <3>3. CASE run'.round = run.round + 1 /\ run'.mode = "Running" /\ Phase(run') = "Review"
      BY <1>1, <1>2, <1>4, <3>1, <3>3
    <3>4. CASE /\ run'.round = run.round - 1 /\ run.mode = "Running"
               /\ Phase(run) = "Review" /\ run'.mode = "Paused"
      BY <1>1, <1>2, <1>4, <3>1, <3>4
    <3>. QED
      BY <2>3, <3>2, <3>3, <3>4
  <2>. QED
    BY <2>1, <2>2, <2>3
<1>6. /\ Shape!Open <=> status \in {"working", "parked"}
      /\ Shape!Rounds <=>
           /\ run'.round \in {run.round, run.round + 1} \cup {n \in {run.round - 1} : run.round > 0}
           /\ run'.round > run.round => phase' = "Review" /\ status' = "working"
           /\ run'.round < run.round => phase = "Review" /\ status = "working" /\ status' = "parked"
           /\ run'.round <= max_rounds(run)'
  BY DEF Shape!Open, Shape!Rounds, phase, status
<1>7. /\ Shape!Fail <=> Shape!Open /\ status' = "failed" /\ run'.round = run.round
      /\ Shape!Succeed <=> /\ Shape!Open /\ phase = "Review" /\ run.round > 0
                           /\ status' = "succeeded" /\ phase' = phase /\ run'.round = run.round
      /\ Shape!Stay <=> /\ Shape!Open /\ phase' = phase /\ status' \in {"working", "parked"}
                        /\ Shape!Rounds
      /\ Shape!Move <=> /\ Shape!Open /\ Shape!Arrow(phase, phase')
                        /\ status' \in {"working", "parked"} /\ Shape!Rounds
  BY DEF Shape!Fail, Shape!Succeed, Shape!Stay, Shape!Move, phase, status
<1>8. Shape!Next <=> /\ shape' = shape /\ max_rounds(run)' >= max_rounds(run)
                     /\ Shape!Stay \/ Shape!Move \/ Shape!Succeed \/ Shape!Fail
  BY DEF Shape!Next, shape
<1>. QED
  BY <1>1, <1>3, <1>4, <1>5, <1>6, <1>7, <1>8

-----------------------------------------------------------------------------
(* The actions *)

ShapeStep == Shape!Next \/ UNCHANGED Shape!vars

PauseStep ==
  run.pause /\ run.mode # "Paused" =>
    \/ run'.pause /\ (run'.stage = run.stage \/ run.starting)
    \/ run'.mode = "Paused" \/ ~is_active(run')
    \/ run.mode \in {"AwaitingLimit", "AwaitingVerify"} /\ used' > used

Steps == ShapeStep /\ PauseStep

(* What holds before and after every step. *)
Around == Good(run, children) /\ Good(run', children') /\ spec' = spec /\ used \in Nat

LEMMA MovedSteps ==
  ASSUME Around, is_active(run), ~run.starting, Moved(run, run')
  PROVE  Steps
<1>1. run.mode # "New" /\ Phase(run) = run.stage
  BY DEF is_active, Waits, Phase
<1>2. run'.mode # "New" => Phase(run') = run'.stage
  BY DEF Moved, Phase
<1>3. run.extra \in Nat /\ run'.extra >= run.extra
  BY DEF Moved, Around, Good, Fit
<1>4. Shape!Next
  BY <1>1, <1>2, <1>3, ShapeNext DEF Around, Moved, Reviewing, Waits
<1>5. PauseStep
  BY DEF Moved, PauseStep, is_active, Waits
<1>. QED
  BY <1>4, <1>5 DEF Steps, ShapeStep

LEMMA StutterSteps ==
  ASSUME Around, run'.mode = run.mode, run'.stage = run.stage, run'.starting = run.starting,
         run'.round = run.round, run'.extra = run.extra, run.pause => run'.pause
  PROVE  Steps
<1>1. UNCHANGED Shape!vars
  BY DEF Around, Shape!vars, max_rounds, first_stage
<1>2. PauseStep
  BY DEF PauseStep
<1>. QED
  BY <1>1, <1>2 DEF Steps, ShapeStep

(* A stage is started by an action of its own. *)
LEMMA WentShape ==
  ASSUME Around, is_active(run) \/ run.mode = "New",
         NEW r, NEW to, Went(r, to, run'), r.round = run.round, r.extra >= run.extra,
         Phase(run) = to \/ Shape!Arrow(Phase(run), to),
         to = "Verify" => Phase(run) \in {"Implement", "Verify", "Fix"}
  PROVE  ShapeStep
<1>1. run'.mode # "New" /\ ~run'.starting /\ run'.extra = r.extra
  BY DEF Went
<1>2. Phase(run') = run'.stage
  BY <1>1 DEF Phase
<1>3. \/ run'.mode = "Failed" /\ run'.round = run.round
      \/ /\ run'.mode \in Waits \cup {"Running", "Paused"}
         /\ Phase(run') = Phase(run) \/ Shape!Arrow(Phase(run), Phase(run'))
         /\ \/ run'.round = run.round
            \/ run'.round = run.round + 1 /\ run'.mode = "Running" /\ Phase(run') = "Review"
  <2>1. CASE run'.mode = "Failed"
    BY <2>1 DEF Went
  <2>2. CASE run'.mode # "Failed"
    <3>1. run'.stage = to \/ (to = "Verify" /\ ~spec.required /\ run'.stage = "Review")
      BY <2>2 DEF Went
    <3>2. Phase(run') = Phase(run) \/ Shape!Arrow(Phase(run), Phase(run'))
      BY <1>2, <3>1 DEF Shape!Arrow
    <3>. QED
      BY <1>2, <2>2, <3>2 DEF Went, Waits
  <2>. QED
    BY <2>1, <2>2
<1>4. Shape!Next
  BY <1>1, <1>3, ShapeNext DEF Around
<1>. QED
  BY <1>4 DEF ShapeStep

LEMMA RunType ==
  ASSUME Around
  PROVE  /\ Keyed(run) /\ run.round \in Nat /\ run.extra \in Nat
         /\ run.mode # "Running" => ~run.starting /\ Idle(run)
         /\ run.mode # "Running" /\ run.mode # "New" => Phase(run) = run.stage
         /\ run.starting => run.mode = "Running" /\ run.stage = "Implement"
  BY DEF Around, Good, Fit, Staffed, Idle, Phase

LEMMA FirstStage == first_stage \in {"Plan", "Implement"}
  BY DEF first_stage

LEMMA CreateSteps ==
  ASSUME Around, Create
  PROVE  Steps
<1>. DEFINE x == [run EXCEPT !.mode = "Running"]
            y == [run EXCEPT !.mode = "Running", !.starting = TRUE]
<1>1. run.mode = "New" /\ (run' = y \/ SpawnStage(x, children, first_stage))
  BY DEF Create, Put
<1>2. Idle(run) /\ ~run.pause /\ Phase(run) = first_stage
  BY <1>1, RunType DEF Around, Good, Staffed, Phase
<1>3. PauseStep
  BY <1>2 DEF PauseStep
<1>4. CASE run' = y
  <2>1. /\ run'.mode = "Running" /\ run'.starting
        /\ run'.round = run.round /\ run'.extra = run.extra
    BY <1>2, <1>4 DEF Idle, Keyed
  <2>2. Phase(run') = Phase(run)
    BY <1>2, <2>1 DEF Phase
  <2>3. Shape!Next
    BY <1>1, <2>1, <2>2, RunType, ShapeNext DEF Around
  <2>. QED
    BY <1>3, <2>3 DEF Steps, ShapeStep
<1>5. CASE SpawnStage(x, children, first_stage)
  <2>1. Idle(x) /\ x.round = run.round /\ x.extra = run.extra
    BY <1>2 DEF Idle, Keyed
  <2>. HIDE DEF x
  <2>2. Went(x, first_stage, run')
    BY <1>5, <2>1, SpawnStageWent
  <2>3. x.extra >= run.extra
    BY <2>1, RunType
  <2>4. ShapeStep
    BY <1>1, <1>2, <2>1, <2>2, <2>3, FirstStage, WentShape
  <2>. QED
    BY <1>3, <2>4 DEF Steps
<1>. QED
  BY <1>1, <1>4, <1>5

LEMMA CheckoutSteps ==
  ASSUME Around, CheckoutLands
  PROVE  Steps
<1>. DEFINE x == [run EXCEPT !.starting = FALSE]
<1>1. \/ run.starting /\ SpawnStage(x, children, first_stage)
      \/ run.starting /\ Finalize(x, children, "Failed")
      \/ run' = run
  BY DEF CheckoutLands, Put
<1>2. /\ Idle(x) /\ x.round = run.round /\ x.extra = run.extra /\ x.pause = run.pause
      /\ x.extra >= run.extra
  BY RunType DEF Idle, Keyed
<1>3. run.starting => is_active(run) /\ Phase(run) = first_stage
  BY RunType DEF is_active, Phase
<1>. HIDE DEF x
<1>4. CASE run.starting /\ SpawnStage(x, children, first_stage)
  <2>1. Went(x, first_stage, run')
    BY <1>2, <1>4, SpawnStageWent
  <2>2. ShapeStep
    BY <1>2, <1>3, <1>4, <2>1, FirstStage, WentShape
  <2>3. PauseStep
    BY <1>2, <1>4, <2>1 DEF PauseStep, Went
  <2>. QED
    BY <2>2, <2>3 DEF Steps
<1>5. CASE run.starting /\ Finalize(x, children, "Failed")
  <2>1. run'.mode = "Failed" /\ run'.round = run.round /\ run'.extra = run.extra
    BY <1>2, <1>5, FinalizeKeeps DEF Idle
  <2>2. Shape!Next
    BY <1>2, <1>3, <1>5, <2>1, ShapeNext DEF Around
  <2>. QED
    BY <2>1, <2>2 DEF Steps, ShapeStep, PauseStep, is_active, Waits
<1>6. CASE run' = run
  BY <1>6, StutterSteps
<1>. QED
  BY <1>1, <1>4, <1>5, <1>6

(* What leaves the run alone. *)
LEMMA SameSteps ==
  ASSUME Around, run' = run
  PROVE  Steps
  BY StutterSteps

LEMMA ReportSteps ==
  ASSUME Around, NEW c \in DOMAIN children,
         SeesTurnEnded(c) \/ SeesError(c) \/ CancelChild(c)
  PROVE  Steps
<1>1. Good(run, children) /\ KidsOK(children) /\ children[c] \in ChildRecords
  BY DEF Around, Good, Fit, KidsOK
<1>2. PICK kid, success :
        /\ kid \in ChildRecords
        /\ kid.stage = children[c].stage /\ kid.seat = children[c].seat
        /\ kid.alive => children[c].alive
        /\ StageFinished([children EXCEPT ![c] = kid], c, success)
  BY <1>1, ReportedKid
<1>. DEFINE all == [children EXCEPT ![c] = kid]
<1>3. StageFinished(all, c, success)
  BY <1>2
<1>4. all = [children EXCEPT ![c] = kid]
  OBVIOUS
<1>. HIDE DEF all
<1>5. Touched(children, all, c)
  BY <1>1, <1>2, <1>4, TouchedFacts
<1>6. run' = run \/ (is_active(run) /\ ~run.starting /\ Moved(run, run'))
  BY <1>1, <1>3, <1>5, StageFinishedMoved
<1>. QED
  BY <1>6, SameSteps, MovedSteps

LEMMA StopSteps ==
  ASSUME Around, StopRun
  PROVE  Steps
<1>1. /\ is_active(run) /\ run'.mode = "Failed"
      /\ run'.round = run.round /\ run'.extra = run.extra /\ run.extra \in Nat
  BY RunType, FinalizeKeeps DEF StopRun
<1>2. Shape!Next
  BY <1>1, ShapeNext DEF Around
<1>3. PauseStep
  BY <1>1 DEF PauseStep, is_active, Waits
<1>. QED
  BY <1>2, <1>3 DEF Steps, ShapeStep

LEMMA PauseSteps ==
  ASSUME Around, workflow_pause
  PROVE  Steps
<1>. DEFINE x == [run EXCEPT !.pause = TRUE]
<1>1. /\ x.mode = run.mode /\ x.stage = run.stage /\ x.starting = run.starting
      /\ x.round = run.round /\ x.extra = run.extra /\ x.pause
  BY RunType DEF Keyed
<1>2. run' = x
  BY DEF workflow_pause, Put
<1>. HIDE DEF x
<1>. QED
  BY <1>1, <1>2, StutterSteps

LEMMA ResumeSteps ==
  ASSUME Around, workflow_resume
  PROVE  Steps
<1>1. PICK note : SpawnStage([run EXCEPT !.pause = FALSE, !.note = note],
                             children, run.stage)
  BY DEF workflow_resume
<1>. DEFINE x == [run EXCEPT !.pause = FALSE, !.note = note]
<1>2. run.mode = "Paused" /\ is_active(run) /\ Phase(run) = run.stage
  BY RunType DEF workflow_resume, is_active
<1>3. Idle(x) /\ x.round = run.round /\ x.extra = run.extra /\ x.extra >= run.extra
  BY <1>2, RunType DEF Idle, Keyed
<1>4. SpawnStage(x, children, run.stage)
  BY <1>1
<1>. HIDE DEF x
<1>5. Went(x, run.stage, run')
  BY <1>3, <1>4, SpawnStageWent
<1>6. ShapeStep
  BY <1>2, <1>3, <1>5, WentShape
<1>. QED
  BY <1>2, <1>6 DEF Steps, PauseStep

LEMMA ReplySteps ==
  ASSUME Around, workflow_reply
  PROVE  Steps
<1>. DEFINE x == [run EXCEPT !.active = @ \ {run.asker}, !.note = "answer"]
            e == Enter(run, "Running", run.stage)
<1>1. run' = e \/ SpawnStage(x, children, run.stage)
  BY DEF workflow_reply, Put
<1>2. /\ run.mode = "AwaitingReply" /\ is_active(run) /\ Phase(run) = run.stage
      /\ run.stage \notin {"Review", "Verify"} /\ ~run.starting
  BY RunType DEF workflow_reply, is_active, Waits, Around, Good, Staffed
<1>3. /\ Idle(x) /\ x.round = run.round /\ x.extra = run.extra /\ x.pause = run.pause
      /\ x.extra >= run.extra
  BY <1>2, RunType DEF Idle, Keyed
<1>. HIDE DEF x
<1>4. CASE run' = e
  <2>1. /\ e.mode = "Running" /\ e.stage = run.stage /\ e.starting = run.starting
        /\ e.round = run.round /\ e.extra = run.extra /\ e.pause = run.pause
    BY RunType, EnterKeeps
  <2>. HIDE DEF e
  <2>2. Phase(run') = Phase(run)
    BY <1>2, <1>4, <2>1 DEF Phase
  <2>3. Shape!Next
    BY <1>2, <1>4, <2>1, <2>2, RunType, ShapeNext DEF Around
  <2>. QED
    BY <1>4, <2>1, <2>3 DEF Steps, ShapeStep, PauseStep
<1>5. CASE SpawnStage(x, children, run.stage)
  <2>1. Went(x, run.stage, run')
    BY <1>3, <1>5, SpawnStageWent
  <2>2. ShapeStep
    BY <1>2, <1>3, <2>1, WentShape
  <2>3. PauseStep
    BY <1>2, <1>3, <2>1 DEF PauseStep, Went, is_active, Waits
  <2>. QED
    BY <2>2, <2>3 DEF Steps
<1>. QED
  BY <1>1, <1>4, <1>5

(* The user decides at a limit: the run goes on only for the rounds or     *)
(* attempts granted, which count as used.                                  *)
LEMMA Granting ==
  ASSUME Around, used' = used + 1, run.mode \in {"AwaitingLimit", "AwaitingVerify"},
         NEW r, Idle(r), r.round = run.round, r.extra >= run.extra,
         NEW to, Advance(r, children, to),
         Shape!Arrow(run.stage, to) \/ to = run.stage,
         to = "Verify" => run.stage = "Verify"
  PROVE  Steps
<1>1. is_active(run) /\ Phase(run) = run.stage
  BY RunType DEF is_active, Waits
<1>2. Went(r, to, run')
  BY AdvanceWent
<1>3. ShapeStep
  BY <1>1, <1>2, WentShape
<1>4. PauseStep
  BY DEF PauseStep, Around
<1>. QED
  BY <1>3, <1>4 DEF Steps

LEMMA DecideLimitSteps ==
  ASSUME Around, DecideLimit
  PROVE  Steps
<1>1. /\ run.mode = "AwaitingLimit" /\ is_active(run) /\ Phase(run) = run.stage
      /\ run.stage = "Review" /\ run.round > 0 /\ ~run.starting
  BY RunType DEF DecideLimit, is_active, Waits, Around, Good, Staffed
<1>2. CASE Finalize(run, children, "Done")
  <2>1. /\ run'.mode = "Done" /\ run'.stage = run.stage /\ ~run'.starting
        /\ run'.round = run.round /\ run'.extra = run.extra
    BY <1>2, RunType, FinalizeKeeps
  <2>2. Phase(run') = "Review"
    BY <1>1, <2>1 DEF Phase
  <2>3. Shape!Next
    BY <1>1, <2>1, <2>2, RunType, ShapeNext DEF Around
  <2>. QED
    BY <2>1, <2>3 DEF Steps, ShapeStep, PauseStep, is_active, Waits
<1>3. ASSUME NEW n \in Asked, NEW note, used' = used + 1,
             Advance([Extended(run, note) EXCEPT !.extra = @ + Granted(n)], children, "Fix")
      PROVE  Steps
  <2>. DEFINE m == Extended(run, note)
              x == [m EXCEPT !.extra = @ + Granted(n)]
  <2>1. Advance(x, children, "Fix")
    BY <1>3
  <2>2. Granted(n) \in Nat
    BY WorkflowAssumption DEF WorkflowAssumption, Granted
  <2>3. Idle(m) /\ m.round = run.round /\ m.extra = run.extra
    BY <1>1, RunType DEF Extended, Idle, Keyed
  <2>. HIDE DEF m
  <2>4. Idle(x) /\ x.round = run.round /\ x.extra = run.extra + Granted(n)
    BY <2>3 DEF Idle, Keyed
  <2>. HIDE DEF x
  <2>5. x.extra >= run.extra /\ Shape!Arrow(run.stage, "Fix")
    BY <1>1, <2>2, <2>4, RunType DEF Shape!Arrow
  <2>. QED
    BY <1>1, <1>3, <2>1, <2>4, <2>5, Granting
<1>. QED
  BY <1>2, <1>3 DEF DecideLimit, Spend

LEMMA DecideVerifySteps ==
  ASSUME Around, DecideVerify
  PROVE  Steps
<1>1. /\ run.mode = "AwaitingVerify" /\ run.stage = "Verify" /\ ~run.starting
      /\ Keyed(run) /\ used' = used + 1
  BY RunType DEF DecideVerify, Spend, Around, Good, Staffed
<1>2. ASSUME NEW x, Keyed(x), x.starting = run.starting, x.round = run.round,
             x.extra = run.extra, NEW to \in {"Verify", "Fix", "Review"},
             Advance(x, children, to)
      PROVE  Steps
  <2>1. Shape!Arrow(run.stage, to) \/ to = run.stage
    BY <1>1 DEF Shape!Arrow
  <2>2. Idle(x) /\ x.extra >= run.extra
    BY <1>1, <1>2, RunType DEF Idle
  <2>. QED
    BY <1>1, <1>2, <2>1, <2>2, Granting
<1>3. ASSUME NEW n \in Asked, NEW note,
             IF run.blocked
             THEN Advance(Extended(run, note), children, "Verify")
             ELSE Advance([Extended(run, note) EXCEPT !.vextra = @ + Granted(n)], children, "Fix")
      PROVE  Steps
  <2>. DEFINE m == Extended(run, note)
              x == [m EXCEPT !.vextra = @ + Granted(n)]
  <2>1. Advance(m, children, "Verify") \/ Advance(x, children, "Fix")
    BY <1>3
  <2>2. Keyed(m) /\ m.starting = run.starting /\ m.round = run.round /\ m.extra = run.extra
    BY <1>1 DEF Extended, Keyed
  <2>. HIDE DEF m
  <2>3. Keyed(x) /\ x.starting = run.starting /\ x.round = run.round /\ x.extra = run.extra
    BY <2>2 DEF Keyed
  <2>. HIDE DEF x
  <2>. QED
    BY <1>2, <2>1, <2>2, <2>3
<1>4. CASE Advance([Cleared(run) EXCEPT !.source = "Review"], children, "Review")
  <2>. DEFINE m == Cleared(run)
              x == [m EXCEPT !.source = "Review"]
  <2>1. Advance(x, children, "Review")
    BY <1>4
  <2>2. Keyed(m) /\ m.starting = run.starting /\ m.round = run.round /\ m.extra = run.extra
    BY <1>1 DEF Cleared, Keyed
  <2>. HIDE DEF m
  <2>3. Keyed(x) /\ x.starting = run.starting /\ x.round = run.round /\ x.extra = run.extra
    BY <2>2 DEF Keyed
  <2>. HIDE DEF x
  <2>. QED
    BY <1>2, <2>1, <2>3
<1>. QED
  BY <1>3, <1>4 DEF DecideVerify

(* A restart loses a run nobody saved, parks a running one in its stage    *)
(* and gives the round of a review back, and leaves any other alone.       *)
LEMMA RestartSteps ==
  ASSUME Around, Restart
  PROVE  Steps
<1>. DEFINE lost == [run EXCEPT !.mode = "Lost", !.starting = FALSE]
            back == IF run.stage = "Review" /\ run.round > 0 THEN run.round - 1 ELSE run.round
            e == Enter(run, "Paused", run.stage)
            parked == [e EXCEPT !.active = {}, !.pending = {}, !.votes = NoVotes,
                                !.note = "restart", !.starting = FALSE, !.round = back]
<1>1. /\ Keyed(e) /\ e.mode = "Paused" /\ e.stage = run.stage
      /\ e.extra = run.extra /\ e.pause = run.pause /\ e.round = run.round
  BY RunType, EnterKeeps
<1>2. \/ run.starting /\ ~run.pause /\ run' = lost
      \/ run.mode = "Running" /\ run' = parked
      \/ run' = run
  <2>. DEFINE now == [e EXCEPT !.active = {}, !.pending = {}, !.votes = NoVotes,
                               !.note = "restart", !.starting = FALSE,
                               !.round = IF run.stage = "Review" /\ @ > 0 THEN @ - 1 ELSE @]
  <2>1. \/ run.starting /\ ~run.pause /\ run' = lost
        \/ run.mode = "Running" /\ run' = now
        \/ run' = run
    BY DEF Restart
  <2>. HIDE DEF e
  <2>2. now = parked
    BY <1>1
  <2>. QED
    BY <2>1, <2>2
<1>. HIDE DEF e
<1>3. CASE run.starting /\ ~run.pause /\ run' = lost
  <2>1. run'.mode = "Lost" /\ run'.round = run.round /\ run'.extra = run.extra
    BY <1>3, RunType DEF Keyed
  <2>2. is_active(run)
    BY <1>3, RunType DEF is_active
  <2>3. Shape!Next
    BY <2>1, <2>2, RunType, ShapeNext DEF Around
  <2>. QED
    BY <1>3, <2>3 DEF Steps, ShapeStep, PauseStep
<1>4. CASE run.mode = "Running" /\ run' = parked
  <2>1. /\ run'.mode = "Paused" /\ run'.stage = run.stage /\ ~run'.starting
        /\ run'.round = back /\ run'.extra = run.extra
    BY <1>1, <1>4 DEF Keyed
  <2>2. Phase(run') = run.stage /\ is_active(run)
    BY <1>4, <2>1 DEF Phase, is_active
  <2>3. Phase(run') = Phase(run) \/ Shape!Arrow(Phase(run), Phase(run'))
    BY <1>4, <2>2, RunType, FirstStage DEF Phase, Shape!Arrow
  <2>4. \/ run'.round = run.round
        \/ run'.round = run.round - 1 /\ Phase(run) = "Review"
    BY <1>4, <2>1, RunType DEF Phase
  <2>. HIDE DEF back, parked
  <2>5. Shape!Next
    BY <1>4, <2>1, <2>2, <2>3, <2>4, RunType, ShapeNext DEF Around
  <2>. QED
    BY <2>1, <2>5 DEF Steps, ShapeStep, PauseStep
<1>5. CASE run' = run
  BY <1>5, SameSteps
<1>. QED
  BY <1>2, <1>3, <1>4, <1>5

LEMMA NextSteps ==
  ASSUME Around, [Next]_vars
  PROVE  Steps
<1>1. ASSUME NEW c \in DOMAIN children, EndsTurn(c) \/ Edits(c) \/ Dies(c) \/ Chats(c)
      PROVE  Steps
  BY <1>1, SameSteps DEF EndsTurn, Edits, Dies, Chats
<1>2. ASSUME NEW c \in DOMAIN children, SeesTurnEnded(c) \/ SeesError(c) \/ CancelChild(c)
      PROVE  Steps
  BY <1>2, ReportSteps
<1>3. CASE UNCHANGED vars
  BY <1>3, SameSteps DEF vars
<1>. QED
  BY <1>1, <1>2, <1>3, CreateSteps, CheckoutSteps, StopSteps, PauseSteps, ResumeSteps,
     ReplySteps, DecideLimitSteps, DecideVerifySteps, RestartSteps DEF Next, Actor

-----------------------------------------------------------------------------
(* Every behaviour *)

LEMMA UsedType == Spec => [](used \in Nat)
<1>1. Init => used \in Nat
  BY DEF Init
<1>2. used \in Nat /\ [Next]_vars => (used \in Nat)'
  <2>. SUFFICES ASSUME used \in Nat, [Next]_vars
                PROVE  used' = used \/ used' = used + 1
    OBVIOUS
  <2>1. ASSUME NEW c \in DOMAIN children,
               EndsTurn(c) \/ Edits(c) \/ Dies(c) \/ Actor(c) \/ Chats(c) \/ CancelChild(c)
        PROVE  used' = used \/ used' = used + 1
    BY <2>1 DEF EndsTurn, Edits, Dies, Actor, SeesTurnEnded, SeesError, Chats, CancelChild, Spend
  <2>2. CASE Create \/ CheckoutLands \/ StopRun \/ UNCHANGED vars
    BY <2>2 DEF Create, CheckoutLands, StopRun, vars
  <2>3. CASE workflow_pause \/ workflow_resume \/ workflow_reply
    BY <2>3 DEF workflow_pause, workflow_resume, workflow_reply, Spend
  <2>4. CASE DecideLimit \/ DecideVerify \/ Restart
    BY <2>4 DEF DecideLimit, DecideVerify, Restart, Spend
  <2>. QED
    BY <2>1, <2>2, <2>3, <2>4 DEF Next
<1>. QED
  BY <1>1, <1>2, PTL DEF Spec

LEMMA StepsTaken == Inv /\ used \in Nat /\ [Next]_vars => Steps
  BY NextGood, NextSteps DEF Inv, Around

(* The pipeline does what its users are told: whatever agents, accounts,   *)
(* users and restarts do, stages follow the arrows of the workflow, it     *)
(* succeeds only out of a review that spent a round, it never spends a     *)
(* round it was not allowed, and once ended it stays ended.                *)
THEOREM ImplementsShape == Spec => ShapeSpec
<1>1. Init => Shape!Init
  <2>. SUFFICES ASSUME Init PROVE Shape!Init
    OBVIOUS
  <2>1. run.mode = "New" /\ run.round = 0 /\ run.extra = 0
    BY DEF Init, NewRun
  <2>2. max_rounds(run) \in Nat \ {0}
    BY <2>1, WorkflowAssumption DEF Init, WorkflowAssumption, SpecRecords, max_rounds
  <2>. QED
    BY <2>1, <2>2 DEF Shape!Init, first_stage
<1>2. Inv /\ used \in Nat /\ [Next]_vars => [Shape!Next]_(Shape!vars)
  BY StepsTaken DEF Steps, ShapeStep
<1>. QED
  BY <1>1, <1>2, SpecInv, UsedType, PTL DEF Spec, ShapeSpec, Shape!Spec

(* A pause request outlives every step of the pipeline until it is obeyed, *)
(* the run ends, or the user grants more rounds or attempts.               *)
THEOREM PauseKept == Spec => PauseIsKept
<1>1. Inv /\ used \in Nat /\ [Next]_vars =>
        [run.pause /\ run.mode # "Paused" =>
           \/ run'.pause /\ (run'.stage = run.stage \/ run.starting)
           \/ run'.mode = "Paused" \/ ~is_active(run')
           \/ run.mode \in {"AwaitingLimit", "AwaitingVerify"} /\ used' > used]_vars
  BY StepsTaken DEF Steps, PauseStep
<1>. QED
  BY <1>1, SpecInv, UsedType, PTL DEF Spec, PauseIsKept

-----------------------------------------------------------------------------
(* What reviewers get to see when a workflow has a verify stage.            *)

Known(r) ==
  {"mode", "stage", "blocked", "fixBase", "source", "cleared", "blind"} \subseteq DOMAIN r

(* The code is what was let through to review, or nobody can tell. *)
Vetted(r) == r.cleared = code \/ r.blind

(* What must hold of a run that is in stage `to`, or comes to it next: a   *)
(* fingerprint is kept through a fix and no longer, reviewers are given    *)
(* vetted code, and a fix they asked for starts from vetted code.          *)
Due(r, to) ==
  /\ to # "Fix" => r.fixBase = 0
  /\ to = "Review" => Vetted(r)
  /\ to = "Fix" /\ r.source # "Verify" =>
       IF r.fixBase = 0 THEN Vetted(r) ELSE r.fixBase = r.cleared \/ r.blind

Vet(r) ==
  /\ Known(r)
  /\ r.mode = "New" \/ is_active(r) =>
       /\ Due(r, r.stage)
       /\ r.stage = "Fix" /\ r.mode \in {"Running", "AwaitingReply"} /\ r.fixBase = 0 => r.blind
       /\ r.mode = "AwaitingVerify" /\ ~r.blocked => r.source = "Verify"

(* x carries what these proofs are about over from r. *)
Carries(r, x) ==
  /\ Known(x) /\ x.fixBase = r.fixBase /\ x.source = r.source
  /\ x.cleared = r.cleared /\ x.blind = r.blind

LEMMA DueSame ==
  ASSUME NEW r, NEW x, Carries(r, x), NEW to, Due(r, to)
  PROVE  Due(x, to)
  BY DEF Carries, Due, Vetted

-----------------------------------------------------------------------------
(* Stages start *)

LEMMA EnterCarries ==
  ASSUME NEW r, Known(r), NEW mode, NEW stage
  PROVE  LET e == Enter(r, mode, stage) IN
         Carries(r, e) /\ e.mode = mode /\ e.stage = stage
  BY DEF Enter, Known, Carries

LEMMA AwaitCarries ==
  ASSUME NEW r, Known(r), NEW mode, NEW stage
  PROVE  LET a == Await(r, mode, stage) IN
         Carries(r, a) /\ a.mode = mode /\ a.stage = stage
<1>. DEFINE e == Enter(r, mode, stage)
<1>1. Carries(r, e) /\ e.mode = mode /\ e.stage = stage
  BY EnterCarries
<1>2. Await(r, mode, stage) = [e EXCEPT !.barrier = r.seq + 1, !.seq = r.seq + 1]
  BY DEF Await, next_barrier_id
<1>. HIDE DEF e
<1>. QED
  BY <1>1, <1>2 DEF Carries, Known

LEMMA ParkedVet ==
  ASSUME NEW r, Known(r), NEW stage, Due(r, stage), NEW kids, Put(Parked(r, stage), kids)
  PROVE  Vet(run')
<1>. DEFINE e == Enter(r, "Paused", stage)
            p == [e EXCEPT !.pause = FALSE]
<1>1. Carries(r, e) /\ e.mode = "Paused" /\ e.stage = stage
  BY EnterCarries
<1>2. run' = p
  BY DEF Put, Parked
<1>. HIDE DEF e
<1>3. Carries(r, p) /\ p.mode = "Paused" /\ p.stage = stage
  BY <1>1 DEF Carries, Known
<1>. HIDE DEF p
<1>4. Due(p, p.stage)
  BY <1>3, DueSame
<1>. QED
  BY <1>2, <1>3, <1>4 DEF Vet, Carries

LEMMA FinalizeVet ==
  ASSUME NEW r, Known(r), NEW kids, NEW mode \in {"Done", "Failed"}, Finalize(r, kids, mode)
  PROVE  Vet(run')
<1>. DEFINE e == Enter(r, mode, r.stage)
            f == [e EXCEPT !.active = {}, !.pending = {}, !.starting = FALSE]
<1>1. Carries(r, e) /\ e.mode = mode
  BY EnterCarries
<1>2. run' = f
  BY DEF Finalize, Put
<1>. HIDE DEF e
<1>3. Known(f) /\ f.mode = mode
  BY <1>1 DEF Carries, Known
<1>. HIDE DEF f
<1>. QED
  BY <1>2, <1>3 DEF Vet, is_active, Waits

LEMMA SpawnSoloVet ==
  ASSUME spec.verify, NEW r, Known(r), NEW kids, NEW stage \in {"Plan", "Implement", "Fix"},
         Due(r, stage), SpawnSolo(r, kids, stage)
  PROVE  Vet(run')
<1>1. PICK started \in Starts, base \in FixBases(r, stage) :
        LET new == [Enter(r, "Running", stage) EXCEPT
                      !.note = "none", !.fixBase = base,
                      !.blind = @ \/ (stage = "Fix" /\ base = 0)]
            all == Append(kids, Child(stage, 0, started))
        IN IF started
           THEN Put([new EXCEPT !.active = @ \cup {Len(all)}], all)
           ELSE Finalize(new, all, "Failed")
  BY DEF SpawnSolo
<1>. DEFINE e == Enter(r, "Running", stage)
            blind == e.blind \/ (stage = "Fix" /\ base = 0)
            new == [e EXCEPT !.note = "none", !.fixBase = base, !.blind = blind]
            all == Append(kids, Child(stage, 0, started))
            next == [new EXCEPT !.active = @ \cup {Len(all)}]
<1>2. IF started THEN run' = next ELSE Finalize(new, all, "Failed")
  BY <1>1 DEF Put
<1>3. Carries(r, e) /\ e.mode = "Running" /\ e.stage = stage
  BY EnterCarries
<1>. HIDE DEF e, all, blind
<1>4. /\ Known(new) /\ new.mode = "Running" /\ new.stage = stage
      /\ new.fixBase = base /\ new.blind = blind
      /\ new.source = r.source /\ new.cleared = r.cleared
  BY <1>3 DEF Carries, Known
<1>. HIDE DEF new
<1>5. CASE started
  <2>1. Carries(new, next) /\ next.mode = "Running" /\ next.stage = stage
    BY <1>4 DEF Carries, Known
  <2>. HIDE DEF next
  <2>2. \/ base = r.fixBase /\ (stage = "Fix" => r.fixBase # 0)
        \/ stage = "Fix" /\ r.fixBase = 0 /\ base \in {code, 0}
    BY DEF FixBases
  <2>3. Due(new, stage) /\ (stage = "Fix" /\ base = 0 => new.blind)
    <3>1. new.blind <=> r.blind \/ (stage = "Fix" /\ base = 0)
      BY <1>3, <1>4 DEF Carries, blind
    <3>. QED
      BY <1>4, <2>2, <3>1 DEF Due, Vetted
  <2>4. Due(next, stage)
    BY <2>1, <2>3, DueSame
  <2>. QED
    BY <1>2, <1>4, <1>5, <2>1, <2>3, <2>4 DEF Vet, Carries
<1>6. CASE ~started
  BY <1>2, <1>4, <1>6, FinalizeVet
<1>. QED
  BY <1>5, <1>6

LEMMA SpawnReviewVet ==
  ASSUME NEW r, Known(r), NEW kids, Due(r, "Review"), SpawnReview(r, kids)
  PROVE  Vet(run')
<1>. DEFINE e == Enter(r, "Running", "Review")
<1>1. PICK staff, prior :
        run' = [e EXCEPT !.round = @ + 1, !.pending = staff, !.active = @ \cup staff,
                         !.votes = NoVotes, !.reasked = {}, !.prior = prior]
  BY DEF SpawnReview, Put
<1>2. Carries(r, e) /\ e.mode = "Running" /\ e.stage = "Review"
  BY EnterCarries
<1>. HIDE DEF e
<1>. DEFINE x == [e EXCEPT !.round = @ + 1, !.pending = staff, !.active = @ \cup staff,
                           !.votes = NoVotes, !.reasked = {}, !.prior = prior]
<1>3. Carries(r, x) /\ x.mode = "Running" /\ x.stage = "Review"
  BY <1>2 DEF Carries, Known
<1>4. run' = x
  BY <1>1
<1>. HIDE DEF x
<1>5. Due(x, "Review")
  BY <1>3, DueSame
<1>. QED
  BY <1>3, <1>4, <1>5 DEF Vet, Carries

LEMMA SpawnWorkVet ==
  ASSUME spec.verify, NEW r, Known(r), NEW kids,
         NEW stage \in {"Plan", "Implement", "Fix", "Review"},
         Due(r, stage), SpawnWork(r, kids, stage)
  PROVE  Vet(run')
<1>1. CASE Refused(r, kids, stage)
  BY <1>1, ParkedVet DEF Refused
<1>2. CASE stage = "Review" /\ SpawnReview(r, kids)
  BY <1>2, SpawnReviewVet
<1>3. CASE stage # "Review" /\ SpawnSolo(r, kids, stage)
  BY <1>3, SpawnSoloVet
<1>. QED
  BY <1>1, <1>2, <1>3 DEF SpawnWork

LEMMA AdvanceToWorkVet ==
  ASSUME spec.verify, NEW r, Known(r), NEW kids,
         NEW stage \in {"Plan", "Implement", "Fix", "Review"},
         Due(r, stage), AdvanceToWork(r, kids, stage)
  PROVE  Vet(run')
<1>1. CASE r.pause
  BY <1>1, ParkedVet DEF AdvanceToWork
<1>2. CASE ~r.pause
  BY <1>2, SpawnWorkVet DEF AdvanceToWork
<1>. QED
  BY <1>1, <1>2

(* A verdict on code no fix is at work on: whatever lets the run through   *)
(* to review clears the code first.                                        *)
LEMMA RouteVerifyVet ==
  ASSUME spec.verify, NEW r, Known(r), r.fixBase = 0, NEW kids, NEW verdict,
         verdict \in {"pass", "fail", "blocked"}, verdict = "fail" => r.source = "Verify",
         RouteVerify(r, kids, verdict)
  PROVE  Vet(run')
<1>. DEFINE wait == Await(r, "AwaitingVerify", "Verify")
            held == [wait EXCEPT !.blocked = verdict = "blocked"]
            cleared == Cleared(r)
            excused == [cleared EXCEPT !.source = "Review"]
<1>1. \/ AdvanceToWork(cleared, kids, "Review")
      \/ verdict = "fail" /\ AdvanceToWork(r, kids, "Fix")
      \/ verdict # "pass" /\ Put(held, kids)
      \/ AdvanceToWork(excused, kids, "Review")
  BY DEF RouteVerify, Excused
<1>2. Known(cleared) /\ cleared.fixBase = 0 /\ cleared.cleared = code
  BY DEF Cleared, Known
<1>. HIDE DEF cleared
<1>3. Known(excused) /\ excused.fixBase = 0 /\ excused.cleared = code
  BY <1>2 DEF Known
<1>. HIDE DEF excused
<1>4. Due(cleared, "Review") /\ Due(excused, "Review")
  BY <1>2, <1>3 DEF Due, Vetted
<1>5. CASE verdict = "fail" /\ AdvanceToWork(r, kids, "Fix")
  <2>1. Due(r, "Fix")
    BY <1>5 DEF Due
  <2>. QED
    BY <1>5, <2>1, AdvanceToWorkVet
<1>6. CASE verdict # "pass" /\ Put(held, kids)
  <2>1. Carries(r, wait) /\ wait.mode = "AwaitingVerify" /\ wait.stage = "Verify"
    BY AwaitCarries
  <2>. HIDE DEF wait
  <2>2. /\ Carries(r, held) /\ held.mode = "AwaitingVerify" /\ held.stage = "Verify"
        /\ ~held.blocked => verdict # "blocked"
    BY <2>1 DEF Carries, Known
  <2>3. run' = held
    BY <1>6 DEF Put
  <2>. HIDE DEF held
  <2>4. Due(held, "Verify")
    BY <2>2 DEF Due, Carries
  <2>. QED
    BY <1>6, <2>2, <2>3, <2>4 DEF Vet, Carries
<1>. QED
  BY <1>1, <1>2, <1>3, <1>4, <1>5, <1>6, AdvanceToWorkVet

LEMMA SpawnVerifyVet ==
  ASSUME spec.verify, NEW r, Known(r), NEW kids, Due(r, "Verify"), SpawnVerify(r, kids)
  PROVE  Vet(run')
<1>. DEFINE e == Enter(r, "Running", "Verify")
<1>1. Carries(r, e) /\ e.mode = "Running" /\ e.stage = "Verify"
  BY EnterCarries
<1>2. e.fixBase = 0
  BY <1>1 DEF Carries, Due
<1>3. CASE checkout = "ready"
  <2>1. RouteVerify(e, kids, "blocked")
    BY <1>3 DEF SpawnVerify
  <2>. HIDE DEF e
  <2>. QED
    BY <1>1, <1>2, <2>1, RouteVerifyVet DEF Carries
<1>4. CASE checkout # "ready"
  <2>1. PICK started \in Starts :
          LET told == [e EXCEPT !.note = "none"]
              all == Append(kids, Child("Verify", 0, started))
          IN IF started
             THEN Put([told EXCEPT !.active = @ \cup {Len(all)}], all)
             ELSE Finalize(told, all, "Failed")
    BY <1>4 DEF SpawnVerify
  <2>. DEFINE told == [e EXCEPT !.note = "none"]
              all == Append(kids, Child("Verify", 0, started))
              next == [told EXCEPT !.active = @ \cup {Len(all)}]
  <2>2. IF started THEN run' = next ELSE Finalize(told, all, "Failed")
    BY <2>1 DEF Put
  <2>. HIDE DEF e, all
  <2>3. Carries(e, told) /\ told.mode = "Running" /\ told.stage = "Verify"
    BY <1>1 DEF Carries, Known
  <2>. HIDE DEF told
  <2>4. Carries(told, next) /\ next.mode = "Running" /\ next.stage = "Verify"
    BY <2>3 DEF Carries, Known
  <2>. HIDE DEF next
  <2>5. Due(next, "Verify")
    BY <1>2, <2>3, <2>4 DEF Due, Carries
  <2>6. CASE started
    BY <2>2, <2>4, <2>5, <2>6 DEF Vet, Carries
  <2>7. CASE ~started
    BY <2>2, <2>3, <2>7, FinalizeVet DEF Carries
  <2>. QED
    BY <2>6, <2>7
<1>. QED
  BY <1>3, <1>4

LEMMA SpawnStageVet ==
  ASSUME spec.verify, NEW r, Known(r), NEW kids, NEW stage \in Stages,
         Due(r, stage), SpawnStage(r, kids, stage)
  PROVE  Vet(run')
<1>1. CASE Refused(r, kids, stage)
  BY <1>1, ParkedVet DEF Refused
<1>2. CASE stage = "Verify" /\ SpawnVerify(r, kids)
  BY <1>2, SpawnVerifyVet
<1>3. CASE stage # "Verify" /\ SpawnWork(r, kids, stage)
  BY <1>3, SpawnWorkVet DEF Stages
<1>. QED
  BY <1>1, <1>2, <1>3 DEF SpawnStage

LEMMA AdvanceVet ==
  ASSUME spec.verify, NEW r, Known(r), NEW kids, NEW stage \in Stages,
         Due(r, stage), Advance(r, kids, stage)
  PROVE  Vet(run')
<1>1. CASE r.pause
  BY <1>1, ParkedVet DEF Advance
<1>2. CASE ~r.pause
  BY <1>2, SpawnStageVet DEF Advance
<1>. QED
  BY <1>1, <1>2

-----------------------------------------------------------------------------
(* Stages end *)

LEMMA ParkAfterFailureVet ==
  ASSUME NEW r, Known(r), NEW kids, NEW stage, Due(r, stage), ParkAfterFailure(r, kids, stage)
  PROVE  Vet(run')
<1>. DEFINE e == Enter(r, "Paused", stage)
            p == [e EXCEPT !.pause = FALSE]
            idle == [p EXCEPT !.active = {}, !.note = "lost"]
            less == IF idle.round > 0 THEN idle.round - 1 ELSE 0
            back == [idle EXCEPT !.pending = {}, !.votes = NoVotes, !.reasked = {}, !.round = less]
<1>1. run' = idle \/ run' = back
  BY DEF ParkAfterFailure, Put, Parked
<1>2. Carries(r, e) /\ e.mode = "Paused" /\ e.stage = stage
  BY EnterCarries
<1>. HIDE DEF e
<1>3. Carries(r, p) /\ p.mode = "Paused" /\ p.stage = stage
  BY <1>2 DEF Carries, Known
<1>. HIDE DEF p
<1>4. Carries(r, idle) /\ idle.mode = "Paused" /\ idle.stage = stage
  BY <1>3 DEF Carries, Known
<1>. HIDE DEF idle, less
<1>5. Carries(r, back) /\ back.mode = "Paused" /\ back.stage = stage
  BY <1>4 DEF Carries, Known
<1>. HIDE DEF back
<1>6. Due(idle, stage) /\ Due(back, stage)
  BY <1>4, <1>5, DueSame
<1>. QED
  BY <1>1, <1>4, <1>5, <1>6 DEF Vet, Carries

(* Reviewers ask for changes to the code they were given. *)
LEMMA MergeReviewsVet ==
  ASSUME spec.verify, NEW r, Known(r), NEW kids, Due(r, "Review"), MergeReviews(r, kids)
  PROVE  Vet(run')
<1>. DEFINE given == {r.votes[i] : i \in Reviewers} \ {"none"}
            verdicts == IF given = {} THEN r.verdicts ELSE r.verdicts + 1
            done == [r EXCEPT !.votes = NoVotes, !.verdicts = verdicts]
            found == [done EXCEPT !.source = "Review"]
            wait == Await(found, "AwaitingLimit", "Review")
<1>1. \/ Finalize(done, kids, "Done")
      \/ Advance(found, kids, "Fix")
      \/ run' = wait
      \/ Finalize(found, kids, "Done")
  BY DEF MergeReviews, Put
<1>. HIDE DEF given, verdicts
<1>2. Carries(r, done)
  BY DEF Carries, Known
<1>. HIDE DEF done
<1>3. /\ Known(found) /\ found.fixBase = r.fixBase /\ found.source = "Review"
      /\ found.cleared = r.cleared /\ found.blind = r.blind
  BY <1>2 DEF Carries, Known
<1>. HIDE DEF found
<1>4. Due(found, "Fix") /\ Due(found, "Review")
  BY <1>3 DEF Due, Vetted
<1>5. CASE run' = wait
  <2>1. Carries(found, wait) /\ wait.mode = "AwaitingLimit" /\ wait.stage = "Review"
    BY <1>3, AwaitCarries
  <2>. HIDE DEF wait
  <2>2. Due(wait, "Review")
    BY <1>4, <2>1, DueSame
  <2>. QED
    BY <1>5, <2>1, <2>2 DEF Vet, Carries
<1>6. CASE Advance(found, kids, "Fix")
  BY <1>3, <1>4, <1>6, AdvanceVet DEF Stages
<1>. QED
  BY <1>1, <1>2, <1>3, <1>5, <1>6, FinalizeVet DEF Carries

LEMMA CloseIfLastVet ==
  ASSUME spec.verify, NEW r, Known(r), NEW kids, r.mode = "Running", r.stage = "Review",
         Due(r, "Review"), CloseIfLast(r, kids)
  PROVE  Vet(run')
<1>1. CASE MergeReviews(r, kids)
  BY <1>1, MergeReviewsVet
<1>2. CASE run' = r
  BY <1>2 DEF Vet
<1>. QED
  BY <1>1, <1>2 DEF CloseIfLast, Put

(* A child is heard of, in the stage the run is in. *)
AtWork(r, kids, c) ==
  /\ Vet(r) /\ r.mode \in {"Running", "AwaitingReply"} /\ r.stage \in Stages
  /\ kids[c].stage = r.stage
  /\ r.stage \in {"Review", "Verify"} => r.mode = "Running"
  /\ r.stage = "Review" => c \in r.pending

LEMMA AtWorkDue ==
  ASSUME NEW r, NEW kids, NEW c, AtWork(r, kids, c)
  PROVE  /\ Known(r) /\ Due(r, r.stage)
         /\ r.stage = "Fix" /\ r.fixBase = 0 => r.blind
  BY DEF AtWork, Vet, is_active, Waits

LEMMA ChildFailedVet ==
  ASSUME spec.verify, NEW r, NEW kids, NEW c, AtWork(r, kids, c), ChildFailed(r, kids, c)
  PROVE  Vet(run')
<1>1. Known(r) /\ Due(r, r.stage) /\ kids[c].stage = r.stage
  BY AtWorkDue DEF AtWork
<1>2. CASE r.stage # "Review"
  BY <1>1, <1>2, ParkAfterFailureVet DEF ChildFailed
<1>3. CASE r.stage = "Review"
  <2>. DEFINE left == [Leaves(r, c) EXCEPT !.reasked = @ \ {c}]
  <2>1. ParkAfterFailure(left, kids, "Review") \/ CloseIfLast(left, kids)
    BY <1>1, <1>3 DEF ChildFailed
  <2>2. Carries(r, left) /\ left.mode = "Running" /\ left.stage = "Review"
    BY <1>1, <1>3 DEF Leaves, Carries, Known, AtWork
  <2>. HIDE DEF left
  <2>3. Due(left, "Review")
    BY <1>1, <1>3, <2>2, DueSame
  <2>. QED
    BY <2>1, <2>2, <2>3, ParkAfterFailureVet, CloseIfLastVet DEF Carries
<1>. QED
  BY <1>2, <1>3

(* A fix goes to review unverified only when it left the code as it was    *)
(* when it was first started.                                              *)
LEMMA SoloEndedVet ==
  ASSUME spec.verify, NEW r, NEW kids, NEW c, AtWork(r, kids, c),
         r.stage \in {"Plan", "Implement", "Fix"}, SoloEnded(r, kids, c)
  PROVE  Vet(run')
<1>1. /\ Known(r) /\ Due(r, r.stage) /\ kids[c].stage = r.stage
      /\ r.stage = "Fix" /\ r.fixBase = 0 => r.blind
  BY AtWorkDue DEF AtWork
<1>. DEFINE left == [r EXCEPT !.active = @ \ {c}]
            fixed == [left EXCEPT !.fixBase = 0]
            wait == Await(r, "AwaitingReply", r.stage)
            asks == [wait EXCEPT !.asker = c]
<1>2. \/ run' = asks
      \/ r.stage # "Fix" /\ Advance(left, kids, stage_after(r.stage, r, FALSE))
      \/ /\ r.stage = "Fix"
         /\ \E changed \in fix_changed(r) :
              Advance(fixed, kids, stage_after(r.stage, r, changed))
  BY <1>1 DEF SoloEnded, Put
<1>3. Carries(r, left)
  BY <1>1 DEF Carries, Known
<1>. HIDE DEF left
<1>4. /\ Known(fixed) /\ fixed.fixBase = 0
      /\ fixed.cleared = r.cleared /\ fixed.blind = r.blind
  BY <1>3 DEF Carries, Known
<1>. HIDE DEF fixed
<1>5. CASE run' = asks
  <2>1. Carries(r, wait) /\ wait.mode = "AwaitingReply" /\ wait.stage = r.stage
    BY <1>1, AwaitCarries
  <2>. HIDE DEF wait
  <2>2. Carries(r, asks) /\ asks.mode = "AwaitingReply" /\ asks.stage = r.stage
    BY <2>1 DEF Carries, Known
  <2>. HIDE DEF asks
  <2>3. Due(asks, r.stage)
    BY <1>1, <2>2, DueSame
  <2>. QED
    BY <1>1, <1>5, <2>2, <2>3 DEF Vet, Carries
<1>6. CASE r.stage # "Fix" /\ Advance(left, kids, stage_after(r.stage, r, FALSE))
  <2>1. stage_after(r.stage, r, FALSE) \in {"Implement", "Verify"}
    BY <1>6 DEF stage_after
  <2>2. r.fixBase = 0 /\ left.fixBase = 0
    BY <1>1, <1>3, <1>6 DEF Due, Carries
  <2>3. Due(left, stage_after(r.stage, r, FALSE))
    BY <2>1, <2>2 DEF Due
  <2>. QED
    BY <1>3, <1>6, <2>1, <2>3, AdvanceVet DEF Carries, Stages
<1>7. ASSUME r.stage = "Fix", NEW changed \in fix_changed(r),
             Advance(fixed, kids, stage_after(r.stage, r, changed))
      PROVE  Vet(run')
  <2>. DEFINE to == stage_after(r.stage, r, changed)
  <2>1. to = "Verify" \/ (to = "Review" /\ r.source # "Verify" /\ ~changed)
    BY <1>7 DEF stage_after
  <2>2. Advance(fixed, kids, to)
    BY <1>7
  <2>. HIDE DEF to
  <2>3. ASSUME r.source # "Verify", ~changed
        PROVE  Vetted(r)
    <3>1. r.fixBase # 0 /\ r.fixBase = code
      BY <1>7, <2>3 DEF fix_changed
    <3>. QED
      BY <1>1, <1>7, <2>3, <3>1 DEF Due, Vetted
  <2>4. Due(fixed, to)
    BY <1>4, <2>1, <2>3 DEF Due, Vetted
  <2>. QED
    BY <1>4, <2>1, <2>2, <2>4, AdvanceVet DEF Stages
<1>. QED
  BY <1>2, <1>5, <1>6, <1>7

LEMMA ReviewEndedVet ==
  ASSUME spec.verify, NEW r, NEW kids, NEW c, AtWork(r, kids, c), r.stage = "Review",
         ReviewEnded(r, kids, c)
  PROVE  Vet(run')
<1>. DEFINE voted(v) == [Leaves(r, c) EXCEPT !.votes[kids[c].seat] = v]
            left == [Leaves(r, c) EXCEPT !.reasked = @ \ {c}]
            again == [r EXCEPT !.reasked = @ \cup {c}]
<1>1. \/ \E v \in Verdicts : CloseIfLast(voted(v), kids)
      \/ run' = again
      \/ Finalize(left, kids, "Failed")
      \/ CloseIfLast(left, kids)
  <2>1. c \in r.pending
    BY DEF AtWork
  <2>. QED
    BY <2>1 DEF ReviewEnded, Reask, Put
<1>2. Known(r) /\ Due(r, "Review") /\ r.mode = "Running"
  BY AtWorkDue DEF AtWork
<1>3. ASSUME NEW x, Carries(r, x), x.mode = "Running", x.stage = "Review"
      PROVE  /\ CloseIfLast(x, kids) => Vet(run')
             /\ Finalize(x, kids, "Failed") => Vet(run')
             /\ run' = x => Vet(run')
  <2>1. Due(x, "Review")
    BY <1>2, <1>3, DueSame
  <2>2. run' = x => Vet(run')
    BY <1>3, <2>1 DEF Vet, Carries
  <2>. QED
    BY <1>3, <2>1, <2>2, CloseIfLastVet, FinalizeVet DEF Carries
<1>4. /\ Carries(r, left) /\ left.mode = "Running" /\ left.stage = "Review"
      /\ Carries(r, again) /\ again.mode = "Running" /\ again.stage = "Review"
  BY <1>2 DEF Leaves, Carries, Known
<1>5. ASSUME NEW v \in Verdicts, CloseIfLast(voted(v), kids)
      PROVE  Vet(run')
  <2>. DEFINE x == voted(v)
  <2>1. Carries(r, x) /\ x.mode = "Running" /\ x.stage = "Review"
    BY <1>2 DEF Leaves, Carries, Known
  <2>2. CloseIfLast(x, kids)
    BY <1>5
  <2>. HIDE DEF x
  <2>. QED
    BY <1>3, <2>1, <2>2
<1>. HIDE DEF left, voted, again
<1>. QED
  BY <1>1, <1>3, <1>4, <1>5

LEMMA VerifyReportedVet ==
  ASSUME spec.verify, NEW r, NEW kids, NEW c, AtWork(r, kids, c), r.stage = "Verify",
         NEW verdict \in {"pass", "fail", "blocked"}, VerifyReported(r, kids, c, verdict)
  PROVE  Vet(run')
<1>. DEFINE left == [r EXCEPT !.reasked = @ \ {c}, !.active = @ \ {c}]
            passed == [left EXCEPT !.failures = 0, !.vextra = 0]
            failed == [left EXCEPT !.failures = @ + 1, !.source = "Verify"]
<1>1. \/ verdict = "pass" /\ RouteVerify(passed, kids, verdict)
      \/ verdict = "fail" /\ RouteVerify(failed, kids, verdict)
      \/ verdict = "blocked" /\ RouteVerify(left, kids, verdict)
  BY DEF VerifyReported
<1>2. Known(r) /\ r.fixBase = 0
  BY AtWorkDue DEF Due
<1>3. Known(left) /\ left.fixBase = 0
  BY <1>2 DEF Known
<1>. HIDE DEF left
<1>4. Known(passed) /\ passed.fixBase = 0
  BY <1>3 DEF Known
<1>5. Known(failed) /\ failed.fixBase = 0 /\ failed.source = "Verify"
  BY <1>3 DEF Known
<1>. HIDE DEF passed, failed
<1>. QED
  BY <1>1, <1>3, <1>4, <1>5, RouteVerifyVet

LEMMA VerifyEndedVet ==
  ASSUME spec.verify, NEW r, NEW kids, NEW c, AtWork(r, kids, c), r.stage = "Verify",
         VerifyEnded(r, kids, c)
  PROVE  Vet(run')
<1>. DEFINE again == [r EXCEPT !.reasked = @ \cup {c}]
<1>1. \/ \E verdict \in {"pass", "fail", "blocked"} : VerifyReported(r, kids, c, verdict)
      \/ run' = again
  BY DEF VerifyEnded, Reask, Put
<1>2. CASE run' = again
  <2>1. Known(r) /\ Due(r, "Verify") /\ r.mode = "Running"
    BY AtWorkDue DEF AtWork
  <2>2. Carries(r, again) /\ again.mode = "Running" /\ again.stage = "Verify"
    BY <2>1 DEF Carries, Known
  <2>. HIDE DEF again
  <2>3. Due(again, "Verify")
    BY <2>1, <2>2, DueSame
  <2>. QED
    BY <1>2, <2>2, <2>3 DEF Vet, Carries
<1>. QED
  BY <1>1, <1>2, VerifyReportedVet

LEMMA StageFinishedVet ==
  ASSUME spec.verify, NEW kids, NEW c, Good(run, children), Touched(children, kids, c),
         NEW success, Vet(run), StageFinished(kids, c, success)
  PROVE  Vet(run')
<1>1. CASE ~Heeded(c)
  BY <1>1 DEF StageFinished, Put
<1>2. CASE Heeded(c)
  <2>1. Heard(run, kids, c)
    BY <1>2, HeardFacts
  <2>2. kids[c].stage = run.stage /\ run.stage \in Stages /\ AtWork(run, kids, c)
    BY <1>2, <2>1 DEF Heard, Heeded, AtWork
  <2>3. \/ ChildFailed(run, kids, c)
        \/ run.stage = "Review" /\ ReviewEnded(run, kids, c)
        \/ run.stage = "Verify" /\ VerifyEnded(run, kids, c)
        \/ run.stage \in {"Plan", "Implement", "Fix"} /\ SoloEnded(run, kids, c)
    BY <1>2, <2>2 DEF StageFinished, Stages
  <2>. QED
    BY <2>2, <2>3, ChildFailedVet, ReviewEndedVet, VerifyEndedVet, SoloEndedVet
<1>. QED
  BY <1>1, <1>2

-----------------------------------------------------------------------------
(* The actions *)

Before == spec.verify /\ Good(run, children) /\ Vet(run)

LEMMA StartVet ==
  ASSUME Before, Create \/ CheckoutLands
  PROVE  Vet(run')
<1>. DEFINE x == [run EXCEPT !.mode = "Running"]
            y == [run EXCEPT !.mode = "Running", !.starting = TRUE]
            z == [run EXCEPT !.starting = FALSE]
<1>1. \/ /\ run.mode = "New"
         /\ run' = y \/ SpawnStage(x, children, first_stage)
      \/ /\ run.starting
         /\ SpawnStage(z, children, first_stage) \/ Finalize(z, children, "Failed")
      \/ run' = run
  BY DEF Create, CheckoutLands, Put
<1>2. CASE run.mode = "New" \/ run.starting
  <2>1. /\ Known(run) /\ run.fixBase = 0 /\ run.stage = "Implement"
        /\ first_stage \in {"Plan", "Implement"}
    BY <1>2, FirstStage DEF Before, Good, Staffed, Vet, Due, is_active
  <2>2. /\ Carries(run, x) /\ Carries(run, z)
        /\ Carries(run, y) /\ y.mode = "Running" /\ y.stage = "Implement"
    BY <2>1 DEF Carries, Known
  <2>. HIDE DEF x, y, z
  <2>3. /\ Due(x, first_stage) /\ Due(z, first_stage) /\ Due(y, "Implement")
    BY <2>1, <2>2 DEF Due, Carries
  <2>4. CASE run' = y
    BY <2>2, <2>3, <2>4 DEF Vet, Carries
  <2>. QED
    BY <1>1, <2>1, <2>2, <2>3, <2>4, SpawnStageVet, FinalizeVet DEF Before, Carries, Stages
<1>. QED
  BY <1>1, <1>2 DEF Before

(* The working copy changes under an implement or fix agent only. *)
LEMMA EditsVet ==
  ASSUME Before, NEW c \in DOMAIN children, Edits(c)
  PROVE  Vet(run)'
<1>1. /\ run.mode \in {"Running", "AwaitingReply"} /\ run.stage \in {"Implement", "Fix"}
  BY DEF Edits, Before, Good, Staffed
<1>2. /\ Known(run) /\ Due(run, run.stage)
      /\ run.stage = "Fix" /\ run.fixBase = 0 => run.blind
  BY <1>1 DEF Before, Vet, is_active, Waits
<1>3. run' = run
  BY DEF Edits
<1>4. run.fixBase # 0 => run.stage = "Fix"
  BY <1>2 DEF Due
<1>. QED
  BY <1>1, <1>2, <1>3, <1>4 DEF Vet, Due, Vetted, Known, is_active

LEMMA ReportVet ==
  ASSUME Before, NEW c \in DOMAIN children,
         SeesTurnEnded(c) \/ SeesError(c) \/ CancelChild(c)
  PROVE  Vet(run')
<1>1. Good(run, children) /\ KidsOK(children) /\ children[c] \in ChildRecords
  BY DEF Before, Good, Fit, KidsOK
<1>2. PICK kid, success :
        /\ kid \in ChildRecords
        /\ kid.stage = children[c].stage /\ kid.seat = children[c].seat
        /\ kid.alive => children[c].alive
        /\ StageFinished([children EXCEPT ![c] = kid], c, success)
  BY <1>1, ReportedKid
<1>. DEFINE all == [children EXCEPT ![c] = kid]
<1>3. StageFinished(all, c, success)
  BY <1>2
<1>4. all = [children EXCEPT ![c] = kid]
  OBVIOUS
<1>. HIDE DEF all
<1>5. Touched(children, all, c)
  BY <1>1, <1>2, <1>4, TouchedFacts
<1>. QED
  BY <1>1, <1>3, <1>5, StageFinishedVet DEF Before

LEMMA UserVet ==
  ASSUME Before, StopRun \/ workflow_pause \/ workflow_resume \/ workflow_reply
  PROVE  Vet(run')
<1>1. Known(run) /\ run.stage \in Stages
  BY DEF Before, Vet, Good
<1>2. CASE StopRun
  BY <1>1, <1>2, FinalizeVet DEF StopRun
<1>3. CASE workflow_pause
  <2>. DEFINE x == [run EXCEPT !.pause = TRUE]
  <2>1. run' = x /\ run.mode = "Running"
    BY <1>3 DEF workflow_pause, Put
  <2>2. Carries(run, x) /\ x.mode = run.mode /\ x.stage = run.stage
    BY <1>1 DEF Carries, Known
  <2>. HIDE DEF x
  <2>3. Due(run, run.stage) /\ Due(x, run.stage)
    BY <2>1, <2>2, DueSame DEF Before, Vet, is_active
  <2>. QED
    BY <2>1, <2>2, <2>3 DEF Before, Vet, Carries, is_active
<1>4. CASE workflow_resume
  <2>1. PICK note : SpawnStage([run EXCEPT !.pause = FALSE, !.note = note],
                               children, run.stage)
    BY <1>4 DEF workflow_resume
  <2>. DEFINE x == [run EXCEPT !.pause = FALSE, !.note = note]
  <2>2. SpawnStage(x, children, run.stage)
    BY <2>1
  <2>3. Carries(run, x)
    BY <1>1 DEF Carries, Known
  <2>. HIDE DEF x
  <2>4. Due(x, run.stage)
    BY <1>4, <2>3, DueSame DEF Before, Vet, workflow_resume, is_active
  <2>. QED
    BY <1>1, <2>2, <2>3, <2>4, SpawnStageVet DEF Before, Carries
<1>5. CASE workflow_reply
  <2>. DEFINE x == [run EXCEPT !.active = @ \ {run.asker}, !.note = "answer"]
              e == Enter(run, "Running", run.stage)
  <2>1. run.mode = "AwaitingReply" /\ (run' = e \/ SpawnStage(x, children, run.stage))
    BY <1>5 DEF workflow_reply, Put
  <2>2. Due(run, run.stage) /\ (run.stage = "Fix" /\ run.fixBase = 0 => run.blind)
    BY <2>1 DEF Before, Vet, is_active, Waits
  <2>3. Carries(run, x)
    BY <1>1 DEF Carries, Known
  <2>4. Carries(run, e) /\ e.mode = "Running" /\ e.stage = run.stage
    BY <1>1, EnterCarries
  <2>. HIDE DEF x, e
  <2>5. Due(x, run.stage) /\ Due(e, run.stage)
    BY <2>2, <2>3, <2>4, DueSame
  <2>6. CASE run' = e
    BY <2>2, <2>4, <2>5, <2>6 DEF Vet, Carries
  <2>. QED
    BY <1>1, <2>1, <2>3, <2>5, <2>6, SpawnStageVet DEF Before, Carries
<1>. QED
  BY <1>2, <1>3, <1>4, <1>5

LEMMA DecideLimitVet ==
  ASSUME Before, DecideLimit
  PROVE  Vet(run')
<1>1. Known(run) /\ Due(run, "Review")
  BY DEF Before, Vet, DecideLimit, Good, Staffed, is_active, Waits
<1>2. CASE Finalize(run, children, "Done")
  BY <1>1, <1>2, FinalizeVet
<1>3. ASSUME NEW n, NEW note,
             Advance([Extended(run, note) EXCEPT !.extra = @ + Granted(n)], children, "Fix")
      PROVE  Vet(run')
  <2>. DEFINE m == Extended(run, note)
              x == [m EXCEPT !.extra = @ + Granted(n)]
  <2>1. Advance(x, children, "Fix")
    BY <1>3
  <2>2. Carries(run, m)
    BY <1>1 DEF Extended, Carries, Known
  <2>. HIDE DEF m
  <2>3. Carries(run, x)
    BY <2>2 DEF Carries, Known
  <2>. HIDE DEF x
  <2>4. Due(x, "Fix")
    BY <1>1, <2>3 DEF Due, Vetted, Carries
  <2>. QED
    BY <2>1, <2>3, <2>4, AdvanceVet DEF Before, Carries, Stages
<1>. QED
  BY <1>2, <1>3 DEF DecideLimit

LEMMA DecideVerifyVet ==
  ASSUME Before, DecideVerify
  PROVE  Vet(run')
<1>1. /\ Known(run) /\ run.fixBase = 0
      /\ ~run.blocked => run.source = "Verify"
  BY DEF Before, Vet, Due, DecideVerify, Good, Staffed, is_active, Waits
<1>2. ASSUME NEW n, NEW note,
             IF run.blocked
             THEN Advance(Extended(run, note), children, "Verify")
             ELSE Advance([Extended(run, note) EXCEPT !.vextra = @ + Granted(n)], children, "Fix")
      PROVE  Vet(run')
  <2>. DEFINE m == Extended(run, note)
              x == [m EXCEPT !.vextra = @ + Granted(n)]
  <2>1. \/ Advance(m, children, "Verify")
        \/ ~run.blocked /\ Advance(x, children, "Fix")
    BY <1>2
  <2>2. Carries(run, m)
    BY <1>1 DEF Extended, Carries, Known
  <2>. HIDE DEF m
  <2>3. Carries(run, x)
    BY <2>2 DEF Carries, Known
  <2>. HIDE DEF x
  <2>4. Due(m, "Verify") /\ (~run.blocked => Due(x, "Fix"))
    BY <1>1, <2>2, <2>3 DEF Due, Carries
  <2>. QED
    BY <2>1, <2>2, <2>3, <2>4, AdvanceVet DEF Before, Carries, Stages
<1>3. CASE Advance([Cleared(run) EXCEPT !.source = "Review"], children, "Review")
  <2>. DEFINE m == Cleared(run)
              x == [m EXCEPT !.source = "Review"]
  <2>1. Advance(x, children, "Review")
    BY <1>3
  <2>2. Known(m) /\ m.fixBase = 0 /\ m.cleared = code
    BY <1>1 DEF Cleared, Known
  <2>. HIDE DEF m
  <2>3. Known(x) /\ x.fixBase = 0 /\ x.cleared = code
    BY <2>2 DEF Known
  <2>. HIDE DEF x
  <2>4. Due(x, "Review")
    BY <2>3 DEF Due, Vetted
  <2>. QED
    BY <2>1, <2>3, <2>4, AdvanceVet DEF Before, Stages
<1>. QED
  BY <1>2, <1>3 DEF DecideVerify

LEMMA RestartVet ==
  ASSUME Before, Restart
  PROVE  Vet(run')
<1>. DEFINE lost == [run EXCEPT !.mode = "Lost", !.starting = FALSE]
            e == Enter(run, "Paused", run.stage)
            back == IF run.stage = "Review" /\ e.round > 0 THEN e.round - 1 ELSE e.round
            parked == [e EXCEPT !.active = {}, !.pending = {}, !.votes = NoVotes,
                                !.note = "restart", !.starting = FALSE, !.round = back]
<1>1. \/ run' = lost
      \/ run.mode = "Running" /\ run' = parked
      \/ run' = run
  BY DEF Restart
<1>2. Known(run)
  BY DEF Before, Vet
<1>3. Carries(run, e) /\ e.mode = "Paused" /\ e.stage = run.stage
  BY <1>2, EnterCarries
<1>. HIDE DEF e, back
<1>4. Known(lost) /\ lost.mode = "Lost"
  BY <1>2 DEF Known
<1>5. Carries(run, parked) /\ parked.mode = "Paused" /\ parked.stage = run.stage
  BY <1>3 DEF Carries, Known
<1>. HIDE DEF lost, parked
<1>6. CASE run' = lost
  BY <1>4, <1>6 DEF Vet, is_active, Waits
<1>7. CASE run.mode = "Running" /\ run' = parked
  <2>1. Due(parked, run.stage)
    BY <1>5, <1>7, DueSame DEF Before, Vet, is_active
  <2>. QED
    BY <1>5, <1>7, <2>1 DEF Vet, Carries
<1>. QED
  BY <1>1, <1>6, <1>7 DEF Before

-----------------------------------------------------------------------------
(* Every behaviour *)

VetInv == spec.verify => Vet(run)

LEMMA NextVet == Inv /\ VetInv /\ [Next]_vars => VetInv'
<1>. SUFFICES ASSUME Inv, VetInv, [Next]_vars, spec.verify
              PROVE  Vet(run)'
  <2>1. Inv /\ [Next]_vars => spec' = spec
    BY NextGood
  <2>. QED
    BY <2>1 DEF VetInv
<1>1. Before
  BY DEF Before, Inv, VetInv
<1>2. ASSUME Vet(run'), code' = code PROVE Vet(run)'
  BY <1>2 DEF Vet, Due, Vetted, Known, is_active
<1>3. ASSUME NEW c \in DOMAIN children, Edits(c) PROVE Vet(run)'
  BY <1>1, <1>3, EditsVet
<1>4. CASE Create \/ CheckoutLands
  BY <1>1, <1>2, <1>4, StartVet DEF Create, CheckoutLands
<1>5. ASSUME NEW c \in DOMAIN children, EndsTurn(c) \/ Dies(c) \/ Chats(c) PROVE Vet(run)'
  BY <1>1, <1>2, <1>5 DEF EndsTurn, Dies, Chats, Before
<1>6. ASSUME NEW c \in DOMAIN children, SeesTurnEnded(c) \/ SeesError(c) \/ CancelChild(c)
      PROVE  Vet(run)'
  BY <1>1, <1>2, <1>6, ReportVet DEF SeesTurnEnded, SeesError, CancelChild
<1>7. CASE StopRun \/ workflow_pause \/ workflow_resume \/ workflow_reply
  BY <1>1, <1>2, <1>7, UserVet DEF StopRun, workflow_pause, workflow_resume, workflow_reply
<1>8. CASE DecideLimit
  BY <1>1, <1>2, <1>8, DecideLimitVet DEF DecideLimit
<1>9. CASE DecideVerify
  BY <1>1, <1>2, <1>9, DecideVerifyVet DEF DecideVerify
<1>10. CASE Restart
  BY <1>1, <1>2, <1>10, RestartVet DEF Restart
<1>11. CASE UNCHANGED vars
  BY <1>1, <1>2, <1>11 DEF vars, Before
<1>. QED
  BY <1>3, <1>4, <1>5, <1>6, <1>7, <1>8, <1>9, <1>10, <1>11 DEF Next, Actor

LEMMA SpecVet == Spec => []VetInv
<1>1. Init => VetInv
  <2>. SUFFICES ASSUME Init PROVE Vet(run)
    BY DEF VetInv
  <2>1. /\ Known(run) /\ run.mode = "New" /\ run.stage = "Implement" /\ run.fixBase = 0
    BY DEF Init, NewRun, Known
  <2>. QED
    BY <2>1 DEF Vet, Due
<1>. QED
  BY <1>1, NextVet, SpecInv, PTL DEF Spec

LEMMA CodeOrRun == [Next]_vars => code' = code \/ run' = run
<1>. SUFFICES ASSUME [Next]_vars PROVE code' = code \/ run' = run
  OBVIOUS
<1>1. ASSUME NEW c \in DOMAIN children,
             EndsTurn(c) \/ Edits(c) \/ Dies(c) \/ Actor(c) \/ Chats(c) \/ CancelChild(c)
      PROVE  code' = code \/ run' = run
  BY <1>1 DEF EndsTurn, Edits, Dies, Actor, SeesTurnEnded, SeesError, Chats, CancelChild
<1>2. CASE Create \/ CheckoutLands \/ StopRun \/ Restart \/ UNCHANGED vars
  BY <1>2 DEF Create, CheckoutLands, StopRun, Restart, vars
<1>3. CASE workflow_pause \/ workflow_resume \/ workflow_reply \/ DecideLimit \/ DecideVerify
  BY <1>3 DEF workflow_pause, workflow_resume, workflow_reply, DecideLimit, DecideVerify
<1>. QED
  BY <1>1, <1>2, <1>3 DEF Next

(* The abstract pipeline says when a round is spent: when a review starts. *)
LEMMA RoundRaised ==
  ASSUME run.round \in Nat, run'.round \in Nat, run'.mode \in Modes,
         ShapeStep, run'.round > run.round
  PROVE  Reviewing(run')
<1>. DEFINE status == CASE run.mode \in {"New", "Running"} -> "working"
                        [] run.mode = "Done" -> "succeeded"
                        [] run.mode \in {"Failed", "Lost"} -> "failed"
                        [] OTHER -> "parked"
            phase == IF run.mode = "New" \/ run.starting THEN first_stage ELSE run.stage
<1>1. Shape!Next /\ Shape!Rounds
  BY DEF ShapeStep, Shape!vars, Shape!Next, Shape!Stay, Shape!Move, Shape!Succeed, Shape!Fail
<1>2. phase' = "Review" /\ status' = "working"
  BY <1>1 DEF Shape!Rounds
<1>3. first_stage' # "Review"
  BY DEF first_stage
<1>4. run'.mode = "Running" /\ run'.stage = "Review"
  BY <1>2, <1>3
<1>. QED
  BY <1>4 DEF Reviewing

(* With a verify stage, reviewers are only given code that passed it, that *)
(* the workflow excuses from passing, or that the user let through -       *)
(* whatever interrupted the fix that made it.                              *)
THEOREM OnlyClearedSeen == Spec => ReviewersSeeClearedCode
<1>1. Inv /\ used \in Nat /\ VetInv /\ VetInv' /\ [Next]_vars =>
        [spec.verify /\ run'.round > run.round => run'.cleared = code \/ run'.blind]_vars
  <2>. SUFFICES ASSUME Inv, used \in Nat, VetInv', [Next]_vars,
                       spec.verify, run'.round > run.round
                PROVE  run'.cleared = code \/ run'.blind
    OBVIOUS
  <2>1. Good(run, children) /\ Good(run', children') /\ spec' = spec /\ Steps
    BY NextGood, StepsTaken DEF Inv
  <2>2. Reviewing(run') /\ code' = code
    BY <2>1, RoundRaised, CodeOrRun DEF Steps, Good, Fit
  <2>3. Vetted(run)'
    BY <2>1, <2>2 DEF VetInv, Vet, Due, Reviewing, is_active
  <2>. QED
    BY <2>2, <2>3 DEF Vetted
<1>. QED
  BY <1>1, SpecInv, UsedType, SpecVet, PTL DEF Spec, ReviewersSeeClearedCode

==============================================================================
