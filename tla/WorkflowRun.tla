---------------------------- MODULE WorkflowRun ----------------------------
(***************************************************************************)
(* One workflow pipeline, plan? -> implement -> verify? -> review <-> fix: *)
(* the `WorkflowRun` of src/src/daemon/workflow/run.rs and the handlers of *)
(* the daemon actor that drive it (src/src/daemon/actor/workflow*.rs).     *)
(*                                                                         *)
(* The actor is one task and awaits inside its handlers, so a handler is   *)
(* one step.  The agent sessions of the stage children run beside it: a    *)
(* session's turn may end, or its process die, at any moment, and what it  *)
(* sends waits in the actor's channel until the actor gets to it, with any *)
(* user command handled in between.  What an agent wrote is abstracted to  *)
(* what the parsers make of it.                                            *)
(***************************************************************************)
EXTENDS Naturals, Sequences, FiniteSets

CONSTANTS NumReviewers,  \* reviewers of a round
          Specs,         \* the workflow files considered
          Asked,         \* what a user may ask for in `decide { rounds }`
          Faults,        \* bound: which failures the environment may produce
          MaxEvents,     \* bound: user commands and failures of sessions
          MaxCode        \* bound: versions of the working copy

Reviewers == 1..NumReviewers
Stages == {"Plan", "Implement", "Verify", "Review", "Fix"}
Waits == {"AwaitingReply", "AwaitingLimit", "AwaitingVerify"}
Modes == Waits \cup {"New", "Running", "Paused", "Done", "Failed", "Lost"}
Verdicts == {"approve", "approveFix", "low", "changes"}

(* The fields of WorkflowSpec the engine branches on, and whether the task *)
(* was created in a worktree of its own.                                   *)
SpecRecords == [plan : BOOLEAN, verify : BOOLEAN, required : BOOLEAN,
                max_attempts : Nat \ {0}, max_rounds : Nat \ {0},
                same_session : BOOLEAN, on_limit : {"Ask", "Finish"},
                worktree : BOOLEAN]

ASSUME WorkflowAssumption ==
  /\ NumReviewers \in Nat \ {0}
  /\ Specs \subseteq SpecRecords
  /\ Asked \subseteq Nat
  /\ Faults \subseteq {"die", "quota", "nostart", "restart", "garble", "cancel", "diff"}
  /\ MaxEvents \in Nat /\ MaxCode \in Nat \ {0}

VARIABLES
  spec,      \* the workflow of this run, fixed when the task is created
  run,       \* the WorkflowRun, and its entry in pending_workflow_starts
  children,  \* every stage child ever created: its session and its mail
  checkout,  \* the task's worktree: none, being made off the loop, or recorded
  code,      \* version of the working copy, for its diff fingerprint
  used       \* user commands and failures so far

vars == <<spec, run, children, checkout, code, used>>

(* A stage child.  owed counts prompts its session has not ended a turn    *)
(* for, ended the TurnEnded updates it sent that the actor has not seen,   *)
(* err an AcpUpdate::Error the actor has not seen.                         *)
ChildRecords == [stage : Stages, seat : 0..NumReviewers, alive : BOOLEAN,
                 owed : Nat, ended : Nat, err : BOOLEAN]

(* verdicts, cleared, blind and closed are history: rounds merged from at  *)
(* least one verdict, the code version last let through to review, whether *)
(* a fix has started since without a fingerprint to compare with, and the  *)
(* barrier ids that are no longer open.                                    *)
RunRecords == [mode : Modes, stage : Stages, asker : Nat, barrier : Nat,
               blocked : BOOLEAN, round : Nat, extra : Nat, pause : BOOLEAN,
               note : {"none", "note", "answer", "lost", "restart"},
               pending : SUBSET Nat, active : SUBSET Nat, reasked : SUBSET Nat,
               votes : [Reviewers -> Verdicts \cup {"none"}],
               prior : [Reviewers -> Nat], seq : Nat,
               failures : Nat, vextra : Nat, source : {"Review", "Verify"},
               fixBase : 0..MaxCode, starting : BOOLEAN,
               verdicts : Nat, cleared : 0..MaxCode, blind : BOOLEAN, closed : SUBSET Nat]

TypeOK ==
  /\ spec \in Specs
  /\ run \in RunRecords
  /\ children \in Seq(ChildRecords)
  /\ run.active \cup run.pending \cup run.reasked \subseteq 1..Len(children)
  /\ \A i \in Reviewers : run.prior[i] \in 0..Len(children)
  /\ run.mode = "AwaitingReply" => run.asker \in 1..Len(children)
  /\ checkout \in {"none", "running", "ready"} /\ code \in 1..MaxCode /\ used \in 0..MaxEvents

NoVotes == [i \in Reviewers |-> "none"]

NewRun ==
  [mode |-> "New", stage |-> "Implement", asker |-> 0, barrier |-> 0,
   blocked |-> FALSE, round |-> 0, extra |-> 0, pause |-> FALSE, note |-> "none",
   pending |-> {}, active |-> {}, reasked |-> {}, votes |-> NoVotes,
   prior |-> [i \in Reviewers |-> 0], seq |-> 0, failures |-> 0, vextra |-> 0,
   source |-> "Review", fixBase |-> 0, starting |-> FALSE,
   verdicts |-> 0, cleared |-> 0, blind |-> FALSE, closed |-> {}]

Init ==
  /\ spec \in Specs /\ run = NewRun /\ children = <<>>
  /\ checkout = "none" /\ code = 1 /\ used = 0

-----------------------------------------------------------------------------
first_stage == IF spec.plan THEN "Plan" ELSE "Implement"
max_rounds(r) == spec.max_rounds + r.extra
verify_limit(r) == (IF spec.verify THEN spec.max_attempts ELSE 0) + r.vextra
(* Mutation: an off-by-one at the limit. *)
one_round_more(r) == r.round <= max_rounds(r)
may_fix(r) == r.round < max_rounds(r)
is_active(r) == r.mode \in Waits \cup {"Running", "Paused"}

(* Every change of RunState: what only the old state carried is gone. *)
Enter(r, mode, stage) ==
  [r EXCEPT !.mode = mode, !.stage = stage, !.asker = 0, !.barrier = 0,
            !.blocked = FALSE, !.closed = @ \cup ({r.barrier} \ {0})]

Parked(r, next) == [Enter(r, "Paused", next) EXCEPT !.pause = FALSE]

(* Mutation: ids are reused within a round. *)
BarrierPerRound(r) == r.round + 1
next_barrier_id(r) == r.seq + 1

(* A state that waits for the user, under a barrier id of its own. *)
Await(r, mode, stage) ==
  [Enter(r, mode, stage) EXCEPT !.barrier = next_barrier_id(r), !.seq = next_barrier_id(r)]

Put(r, kids) == run' = r /\ children' = kids

(* workflow_followup: a prompt put into a dead session vanishes. *)
Prompted(kids, asked) ==
  [c \in DOMAIN kids |-> IF c \in asked /\ kids[c].alive
                         THEN [kids[c] EXCEPT !.owed = @ + 1] ELSE kids[c]]

(* Mutation: a reviewer is filed under the next seat. *)
ChildNextSeat(stage, seat, started) ==
  [stage |-> stage, seat |-> seat + 1, alive |-> started,
   owed |-> IF started THEN 1 ELSE 0, ended |-> 0, err |-> FALSE]

(* A child whose session did not start has none; so has the number a       *)
(* reviewer's fresh child would have had when its session is reused.       *)
Child(stage, seat, started) ==
  [stage |-> stage, seat |-> seat, alive |-> started,
   owed |-> IF started THEN 1 ELSE 0, ended |-> 0, err |-> FALSE]

(* A session dropped on purpose says nothing more. *)
Dropped(kid) == [kid EXCEPT !.alive = FALSE, !.owed = 0]
Swept(kids) == [c \in DOMAIN kids |-> Dropped(kids[c])]

(* Mutation: the pending start survives the end. *)
FinalizeKeepsStart(r, kids, mode) ==
  Put([Enter(r, mode, r.stage) EXCEPT !.active = {}, !.pending = {}], Swept(kids))

(* workflow_finalize, with workflow_stop_children: every session of the    *)
(* run goes, and so does a first stage still waiting for its checkout.     *)
Finalize(r, kids, mode) ==
  Put([Enter(r, mode, r.stage) EXCEPT !.active = {}, !.pending = {}, !.starting = FALSE],
      Swept(kids))

(* The quota gate: some agent of the stage has no quota left. *)
Refused(r, kids, stage) == "quota" \in Faults /\ Put(Parked(r, stage), kids)

Starts == IF "nostart" \in Faults THEN BOOLEAN ELSE {TRUE}

(* Mutation: a fix run again takes a new fingerprint. *)
FixBasesAnew(r, stage) == IF stage = "Fix" /\ spec.verify THEN {code} ELSE {r.fixBase}

(* mark_fix_base: the first attempt of a fix fingerprints the working      *)
(* copy, unless the diff cannot be read.                                   *)
FixBases(r, stage) ==
  IF stage = "Fix" /\ spec.verify /\ r.fixBase = 0
  THEN {code} \cup {n \in {0} : "diff" \in Faults}
  ELSE {r.fixBase}

(* Plan, implement and fix: one child; a failed start fails the run. *)
SpawnSolo(r, kids, stage) ==
  \E started \in Starts, base \in FixBases(r, stage) :
    LET new == [Enter(r, "Running", stage) EXCEPT
                  !.note = "none", !.fixBase = base,
                  !.blind = @ \/ (stage = "Fix" /\ base = 0)]
        all == Append(kids, Child(stage, 0, started))
    IN IF started
       THEN Put([new EXCEPT !.active = @ \cup {Len(all)}], all)
       ELSE Finalize(new, all, "Failed")

(* Review: each reviewer continues in its previous session when that is    *)
(* still alive, else gets a fresh child; one that fails to start is left   *)
(* out of the round.                                                       *)
SpawnReview(r, kids) ==
  LET reused == {i \in Reviewers : /\ spec.same_session /\ r.round > 0
                                   /\ r.prior[i] # 0 /\ kids[r.prior[i]].alive}
      fresh(i) == Len(kids) + i
  IN \E started \in [Reviewers -> Starts] :
       LET here == {i \in Reviewers : i \in reused \/ started[i]}
           of(i) == IF i \in reused THEN r.prior[i] ELSE fresh(i)
           staff == {of(i) : i \in here}
       IN /\ \A i \in reused : started[i]
          /\ Put([Enter(r, "Running", "Review") EXCEPT
                    !.round = @ + 1, !.pending = staff, !.active = @ \cup staff,
                    !.votes = NoVotes, !.reasked = {},
                    !.prior = [i \in Reviewers |-> IF i \in here THEN of(i) ELSE 0]],
                 Prompted(kids, {r.prior[i] : i \in reused}) \o
                   [i \in Reviewers |->
                      Child("Review", i, started[i] /\ i \notin reused)])

(* workflow_spawn_stage and workflow_advance for every stage but verify. *)
SpawnWork(r, kids, stage) ==
  \/ Refused(r, kids, stage)
  \/ IF stage = "Review" THEN SpawnReview(r, kids) ELSE SpawnSolo(r, kids, stage)

AdvanceToWork(r, kids, stage) ==
  IF r.pause THEN Put(Parked(r, stage), kids) ELSE SpawnWork(r, kids, stage)

(* Code is cleared for review by a verification that passed, or by a       *)
(* workflow that does not require one.                                     *)
Cleared(r) == [r EXCEPT !.cleared = code, !.blind = FALSE]
Excused(r) == IF spec.required THEN r ELSE Cleared(r)

(* route_verify and workflow_verify_route. *)
RouteVerify(r, kids, verdict) ==
  CASE verdict = "pass" ->
         AdvanceToWork(Cleared(r), kids, "Review")
    [] verdict = "fail" /\ r.failures < verify_limit(r) ->
         AdvanceToWork(r, kids, "Fix")
    [] OTHER ->
         IF spec.required
         THEN Put([Await(r, "AwaitingVerify", "Verify") EXCEPT !.blocked = verdict = "blocked"],
                  kids)
         ELSE AdvanceToWork([Excused(r) EXCEPT !.source = "Review"], kids, "Review")

(* Verify: a task in its own worktree is refused without an agent. *)
SpawnVerify(r, kids) ==
  LET new == Enter(r, "Running", "Verify") IN
  IF checkout = "ready"
  THEN RouteVerify(new, kids, "blocked")
  ELSE \E started \in Starts :
         LET told == [new EXCEPT !.note = "none"]
             all == Append(kids, Child("Verify", 0, started))
         IN IF started
            THEN Put([told EXCEPT !.active = @ \cup {Len(all)}], all)
            ELSE Finalize(told, all, "Failed")

SpawnStage(r, kids, stage) ==
  IF stage = "Verify"
  THEN Refused(r, kids, stage) \/ SpawnVerify(r, kids)
  ELSE SpawnWork(r, kids, stage)

(* Mutation: no look at the pause request. *)
AdvanceRegardless(r, kids, next) == SpawnStage(r, kids, next)

Advance(r, kids, next) ==
  IF r.pause THEN Put(Parked(r, next), kids) ELSE SpawnStage(r, kids, next)

(* Mutation: the verify stage is forgotten. *)
StageAfterUnverified(stage, r, changed) == IF stage = "Plan" THEN "Implement" ELSE "Review"

stage_after(stage, r, changed) ==
  CASE stage = "Plan" -> "Implement"
    [] stage = "Implement" /\ spec.verify -> "Verify"
    [] stage = "Fix" /\ spec.verify /\ (r.source = "Verify" \/ changed) -> "Verify"
    [] OTHER -> "Review"

(* An unreadable diff, then or now, counts as changed. *)
fix_changed(r) == {r.fixBase = 0 \/ r.fixBase # code} \cup {n \in {TRUE} : "diff" \in Faults}

-----------------------------------------------------------------------------
(* Ends of a stage child's turn.                                           *)

(* Mutation: the round that was lost stays spent. *)
ParkKeepsRound(r, kids, stage) ==
  Put([Parked(r, stage) EXCEPT !.active = {}, !.pending = {}, !.votes = NoVotes,
                               !.reasked = {}, !.note = "lost"], kids)

(* workflow_park_after_failure: losing an agent is no verdict. *)
ParkAfterFailure(r, kids, stage) ==
  LET idle == [Parked(r, stage) EXCEPT !.active = {}, !.note = "lost"]
  IN Put(IF stage = "Review"
         THEN [idle EXCEPT !.pending = {}, !.votes = NoVotes, !.reasked = {},
                           !.round = IF @ > 0 THEN @ - 1 ELSE 0]
         ELSE idle, kids)

(* workflow_merge_reviews. *)
MergeReviews(r, kids) ==
  LET given == {r.votes[i] : i \in Reviewers} \ {"none"}
      done == [r EXCEPT !.votes = NoVotes, !.verdicts = IF given = {} THEN @ ELSE @ + 1]
  IN IF given \subseteq {"approve", "approveFix"} \/ given \cap {"approveFix", "changes"} = {}
     THEN Finalize(done, kids, "Done")
     ELSE LET found == [done EXCEPT !.source = "Review"]
          IN CASE may_fix(r) -> Advance(found, kids, "Fix")
               [] ~may_fix(r) /\ spec.on_limit = "Ask" ->
                    Put(Await(found, "AwaitingLimit", "Review"), kids)
               [] OTHER -> Finalize(found, kids, "Done")

(* A reviewer leaves the round, with a verdict or without. *)
Leaves(r, c) == [r EXCEPT !.pending = @ \ {c}, !.active = @ \ {c}]

CloseIfLast(r, kids) ==
  IF r.pending = {} THEN MergeReviews(r, kids) ELSE Put(r, kids)

(* workflow_child_failed: a lost reviewer is left out of the verdict; any  *)
(* other lost stage, or a round that lost them all, is parked.             *)
ChildFailed(r, kids, c) ==
  IF kids[c].stage # "Review"
  THEN ParkAfterFailure(r, kids, kids[c].stage)
  ELSE LET left == [Leaves(r, c) EXCEPT !.reasked = @ \ {c}]
       IN IF left.pending = {} /\ left.votes = NoVotes
          THEN ParkAfterFailure(left, kids, "Review")
          ELSE CloseIfLast(left, kids)

(* A plan, implement or fix turn asks the user, or gives its result. *)
SoloEnded(r, kids, c) ==
  LET stage == kids[c].stage
      left == [r EXCEPT !.active = @ \ {c}]
  IN \/ Put([Await(r, "AwaitingReply", stage) EXCEPT !.asker = c], kids)
     \/ /\ stage # "Fix"
        /\ Advance(left, kids, stage_after(stage, r, FALSE))
     \/ /\ stage = "Fix"
        /\ \E changed \in fix_changed(r) :
             Advance([left EXCEPT !.fixBase = 0], kids, stage_after(stage, r, changed))

(* Mutation: no limit on asking again. *)
MayReaskForever(r, kids, c) == kids[c].alive

(* A reply nothing can be parsed from is asked for once more, of a session *)
(* that is still alive.                                                    *)
MayReask(r, kids, c) == c \notin r.reasked /\ kids[c].alive

(* Mutation: counted as asked, never sent. *)
ReaskUnsent(r, kids, c) == Put([r EXCEPT !.reasked = @ \cup {c}], kids)

Reask(r, kids, c) ==
  Put([r EXCEPT !.reasked = @ \cup {c}], Prompted(kids, {c}))

(* workflow_review_finished. *)
ReviewEnded(r, kids, c) ==
  IF c \notin r.pending THEN Put(r, kids)
  ELSE \/ \E v \in Verdicts :
            CloseIfLast([Leaves(r, c) EXCEPT !.votes[kids[c].seat] = v], kids)
       \/ /\ "garble" \in Faults
          /\ IF MayReask(r, kids, c) THEN Reask(r, kids, c)
             ELSE LET left == [Leaves(r, c) EXCEPT !.reasked = @ \ {c}]
                  IN IF left.pending = {} /\ left.votes = NoVotes
                     THEN Finalize(left, kids, "Failed")
                     ELSE CloseIfLast(left, kids)

(* The verdict is counted before it is routed. *)
VerifyReported(r, kids, c, verdict) ==
  LET left == [r EXCEPT !.reasked = @ \ {c}, !.active = @ \ {c}]
  IN RouteVerify(CASE verdict = "pass" -> [left EXCEPT !.failures = 0, !.vextra = 0]
                   [] verdict = "fail" -> [left EXCEPT !.failures = @ + 1, !.source = "Verify"]
                   [] OTHER -> left,
                 kids, verdict)

(* workflow_verify_finished. *)
VerifyEnded(r, kids, c) ==
  \/ \E verdict \in {"pass", "fail", "blocked"} : VerifyReported(r, kids, c, verdict)
  \/ /\ "garble" \in Faults
     /\ IF MayReask(r, kids, c) THEN Reask(r, kids, c)
        ELSE VerifyReported(r, kids, c, "blocked")

(* Whether workflow_stage_finished heeds this child now. *)
Heeded(c) ==
  /\ is_active(run) /\ c \in run.active
  /\ \/ run.mode = "Running" /\ run.stage = children[c].stage
     \/ run.mode = "AwaitingReply" /\ run.asker = c

StageFinished(kids, c, success) ==
  IF ~Heeded(c) THEN Put(run, kids)
  ELSE IF ~success THEN ChildFailed(run, kids, c)
  ELSE CASE kids[c].stage = "Review" -> ReviewEnded(run, kids, c)
         [] kids[c].stage = "Verify" -> VerifyEnded(run, kids, c)
         [] OTHER -> SoloEnded(run, kids, c)

-----------------------------------------------------------------------------
(* The task and its checkout.                                              *)

Spend == used < MaxEvents /\ used' = used + 1

(* workflow_create: in a worktree, the first stage waits for the checkout. *)
Create ==
  /\ run.mode = "New"
  /\ IF spec.worktree
     THEN /\ Put([run EXCEPT !.mode = "Running", !.starting = TRUE], children)
          /\ checkout' = "running"
     ELSE /\ SpawnStage([run EXCEPT !.mode = "Running"], children, first_stage)
          /\ UNCHANGED checkout
  /\ UNCHANGED <<spec, code, used>>

(* WorktreeReady: a checkout is recorded whoever waits for it, and the     *)
(* pending entry is the token to start the first stage.                    *)
CheckoutLands ==
  /\ checkout = "running"
  /\ LET taken == [run EXCEPT !.starting = FALSE]
     IN \/ /\ checkout' = "ready"
           /\ IF run.starting THEN SpawnStage(taken, children, first_stage)
              ELSE Put(run, children)
        \/ /\ "nostart" \in Faults
           /\ checkout' = "none"
           /\ IF run.starting THEN Finalize(taken, children, "Failed")
              ELSE Put(run, children)
  /\ UNCHANGED <<spec, code, used>>

-----------------------------------------------------------------------------
(* The sessions of the stage children.                                     *)

EndsTurn(c) ==
  /\ children[c].alive /\ children[c].owed > 0
  /\ children' = [children EXCEPT ![c].owed = @ - 1, ![c].ended = @ + 1]
  /\ UNCHANGED <<spec, run, checkout, code, used>>

(* An implement or fix agent at work changes the working copy. *)
Edits(c) ==
  /\ children[c].alive /\ children[c].owed > 0
  /\ c \in run.active /\ children[c].stage \in {"Implement", "Fix"}
  /\ code < MaxCode /\ code' = code + 1
  /\ UNCHANGED <<spec, run, children, checkout, used>>

(* The process dies, or fails a prompt: its session reports one Error and  *)
(* ends no turn any more, a turn it had ended already excepted             *)
(* (TurnDriver).                                                           *)
Dies(c) ==
  /\ "die" \in Faults /\ children[c].alive /\ Spend
  /\ children' = [children EXCEPT ![c] = [Dropped(@) EXCEPT !.err = TRUE]]
  /\ UNCHANGED <<spec, run, checkout, code>>

SeesTurnEnded(c) ==
  /\ children[c].ended > 0
  /\ StageFinished([children EXCEPT ![c].ended = @ - 1], c, TRUE)
  /\ UNCHANGED <<spec, checkout, code, used>>

SeesError(c) ==
  /\ children[c].err
  /\ StageFinished([children EXCEPT ![c].err = FALSE], c, FALSE)
  /\ UNCHANGED <<spec, checkout, code, used>>

-----------------------------------------------------------------------------
(* The user.                                                               *)

(* A prompt typed into the chat of a stage child. *)
Chats(c) ==
  /\ children[c].alive /\ Spend
  /\ children' = [children EXCEPT ![c].owed = @ + 1]
  /\ UNCHANGED <<spec, run, checkout, code>>

(* task.cancel or task.delete on a stage child: workflow_child_gone. *)
CancelChild(c) ==
  /\ "cancel" \in Faults /\ Spend
  /\ StageFinished([children EXCEPT ![c] = Dropped(@)], c, FALSE)
  /\ UNCHANGED <<spec, checkout, code>>

(* task.cancel, task.archive or task.delete on the parent, and a decision  *)
(* to stop.                                                                *)
StopRun ==
  /\ is_active(run) /\ Finalize(run, children, "Failed")
  /\ UNCHANGED <<spec, checkout, code, used>>

workflow_pause ==
  /\ run.mode = "Running" /\ ~run.pause /\ Spend
  /\ Put([run EXCEPT !.pause = TRUE], children)
  /\ UNCHANGED <<spec, checkout, code>>

workflow_resume ==
  /\ run.mode = "Paused" /\ Spend
  /\ \E note \in {"note", run.note} :
       SpawnStage([run EXCEPT !.pause = FALSE, !.note = note], children, run.stage)
  /\ UNCHANGED <<spec, checkout, code>>

(* refuse_stale_barrier: an answer carries the id of the request it was    *)
(* written for, or none when the client is an older one.                   *)
Accepts(r, given) == given = 0 \/ given = r.barrier

workflow_reply ==
  /\ run.mode = "AwaitingReply" /\ Spend
  /\ \E given \in 0..run.seq : Accepts(run, given)
  /\ IF children[run.asker].alive
     THEN Put(Enter(run, "Running", run.stage),
              Prompted(children, {run.asker}))
     ELSE SpawnStage([run EXCEPT !.active = @ \ {run.asker}, !.note = "answer"],
                     children, run.stage)
  /\ UNCHANGED <<spec, checkout, code>>

(* Rounds granted: at least one, at most MAX_EXTEND_ROUNDS. *)
Granted(n) == IF n < 1 THEN 1 ELSE IF n > 5 THEN 5 ELSE n

(* What both extend decisions do: their note, or none, replaces any other, *)
(* and they supersede a pause.                                             *)
Extended(r, note) == [r EXCEPT !.note = note, !.pause = FALSE]

DecideLimit ==
  /\ run.mode = "AwaitingLimit"
  /\ \E given \in 0..run.seq : Accepts(run, given)
  /\ \/ /\ Spend
        /\ \E n \in Asked, note \in {"none", "note"} :
             Advance([Extended(run, note) EXCEPT !.extra = @ + Granted(n)], children, "Fix")
     \/ Finalize(run, children, "Done") /\ UNCHANGED used
  /\ UNCHANGED <<spec, checkout, code>>

DecideVerify ==
  /\ run.mode = "AwaitingVerify" /\ Spend
  /\ \E given \in 0..run.seq : Accepts(run, given)
  /\ \/ \E n \in Asked, note \in {"none", "note"} :
          IF run.blocked
          THEN Advance(Extended(run, note), children, "Verify")
          ELSE Advance([Extended(run, note) EXCEPT !.vextra = @ + Granted(n)], children, "Fix")
     \/ Advance([Cleared(run) EXCEPT !.source = "Review"], children, "Review")
  /\ UNCHANGED <<spec, checkout, code>>

-----------------------------------------------------------------------------
(* The daemon restarts: sessions, what they had sent and a checkout in the *)
(* making are gone, the run is restored as it was last saved.  A run whose *)
(* first stage waits for its checkout is saved only by a pause request.    *)
Restart ==
  /\ "restart" \in Faults /\ run.mode # "New" /\ Spend
  /\ children' = [c \in DOMAIN children |->
                    [Dropped(children[c]) EXCEPT !.ended = 0, !.err = FALSE]]
  /\ checkout' = IF checkout = "running" THEN "none" ELSE checkout
  /\ run' = CASE run.starting /\ ~run.pause -> [run EXCEPT !.mode = "Lost", !.starting = FALSE]
              [] run.mode = "Running" /\ (run.starting => run.pause) ->
                   [Enter(run, "Paused", run.stage) EXCEPT
                      !.active = {}, !.pending = {}, !.votes = NoVotes, !.note = "restart",
                      !.starting = FALSE,
                      !.round = IF run.stage = "Review" /\ @ > 0 THEN @ - 1 ELSE @]
              [] OTHER -> run
  /\ UNCHANGED <<spec, code>>

Actor(c) == SeesTurnEnded(c) \/ SeesError(c)

Next ==
  \/ Create \/ CheckoutLands
  \/ \E c \in DOMAIN children : EndsTurn(c) \/ Edits(c) \/ Dies(c) \/ Actor(c)
  \/ \E c \in DOMAIN children : Chats(c) \/ CancelChild(c)
  \/ StopRun \/ workflow_pause \/ workflow_resume \/ workflow_reply
  \/ DecideLimit \/ DecideVerify
  \/ Restart

Spec == Init /\ [][Next]_vars

(* The actor drains its channel, a checkout ends one way or the other, and *)
(* an agent ends its turn or its process dies.                             *)
Fairness ==
  /\ WF_vars(CheckoutLands)
  /\ WF_vars(\E c \in DOMAIN children : EndsTurn(c))
  /\ WF_vars(\E c \in DOMAIN children : Actor(c))

FairSpec == Spec /\ Fairness

-----------------------------------------------------------------------------
(* Safety.                                                                 *)

Reviewing(r) == r.mode = "Running" /\ r.stage = "Review"

(* The round counter counts the review rounds that gave a verdict, and the *)
(* one in progress: a round lost to a dead agent, a restart or an empty    *)
(* quota is counted once however often it is run again, and a run never    *)
(* succeeds on a round in which no reviewer gave a verdict.                *)
RoundsCountVerdicts ==
  is_active(run) \/ run.mode = "Done" =>
    run.round = run.verdicts + (IF Reviewing(run) THEN 1 ELSE 0)

(* Rounds never exceed what the workflow and its user allow ("round 3/2"). *)
RoundsStayWithinLimit == run.round <= max_rounds(run)

(* A session that still owes the actor an update. *)
Reports(k) == k.owed > 0 \/ k.ended > 0 \/ k.err

(* A running stage never waits for a child that will not be heard of       *)
(* again: whatever was cancelled, lost, asked again or restarted.          *)
NoSilentChild ==
  run.mode = "Running" => \A c \in run.active : Reports(children[c])

(* When the pipeline has ended no stage session of it is left, and none    *)
(* starts later, a checkout that lands after the end included.             *)
EndedIsQuiet ==
  run.mode \in {"Done", "Failed"} =>
    /\ ~run.starting /\ run.active = {}
    /\ \A c \in DOMAIN children : ~children[c].alive

(* A request that waits for the user never carries an id a client may      *)
(* still hold from an earlier one, a restart in between included.          *)
BarrierIdsAreNew == run.mode \in Waits => run.barrier # 0 /\ run.barrier \notin run.closed

(* A pause, once requested, is not lost: the run stays in its stage until  *)
(* it parks there or at the next barrier, ends, or the user grants more    *)
(* rounds or attempts.                                                     *)
PauseIsKept ==
  [][run.pause /\ run.mode # "Paused" =>
       \/ run'.pause /\ (run'.stage = run.stage \/ run.starting)
       \/ run'.mode = "Paused" \/ ~is_active(run')
       \/ run.mode \in {"AwaitingLimit", "AwaitingVerify"} /\ used' > used]_vars

(* With a verify stage, reviewers only see code that passed it, that the   *)
(* workflow excuses from passing, or that the user let through: a fix that *)
(* changed the code is verified again, whatever interrupted the fix - as   *)
(* long as the diff could be read when the fix was first started.          *)
ReviewersSeeClearedCode ==
  [][spec.verify /\ run'.round > run.round => run'.cleared = code \/ run'.blind]_vars

(* The pipeline as its users know it. *)
Shape ==
  INSTANCE PipelineShape WITH
    shape <- [plan |-> spec.plan, verify |-> spec.verify, waivable |-> ~spec.required],
    phase <- IF run.mode = "New" \/ run.starting THEN first_stage ELSE run.stage,
    status <- CASE run.mode \in {"New", "Running"} -> "working"
                [] run.mode = "Done" -> "succeeded"
                [] run.mode \in {"Failed", "Lost"} -> "failed"
                [] OTHER -> "parked",
    spent <- run.round,
    allowed <- max_rounds(run)

ShapeSpec == Shape!Spec

(* Liveness: a running pipeline comes to rest - it ends, or it is parked   *)
(* where the user can act - unless no reviewer of a round could start.     *)
ComesToRest ==
  run.mode = "Running" ~> run.mode # "Running" \/ (Reviewing(run) /\ run.active = {})

-----------------------------------------------------------------------------
(* What the repository says of the engine, and the runs refute.            *)

(* docs/adr/0001, invariant 6: "A stage whose session fails to start must  *)
(* fail the run", so that a running stage always has a session to hear of. *)
RunningHasAChild == run.mode = "Running" /\ ~run.starting => run.active # {}

=============================================================================
