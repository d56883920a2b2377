------------------------------ MODULE Factory ------------------------------
(***************************************************************************)
(* The Factory of one project: queued tasks are started as pipelines while *)
(* the project's limits allow, some of them in the project folder itself   *)
(* under a lease that records where to return it, and a successful one is  *)
(* delivered as a draft pull request (src/src/daemon/actor/runner/).       *)
(*                                                                         *)
(* The daemon actor handles one command at a time.  Git, gh and the        *)
(* pipelines run beside it and report by commands; the loops over entries  *)
(* inside a handler are steps of `pc`, between which no other command is   *)
(* handled.  What the actor saves waits in the write-behind queue: `log`   *)
(* holds what is on disk, then what will be after each write that waits,   *)
(* and a crash keeps only its head.                                        *)
(***************************************************************************)
EXTENDS Naturals, Sequences, SequencesExt, FiniteSets

CONSTANTS Tasks,          \* Factory tasks; a retry is a new task
          Kinds,          \* how a task may be set up: see kind
          NoTask,         \* a model value: no lease
          MaxConcurrent,  \* settings.max_concurrent
          MaxOpenPrs,     \* settings.max_open_prs
          Faults,         \* bound: what the environment may do: failures, and
                          \* a person's use of the folder
          MaxEvents,      \* bound: moves of the person, and crashes
          MaxLag          \* bound: writes waiting when a command is handled

UserBranches == {"main", "other"}
Entries == {"none", "queued", "running", "delivering", "delivered", "left"}
Final == {"merged", "rejected", "completed", "noChanges", "limitHit", "stopped",
          "failed", "deliveryFailed", "deleted"}
Outcomes == Final \cup {"none", "running", "delivering", "delivered"}
Ended == {"success", "limit", "stopped", "failed"}
Pipes == Ended \cup {"none", "checkout", "active"}
LeaseStates == {"none", "preparing", "running", "returning", "held"}

ASSUME FactoryAssumption ==
  /\ NoTask \notin Tasks /\ Tasks \cap UserBranches = {}
  /\ Kinds \subseteq [folder : BOOLEAN, deliver : BOOLEAN]
  /\ MaxConcurrent \in Nat \ {0} /\ MaxOpenPrs \in Nat \ {0}
  /\ Faults \subseteq {"crash", "pick", "start", "git", "gh", "folder"}
  /\ MaxEvents \in Nat /\ MaxLag \in Nat

Leases == [task : Tasks \cup {NoTask}, state : LeaseStates,
           back : UserBranches \cup Tasks \cup {"none"}]
NoLease == [task |-> NoTask, state |-> "none", back |-> "none"]

VARIABLES
  kind,       \* where each task runs, and whether it opens a pull request
  m,          \* the actor's maps, as far as they are saved
  log,        \* what is on disk, then after each queued write; Last(log) is m
  runs,       \* the attempts in the mirror
  finishing,  \* tasks whose wrap-up is in flight
  forced,     \* tasks a person started whose folder is being prepared
  block,      \* checkout_blocks has the project
  mail,       \* commands the actor sent itself: a dispatch, and deletions
  pc,         \* what the actor's current command has still to do
  job,        \* the git task of the lease
  wrap,       \* wrap[t]: the wrap-up of t
  head,       \* the branch checked out in the project folder
  dirty,      \* the folder has uncommitted changes
  commits,    \* task branches with commits of their own
  pushed,     \* the branches the Factory pushed
  pulls,      \* pulls[b]: the pull request of branch b
  used,       \* moves of the person and crashes so far
  hist        \* history: what no code keeps, for the properties: tasks
              \* started by hand, and the pull requests nobody follows

mirror == <<runs, finishing, forced, block>>
folder == <<head, dirty, commits>>
vars == <<kind, m, log, mirror, mail, pc, job, wrap, folder, pushed, pulls, used, hist>>

InFolder(t) == kind[t].folder
Delivers(t) == kind[t].deliver
Leased(t) == InFolder(t) /\ Delivers(t)

Images == [tasks : SUBSET Tasks, entry : [Tasks -> Entries], outcome : [Tasks -> Outcomes],
           pipe : [Tasks -> Pipes], lease : Leases]
Jobs == [at : {"none", "inspect", "inspected", "flush", "switch", "switched",
               "return", "returned"},
         ok : BOOLEAN, point : UserBranches \cup Tasks \cup {"none"}, wait : Nat]
NoJob == [at |-> "none", ok |-> TRUE, point |-> "none", wait |-> 0]
Wraps == [at : {"none", "flush", "commit", "push", "open", "told"}, deliver : BOOLEAN,
          result : {"none", "opened", "noChanges", "failed"}, wait : Nat]
NoWrap == [at |-> "none", deliver |-> FALSE, result |-> "none", wait |-> 0]
Idle == [at |-> "idle", left |-> {}, then |-> "idle"]

TypeOK ==
  /\ kind \in [Tasks -> [folder : BOOLEAN, deliver : BOOLEAN]]
  /\ m \in Images /\ log \in Seq(Images) /\ Last(log) = m
  /\ runs \subseteq Tasks /\ finishing \subseteq Tasks /\ forced \subseteq Tasks
  /\ block \in BOOLEAN
  /\ mail \in [dispatch : BOOLEAN, delete : SUBSET Tasks]
  /\ pc \in [at : {"idle", "sweep", "stop", "dispatch", "ask"}, left : SUBSET Tasks,
             then : {"idle", "dispatch"}]
  /\ job \in Jobs /\ wrap \in [Tasks -> Wraps]
  /\ head \in UserBranches \cup Tasks /\ dirty \in BOOLEAN /\ commits \subseteq Tasks
  /\ pulls \in [Tasks \cup UserBranches -> {"none", "open", "merged", "closed"}]
  /\ pushed \subseteq Tasks \cup UserBranches
  /\ used \in 0..MaxEvents
  /\ hist \in [byHand : SUBSET Tasks, lost : SUBSET Tasks,
              strayed : SUBSET (Tasks \cup UserBranches)]

Init ==
  /\ kind = [t \in Tasks |-> [folder |-> FALSE, deliver |-> FALSE]]
  /\ m = [tasks |-> {}, entry |-> [t \in Tasks |-> "none"],
          outcome |-> [t \in Tasks |-> "none"], pipe |-> [t \in Tasks |-> "none"],
          lease |-> NoLease]
  /\ log = <<m>>
  /\ runs = {} /\ finishing = {} /\ forced = {} /\ block = FALSE
  /\ mail = [dispatch |-> FALSE, delete |-> {}] /\ pc = Idle
  /\ job = NoJob /\ wrap = [t \in Tasks |-> NoWrap]
  /\ head = "main" /\ dirty = FALSE /\ commits = {}
  /\ pushed = {} /\ pulls = [b \in Tasks \cup UserBranches |-> "none"]
  /\ used = 0
  /\ hist = [byHand |-> {}, lost |-> {}, strayed |-> {}]

-----------------------------------------------------------------------------
(* A handler is a function of what the actor holds: x is m as changed so   *)
(* far, w the writes queued on the way.                                    *)
Here == [x |-> m, w |-> <<>>, runs |-> runs, finishing |-> finishing, forced |-> forced,
         block |-> block, mail |-> mail, job |-> job, wrap |-> wrap]

Holds(a) ==
  /\ m' = a.x /\ runs' = a.runs /\ finishing' = a.finishing /\ forced' = a.forced
  /\ block' = a.block /\ mail' = a.mail /\ job' = a.job /\ wrap' = a.wrap
Becomes(a) == Holds(a) /\ log' = log \o a.w

Save(a, x) == [a EXCEPT !.x = x, !.w = Append(@, x)]
(* what a flush spawned now has to wait for *)
Behind(a) == Len(log) + Len(a.w) - 1

InRun(e) == e \in {"running", "delivering"}
Has(x, t) == x.entry[t] \notin {"none", "left"}
QueuedIn(x) == {t \in Tasks : x.entry[t] = "queued"}
Waiting(x) == [NoJob EXCEPT !.at = x]

runner_put_lease(a, state) == Save(a, [a.x EXCEPT !.lease.state = state])
(* Mutation: the lease is dropped in the mirror only. *)
DropsLeaseInMirror(a) == [a EXCEPT !.x.lease = NoLease]
runner_drop_lease(a) == Save(a, [a.x EXCEPT !.lease = NoLease])
runner_give_back(a) == [runner_put_lease(a, "returning") EXCEPT !.job = Waiting("return")]

runner_checkout_entry_left(a, t) ==
  IF a.x.lease.task = t /\ a.x.lease.state = "running" THEN runner_give_back(a) ELSE a

(* An entry leaving its run gives back the project folder it held. *)
runner_put_entry(a, t, e) ==
  LET b == Save(a, [a.x EXCEPT !.entry[t] = e])
  IN IF InRun(e) THEN b ELSE runner_checkout_entry_left(b, t)
runner_end_entry(a, t) == IF Has(a.x, t) THEN runner_put_entry(a, t, "left") ELSE a

runner_put_run(a, t, outcome, keep) ==
  [Save(a, [a.x EXCEPT !.outcome[t] = outcome])
     EXCEPT !.runs = IF outcome \in Final /\ ~keep THEN @ \ {t} ELSE @ \cup {t}]

Redispatch(a) == [a EXCEPT !.mail.dispatch = TRUE]
runner_discard_queued(a, t) ==
  [runner_put_entry(a, t, "left") EXCEPT !.mail.delete = @ \cup {t}]

DeliversAfter(outcome) == outcome = "success"

(* What became of an attempt whose pipeline ended. *)
AttemptEnds(t, outcome) ==
  CASE outcome = "success" -> IF Delivers(t) THEN "deliveryFailed" ELSE "completed"
    [] outcome = "limit"   -> "limitHit"
    [] outcome = "stopped" -> "stopped"
    [] outcome = "failed"  -> "failed"

(* Delivery works in the task's own worktree or in the folder it leases. *)
Isolated(x, t) == InFolder(t) => x.lease.task = t

runner_pipeline_finished(a, t, outcome) ==
  LET delivers == DeliversAfter(outcome) /\ Delivers(t) /\ Isolated(a.x, t)
      b == runner_put_entry(a, t, IF delivers THEN "delivering" ELSE "left")
      c == runner_put_run(b, t, IF delivers THEN "delivering" ELSE AttemptEnds(t, outcome), TRUE)
      d == [c EXCEPT !.finishing = @ \cup {t},
                     !.wrap[t] = [NoWrap EXCEPT !.at = "flush", !.deliver = delivers,
                                                !.wait = Behind(c)]]
  IN IF a.x.entry[t] # "running" THEN a
     ELSE Redispatch(IF t \in a.runs THEN d ELSE b)

runner_task_deleted(a, t) ==
  LET closes == t \in a.runs /\ a.x.outcome[t] \notin Final
      b == IF closes THEN runner_put_run(a, t, "deleted", t \in a.finishing) ELSE a
  IN IF ~Has(a.x, t) THEN a
     ELSE IF a.x.entry[t] = "queued" THEN Redispatch(runner_put_entry(a, t, "left"))
     ELSE Redispatch(runner_end_entry(b, t))

(* The end of a pipeline, with the Factory's hook at its end. *)
workflow_finalize(a, t, outcome) ==
  runner_pipeline_finished(Save(a, [a.x EXCEPT !.pipe[t] = outcome]), t, outcome)

Running(x, t) == x.pipe[t] \in {"checkout", "active"}

-----------------------------------------------------------------------------
(* Starting *)

(* Mutation: a delivery takes no slot. *)
SlotsWhileRunning(x) ==
  Cardinality({t \in Tasks : x.entry[t] = "running"})
    + IF x.lease.state = "preparing" /\ x.lease.task \in QueuedIn(x) THEN 1 ELSE 0
runner_slots(x) ==
  Cardinality({t \in Tasks : InRun(x.entry[t])})
    + IF x.lease.state = "preparing" /\ x.lease.task \in QueuedIn(x) THEN 1 ELSE 0
open_prs(x) == Cardinality({t \in Tasks : x.entry[t] = "delivered"})

(* The gates in front of every start; the daily limit and the disk are *)
(* left to the environment ("pick").                                   *)
runner_project_wait(x) ==
  \/ x.lease.state = "held"
  \/ runner_slots(x) >= MaxConcurrent
  \/ open_prs(x) >= MaxOpenPrs

(* Mutation: a run in place is not seen by the next one. *)
RefusesLeaseOnly(a, t) == a.x.lease.state # "none" \/ (Delivers(t) /\ a.block)
runner_checkout_refusal(a, t) ==
  \/ a.x.lease.state # "none"
  \/ \E u \in Tasks : InFolder(u) /\ InRun(a.x.entry[u])
  \/ Delivers(t) /\ a.block

MayStart(a, t) ==
  /\ a.x.entry[t] = "queued"
  /\ IF InFolder(t) THEN ~runner_checkout_refusal(a, t) ELSE a.x.lease.state # "preparing"

runner_checkout_begin(a, t) ==
  [Save(a, [a.x EXCEPT !.lease = [task |-> t, state |-> "preparing", back |-> "none"]])
     EXCEPT !.job = Waiting("inspect")]

(* How creating a pipeline goes: it is refused, it waits for its worktree, *)
(* its first stage runs, or that stage fails and the pipeline ends inside. *)
Creations(t) ==
  {IF InFolder(t) THEN "active" ELSE "checkout"}
    \cup (IF "start" \in Faults THEN {"refused"} ELSE {})
    \cup (IF "start" \in Faults /\ InFolder(t) THEN {"failed"} ELSE {})

runner_start(a, t, created) ==
  LET begun == [a.x EXCEPT !.pipe[t] = created]
      b == IF created = "checkout" THEN [a EXCEPT !.x = begun] ELSE Save(a, begun)
  IN IF created = "refused"
     THEN runner_put_run(runner_put_entry(a, t, "left"), t, "failed", FALSE)
     ELSE runner_put_run(runner_put_entry(b, t, "running"), t, "running", FALSE)

runner_try_start(a, t, created) ==
  IF Leased(t) THEN runner_checkout_begin(a, t) ELSE runner_start(a, t, created)

-----------------------------------------------------------------------------
(* The actor takes its next command when the last is done *)

ActorIdle == pc.at = "idle" /\ Len(log) <= MaxLag + 1
Person == used < MaxEvents /\ used' = used + 1
Does(at, left, then) == pc' = [at |-> at, left |-> left, then |-> then]
Dispatches == Does("dispatch", {}, "idle")
Apart == UNCHANGED <<kind, folder, pushed, pulls>>
Quietly == UNCHANGED <<used, hist>>

(* runner_create_from_dialog, runner_enqueue *)
Enqueue(t) ==
  /\ ActorIdle /\ t \notin m.tasks /\ m.entry[t] = "none"
  /\ \E k \in Kinds : kind' = [kind EXCEPT ![t] = k]
  /\ LET a == Save(Here, [m EXCEPT !.tasks = @ \cup {t}])
     IN Becomes([runner_put_entry(a, t, "queued") EXCEPT !.block = FALSE])
  /\ Dispatches /\ UNCHANGED <<folder, pushed, pulls>> /\ Quietly

HandleDispatch ==
  /\ ActorIdle /\ mail.dispatch
  /\ Becomes([Here EXCEPT !.mail.dispatch = FALSE])
  /\ Dispatches /\ Apart /\ Quietly

DispatchStarts(t) ==
  /\ pc.at = "dispatch" /\ ~runner_project_wait(m) /\ MayStart(Here, t)
  /\ \E created \in Creations(t) : Becomes(runner_try_start(Here, t, created))
  /\ UNCHANGED pc /\ Apart /\ Quietly

(* the item was closed since *)
DispatchDiscards(t) ==
  /\ "pick" \in Faults /\ pc.at = "dispatch" /\ ~runner_project_wait(m)
  /\ m.entry[t] = "queued"
  /\ Becomes(runner_discard_queued(Here, t))
  /\ UNCHANGED pc /\ Apart /\ Quietly

DispatchEnds ==
  /\ pc.at = "dispatch"
  /\ \/ runner_project_wait(m)
     \/ "pick" \in Faults
     \/ \A t \in Tasks : ~MayStart(Here, t)
  /\ Does("idle", {}, "idle")
  /\ Becomes(Here) /\ Apart /\ Quietly

runner_start_now(t) ==
  /\ ActorIdle /\ m.entry[t] = "queued" /\ m.lease.state # "held"
  /\ Person
  /\ LET a == [Here EXCEPT !.block = FALSE]
         b == IF Leased(t) THEN [a EXCEPT !.forced = @ \cup {t}] ELSE a
     IN \/ /\ MayStart(a, t)
           /\ \E created \in Creations(t) : Becomes(runner_try_start(b, t, created))
           /\ hist' = [hist EXCEPT !.byHand = @ \cup {t}]
        \/ /\ ~MayStart(a, t) \/ "pick" \in Faults
           /\ Becomes(a) /\ UNCHANGED hist
  /\ Dispatches /\ Apart

runner_dequeue(t) ==
  /\ ActorIdle /\ m.entry[t] = "queued" /\ m.lease.task # t
  /\ Person /\ Becomes(runner_discard_queued(Here, t))
  /\ UNCHANGED <<pc, hist>> /\ Apart

runner_stop ==
  /\ ActorIdle /\ Person
  /\ Does("stop", {t \in Tasks : m.entry[t] \in {"queued", "running"}}, "idle")
  /\ Becomes(Here) /\ UNCHANGED hist /\ Apart

StopsOne(t) ==
  /\ pc.at = "stop" /\ t \in pc.left
  /\ pc' = [pc EXCEPT !.left = @ \ {t}, !.at = IF pc.left = {t} THEN "idle" ELSE @]
  /\ Becomes(IF m.entry[t] = "queued"
             THEN IF m.lease.task = t THEN Here ELSE runner_discard_queued(Here, t)
             ELSE IF Running(m, t) THEN workflow_finalize(Here, t, "stopped") ELSE Here)
  /\ Apart /\ Quietly

NothingToStop ==
  /\ pc.at \in {"stop", "sweep"} /\ pc.left = {}
  /\ pc' = [pc EXCEPT !.at = pc.then] /\ Becomes(Here) /\ Apart /\ Quietly

(* DeleteTask, asked for by a person or by the actor; the actor waits for *)
(* the row to be gone.                                                     *)
DeleteTask(t) ==
  /\ ActorIdle /\ t \in m.tasks
  /\ \/ t \in mail.delete /\ UNCHANGED used
     \/ t \notin mail.delete /\ Person
  /\ LET a == IF Running(m, t) THEN workflow_finalize(Here, t, "stopped") ELSE Here
         b == IF m.pipe[t] = "none" THEN a ELSE Save(a, [a.x EXCEPT !.pipe[t] = "none"])
         c == runner_task_deleted(b, t)
     IN Becomes([Save(c, [c.x EXCEPT !.tasks = @ \ {t}]) EXCEPT !.mail.delete = @ \ {t}])
  /\ Does("ask", {}, "idle") /\ Apart /\ UNCHANGED hist

RowIsGone ==
  /\ pc.at = "ask" /\ Len(log) = 1
  /\ Does("idle", {}, "idle") /\ Becomes(Here) /\ Apart /\ Quietly

-----------------------------------------------------------------------------
(* Pipelines *)

(* WorktreeReady: the first stage starts, or the pipeline fails *)
CheckoutLands(t) ==
  /\ ActorIdle /\ m.pipe[t] = "checkout"
  /\ \/ Becomes(Save(Here, [m EXCEPT !.pipe[t] = "active"]))
     \/ "git" \in Faults /\ Becomes(workflow_finalize(Here, t, "failed"))
  /\ UNCHANGED pc /\ Apart /\ Quietly

PipelineEnds(t, outcome) ==
  /\ ActorIdle /\ m.pipe[t] = "active"
  /\ Becomes(workflow_finalize(Here, t, outcome))
  /\ UNCHANGED pc /\ Apart /\ Quietly

(* the agents of a pipeline in the project folder change it *)
Edits(t) ==
  /\ InFolder(t) /\ m.pipe[t] = "active" /\ ~dirty
  /\ dirty' = TRUE
  /\ UNCHANGED <<kind, m, log, mirror, mail, pc, job, wrap, head, commits, pushed, pulls, used, hist>>

-----------------------------------------------------------------------------
(* The sweep of a tick and of a start of the daemon *)

Tick ==
  /\ ActorIdle
  /\ Becomes([Here EXCEPT !.block = FALSE])
  /\ Does("sweep", {t \in Tasks : Has(m, t)}, "dispatch") /\ Apart /\ Quietly

(* Mutation: a delivery cut short by a restart is not run again. *)
SweepsRunningOnly(a, t) ==
  IF t \notin a.x.tasks THEN runner_task_deleted(a, t)
  ELSE IF a.x.entry[t] = "running" /\ a.x.pipe[t] \in Ended
       THEN runner_pipeline_finished(a, t, a.x.pipe[t])
  ELSE a
runner_sweep(a, t) ==
  IF t \notin a.x.tasks THEN runner_task_deleted(a, t)
  ELSE IF a.x.entry[t] = "running" /\ a.x.pipe[t] \in Ended
       THEN runner_pipeline_finished(a, t, a.x.pipe[t])
  ELSE IF a.x.entry[t] = "delivering" /\ t \notin a.finishing
       THEN runner_pipeline_finished([a EXCEPT !.x.entry[t] = "running"], t, "success")
  ELSE a

SweepsOne(t) ==
  /\ pc.at = "sweep" /\ t \in pc.left
  /\ pc' = [pc EXCEPT !.left = @ \ {t}, !.at = IF pc.left = {t} THEN pc.then ELSE @]
  /\ Becomes(runner_sweep(Here, t)) /\ Apart /\ Quietly

-----------------------------------------------------------------------------
(* The lease on the project folder *)

(* git::inspect *)
Refused == dirty \/ "git" \in Faults
Inspects ==
  /\ job.at = "inspect"
  /\ \/ Refused /\ job' = [job EXCEPT !.at = "inspected", !.ok = FALSE]
     \/ ~dirty /\ job' = [job EXCEPT !.at = "inspected", !.point = head]
  /\ UNCHANGED <<kind, m, log, mirror, mail, pc, wrap, folder, pushed, pulls, used, hist>>

Preparing(t) == m.lease.task = t /\ m.lease.state = "preparing"

runner_checkout_refused(a, t) ==
  [runner_drop_lease(a) EXCEPT !.forced = @ \ {t}, !.block = TRUE, !.job = NoJob]

runner_checkout_inspected(t) ==
  /\ ActorIdle /\ job.at = "inspected" /\ Preparing(t)
  /\ IF ~job.ok THEN Becomes(runner_checkout_refused(Here, t)) /\ Dispatches
     ELSE IF m.entry[t] # "queued"
     THEN Becomes([runner_drop_lease(Here) EXCEPT !.job = NoJob]) /\ Dispatches
     ELSE /\ LET a == Save(Here, [m EXCEPT !.lease.back = job.point])
             IN Becomes([a EXCEPT !.job.at = "flush", !.job.wait = Behind(a)])
          /\ UNCHANGED pc
  /\ Apart /\ Quietly

(* Mutation: the checkout moves without a flush. *)
NotFlushed == TRUE
(* The return point must be on disk before the checkout moves. *)
Flushed == job.wait = 0
(* git::switch_to_task, to the fetch *)
Looks ==
  /\ job.at = "flush" /\ Flushed
  /\ \/ (Refused \/ head # job.point) /\ job' = [job EXCEPT !.at = "switched", !.ok = FALSE]
     \/ ~dirty /\ head = job.point /\ job' = [job EXCEPT !.at = "switch"]
  /\ UNCHANGED <<kind, m, log, mirror, mail, pc, wrap, folder, pushed, pulls, used, hist>>
(* and from there: the folder is on the task branch, with what was edited since *)
Switches ==
  /\ job.at = "switch"
  /\ \/ "git" \in Faults /\ job' = [job EXCEPT !.at = "switched", !.ok = FALSE] /\ UNCHANGED head
     \/ job' = [job EXCEPT !.at = "switched"] /\ head' = m.lease.task
  /\ UNCHANGED <<kind, m, log, mirror, mail, pc, wrap, dirty, commits, pushed, pulls, used, hist>>

runner_checkout_switched(t) ==
  /\ ActorIdle /\ job.at = "switched" /\ Preparing(t)
  /\ LET a == [Here EXCEPT !.forced = @ \ {t}, !.job = NoJob]
     IN IF ~job.ok THEN Becomes(runner_checkout_refused(a, t))
        ELSE \/ /\ m.entry[t] = "queued"
                /\ \E created \in Creations(t) :
                     LET b == runner_start(a, t, created)
                     IN Becomes(IF b.x.entry[t] = "running"
                                THEN runner_put_lease(b, "running") ELSE runner_give_back(b))
             \/ /\ m.entry[t] # "queued" \/ "pick" \in Faults
                /\ Becomes(runner_give_back(a))
             \/ /\ m.entry[t] = "queued" /\ "pick" \in Faults
                /\ Becomes(runner_give_back(runner_discard_queued(a, t)))
  /\ Dispatches /\ Apart /\ Quietly

(* git::give_back *)
GivesBack ==
  /\ job.at = "return"
  /\ \/ head # m.lease.task /\ job' = [job EXCEPT !.at = "returned"] /\ UNCHANGED head
     \/ /\ head = m.lease.task /\ (Refused \/ m.lease.back = "none")
        /\ job' = [job EXCEPT !.at = "returned", !.ok = FALSE] /\ UNCHANGED head
     \/ /\ head = m.lease.task /\ ~dirty /\ m.lease.back # "none"
        /\ job' = [job EXCEPT !.at = "returned"] /\ head' = m.lease.back
  /\ UNCHANGED <<kind, m, log, mirror, mail, pc, wrap, dirty, commits, pushed, pulls, used, hist>>

runner_checkout_returned ==
  /\ ActorIdle /\ job.at = "returned" /\ m.lease.state = "returning"
  /\ LET a == [Here EXCEPT !.job = NoJob]
     IN IF job.ok THEN Becomes(runner_drop_lease(a)) /\ Dispatches
        ELSE Becomes(runner_put_lease(a, "held")) /\ UNCHANGED pc
  /\ Apart /\ Quietly

(* RetryCheckout: Try again *)
runner_checkout_retry ==
  /\ ActorIdle
  /\ m.lease.state = "held" \/ block
  /\ LET a == [Here EXCEPT !.block = FALSE]
     IN Becomes(IF m.lease.state = "held" THEN runner_give_back(a) ELSE a)
  /\ UNCHANGED pc /\ Apart /\ Quietly

(* The person works in the project folder too. *)
UsesFolder ==
  /\ "folder" \in Faults /\ Person
  /\ \/ ~dirty /\ head' \in UserBranches \ {head} /\ UNCHANGED dirty
     \/ dirty' = ~dirty /\ UNCHANGED head
  /\ UNCHANGED <<kind, m, log, mirror, mail, pc, job, wrap, commits, pushed, pulls, hist>>

-----------------------------------------------------------------------------
(* The wrap-up of an attempt *)

Branch(t) == IF InFolder(t) THEN head ELSE t
(* the worktree of a deleted task is being removed *)
GitMayFail(t) == "git" \in Faults \/ t \notin m.tasks

WrapStep(t, from) == wrap[t].at = from /\ UNCHANGED <<kind, m, log, mirror, mail, pc, job, head, used>>
WrapGoes(t, to) == wrap' = [wrap EXCEPT ![t].at = to]
WrapTells(t, result) == wrap' = [wrap EXCEPT ![t].at = "told", ![t].result = result]

(* Mutation: delivery does not wait for the entry to be on disk. *)
CostReadUnflushed(t) ==
  /\ WrapStep(t, "flush")
  /\ IF wrap[t].deliver THEN WrapGoes(t, "commit") ELSE WrapTells(t, "none")
  /\ UNCHANGED <<dirty, commits, pushed, pulls, hist>>
CostRead(t) ==
  /\ WrapStep(t, "flush") /\ wrap[t].wait = 0
  /\ IF wrap[t].deliver THEN WrapGoes(t, "commit") ELSE WrapTells(t, "none")
  /\ UNCHANGED <<dirty, commits, pushed, pulls, hist>>

(* deliver, up to its commit: what the agents left in the folder, or in a  *)
(* worktree, where they may have changed nothing *)
HasChange(t) == Branch(t) \in commits \/ (InFolder(t) => dirty)
HasNone(t) == Branch(t) \notin commits /\ (InFolder(t) => ~dirty)
Commits(t) ==
  /\ WrapStep(t, "commit")
  /\ \/ /\ Branch(t) \notin Tasks \/ GitMayFail(t)
        /\ WrapTells(t, "failed") /\ UNCHANGED <<dirty, commits>>
     \/ /\ Branch(t) \in Tasks /\ HasNone(t)
        /\ WrapTells(t, "noChanges") /\ UNCHANGED <<dirty, commits>>
     \/ /\ Branch(t) \in Tasks /\ HasChange(t)
        /\ WrapGoes(t, "push") /\ commits' = commits \cup {Branch(t)}
        /\ dirty' = (dirty /\ ~InFolder(t))
  /\ UNCHANGED <<pushed, pulls, hist>>

(* diff::push: the branch that is checked out by now *)
Pushes(t) ==
  /\ WrapStep(t, "push")
  /\ \/ GitMayFail(t) /\ WrapTells(t, "failed") /\ UNCHANGED pushed
     \/ WrapGoes(t, "open") /\ pushed' = pushed \cup {Branch(t)}
  /\ UNCHANGED <<dirty, commits, pulls, hist>>

(* Whose pull request it is: what the delivery of a deleted task opens for *)
(* another branch is nobody's, until that branch's own delivery claims it. *)
Strays(t) ==
  IF Branch(t) = t THEN hist.strayed \ {t}
  ELSE IF t \in m.tasks THEN hist.strayed ELSE hist.strayed \cup {Branch(t)}
(* gh pr create, for a pushed branch with commits of its own; a pull       *)
(* request that is open already is the answer too                          *)
OpensPull(t) ==
  /\ WrapStep(t, "open")
  /\ LET may == Branch(t) \in pushed \cap (commits \cup UserBranches)
     IN \/ /\ ~may \/ "gh" \in Faults \/ GitMayFail(t)
           /\ WrapTells(t, "failed") /\ UNCHANGED <<pulls, hist>>
        \/ /\ may
           /\ WrapTells(t, "opened") /\ pulls' = [pulls EXCEPT ![Branch(t)] = "open"]
           /\ hist' = [hist EXCEPT !.strayed = Strays(t)]
  /\ UNCHANGED <<dirty, commits, pushed>>

runner_finished(t) ==
  /\ ActorIdle /\ wrap[t].at = "told"
  /\ LET a == [Here EXCEPT !.finishing = @ \ {t}, !.wrap[t] = NoWrap]
         result == wrap[t].result
         has == Has(m, t)
     IN IF t \notin runs THEN Becomes(a) /\ UNCHANGED pc
        ELSE /\ Becomes(
                  CASE result = "none" -> runner_put_run(a, t, m.outcome[t], FALSE)
                    [] result = "opened" /\ has ->
                         runner_put_run(runner_put_entry(a, t, "delivered"), t, "delivered", FALSE)
                    [] result = "opened" /\ ~has -> runner_put_run(a, t, "deleted", FALSE)
                    [] result = "noChanges" ->
                         runner_put_run(runner_end_entry(a, t), t, "noChanges", FALSE)
                    [] OTHER -> \* the delivery failed
                         runner_put_run(runner_end_entry(a, t), t, "deliveryFailed", FALSE))
             /\ Dispatches
  /\ hist' = IF wrap[t].result = "failed" /\ pulls[t] = "open"
             THEN [hist EXCEPT !.lost = @ \cup {t}] ELSE hist
  /\ Apart /\ UNCHANGED used

(* people merge and close pull requests *)
PullCloses(b) ==
  /\ pulls[b] = "open"
  /\ \E to \in {"merged", "closed"} : pulls' = [pulls EXCEPT ![b] = to]
  /\ UNCHANGED <<kind, m, log, mirror, mail, pc, job, wrap, folder, pushed, used, hist>>

runner_pull_settled(t) ==
  /\ ActorIdle /\ m.entry[t] = "delivered" /\ pulls[t] \in {"merged", "closed"}
  /\ LET outcome == IF pulls[t] = "merged" THEN "merged" ELSE "rejected"
         a == IF t \in runs THEN runner_put_run(Here, t, outcome, FALSE) ELSE Here
     IN Becomes(runner_put_entry(a, t, "left"))
  /\ Dispatches /\ Apart /\ Quietly

-----------------------------------------------------------------------------
(* The write-behind queue, and a restart *)

Less(n) == IF n = 0 THEN 0 ELSE n - 1
WriterApplies ==
  /\ Len(log) > 1
  /\ log' = Tail(log)
  /\ job' = [job EXCEPT !.wait = Less(@)]
  /\ wrap' = [t \in Tasks |-> [wrap[t] EXCEPT !.wait = Less(@)]]
  /\ UNCHANGED <<kind, m, mirror, mail, pc, folder, pushed, pulls, used, hist>>

(* A pipeline is first saved by its first stage. *)
Loaded(x) == [x EXCEPT !.pipe = [t \in Tasks |-> IF x.pipe[t] = "checkout" THEN "none"
                                                 ELSE x.pipe[t]]]

(* Mutation: a restart keeps a lease that was being prepared. *)
RestoresPreparing(a) ==
  IF a.x.lease.state \in {"none", "held", "preparing"} THEN a
  ELSE IF ~InRun(a.x.entry[a.x.lease.task]) THEN runner_give_back(a)
  ELSE IF a.x.lease.state # "running" THEN runner_put_lease(a, "running") ELSE a
runner_checkout_restore(a) ==
  IF a.x.lease.state \in {"none", "held"} THEN a
  ELSE IF ~InRun(a.x.entry[a.x.lease.task]) THEN runner_give_back(a)
  ELSE IF a.x.lease.state # "running" THEN runner_put_lease(a, "running") ELSE a

Restart ==
  /\ "crash" \in Faults /\ Person
  /\ LET x == Loaded(Head(log))
         a == [x |-> x, w |-> <<>>, finishing |-> {}, forced |-> {}, block |-> FALSE,
               runs |-> {t \in Tasks : Has(x, t) /\ x.outcome[t] \notin Final \cup {"none"}},
               mail |-> [dispatch |-> FALSE, delete |-> {}],
               job |-> NoJob, wrap |-> [t \in Tasks |-> NoWrap]]
         b == runner_checkout_restore(a)
     IN /\ Holds(b) /\ log' = <<x>> \o b.w
        /\ Does("sweep", {t \in Tasks : Has(x, t)}, "idle")
  /\ Apart /\ UNCHANGED hist

-----------------------------------------------------------------------------
Commands(t) ==
  \/ DispatchStarts(t) \/ DispatchDiscards(t) \/ StopsOne(t) \/ SweepsOne(t)
  \/ CheckoutLands(t) \/ runner_checkout_inspected(t) \/ runner_checkout_switched(t)
  \/ runner_finished(t) \/ runner_pull_settled(t)
OwnCommands ==
  HandleDispatch \/ DispatchEnds \/ NothingToStop \/ RowIsGone \/ Tick \/ runner_checkout_returned
Asked(t) ==
  \/ Enqueue(t) \/ runner_start_now(t) \/ runner_dequeue(t) \/ DeleteTask(t)
  \/ \E outcome \in {"success", "limit", "failed"} : PipelineEnds(t, outcome)
LeaseJob == Inspects \/ Looks \/ Switches \/ GivesBack
WrapsUp(t) == CostRead(t) \/ Commits(t) \/ Pushes(t) \/ OpensPull(t)

Next ==
  \/ \E t \in Tasks : Commands(t) \/ Asked(t) \/ WrapsUp(t) \/ Edits(t)
  \/ OwnCommands \/ LeaseJob \/ runner_stop \/ runner_checkout_retry \/ UsesFolder
  \/ WriterApplies \/ Restart
  \/ \E b \in Tasks \cup UserBranches : PullCloses(b)

Spec == Init /\ [][Next]_vars

(* Every git, gh and writer task ends. The actor, which takes commands in  *)
(* the order they were sent, comes to each report of such a task and to    *)
(* the 60 s tick, and its handlers end.                                    *)
Handles == \/ DispatchEnds \/ NothingToStop \/ RowIsGone
           \/ \E t \in Tasks : \/ DispatchStarts(t) \/ DispatchDiscards(t)
                               \/ StopsOne(t) \/ SweepsOne(t)
Hears == \/ runner_checkout_returned
         \/ \E t \in Tasks : \/ runner_checkout_inspected(t) \/ runner_checkout_switched(t)
                             \/ runner_finished(t)
Aside == WriterApplies \/ LeaseJob \/ \E t \in Tasks : WrapsUp(t)
Fairness == WF_vars(Handles) /\ WF_vars(Aside) /\ SF_vars(Tick) /\ SF_vars(Hears)
FairSpec == Spec /\ Fairness

-----------------------------------------------------------------------------
(* Whatever is on disk or on its way there, a project folder on a task     *)
(* branch has a lease saying where to return it (runner_checkout_inspected *)
(* flushes before it switches; runner_checkout_restore keeps the rest).    *)
ReturnPointKnown ==
  head \in Tasks => \A i \in DOMAIN log : log[i].lease.task = head /\ log[i].lease.back # "none"

(* One task at a time works in the project folder: the runs there, leased  *)
(* or in place, exclude each other, and a lease that is not its own        *)
(* excludes them too (runner_checkout_refusal, runner_checkout_begin).     *)
OneRunInFolder ==
  /\ Cardinality({t \in Tasks : InFolder(t) /\ InRun(m.entry[t])}) <= 1
  /\ \A t \in Tasks :
       InFolder(t) /\ InRun(m.entry[t]) => m.lease.task \in {t, NoTask}

(* Tasks a person did not start by hand never take more than the project's *)
(* slots, whatever path ended the others and whatever a restart found      *)
(* (runner_slots counts a folder that is being prepared).                  *)
SlotsBounded ==
  Cardinality({t \in Tasks \ hist.byHand :
                 \/ InRun(m.entry[t])
                 \/ m.lease.task = t /\ m.lease.state = "preparing"}) <= MaxConcurrent

(* An open pull request is one the Factory follows or is about to: its     *)
(* entry is delivered or delivered again, or its attempt says the task was *)
(* deleted (deliver::spawn flushes before it delivers).  Two are not: one  *)
(* whose second delivery, after a crash, failed, and one that the delivery *)
(* of a task deleted meanwhile opened for the branch it found in the       *)
(* folder, as long as that branch's own delivery has not opened it too.    *)
OpenPullIsKnown ==
  \A t \in Tasks : pulls[t] = "open" =>
    \/ m.entry[t] \in {"delivering", "delivered"}
    \/ m.outcome[t] = "deleted" \/ t \notin m.tasks
    \/ t \in hist.lost \cup hist.strayed

(* A lease does not stay in between: what is being prepared or given back  *)
(* ends in a run, a free folder or one that is held for a person.          *)
LeaseMovesOn ==
  m.lease.state \in {"preparing", "returning"}
    ~> m.lease.state \in {"none", "running", "held"}

(* A task whose pipeline ended, and is known to have ended after a crash   *)
(* too, frees its slot: by its hook, its delivery or the sweep of the next *)
(* tick.  Its attempt must be known too: one that a crash kept off the     *)
(* disk never is.                                                          *)
SlotsAreFreed ==
  \A t \in Tasks :
    (InRun(m.entry[t]) /\ m.pipe[t] \in Ended /\ Head(log).pipe[t] \in Ended /\ t \in runs)
      ~> ~InRun(m.entry[t])

(* ADR 0023, invariant 1: the runner writes only to branches it created.   *)
OwnBranchesOnly == pushed \subseteq Tasks
=============================================================================
