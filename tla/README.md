# Warpforge in TLA+

A verification development for the Warpforge daemon (`src/src/`, Rust): TLA+
modules translated from the source, TLC configurations that check them on small
instances, and TLAPS proofs of what matters most for every instance. Paths below
are relative to the repository; `PROJECT.json` maps each definition to its lines.

## 1. The system

Warpforge runs coding agents on a developer's machine. A daemon owns all state;
the desktop client, a CLI and the agents' own MCP bridge talk to it. In the daemon

* one **actor** task owns the maps of tasks, projects and runs. It takes messages
  from one channel and awaits inside its handlers, so a handler is one atomic step
  as far as the actor's state goes (`docs/adr/0002-daemon-concurrency.md`);
* everything slow or external runs in **tokio tasks** of a multi-threaded runtime
  beside it - agent sessions, checkouts, git, services, timers, the database
  writer - and reports through channels. That is where order is hard.

### Components

| component | state | operations | hard behaviour | what makes it correct |
|---|---|---|---|---|
| **Agent session** (`daemon/acp`): turn loop and prompt queue | active turn, `queued`, force-sent `batched`, cancel grace, the process | prompt, interrupt, remove, edit, cancel; send tasks, reader, monitor | driver, send task, reader and monitor race; a mute or dying agent | no prompt lost, doubled or misattributed; one end per turn; a death is heard of |
| **Workflow pipelines** (`daemon/workflow`, `actor/workflow*`) | `WorkflowRun`: state, round, votes, pending, guidance, barrier ids, verify counters | create, turn ends, child lost, pause, resume, reply, decide, restart | messages of cancelled stages, quota, restart in every state, user commands in between | fixed shape, limits, rounds that count real verdicts, comes to rest, nothing left running |
| **Task checkouts** (`actor/commands/worktree.rs`, `daemon/worktree`) | worktree path per task, operations off the loop | create, remove, merge, pull, reclaim | operation in flight when its task is deleted, archived or restarted | one operation at a time per task, no unisolated fallback |
| **Task sessions** (`actor/session.rs`, `acp_update.rs`) | task status, session handle and run id, replay guard | start, resume, turn end, error, cancel, delete | updates of a session run already replaced | status follows the current run only |
| **Peers** (`actor/peers`, ADR 0026) | messages in flight and held, digest reservations, cursor, sender slots | send, post, deliver, hold, remove | delivery over a queue the user edits; updates of a session dropped since | records agree with the queues, none forgotten, verdicts true and final |
| **Factory** (`actor/runner`, ADR 0023) | entries, attempts, slots, lease on the project folder, wrap-ups | enqueue, dispatch, start, stop, delete, deliver, recover | restart between any two writes; git beside the actor; a person in the same folder | slots bounded, one run in the folder, the folder can always be returned, open pull requests followed |
| **Persistence** (`runtime/persist.rs`, ADR 0002) | write-behind queue | write, ask, flush | batch failing midway, crash | order kept, flush is a barrier, callers resume |
| **Services, port-forwards** (`service`, `portforward`, `actor/service_start.rs`, ADR 0016) | an entry, a process and a readiness verdict per run, `dependsOn` holds, a watcher per forward, the applied file | start, stop, restart, open, edit the file, probe, time out, exit, connect | readiness races with the timeout and the exit, events of an earlier run, a stop nobody waits for, the file read at every event | no process out of reach, every run's verdict wins, no missed wake-up |
| **Automations** (`automations`, `actor/commands/automation`, ADR 0007) | schedules, running record | fire, precheck, link, close | turn end before the link is stored | one run at a time, each closed |
| **Port ranges** (`ports`, ADR 0006) | none | resolve | overflow, overlap | disjoint ranges in 16 bits |
| **Smiths** (ADR 0027), **advisor and orchestration** (ADR 0022) | threads, budgets, inboxes | wake, assign, ask | wake-ups to dead or busy sessions | nothing asked is lost |
| **Accounts and limits** (ADR 0019) | quota per account | poll, gate | stale verdict | a stage is not dispatched without quota |
| **Client server** | snapshot and event stream per client | attach, fan out | snapshot against events | a client converges |
| repository features, memory, MCP bridge and CLI, desktop | little or derived | - | - | - |

They interact in few ways. The actor sends *commands* to a session's driver
(`AcpCommand`); sessions, checkouts, services and timers send *events* to the actor;
a pipeline is driven only by what its stage sessions report (`TurnEnded`, `Error`),
by its checkout and by its user; peers, smiths and the advisor talk by putting
prompts into the same session queue the user writes to; everything the actor
changes is handed to the write-behind queue. So the turn loop carries the rest and
is modelled and proved first; the pipeline engine and the Factory, which starts
pipelines unattended, are the largest pieces of control; persistence and the
delivery of peers' messages are what the others take for granted; services stand
apart, with races of their own.

## 2. The modules

| module | what it is |
|---|---|
| `PromptLedger` | abstract: what a session promises about the prompts given to it |
| `TurnDriver` | the turn loop, its send tasks, agent, pipes and monitor; implements `PromptLedger` |
| `TurnDriverProofs` | theorems about `TurnDriver` |
| `PipelineShape` | abstract: the shape, rounds and ends a pipeline's user relies on |
| `WorkflowRun` | the pipeline engine with its stage sessions; implements `PipelineShape` |
| `WorkflowRunProofs` | theorems about `WorkflowRun`: its invariants |
| `WorkflowShapeProofs` | theorems about its steps: it implements `PipelineShape`, keeps a pause, and what its reviewers get to see |
| `Factory` | the Factory of one project: queue, slots, the lease on the folder, delivery, restart |
| `FactoryProofs` | theorems about the lease on the folder, one run in it at a time, and about the slots |
| `FactoryReturnProofs` | theorems about the folder's way back to its owner's branch, about open pull requests, and about the types |
| `WriteBehind` | abstract: what the write-behind queue promises about rows on disk |
| `Persist` | the queue, its thread, batches and transactions; implements `WriteBehind` |
| `PersistProofs` | theorems about `Persist` |
| `PeerDelivery` | a peer's messages and posts on their way to a receiver |
| `PeerDeliveryProofs` | theorems about `PeerDelivery` |
| `PortForward` | one port-forward: the actor's entry, its watchers and their events |
| `ServiceStart` | the services of one project over `PortForward`: start order, readiness, holds |
| `ServiceStartProofs` | theorems about `ServiceStart` |
| `MCTurnDriver`, `MCWorkflowRun`, `MCFactory`, `MCPersist`, `MCPeerDelivery`, `MCServiceStart` | small instances for TLC |

Definitions under a `(* Mutation: ... *)` comment are not part of any specification.
Each is a plausible mistake in the definition that follows it - a dropped guard, an
off-by-one, a missing reset; put in that definition's place it makes one of the
properties fail, which shows that the property depends on the code.

### TurnDriver and the code

`run` in `acp/session/turn.rs` is a loop: at its top a free slot takes the
force-sent batch or the oldest waiting prompt and the list of waiting prompts is
announced; then a `select!` waits for a command, the end of the active turn's send
task, the cancel grace, or the process exit. `pc` says where the driver is.

| code | model |
|---|---|
| `active: Option<Active>` | `active`, an index into `turns`; 0 is `None` |
| `Turn`, its `interrupted` and `ended` flags, the `JoinHandle` | a record of `turns`: `interrupted`, `ended`, `task` |
| `queued`, `batched` | sets, ordered by `arrived` (the ids q1, q2, ...) |
| loop top; `dispatch` and `send_prompt` up to the first await | `LoopTop` (`TakeBatch`, `TakeOldest`), `Dispatch` |
| arms of the `select!` | `RecvPrompt`, `RecvInterrupt`, `RecvRemove`, `RecvEdit`, `RecvCancel`, `ActiveDone`, `DeadlineFires`, `ExitSeen` |
| `finish_rpc` and the tail of `send_prompt` | `TaskTakesReply`, `TaskRejected`, `TaskClaimsEnd` (the `swap`), `TaskLoadsInterrupted` (the `load`), `TaskSendsEnd`, `TaskSeesExit`, `TaskTransportClosed` |
| monitor, failure reporter | `MonitorReports`, `Fail` |
| agent process and pipes (external) | `AgentAnswers`, `StdoutCloses`, `StdinFails`, `ChildExits` |

The steps of a send task are split where another thread can come in: after the reply,
after `ended.swap(true)`, after `interrupted.load`, after the `TurnEnded`. `cut` is what
that load gave and the `TurnEnded` says. `ends` and `partial` are history: how often a turn
was reported over, and whether a force-send met it before the agent had answered. The
reader holds a sender per turn (`Pending`); at the end of stdout it drops those it holds,
once (`reply` becomes `"closed"`), so a turn begun later has one that nobody drops.

Abstracted: prompt text (an edit is "its text changed"); the 250 ms transport grace, which
may end at any time, before the cancel grace or after; messages still in a session's channel
when its driver leaves are never received, and such prompts are `unsent`. Left out:
`AnswerPermission` and `SetConfigOption`, which do not touch the turn loop; the handshake
before it; the text of prompts.

### WorkflowRun and the code

One action per actor handler: `Create`, `CheckoutLands` (`WorktreeReady`),
`SeesTurnEnded` and `SeesError` (`workflow_stage_finished`), `CancelChild`, `StopRun`,
`workflow_pause`, `workflow_resume`, `workflow_reply`, `DecideLimit`, `DecideVerify`,
`Restart` (`restore_workflow_runs`). Beside them the stage sessions take their own steps
(`EndsTurn`, `Edits`, `Dies`, `Chats`): what they send waits in `children[c].ended`
and `.err` until the actor gets to it, so a user command or a restart can come in
between. A handler's long call chain - route, advance, quota gate, spawn, fail - is
built of operators that take the run and the children and finish with `Put`, in the
order the code makes its calls.

| code | model |
|---|---|
| `RunState` and its payload | `mode`, `stage`, `asker`, `barrier`, `blocked`, changed by `Enter` |
| `review_pending`, `review_collected`, `prior_review_children`, `reasked` | `pending`, `votes`, `prior`, `reasked` |
| `active_children`, `pending_guidance`, `pause_requested` | `active`, `note`, `pause` |
| `pending_workflow_starts` | `starting` |
| verify failures, granted attempts, fingerprint of a fix | `failures`, `vextra`, `fixBase` |

`verdicts`, `cleared`, `blind` and `closed` are history the code does not keep. What an
agent wrote is abstracted to what the parsers make of it: a question, a verdict, or
nothing (`"garble"`).

Abstracted: the stored run is the last one saved (`Persist` has the delay, `Factory`
the effect of losing a tail); only a running implement or fix stage edits the working copy;
a force-send inside a stage replaces the turn it cuts, so it is no step; a user who
revives a dead stage session from its own chat is not modelled. Left out: several
runs at once (they share no state but accounts), agent resolution, evidence files,
prompts and transcripts.

### Factory and the code

A handler of the actor is a function of what the actor holds (`Here`): the operators
`runner_put_entry`, `runner_put_run`, `runner_pipeline_finished` and the rest take it,
change its maps, append the writes they queue, and the action ends with `Becomes`. They
carry the names of the code's functions and call each other as those do. A handler that
loops over entries (dispatch, stop, sweep) is a series of steps of `pc`, between which no
other command is handled. `log` is the write-behind queue seen from the disk: its head
is what a restart finds, its last element is the mirror.

| code | model |
|---|---|
| `RunnerEntry.state`, `ItemRun.outcome`, the pipeline's state | `m.entry`, `m.outcome`, `m.pipe` |
| `CheckoutLease` | `m.lease`: task, state, return point |
| `attempts`, `finishing`, `forced`, `checkout_blocks` | `runs`, `finishing`, `forced`, `block` |
| `git::inspect`, `switch_to_task`, `give_back` in tokio tasks | `job`: `Inspects`, `Looks`, `Switches`, `GivesBack` |
| `deliver::spawn` and `deliver` | `wrap[t]`: `CostRead`, `Commits`, `Pushes`, `OpensPull`, then `runner_finished` |
| `load_state`, `runner_restore`, `runner_sweep` | `Restart`, `SweepsOne` |

The folder's branch and whether it is dirty are read afresh by each git step, as git
does; a flush is a number of writes still to come (`wait`). `hist` is history: tasks
started by hand (which skip the slot gate), pull requests whose second delivery failed
(`lost`), and those that the delivery of a task deleted meanwhile opened for the branch it
found in the folder (`strayed`). Abstracted: the order of the queue; the daily limit, the
disk gate and a user's task in the folder, which are one nondeterministic refusal
(`"pick"`); the pipeline, which is `WorkflowRun`, as its beginning and end. `gh pr
create` answers with the existing address when a pull request is open already, so
delivering again is safe and the model lets it be.

### Persist and the code

The thread of `persist.rs` takes the first message (`TakeFirst`), then what else has come up
to `MAX_BATCH` (`TakeMore`, `BatchIsFull`), and runs the batch in `write_batch`: `Begin`,
the messages one after the other (`AppliesPart`, `Applies`, `IsRejected`, `RollsBack`,
`SkipsFlush`), `Commit` or `CommitFails`, then `Reply`. Messages are numbers in channel
order. A message is one statement or several - deleting a task is five, an account two - and
no savepoint holds them together: `AppliesPart` executes one that is not the last, `Applies`
the last, and a message whose statement fails (`IsRejected`) leaves what it had executed in
the batch. `rows` and `pending` are the messages with a statement on disk or in the
transaction, `whole` those whose every statement was accepted, and `Durable` those on disk
as a whole. A statement may make SQLite roll the whole transaction back and go on without
one; BEGIN may fail, which drops the batch with its callers; COMMIT may fail and leave the
transaction open, which `write_batch` does not roll back. `refused`, `failed` and `lost` are
history, saying why a row is not there.

### PeerDelivery and the code

The actor's side keeps the records (`status`), what is in flight and held, what a
prompt has reserved, what the user is removing, the sender's slot and the cursor; it
acts on a mirror of the receiver's queue. The sessions' side is a driver per run with
its command channel, queue and turn, and one channel of updates to the actor, so an
update may be heard long after, and after its session was dropped (`IsStale`). `LoopTop`
is `TurnDriver`'s without force-sends. `told` is history: what an agent was sent.
Abstracted: the receiver is visible and not muted; the rate limits of the guard always
admit, but the slot one waiting message takes is kept, with its lapse after 30 minutes.

### ServiceStart, PortForward and the code

As in `Factory`, an operation of the actor is a function of a record `st` (`Now`) of what
it may change, named as in the code, and a command or event ends with `Becomes`. A command
reads the declarations from `file`, and so does every event that wakes the held
(`project_config`); `applied` is what the observer has last acted on. A file that does not
parse is `Broken`: commands refuse, a wake-up passes everybody over (`skipped`).

| code | model |
|---|---|
| `ManagedService`: status, run id, `alive`, `waiting_on`, kill handle | `svc[s]`: `status`, `run`, `alive`, `held`, `group` (the run it can kill) |
| `RunHandle`: `settled`, `timed_out`; `stopping`; the process | `runs[r]`: `settled`, `timed`, `stopping`, `proc` |
| `report_running`: swap, load, send | `Settles`, `LoadsTimedOut`, `ReportsReady` |
| `report_not_ready`: load, swap, send | `TimesOut`, `SwapsTimedOut`, `ReportsNotReady` |
| the exit waiter | `ExitSeen`, `ReportsExit` |
| `dependency_gate`, `launch_service`, `hold`, `advance_waiting` | the operators of those names |
| `PfEvent`s and `ServiceEvent`s on the actor's channel | `pfq`, `svcq` |
| `watch_portforward`, its place in the loop | `watch[g].at`: `Probe`, `Look`, `Connected`, `LooksAgain`, `Fails`, `KubectlExits` |

`wanted` and `skipped` are history: which services a start has covered since they were
stopped, and whether the last wake-up passed a held service over or went by a file that
has changed since it was applied - the change will wake them again. `notify_waiters` wakes
who waits at that moment and stores nothing, so `stop_forward` reaches a watcher only at
the places in `Hears`. Abstracted: whatever makes a start impossible - no port, a bad
placeholder, a failed spawn - is one refusal (`bad`); health and log probes may report at
any time; an edit settles before the observer acts on it. Left out: the port watch and its
warning, logs, removing a project and quitting, which stop everything.

## 3. What the runs check

| run | instance | distinct states | shows |
|---|---|---|---|
| `turn_order` | prompts i, u1, u2, s1; 2 force-sends; no failures | 566,994 | type; every prompt in one place; nothing stranded behind a free slot and the announced list true; a turn cut before its answer is not filed as a result; refinement of `PromptLedger`, which keeps prompts in order and initiators apart |
| `turn_faults` | u1, s1; 1 force-send; every failure, intentional stop | 113,931 | one end per turn; one send task waits; a turn that was cut or whose transport is gone gives its slot up and is reported over or the session fails; a death is heard of |
| `workflow_review` | 2 reviewers, no verify stage, 2 workflow files, every failure, 2 events | 189,790 | type; rounds count verdicts; no stage waits for a silent child; an ended run is quiet; a pause is kept; a running pipeline comes to rest |
| `workflow_verify` | 1 reviewer, 4 workflow files with verify (one with plan), 2 events, 3 code versions | 1,221,862 | rounds within the limit; barrier ids never reused; reviewers see only cleared code; refinement of `PipelineShape` |
| `factory` | 2 tasks, 3 ways to set one up, 1 slot, 1 open pull request; failing git, a crash, a deletion or a move of a person | 1,564,709 | type; a folder on a task branch has a stored return point; one run in the folder; slots bounded; an open pull request is known |
| `factory_live` | 1 task, every failure, 2 crashes or moves of a person, 1 write waiting | 185,989 | a lease moves on; a task whose pipeline ended frees its slot |
| `persist` | 3 messages of one or more statements in batches of 2, every failure, crashes | 94,916 | type; no write overtaken; a flush is a barrier; an ask hears its own outcome; refinement of `WriteBehind`; callers resume |
| `peers` | 2 messages or posts, 2 sessions, 2 events; lapse, exit, broken pipe, cancel, restart | 2,571,113 | type; records agree; nothing in limbo; verdicts hold |
| `services` | 2 services and a forward, 3 files and a broken one, 3 acts; timeouts, exits, refusals | 1,116,458 | type; processes are owned; a run's verdict settles; no missed wake-up |
| `workflow_stuck` | 2 reviewers that may fail to start | violation | finding 1 |
| `factory_branch` | 1 task, deleted while it is delivered | violation | finding 2 |
| `forward_stop` | a forward started and stopped, nothing failing by itself | violation | finding 3 |

### Bounds, and why they are enough

* **Prompts.** Two user prompts are what a merged batch needs, one wake-up is what
  must not be merged into it and keeps its place, the opening prompt is what they
  wait behind. A second force-send meets the window in which the first one's grace
  runs and the batch is set aside. Failures multiply the states and do not involve
  the order of three prompts, so they are checked on two.
  The two user prompts are alike (`SYMMETRY UserPrompts`): no definition tells them apart
  but by arrival, and `turn_order` has no liveness property.
* **`MaxForce`** also bounds how often the 5 s grace is re-armed (section 4).
* **Reviewers.** Two: one can vote, or be lost, while another is awaited.
* **`MaxEvents`.** User commands and session failures together; agents' own turns,
  quota refusals, garbled replies, failed starts and stopping the run are not counted.
  Two pairs each such event with each other: a pause and a restart, a death and a
  reply, a restart and a cancel.
* **`MaxCode`.** The working copy before, between and after two edits; three let a fix
  be interrupted after it changed the code and run again.
* **Workflow files.** Chosen so that each branch on a file's field is taken both ways:
  limit reached with "Ask" and "Finish", same and fresh reviewer sessions, required
  and waivable verification, with and without plan and worktree.
* **Factory tasks.** Two compete for the slot, the folder and the lease; each may run in
  a worktree, in the folder under a lease, or in the folder in place. One move of a
  person or crash among two tasks, and two with one task, let a crash meet every write,
  every git step and every step of a delivery; the second lets a crash follow a move of
  a person, or another crash. `MaxLag` bounds the writes that may wait when the actor
  takes a command: a handler itself queues up to five, so a crash inside that tail is
  met with 0 already; liveness is checked with 1.
* **Messages of `Persist`.** Three in batches of two: a whole batch before or after another,
  or three of one; a message executes any number of statements, and the asks and flushes
  fall at every place. The proofs cover any number and any batch size; with four the same
  invariants and the refinement hold too (2,486,743 states), but the liveness check takes
  long.
* **Peers.** Two records meet each other in one prompt and in two; two sessions let an
  update of the first arrive during the second. `HeldItems = 1` makes a held message wait
  for a second prompt. Events count what a user does, exits and restarts.
* **Services.** One depends on the other and on the forward; further files change the
  forward, drop the second service, or close a cycle. `MaxActs` counts commands, edits,
  timeouts, exits, refusals in an event and lost forwards: three give a start, a fault and
  a stop, restart or edit on top, with every order of the tasks beside them, and three runs
  of a service. `MaxFailures = 1` (15 in the code) gives up at the first failure; with more
  a watcher only sleeps and looks again. `MaxPfEvents` holds back a watcher that connects
  again before the actor has heard of the last time.
* `Asked = {0, 2}`: "no number", which the code raises to one, and a number that is kept.

Deadlock is not checked: a stopped session, a finished pipeline, a Factory with nothing
queued, an empty queue of writes, a quiet pair of peers and services at rest really stop.

### Findings

Each is a documented statement the code does not keep; the run gives the trace.

1. *A review nobody joined* (`workflow_stuck`). When no reviewer's session starts, the
   run stays `Running{Review}` with nothing to wait for; ADR 0001 says a stage whose
   session fails to start must fail the run.
2. *Somebody else's branch* (`factory_branch`). Deleting a task between its delivery's
   commit and push gives the project folder back to the person's branch; the delivery,
   which nothing stops, pushes that branch. ADR 0023, invariant 1, says the runner
   writes only to branches it created; `deliver` looks only once.
3. *A stopped forward goes on* (`forward_stop`). A stop is heard only by a watcher that
   waits for it. One that asks lsof or kubectl at that moment goes on, connects, and its
   event makes the stopped entry `Active` again, with nothing left that could stop it;
   one that waits for its port retries. `portforward/mod.rs:114` says a stop "asks the
   watcher task to kill its kubectl child and exit".

More divergences were met and are recorded as hazards rather than runs. After the cancel
grace the driver sends the next prompt although the agent owes the answer to the one
before (ADR 0011 says never two outstanding), and a send task that swapped `ended` but has
not sent its `TurnEnded` is overtaken by the next `TurnStarted` (`acp/mod.rs:134`). A
pipeline paused during its checkout and resumed after a restart runs its stage in the
project folder, the silent fallback ADR 0015 forbids. A post that a removed prompt had
reserved is passed by the cursor, where ADR 0026 leaves posts of a turn that never starts
unseen. A dependency that settles while the file does not parse wakes nobody, and restoring
the file unchanged does not either (ADR 0016, invariant 3); `NoMissedWakeup` exempts it.

Two more of the turn loop. A force-send between a send task's load of `interrupted` and its
`TurnEnded` marks the turn too late, and the turn is reported as not interrupted, although
`turn.rs:200` says the task "reports it as interrupted"; the agent had answered by then, so
no partial text is filed as a result, which is what `CutIsNoResult` says. And the reader
drops its senders once, when stdout closes: a prompt dispatched later, to a process that
lives on, waits until the exit, a stop or a force-send, although `turn.rs:325` says the
send task "resolves on every outcome (reply, transport close, process exit)".
`TurnGivesWay` is about the turns the reader does drop, and those that are cut.

And three of `Persist`. The outcome of an ask is taken before COMMIT and sent whatever
COMMIT returns, although `persist.rs:276` says that who hears ok knows the row is durable.
The error of a message stays inside the closure, which returns `Ok`, so the statements it
had executed commit with the batch behind an "error", although `store/mod.rs:95` says that
on any error the whole batch is rolled back. And after a failed COMMIT the transaction may
stay open, since `write_batch` rolls back only when its closure fails; every later BEGIN
then fails and drops its batch. `AskIsAnswered` says what remains true of each answer.

## 4. Fairness

* **TurnDriver.** The driver gets round its loop, a send task takes its next step and
  the monitor reports: weak fairness, since each is a tokio task that is ready to run.
  The branches `ActiveDone`, `DeadlineFires` and `ExitSeen` have strong fairness:
  `select!` polls its branches in random order, so a branch that is ready again and
  again is taken, commands in between or not. Each force-send re-arms the grace; a
  user who repeats it for ever within 5 s would hold a mute turn, which `MaxForce`
  excludes. Nothing is assumed of the agent, the actor or the clients.
* **WorkflowRun.** The actor drains its channel, a checkout ends one way or the other,
  and agents end their turns or die (`TurnDriver` shows that a death is reported).
  Nothing is assumed of the user: a parked pipeline may stay parked.
* **Factory.** A handler ends and every git, gh and writer step ends, weakly: they are
  tokio tasks and loops that run. The 60 s tick and the reports of git tasks have strong
  fairness: the actor takes commands in the order they were sent, so each is come to,
  while in the model a command is only enabled when the actor is between two others.
  Nothing is assumed of a person, of pipelines, or of pull requests.
* **Persist.** The operating system runs the thread. Nothing is assumed of the callers.
* **ServiceStart** (`LiveSpec`, for finding 3). The actor handles what the watchers send,
  and a watcher whose commands come back takes its next step. Nothing is assumed of
  services or of the user.

`ComesToRest` leaves out the state of finding 1, in which the code really is stuck.
`SlotsAreFreed` asks of tasks whose pipeline ended and is known on disk to have ended:
a crash during a task's worktree checkout leaves an entry that is running and a pipeline
that was never saved, which nothing sweeps; it holds its slot until somebody deletes it.

## 5. What is proved

`TurnDriverProofs` proves, from `PromptAssumption` alone (initiators are initiators,
there is at most one opening prompt, `MaxForce` is a number), for any set of prompts:

| theorem | statement |
|---|---|
| `TypeCorrect` | `Spec => []TypeOK` |
| `OneEnd` | `Spec => []OneEndPerTurn` |
| `OneAwaits` | `Spec => []OneTaskAwaits` |
| `Placed` | `Spec => []PlacedOnce` |
| `NoneStranded` | `Spec => []NothingStranded` |
| `CutIsNone` | `Spec => []CutIsNoResult` |
| `Implements` | `Spec => LedgerSpec`, the refinement of `PromptLedger` |

**`EndInv`** carries `OneEnd` and `OneAwaits`. `OneEndPerTurn` is not inductive: it says
nothing of the window between the swap and the send. The strengthening ties the `ended`
flag, the send task's position and `ends` together - a task that has claimed the end
holds the only right to report it, and one that has not has left `ends` at 0 unless the
grace took it - and says that a waiting task is the active turn's, which is what keeps
`Abort` and a late reply apart.

**`PlaceInv`** carries `Placed` and `Implements`. Besides the disjointness of the places
it says that no arrival number exceeds `clock`, so that a new prompt arrives after all
others; that a batch holds only the user's prompts, which the abstract `Take` asks for;
that a driver waiting with a free slot has an empty queue, so that a prompt dispatched at
once overtakes nobody; and that nothing arrives before the start or waits after the stop.
That `Oldest` is well defined needs a lemma of its own: a non-empty set of naturals has a
least element, from the well-foundedness of `<`.

Each preservation proof has one lemma per group of actions that change the same
variables, with one step per action. The refinement maps `LoopTop` to `Take`,
`RecvPrompt` to `Wait` or `TakeAtOnce`, `RecvRemove` to `Withdraw`, leaving the loop to
`Close`, and everything else to a stutter.

`NoneStranded` adds that the list announced last is the list of those who wait whenever
the driver is in its `select!`: every branch that changes the queue goes round the loop,
whose top announces it. `CutIsNone` follows from `EndInv`
too, which says what a turn's end will say once its task has loaded it: a turn met before
its answer has its mark before the task can claim the end, so a load that comes later finds
it; one met later is not `partial`.

`PersistProofs` proves, from `PersistAssumption` (the bounds are numbers, a batch holds at
least one message), for any number of messages, any batch size and all failures:

| theorem | statement |
|---|---|
| `TypeCorrect` | `Spec => []TypeOK` |
| `NoneOvertaken` | `Spec => []NothingOvertaken` |
| `FlushHolds` | `Spec => []FlushIsBarrier` |
| `AskHolds` | `Spec => []AskIsAnswered` |
| `Implements` | `Spec => WritesSettleInOrder`, the refinement of `WriteBehind` |

The invariant `IInv` partitions the messages: those before the batch are settled
(`HandledInv`: durable as a whole, refused, failed or lost), those in it are accounted for
up to `at` according to whether a transaction is open (`BatchInv`, `TxnInv`), those after
it are untouched, and a crash loses only what was not settled (`LostInv`). The message at
`at` may have executed some of its statements already (`Reached`). `WholeInv` says that one
accepted to its last statement had none refused, and is on disk, on its way or gone with
its transaction; `HeardInv` that only messages of batches that are over were told anything.
The refinement maps a commit, a dropped batch, a crash and the end of a message outside a
transaction to the step that settles a run of messages at once, and a statement outside a
transaction before its last to `Land`, which lets a part of the next write reach the disk;
all else stutters.

`WorkflowRunProofs` proves, from `WorkflowAssumption` (workflow files are what their type
says, there is a reviewer, the bounds are numbers), for any workflow file, any number of
reviewers and any commands, failures and restarts:

| theorem | statement |
|---|---|
| `IdsAreNew` | `Spec => []BarrierIdsAreNew` |
| `RoundsLimited` | `Spec => []RoundsStayWithinLimit` |
| `RoundsCounted` | `Spec => []RoundsCountVerdicts` |
| `NoneSilent` | `Spec => []NoSilentChild` |
| `EndIsQuiet` | `Spec => []EndedIsQuiet` |
| `WorkflowTypes` | `Spec => []TypeOK` |

One invariant, `Good`, carries the first five, because none is inductive alone. Rounds stay
within the limit only because a pipeline that may reach a review without asking has a
round left (`Open(r) => Room(r)`), which in turn holds only because the counter is exact
whenever a stage ends: a lost round that stayed counted would leave no room for running it
again. A running stage hears of its children only because who is at work is exact in every
state (`Staffed`): a stage that is not a review has at most one child, a question is
asked by the only one, and a parked run has none. The proof follows the code's call
chains: an operator that starts a stage takes a run between stages (`Ready`), one that
ends a stage takes a run of which one child has been heard (`Heard`, or `Round` for a
review), each has a lemma that says its `Put` is `Good`, and each action cites those of
the operators it ends in. A child may be changed by the report being handled (`Touched`)
before the handler looks at it. `Staffed` also fixes the stage of each state that waits: a
verify barrier stands in verify, a limit in a review that spent a round, a run whose
checkout is being made has not left its first stage. `WorkflowTypes` goes down the same call
chains with `Typed`, and takes two things from `Good`: that who is asked is a child, and
that a reviewer's child has the seat of a reviewer, without which a vote would be filed
under a seat that is none.

`WorkflowShapeProofs` proves about the steps, from the same assumption and with `Good` on
both sides of each:

| theorem | statement |
|---|---|
| `ImplementsShape` | `Spec => ShapeSpec`, the refinement of `PipelineShape` |
| `PauseKept` | `Spec => PauseIsKept` |

Both follow the call chains once more. `Went` says where an operator that starts a stage
can leave the run: in that stage, parked before it, failed, at the verify barrier or - past
a verify stage that may be waived - in review, with the round counted exactly if the
review runs. `Moved` says the same of the end of a stage, which adds success out of a
review, a question, a limit and a lost round given back. `ShapeNext` shows once that what
they allow is a step of the abstract pipeline; every action then is such a move or
leaves the abstract state alone. The pause is kept because each of these operators either
looks at it or leaves it, and only granting rounds or attempts, which counts as used,
takes it back.

It also proves `OnlyClearedSeen`: `Spec => ReviewersSeeClearedCode`. The
invariant `Vet` says what a stage may take for granted when it is entered, now or after a
park (`Due`): a fix the reviewers asked for starts from vetted code, its fingerprint stays
until its result is heard and is that of the vetted code however often the fix is run
again, and every other stage has none. A fix that was begun without a fingerprint marks
the run `blind`, which is why code may change under it. Since a round is only spent when a
review starts, which the refinement of `PipelineShape` already says, the property follows
from `Vet` of the state the step leads to.

`PeerDeliveryProofs` proves, from `PeerAssumption` (the bounds are numbers, a digest holds
at least one item), for any number of messages, sessions and events, every fault and any
order of the updates:

| theorem | statement |
|---|---|
| `TypesHold` | `Spec => []TypeOK` |
| `RecordsAlwaysAgree` | `Spec => []RecordsAgree` |
| `NoneInLimbo` | `Spec => []NothingInLimbo` |
| `VerdictsAreFinal` | `Spec => VerdictsHold` |

`RecordsAgree` is not inductive, since a record in flight whose number was never given
would take the place of a new one; `Known` adds that whatever is queued or held has a
number up to `last`. `Typed` says the same of all that is written anywhere - prompts in
a channel or a queue, announced lists, the mirror, updates, digests - and what a driver
looks like between two turns of its loop (`Orderly`, `Sound`): it has announced what waits,
a stopped one keeps nothing, and a message is the direct one of one prompt at most.

`NothingInLimbo` names what can be seen of a message; what makes it hold is where the
message has got to. `Fate` has four places. It is in the live session's channel and on no
list yet (`Boxed`); it waits in the queue, and no update takes it off the mirror (`Lined`);
its turn has started, and the update that says so comes before any list without it
(`Begins`); or it is never to be sent, and a list without it or the session's failure is
under way (`Lost`). `LoopTop` sends before it announces, which is what the third place
needs: announced first, a message the agent has would be taken off as removed or held. The
mirror with the lists under way ends at what the driver announced last (`Mirrors`), so a
prompt taken from the queue is missed by the next list; and only the live session has a
prompt for it (`Alone`), which is why updates of dropped sessions may be ignored. Pure
lemmas say how an update appended or heard moves a message from place to place, and each
action cites one or two of them. `VerdictsHold` follows from the same invariant: a message
the actor takes off is in the place `Lost`, and its agent was never sent it.

`FactoryProofs` and `FactoryReturnProofs` prove, from `FactoryAssumption` (tasks and user
branches are apart, kinds are what their type says, the limits are numbers), for any tasks,
limits and failures, any crashes and any use of the folder by its owner:

| theorem | statement |
|---|---|
| `OneInFolder` | `Spec => []OneRunInFolder` |
| `SlotsHold` | `Spec => []SlotsBounded` |
| `ReturnIsKnown` | `Spec => []ReturnPointKnown` |
| `FactoryTypes` | `Spec => []TypeOK` |
| `PullsAreKnown` | `Spec => []OpenPullIsKnown` |

A handler saves several times, and a crash may come between any two of its writes, so
what holds between handlers is too strong for what a restart finds: an `Image` is what may
be on disk after any single write. Its run in the folder is alone and no other task's lease
is in its way (`Alone`), and a lease that is being returned has no run (`LeaseOK`). `Good`
says that every write that waits is an image, that it knows no task the actor has
forgotten (`Grows`), and that between two handlers a folder being prepared has no run yet
(`Settled`) - this last may fail on disk, and `runner_checkout_restore` is what mends it.
Each operator the handlers are built from has a lemma that takes a handler under way
(`Loose`, or `Sound` when it may end there) to one.

`SlotsHold` adds `Slim`: not only what the actor holds but every write a restart may find
takes no more slots than there are (`Few`). A handler that starts nothing gives no task a
slot that had none, in any of the writes on its way (`Fits`). A dispatch counts first, when
no folder is being prepared, so `runner_slots` is exactly the number of slots taken; a
start by hand skips the count, and `byHand` remembers it.

`ReturnIsKnown` adds `Known`. It ties the state of the lease to the git task that works
for it (`InStep`) and says when the folder is certainly on a branch of its owner's: from
the inspection until the switch (`Away`). During the flush all writes later than the one
it waits for carry the return point; when it ends, all writes do, which is what the switch
needs. From then on no handler changes whose lease it is, nor where the folder goes back
to (`Tidy`), until git has returned it; the handlers that begin or drop a lease are those
that find the folder away from the task's branch.

`PullsAreKnown` adds `Watching`. That the actor knows of an open pull request is not
inductive: a crash forgets what it holds, so every write on the disk or on its way must know
too. `Tracked` is what such a write says of a task that has, or is about to have, a pull
request - delivering, delivered or deleted, and in the folder with its lease - so that a
restart from it ends with the request followed. `Watch` says from when: a wrap-up that waits
for its flush has it in the writes after the one it waits for, one that has begun to commit
has it in all of them, which is what the flush in `deliver::spawn` is for; while it is under
way the entry stays (`InFlight`), and a request that is open outlives it. A handler works on
one task and leaves the others' rows alone in all of its writes (`Minds`), and its own
task's rows stay tracked through each (`Safe`): the order in which `runner_put_entry` and
`runner_put_run` save matters here. A delivery from the folder finds its own branch there
(`BranchIsOwn`, from `Known`) unless its task was deleted meanwhile: then the folder is
given back, the delivery goes on, and what it opens for the branch of the next task there is
noted in `strayed`, exempt until that branch's own delivery has opened or found the request
too. It is the same disagreement `factory_branch` shows for a person's branch.

`FactoryTypes` needs `Good` and `Known` beside `TypeOK`, for one step: git switches to the
branch of the lease's task, so a lease that is prepared must have one. Its other part is
that the actor holds what it wrote last. A handler may change `x` without a write of its
own (a pipeline that waits for its worktree, a delivery swept back into its run); those
are no more than `Actors`, and become `Typed` by the entry that is put next.

`ServiceStartProofs` proves, from `ServiceAssumption` (services are finitely many numbers,
the forward is not one of them, the file declares services only and may be broken) and
`PortForwardAssumption`, for any services, any declarations with or without cycles, any
commands and edits, every refusal, timeout and exit:

| theorem | statement |
|---|---|
| `ServiceTypes` | `Spec => []TypeOK` |
| `ProcessesStayOwned` | `Spec => []ProcessesAreOwned` |
| `StatusesSettle` | `Spec => []StatusSettles` |
| `WakeupsReach` | `Spec => []NoMissedWakeup` |

None of them is inductive alone. `IInv` says of the actor's state (`Good`) that ids name
runs of their own service (`Named`); that a process runs only behind the entry of its run,
and an entry that is held or not alive has none (`Owned`); that a run says each thing once,
in the words its two flags give it, and only what it has come to is on the way to the actor
(`Spoken`); and that an entry says exactly what it has heard so far, so that an event taken
from the queue and the status it sets tell the same (`Truthful`). `StatusSettles` is
`Truthful` of a run that has nothing more under way.

`NoMissedWakeup` is `Calm`: with the queue empty, each dependent that starts has a
dependency that is coming up and none that is unavailable, and each that failed has one
that is not ready. In the middle of a handler that is false, so `Calm` has two parameters:
the dependencies that the rest of the handler will start count as coming up, and the
dependents it has still to reconsider are left out. `LaunchOne` and `ReconsiderOne` take one
service off them; where a service becomes running or failed without one of these, an event
is queued and its handling wakes the rest. Waking goes once through the names in their
order and need not start over, because a wake-up makes nothing ready itself: what it
starts is `Starting`, or has an event under way.

The handlers that go through several services are folds over finite sets (`StopAll`,
`RemoveAll`, `advance_waiting`) or over `sorted_services` (`Launch`). What the step hands on
from a set without its next element to the set holds at the end (`Climbs`): otherwise there
is a smallest subset where it fails, since inclusion is well-founded on finite sets, and the
step contradicts it. The same argument shows that the fold's CHOOSE has a value
(`FoldExists`), that `Max` is a maximum, and that `sorted_services` always finds an order
(`SomeOrder`: among any services there is one whose dependencies among them all depend on it).

Only model-checked: the liveness properties (`TurnGivesWay`, `DeathIsHeard`,
`ComesToRest`, `LeaseMovesOn`, `SlotsAreFreed`, `CallersResume`), which need
fairness and `ENABLED` and are out of the prover's reach. Induction with a predicate as its
parameter is out of its reach too; where `ServiceStartProofs` needs it, it argues from a
smallest counterexample instead. No module has a RECURSIVE operator.

## 6. Plan

Most important first. Each module is to be parameterised, with named assumptions, one
action per handler and no RECURSIVE operator where theorems are planned.

1. `TurnDriver`, `PromptLedger` - **done**, every safety property proved.
2. `WorkflowRun`, `PipelineShape` - **done**, its rounds, ids, children, pauses, clearances
   and the refinement proved.
3. `Factory` - **done**, every safety property proved.
4. `Persist`, `WriteBehind` - **done**, every safety property proved.
5. `PeerDelivery` - **done**, every safety property proved. Left out: mentions, named channels, Smith conversations.
6. `ServiceStart`, `PortForward` - **done**, every safety property proved. Left out: removing a project, quitting,
   the port watch; that a held dependent starts in the end, and three services.
7. `Automations`: the race of precheck, link and turn end. One automation, two fires.
8. `PortRanges`: the pure algorithm in 16 bits against a reference definition.
9. `TaskSession` and `WorktreeTokens`: status, resume with its replay guard,
   permissions; checkout operations in flight against delete, archive and restart.
10. Smiths, advisor and the client hub, over `TaskSession`.

## 7. What is not modelled

Automations, port ranges, Smiths, the advisor and the client server, and what the notes in
`PROJECT.json` leave out of the components modelled in part. Of checkouts and task sessions
only what pipelines, Factory tasks and peers need of them is there. Steps 7 to 10 above say
what comes next; the hazards in `PROJECT.json` that no property covers name the lines where
those components are exposed.

Not planned: repository features, memory, the MCP bridge and the CLI (I/O and
translation with little state), and the desktop client, which keeps a projection of the
daemon's events and decides nothing itself. They, the wire types, the command enum and
the parsers of agents' and providers' files are most of the repository's lines, so the
share of lines the models stand for stays small: the models cover where order, failure
and restart decide, not where data is moved.

## 8. Running it

    tlc -config TurnOrder.cfg MCTurnDriver
    tlc -config WorkflowReview.cfg MCWorkflowRun
    tlc -config Factory.cfg MCFactory
    tlc -config Persist.cfg MCPersist
    tlc -config PeerDelivery.cfg MCPeerDelivery
    tlc -config ServiceStart.cfg MCServiceStart
    tlapm TurnDriverProofs.tla
    tlapm WorkflowRunProofs.tla
    tlapm WorkflowShapeProofs.tla
    tlapm FactoryProofs.tla
    tlapm FactoryReturnProofs.tla
    tlapm PersistProofs.tla
    tlapm PeerDeliveryProofs.tla
    tlapm ServiceStartProofs.tla

and likewise the other configurations that `PROJECT.json` lists; those of the findings end
with a counterexample. Each run ends within five minutes, the proofs of a module within
ten, those of `ServiceStartProofs` within a quarter of an hour.
