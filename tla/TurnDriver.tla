----------------------------- MODULE TurnDriver -----------------------------
(***************************************************************************)
(* The turn loop of one agent session: `run` in                            *)
(* src/src/daemon/acp/session/turn.rs, the send tasks it spawns            *)
(* (acp/prompt.rs), the reader that hands them their replies (acp/rpc.rs,  *)
(* acp/session/reader.rs) and the monitor that reaps the agent process     *)
(* (acp/session/mod.rs, acp/process.rs).                                   *)
(*                                                                         *)
(* The driver, every send task, the reader and the monitor are tasks of a  *)
(* multi-threaded tokio runtime: between two awaits of one of them any     *)
(* other may run.  Prompt text is abstracted to the prompt's identity; the *)
(* two VecDeque/Vec queues are sets ordered by the arrival number that the *)
(* code's ids q1, q2, ... carry.                                           *)
(***************************************************************************)
EXTENDS Naturals, Sequences, FiniteSets

CONSTANTS Prompts,   \* every prompt the actor may submit to this session
          By,        \* By[p]: the TurnInitiator that submitted p
          MaxForce,  \* bound: how many force-sends the user makes
          Faults     \* bound: which failures the environment may produce

Initiators == {"Initial", "User", "System", "Automation", "Peer"}

(* The session's initial_prompt: at most one, empty on a bare resume. *)
Opening == {p \in Prompts : By[p] = "Initial"}

ASSUME PromptAssumption ==
  /\ By \in [Prompts -> Initiators]
  /\ \A p, q \in Opening : p = q
  /\ MaxForce \in Nat
  /\ Faults \subseteq {"reject", "stdin", "stdout", "exit", "stop"}

VARIABLES
  pc,        \* the driver: at its start, the loop's top, its select, or gone
  active,    \* index in turns of the Active turn, 0 for None
  turns,     \* every turn dispatched so far: what its send task shares
  queued,    \* prompts waiting in `queued`
  batched,   \* prompts a force-send set aside in `batched`
  edited,    \* prompts whose text was replaced while they waited
  arrived,   \* arrived[p]: number of p in order of arrival, 0 before it
  clock,     \* next_id: the last number given
  removed,   \* prompts withdrawn by RemoveQueued
  dropped,   \* prompts still waiting when the driver stopped
  deadline,  \* whether the cancel grace of the active turn is running
  announced, \* the list the last QueueChanged carried
  forces,    \* force-sends accepted so far
  child,     \* the agent process as the exit watch and its monitor know it
  stdin,     \* whether the writer task still accepts frames
  stdout,    \* whether the reader still reads frames
  reported,  \* FailureReporter.reported: the session's one Error was sent
  stopping,  \* ProcessGuard.stopping: the actor stopped the session itself
  killed     \* a kill was asked of the monitor

queueVars == <<queued, batched, edited, arrived, clock, removed, dropped>>
agentVars == <<child, stdin, stdout>>
faultVars == <<reported, stopping, killed>>
driverVars == <<pc, active, deadline, announced, forces>>
vars == <<driverVars, turns, queueVars, agentVars, faultVars>>

(* What the agent may answer, and what the receiver of the answer holds:   *)
(* one of these, nothing yet, or nothing ever, its sender being dropped.   *)
Answers == {"result", "cancelled", "error"}
Replies == Answers \cup {"none", "closed"}
TaskSteps == {"awaiting", "replied", "claimed", "loaded", "done", "aborted"}

(* A dispatched turn: `Turn`/`Active`, its send task's position, what its  *)
(* TurnEnded says of an interruption (cut) and, as history, how many were  *)
(* sent (ends) and whether a force-send met it unanswered (partial).       *)
TurnRecords == [by : Initiators, has : SUBSET Prompts, started : BOOLEAN,
                reply : Replies, task : TaskSteps,
                interrupted : BOOLEAN, ended : BOOLEAN,
                ends : Nat, cut : BOOLEAN, partial : BOOLEAN]

Waiting == queued \cup batched
Accepted == {p \in Prompts : arrived[p] > 0}
Taken == UNION {turns[t].has : t \in 1..Len(turns)}

(* The entries of a QueueChanged: who waits, and with which text. *)
Listing(waiting) == [p \in waiting |-> p \in edited]

(* The front of the VecDeque: prompts are pushed in order of arrival. *)
Oldest(S) == CHOOSE p \in S : \A q \in S : arrived[p] <= arrived[q]

TypeOK ==
  /\ pc \in {"start", "top", "select", "stopped"}
  /\ turns \in Seq(TurnRecords)
  /\ active \in 0..Len(turns)
  /\ queued \subseteq Prompts /\ batched \subseteq Prompts
  /\ edited \subseteq Prompts /\ removed \subseteq Prompts /\ dropped \subseteq Prompts
  /\ arrived \in [Prompts -> Nat] /\ clock \in Nat
  /\ deadline \in BOOLEAN /\ forces \in 0..MaxForce
  /\ child \in {"running", "exited", "reaped"}
  /\ stdin \in BOOLEAN /\ stdout \in BOOLEAN
  /\ reported \in BOOLEAN /\ stopping \in BOOLEAN /\ killed \in BOOLEAN

Init ==
  /\ pc = "start" /\ active = 0 /\ turns = <<>>
  /\ queued = {} /\ batched = {} /\ edited = {} /\ removed = {} /\ dropped = {}
  /\ arrived = [p \in Prompts |-> 0] /\ clock = 0
  /\ deadline = FALSE /\ announced = Listing({}) /\ forces = 0
  /\ child = "running" /\ stdin = TRUE /\ stdout = TRUE
  /\ reported = FALSE /\ stopping = FALSE /\ killed = FALSE

-----------------------------------------------------------------------------
(* Dispatching: begin_rpc puts the prompt on the writer's queue, or finds  *)
(* the writer gone, before send_prompt returns; TurnStarted follows a      *)
(* prompt that was written.                                                *)
NewTurn(S, who) ==
  [by |-> who, has |-> S, started |-> stdin, reply |-> "none", task |-> "awaiting",
   interrupted |-> FALSE, ended |-> FALSE, ends |-> 0, cut |-> FALSE,
   partial |-> FALSE]

Becomes(t, turn) == turns' = [turns EXCEPT ![t] = turn]

(* Mutation: the slot points past the new turn. *)
DispatchMiscounted(S, who) ==
  /\ turns' = Append(turns, NewTurn(S, who))
  /\ active' = Len(turns) + 2

Dispatch(S, who) ==
  /\ turns' = Append(turns, NewTurn(S, who))
  /\ active' = Len(turns) + 1

Arrive(p) ==
  /\ arrived' = [arrived EXCEPT ![p] = clock + 1]
  /\ clock' = clock + 1

(* Mutation: only `queued` is drained. *)
StopForgetsBatch ==
  /\ pc' = "stopped"
  /\ dropped' = dropped \cup queued
  /\ queued' = {} /\ batched' = {} /\ edited' = {}
  /\ announced' = Listing({})

(* The driver leaves its loop: what still waits is dropped, unsaid. *)
Stop ==
  /\ pc' = "stopped"
  /\ dropped' = dropped \cup Waiting
  /\ queued' = {} /\ batched' = {} /\ edited' = {}
  /\ announced' = Listing({})

-----------------------------------------------------------------------------
(* The driver task *)

StartWithPrompt(p) ==
  /\ pc = "start" /\ p \in Opening
  /\ Dispatch({p}, "Initial") /\ Arrive(p)
  /\ pc' = "top"
  /\ UNCHANGED <<deadline, announced, forces, queued, batched, edited, removed, dropped,
                 agentVars, faultVars>>

(* the initial prompt carries images the agent does not take *)
StartRefused ==
  /\ pc = "start" /\ Opening # {}
  /\ pc' = "stopped" /\ reported' = TRUE /\ killed' = TRUE
  /\ UNCHANGED <<active, deadline, announced, forces, turns, queueVars, agentVars, stopping>>

StartIdle ==
  /\ pc = "start" /\ Opening = {}
  /\ pc' = "top"
  /\ UNCHANGED <<active, deadline, announced, forces, turns, queueVars, agentVars, faultVars>>

(* Mutation: the batch is copied, not taken. *)
TakeBatchKeepsIt ==
  /\ batched # {}
  /\ Dispatch(batched, "User")
  /\ UNCHANGED <<queued, batched>>

TakeBatch ==
  /\ batched # {}
  /\ Dispatch(batched, "User")
  /\ batched' = {} /\ UNCHANGED queued

TakeOldest ==
  /\ batched = {} /\ queued # {}
  /\ Dispatch({Oldest(queued)}, By[Oldest(queued)])
  /\ queued' = queued \ {Oldest(queued)} /\ UNCHANGED batched

(* The top of the loop: a free slot takes the batch, else the oldest       *)
(* waiting prompt, and the list of waiting prompts is announced.           *)
LoopTop ==
  /\ pc = "top"
  /\ pc' = "select"
  /\ \/ active # 0 /\ UNCHANGED <<active, turns, deadline, queued, batched>>
     \/ /\ active = 0 /\ deadline' = FALSE
        /\ \/ TakeBatch
           \/ TakeOldest
           \/ Waiting = {} /\ UNCHANGED <<active, turns, queued, batched>>
  /\ edited' = edited \cap (queued' \cup batched')
  /\ announced' = [p \in queued' \cup batched' |-> p \in edited]
  /\ UNCHANGED <<forces, arrived, clock, removed, dropped, agentVars, faultVars>>

(* AcpCommand::Prompt *)
RecvPrompt(p) ==
  /\ pc = "select" /\ pc' = "top"
  /\ p \notin Opening /\ arrived[p] = 0
  /\ Arrive(p)
  /\ \/ /\ active # 0
        /\ queued' = queued \cup {p}
        /\ UNCHANGED <<active, turns>>
     \/ /\ active = 0
        /\ Dispatch({p}, By[p])
        /\ UNCHANGED queued
  /\ UNCHANGED <<deadline, announced, forces, batched, edited, removed, dropped,
                 agentVars, faultVars>>

(* Mutation: no partition by initiator. *)
MineIsAll == queued

(* What a force-send sets aside: the user's own prompts, nobody else's. *)
Mine == {p \in queued : By[p] = "User"}

(* What a force-send does to the running turn. *)
Interrupted(turn) ==
  [turn EXCEPT !.interrupted = TRUE, !.partial = @ \/ turn.reply \notin Answers]

(* AcpCommand::Interrupt, the force-send, when it is not refused *)
RecvInterrupt ==
  /\ pc = "select" /\ pc' = "top"
  /\ forces < MaxForce /\ forces' = forces + 1
  /\ active # 0
  /\ \/ batched # {}
     \/ Mine # {}
  /\ batched' = batched \cup Mine
  /\ queued' = queued \ Mine
  /\ Becomes(active, Interrupted(turns[active]))
  /\ deadline' = TRUE
  /\ UNCHANGED <<active, announced, edited, arrived, clock, removed, dropped,
                 agentVars, faultVars>>

(* AcpCommand::RemoveQueued of a prompt that still waits *)
RecvRemove(p) ==
  /\ pc = "select" /\ pc' = "top"
  /\ p \in Waiting
  /\ queued' = queued \ {p} /\ batched' = batched \ {p}
  /\ removed' = removed \cup {p} /\ edited' = edited \ {p}
  /\ UNCHANGED <<active, turns, deadline, announced, forces, arrived, clock, dropped,
                 agentVars, faultVars>>

(* Mutation: the loop's top is not reached again. *)
RecvEditUnsaid(p) ==
  /\ pc = "select" /\ UNCHANGED pc
  /\ p \in Waiting /\ By[p] = "User"
  /\ edited' = edited \cup {p}
  /\ UNCHANGED <<active, turns, deadline, announced, forces, queued, batched, arrived, clock,
                 removed, dropped, agentVars, faultVars>>

(* AcpCommand::EditQueued of one of the user's own waiting prompts *)
RecvEdit(p) ==
  /\ pc = "select" /\ pc' = "top"
  /\ p \in Waiting /\ By[p] = "User"
  /\ edited' = edited \cup {p}
  /\ UNCHANGED <<active, turns, deadline, announced, forces, queued, batched, arrived, clock,
                 removed, dropped, agentVars, faultVars>>

(* AcpCommand::Cancel, or the last handle dropped: both come after the     *)
(* actor marked the session as stopping.                                   *)
RecvCancel ==
  /\ pc = "select" /\ stopping
  /\ Stop
  /\ UNCHANGED <<active, deadline, forces, turns, arrived, clock, removed,
                 agentVars, faultVars>>

(* the active turn's send task is over *)
ActiveDone ==
  /\ pc = "select" /\ active # 0
  /\ turns[active].task = "done"
  /\ active' = 0 /\ pc' = "top"
  /\ UNCHANGED <<deadline, announced, forces, turns, queueVars, agentVars, faultVars>>

(* Aborting a send task that already holds its reply is too late: its      *)
(* remaining steps have no await.                                          *)
(* Mutation: the handle is dropped without abort(). *)
NotAborted(task) == task
Aborted(task) == IF task = "awaiting" THEN "aborted" ELSE task

(* The cancel grace ran out: the driver says the turn is over, unless its  *)
(* send task claimed that right.                                           *)
DeadlineFires ==
  /\ pc = "select" /\ deadline /\ active # 0
  /\ LET turn == turns[active]
         mute == turn.ended
     IN  Becomes(active,
           [turn EXCEPT !.task = Aborted(@),
                        !.ended = TRUE,
                        !.ends = IF mute THEN @ ELSE @ + 1,
                        !.cut = IF mute THEN @ ELSE TRUE])
  /\ active' = 0 /\ pc' = "top"
  /\ UNCHANGED <<deadline, announced, forces, queueVars, agentVars, faultVars>>

ExitSeen ==
  /\ pc = "select" /\ child # "running"
  /\ Stop
  /\ UNCHANGED <<active, deadline, forces, turns, arrived, clock, removed,
                 agentVars, faultVars>>

-----------------------------------------------------------------------------
(* The send task of turn t: finish_rpc, then the tail of send_prompt *)

Fail == reported' = TRUE /\ killed' = TRUE /\ UNCHANGED stopping

TaskTakesReply(t) ==
  /\ turns[t].task = "awaiting" /\ turns[t].reply \in Answers
  /\ Becomes(t, [turns[t] EXCEPT !.task = "replied"])
  /\ UNCHANGED <<driverVars, queueVars, agentVars, faultVars>>

(* the agent refused the prompt: the session fails, the turn never ends *)
TaskRejected(t) ==
  /\ turns[t].task = "replied" /\ turns[t].reply = "error"
  /\ Becomes(t, [turns[t] EXCEPT !.task = "done"])
  /\ Fail
  /\ UNCHANGED <<driverVars, queueVars, agentVars>>

(* Mutation: the swap's result is ignored. *)
TaskClaimsEndAnyway(t) ==
  /\ turns[t].task = "replied" /\ turns[t].reply # "error"
  /\ Becomes(t, [turns[t] EXCEPT !.task = "claimed", !.ended = TRUE])
  /\ UNCHANGED <<driverVars, queueVars, agentVars, faultVars>>

(* ended.swap(true): whoever comes second stays quiet *)
TaskClaimsEnd(t) ==
  /\ turns[t].task = "replied" /\ turns[t].reply # "error"
  /\ Becomes(t, [turns[t] EXCEPT !.task = IF turns[t].ended THEN "done" ELSE "claimed",
                                  !.ended = TRUE])
  /\ UNCHANGED <<driverVars, queueVars, agentVars, faultVars>>

(* Mutation: the interrupted flag is ignored. *)
TaskLoadsAgentsReason(t) ==
  /\ turns[t].task = "claimed"
  /\ Becomes(t, [turns[t] EXCEPT !.task = "loaded", !.cut = turns[t].reply = "cancelled"])
  /\ UNCHANGED <<driverVars, queueVars, agentVars, faultVars>>

(* interrupted.load: the driver may store it once more before the send *)
TaskLoadsInterrupted(t) ==
  /\ turns[t].task = "claimed"
  /\ Becomes(t, [turns[t] EXCEPT !.task = "loaded",
                    !.cut = turns[t].interrupted \/ turns[t].reply = "cancelled"])
  /\ UNCHANGED <<driverVars, queueVars, agentVars, faultVars>>

TaskSendsEnd(t) ==
  /\ turns[t].task = "loaded"
  /\ Becomes(t, [turns[t] EXCEPT !.task = "done", !.ends = @ + 1])
  /\ UNCHANGED <<driverVars, queueVars, agentVars, faultVars>>

TaskSeesExit(t) ==
  /\ turns[t].task = "awaiting" /\ child # "running"
  /\ Becomes(t, [turns[t] EXCEPT !.task = "done"])
  /\ UNCHANGED <<driverVars, queueVars, agentVars, faultVars>>

(* The writer was gone at the start, or the reader dropped the sender of   *)
(* the answer, and the process outlived the 250 ms grace.  A prompt begun  *)
(* after the reader left is registered with nobody to drop it.             *)
TaskTransportClosed(t) ==
  /\ turns[t].task = "awaiting" /\ child = "running"
  /\ \/ ~turns[t].started
     \/ turns[t].reply = "closed"
  /\ Becomes(t, [turns[t] EXCEPT !.task = "done"])
  /\ Fail
  /\ UNCHANGED <<driverVars, queueVars, agentVars>>

-----------------------------------------------------------------------------
(* The agent, its pipes, its monitor, and the actor stopping the session *)

(* Whether the reader holds a sender for turn t. *)
Pending(t) == turns[t].started /\ turns[t].reply = "none"

(* The agent answers a session/prompt, in any order and as late as it      *)
(* likes; the reader drops the answer of an aborted task.                  *)
AgentAnswers(t, r) ==
  /\ Pending(t) /\ stdout
  /\ r = "error" => "reject" \in Faults
  /\ Becomes(t, [turns[t] EXCEPT !.reply = r])
  /\ UNCHANGED <<driverVars, queueVars, agentVars, faultVars>>

(* Mutation: the reader leaves with its senders. *)
ReaderLeaves ==
  /\ "stdout" \in Faults /\ stdout /\ stdout' = FALSE
  /\ UNCHANGED <<driverVars, turns, queueVars, child, stdin, faultVars>>
(* The reader leaves its loop and drops, once, every sender it holds. *)
StdoutCloses ==
  /\ "stdout" \in Faults /\ stdout /\ stdout' = FALSE
  /\ turns' = [t \in 1..Len(turns) |->
                 IF Pending(t) THEN [turns[t] EXCEPT !.reply = "closed"] ELSE turns[t]]
  /\ UNCHANGED <<driverVars, queueVars, child, stdin, faultVars>>

StdinFails ==
  /\ "stdin" \in Faults /\ stdin /\ stdin' = FALSE
  /\ UNCHANGED <<driverVars, turns, queueVars, child, stdout, faultVars>>

ChildExits ==
  /\ "exit" \in Faults \/ killed
  /\ child = "running" /\ child' = "exited"
  /\ UNCHANGED <<driverVars, turns, queueVars, stdin, stdout, faultVars>>

(* Mutation: the exit is not reported. *)
MonitorStaysQuiet ==
  /\ child = "exited" /\ child' = "reaped"
  /\ UNCHANGED <<driverVars, turns, queueVars, stdin, stdout, faultVars>>

(* after exit_tx: an exit nobody asked for is the session's Error *)
MonitorReports ==
  /\ child = "exited" /\ child' = "reaped"
  /\ reported' = (reported \/ ~stopping)
  /\ UNCHANGED <<driverVars, turns, queueVars, stdin, stdout, stopping, killed>>

StopIntentionally ==
  /\ "stop" \in Faults
  /\ ~stopping /\ stopping' = TRUE /\ killed' = TRUE
  /\ UNCHANGED <<driverVars, turns, queueVars, agentVars, reported>>

-----------------------------------------------------------------------------
SendTask(t) ==
  \/ TaskTakesReply(t) \/ TaskRejected(t) \/ TaskClaimsEnd(t)
  \/ TaskLoadsInterrupted(t) \/ TaskSendsEnd(t) \/ TaskSeesExit(t) \/ TaskTransportClosed(t)

Command ==
  \/ \E p \in Prompts : RecvPrompt(p) \/ RecvRemove(p) \/ RecvEdit(p)
  \/ RecvInterrupt \/ RecvCancel

Driver ==
  \/ \E p \in Prompts : StartWithPrompt(p)
  \/ StartRefused \/ StartIdle \/ LoopTop
  \/ Command \/ ActiveDone \/ DeadlineFires \/ ExitSeen

Environment ==
  \/ \E t \in 1..Len(turns), r \in Answers : AgentAnswers(t, r)
  \/ StdoutCloses \/ StdinFails \/ ChildExits \/ StopIntentionally

Next ==
  \/ Driver
  \/ \E t \in 1..Len(turns) : SendTask(t)
  \/ MonitorReports
  \/ Environment

Spec == Init /\ [][Next]_vars

(* Fairness.  Each task runs on: the driver starts and gets round its loop,*)
(* a send task takes its next step, the monitor reports.  tokio::select!   *)
(* polls its branches in random order, so a branch that is ready again and *)
(* again is taken: strong fairness.  Nothing is assumed of the agent, of   *)
(* the actor or of the clients.                                            *)
DriverRuns == StartIdle \/ StartRefused \/ LoopTop \/ \E p \in Prompts : StartWithPrompt(p)
TaskRuns(t) == t <= Len(turns) /\ SendTask(t)

Fairness ==
  /\ WF_vars(DriverRuns)
  /\ SF_vars(ActiveDone) /\ SF_vars(DeadlineFires) /\ SF_vars(ExitSeen)
  /\ WF_vars(MonitorReports)
  /\ \A t \in 1..Cardinality(Prompts) : WF_vars(TaskRuns(t))

FairSpec == Spec /\ Fairness

-----------------------------------------------------------------------------
(* Properties *)

(* Every prompt the driver accepted is in exactly one place: waiting in    *)
(* one of the two queues, part of exactly one turn, withdrawn by the user, *)
(* or dropped with a session that ended.  None is said twice, none leaves  *)
(* the queue without going anywhere (turn.rs: the queue, the force-sent    *)
(* batch and the loop's top).                                              *)
PlacedOnce ==
  /\ queued \cap batched = {}
  /\ Waiting \cap Taken = {}
  /\ (Waiting \cup Taken) \cap removed = {}
  /\ (Waiting \cup Taken \cup removed) \cap dropped = {}
  /\ \A s, t \in 1..Len(turns) : s # t => turns[s].has \cap turns[t].has = {}
  /\ Accepted = Waiting \cup Taken \cup removed \cup dropped

(* The send task and the cancel grace race to report the same turn over:   *)
(* no more than one of them does, and only by the claim both swap for      *)
(* (ADR 0011 invariant 8).                                                 *)
OneEndPerTurn ==
  \A t \in 1..Len(turns) :
    /\ turns[t].ends <= 1
    /\ turns[t].ends = 1 => turns[t].ended

(* Whenever the driver waits for its next event, the list it last          *)
(* announced is exactly what waits, texts included, and nothing waits      *)
(* behind a free slot.                                                     *)
NothingStranded ==
  pc = "select" =>
    /\ announced = Listing(Waiting)
    /\ active = 0 => Waiting = {}

(* At most the active turn's send task still waits for an answer, so no    *)
(* answer to an older prompt is ever taken for the running turn's.         *)
OneTaskAwaits ==
  \A t \in 1..Len(turns) : turns[t].task = "awaiting" => t = active

(* A turn a force-send met before the agent had answered it is reported    *)
(* interrupted, by whichever of send task and grace reports it: its        *)
(* partial text is never filed as a result (turn.rs: Interrupt, prompt.rs: *)
(* the tail of send_prompt).                                               *)
CutIsNoResult ==
  \A t \in 1..Len(turns) : turns[t].partial /\ turns[t].ends = 1 => turns[t].cut

(* A turn that waits for the agent alone. *)
Undisturbed(t) ==
  t <= Len(turns) /\ turns[t].started /\ stdout /\ ~turns[t].interrupted
Over(t) == t <= Len(turns) /\ turns[t].ends = 1

(* The agent, or a transport that is gone, does not hold the slot while    *)
(* the process lives on: a turn that a force-send cut, that was never      *)
(* written, or whose answer the reader awaited when the agent closed its   *)
(* stdout leaves the slot, and is reported over or the session fails - the *)
(* send task and the grace never both leave it to the other.  So a         *)
(* force-sent batch goes out.  (turn.rs: "so this frees the slot even when *)
(* the turn failed"; of a turn begun after stdout closed and not cut,      *)
(* nothing is said: the code leaves it there.)                             *)
TurnGivesWay ==
  /\ \A t \in 1..Cardinality(Prompts) :
       active = t /\ (turns[t].interrupted \/ ~turns[t].started \/ stdout)
         ~> \/ active # t /\ (Over(t) \/ reported)
            \/ pc = "stopped"
            \/ []Undisturbed(t)
  /\ batched # {} ~> batched = {}

(* An agent process that dies ends the driver, and the actor hears of it   *)
(* unless it stopped the session itself.                                   *)
DeathIsHeard == child # "running" ~> pc = "stopped" /\ (reported \/ stopping)

(* What the session promises, in PromptLedger's terms. *)
Place(p) ==
  IF p \in Waiting THEN "waiting"
  ELSE IF p \in Taken THEN "taken"
  ELSE IF p \in removed THEN "withdrawn"
  ELSE IF p \in dropped THEN "dropped" ELSE "unsent"

Ledger == INSTANCE PromptLedger WITH
  place <- [p \in Prompts |-> Place(p)], closed <- pc = "stopped"

LedgerSpec == Ledger!Spec

=============================================================================
