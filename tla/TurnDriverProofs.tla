-------------------------- MODULE TurnDriverProofs --------------------------
(* Proofs about TurnDriver, for every set of prompts and every fault. *)
EXTENDS TurnDriver, SequenceTheorems, WellFoundedInduction, TLAPS

-----------------------------------------------------------------------------
(* What the two ways to change `turns` do *)

LEMMA BecomesFacts ==
  ASSUME turns \in Seq(TurnRecords), NEW t \in 1..Len(turns), NEW r \in TurnRecords,
         Becomes(t, r)
  PROVE  /\ turns' \in Seq(TurnRecords)
         /\ Len(turns') = Len(turns)
         /\ turns'[t] = r
         /\ \A u \in 1..Len(turns) : u # t => turns'[u] = turns[u]
  BY ExceptSeq DEF Becomes

LEMMA NewTurnType ==
  ASSUME stdin \in BOOLEAN, NEW S \in SUBSET Prompts, NEW who \in Initiators
  PROVE  NewTurn(S, who) \in TurnRecords
  BY DEF NewTurn, TurnRecords, Replies, Answers, TaskSteps

LEMMA DispatchFacts ==
  ASSUME turns \in Seq(TurnRecords), stdin \in BOOLEAN,
         NEW S \in SUBSET Prompts, NEW who \in Initiators, Dispatch(S, who)
  PROVE  /\ turns' \in Seq(TurnRecords)
         /\ Len(turns') = Len(turns) + 1
         /\ active' = Len(turns')
         /\ turns'[Len(turns) + 1] = NewTurn(S, who)
         /\ \A u \in 1..Len(turns) : turns'[u] = turns[u]
<1>1. NewTurn(S, who) \in TurnRecords
  BY NewTurnType
<1>. QED
  BY <1>1, AppendProperties DEF Dispatch

LEMMA InterruptedFacts ==
  ASSUME NEW turn \in TurnRecords
  PROVE  LET r == Interrupted(turn)
         IN  /\ r \in TurnRecords
             /\ r.has = turn.has /\ r.task = turn.task /\ r.reply = turn.reply
             /\ r.ended = turn.ended /\ r.ends = turn.ends /\ r.cut = turn.cut
             /\ r.interrupted
             /\ r.partial => turn.partial \/ turn.reply \notin Answers
<1>1. PICK x \in BOOLEAN : x = (turn.partial \/ turn.reply \notin Answers)
  BY Zenon
<1>2. Interrupted(turn) = [turn EXCEPT !.interrupted = TRUE, !.partial = x]
  BY <1>1, Zenon DEF Interrupted
<1>3. Interrupted(turn).partial = x
  BY <1>2 DEF TurnRecords
<1>. QED
  BY <1>1, <1>2, <1>3 DEF TurnRecords

(* The reader's end changes what turns hold of their answers, no more.     *)
Closing(r, turn) ==
  /\ r.by = turn.by /\ r.has = turn.has /\ r.started = turn.started /\ r.task = turn.task
  /\ r.interrupted = turn.interrupted /\ r.ended = turn.ended
  /\ r.ends = turn.ends /\ r.cut = turn.cut /\ r.partial = turn.partial
  /\ r.reply # turn.reply => r.reply \notin Answers /\ turn.reply \notin Answers

LEMMA CloseFacts ==
  ASSUME turns \in Seq(TurnRecords), StdoutCloses
  PROVE  /\ turns' \in Seq(TurnRecords)
         /\ Len(turns') = Len(turns)
         /\ \A t \in 1..Len(turns) : Closing(turns'[t], turns[t])
<1>. DEFINE New(t) == IF Pending(t) THEN [turns[t] EXCEPT !.reply = "closed"] ELSE turns[t]
<1>1. Len(turns) \in Nat /\ \A t \in 1..Len(turns) : turns[t] \in TurnRecords
  BY ElementOfSeq, LenProperties
<1>2. ASSUME NEW t \in 1..Len(turns)
      PROVE  New(t) \in TurnRecords /\ Closing(New(t), turns[t])
  <2>1. turns[t] \in TurnRecords
    BY <1>1
  <2>2. CASE Pending(t)
    <3>1. New(t) = [turns[t] EXCEPT !.reply = "closed"] /\ turns[t].reply = "none"
      BY <2>2 DEF Pending
    <3>. HIDE DEF New
    <3>. QED
      BY <2>1, <3>1 DEF Closing, TurnRecords, Replies, Answers
  <2>3. CASE ~Pending(t)
    <3>1. New(t) = turns[t]
      BY <2>3
    <3>. HIDE DEF New
    <3>. QED
      BY <2>1, <3>1 DEF Closing
  <2>. QED
    BY <2>2, <2>3
<1>3. turns' = [t \in 1..Len(turns) |-> New(t)]
  BY DEF StdoutCloses
<1>. HIDE DEF New
<1>4. turns' \in [1..Len(turns) -> TurnRecords]
  BY <1>2, <1>3
<1>5. turns' \in Seq(TurnRecords)
  BY <1>1, <1>4, SeqDef
<1>6. Len(turns') = Len(turns)
  BY <1>1, <1>4, <1>5, LenProperties
<1>. QED
  BY <1>2, <1>3, <1>5, <1>6

-----------------------------------------------------------------------------
(* The queue has a front *)

(* A non-empty set of natural numbers has a least element. *)
LEMMA LeastNat ==
  ASSUME NEW T \in SUBSET Nat, T # {}
  PROVE  \E m \in T : \A n \in T : m <= n
<1>1. PICK m \in T : \A n \in T : ~ (<<n, m>> \in OpToRel(<, Nat))
  BY NatLessThanWellFounded, WFMin
<1>2. \A n \in T : ~(n < m)
  BY <1>1 DEF OpToRel
<1>. QED
  BY <1>2

LEMMA OldestWaits ==
  ASSUME TypeOK, queued # {}
  PROVE  /\ Oldest(queued) \in queued
         /\ \A q \in queued : arrived[Oldest(queued)] <= arrived[q]
<1>. DEFINE N == {arrived[p] : p \in queued}
<1>1. N \in SUBSET Nat /\ N # {}
  BY DEF TypeOK
<1>2. PICK m \in N : \A n \in N : m <= n
  BY <1>1, LeastNat
<1>3. \E p \in queued : \A q \in queued : arrived[p] <= arrived[q]
  BY <1>2
<1>. QED
  BY <1>3 DEF Oldest

-----------------------------------------------------------------------------
(* Every action keeps TypeOK *)

LEMMA TypeDriverStarts ==
  ASSUME TypeOK, (\E p \in Prompts : StartWithPrompt(p)) \/ StartRefused \/ StartIdle
  PROVE  TypeOK'
<1>1. ASSUME NEW p \in Prompts, StartWithPrompt(p) PROVE TypeOK'
  <2>1. stdin \in BOOLEAN /\ turns \in Seq(TurnRecords) /\ "Initial" \in Initiators
    BY DEF TypeOK, Initiators
  <2>2. turns' \in Seq(TurnRecords) /\ active' \in 0..Len(turns')
    BY <1>1, <2>1, DispatchFacts, LenProperties DEF StartWithPrompt
  <2>. QED
    BY <1>1, <2>2 DEF TypeOK, StartWithPrompt, Arrive, agentVars, faultVars
<1>2. CASE StartRefused
  BY <1>2 DEF TypeOK, StartRefused, queueVars, agentVars
<1>3. CASE StartIdle
  BY <1>3 DEF TypeOK, StartIdle, queueVars, agentVars, faultVars
<1>. QED
  BY <1>1, <1>2, <1>3

LEMMA TypeLoopTop ==
  ASSUME PromptAssumption, TypeOK, LoopTop
  PROVE  TypeOK'
<1>1. /\ turns' \in Seq(TurnRecords) /\ active' \in 0..Len(turns')
      /\ queued' \subseteq Prompts /\ batched' \subseteq Prompts /\ deadline' \in BOOLEAN
  <2>1. CASE active # 0
    BY <2>1 DEF LoopTop, TypeOK
  <2>2. CASE active = 0 /\ TakeBatch
    <3>1. stdin \in BOOLEAN /\ turns \in Seq(TurnRecords) /\ "User" \in Initiators
          /\ batched \in SUBSET Prompts
      BY DEF TypeOK, Initiators
    <3>2. Dispatch(batched, "User")
      BY <2>2 DEF TakeBatch
    <3>3. turns' \in Seq(TurnRecords) /\ active' = Len(turns')
      BY <3>1, <3>2, DispatchFacts
    <3>4. active' \in 0..Len(turns')
      BY <3>3, LenProperties
    <3>. QED
      BY <2>2, <3>3, <3>4 DEF LoopTop, TakeBatch, TypeOK
  <2>3. CASE active = 0 /\ TakeOldest
    <3>1. Oldest(queued) \in Prompts
      BY <2>3, OldestWaits DEF TakeOldest, TypeOK
    <3>2. stdin \in BOOLEAN /\ turns \in Seq(TurnRecords)
          /\ {Oldest(queued)} \in SUBSET Prompts /\ By[Oldest(queued)] \in Initiators
      BY <3>1 DEF TypeOK, PromptAssumption
    <3>3. turns' \in Seq(TurnRecords) /\ active' \in 0..Len(turns')
      BY <2>3, <3>2, DispatchFacts, LenProperties DEF TakeOldest
    <3>. QED
      BY <2>3, <3>3 DEF LoopTop, TakeOldest, TypeOK
  <2>4. CASE active = 0 /\ Waiting = {} /\ UNCHANGED <<active, turns, queued, batched>>
    BY <2>4 DEF LoopTop, TypeOK
  <2>. QED
    BY <2>1, <2>2, <2>3, <2>4 DEF LoopTop
<1>. QED
  BY <1>1 DEF LoopTop, TypeOK, agentVars, faultVars

LEMMA TypeCommand ==
  ASSUME PromptAssumption, TypeOK, Command
  PROVE  TypeOK'
<1>1. ASSUME NEW p \in Prompts, RecvPrompt(p) PROVE TypeOK'
  <2>1. stdin \in BOOLEAN /\ turns \in Seq(TurnRecords) /\ By[p] \in Initiators
    BY DEF TypeOK, PromptAssumption
  <2>2. turns' \in Seq(TurnRecords) /\ active' \in 0..Len(turns') /\ queued' \subseteq Prompts
    <3>1. CASE active # 0
      BY <1>1, <3>1 DEF RecvPrompt, TypeOK
    <3>2. CASE active = 0
      BY <1>1, <3>2, <2>1, DispatchFacts, LenProperties DEF RecvPrompt, TypeOK
    <3>. QED
      BY <3>1, <3>2
  <2>. QED
    BY <1>1, <2>2 DEF TypeOK, RecvPrompt, Arrive, agentVars, faultVars
<1>2. ASSUME NEW p \in Prompts, RecvRemove(p) PROVE TypeOK'
  BY <1>2 DEF TypeOK, RecvRemove, agentVars, faultVars
<1>3. ASSUME NEW p \in Prompts, RecvEdit(p) PROVE TypeOK'
  BY <1>3 DEF TypeOK, RecvEdit, agentVars, faultVars
<1>4. CASE RecvInterrupt
  <2>1. active \in 1..Len(turns) /\ turns \in Seq(TurnRecords)
    BY <1>4, LenProperties DEF RecvInterrupt, Mine, TypeOK
  <2>2. Interrupted(turns[active]) \in TurnRecords
    BY <2>1, ElementOfSeq, InterruptedFacts
  <2>3. turns' \in Seq(TurnRecords) /\ Len(turns') = Len(turns)
    BY <1>4, <2>1, <2>2, BecomesFacts DEF RecvInterrupt, Mine
  <2>4. forces' \in 0..MaxForce
    BY <1>4 DEF RecvInterrupt, Mine, TypeOK, PromptAssumption
  <2>. QED
    BY <1>4, <2>3, <2>4 DEF TypeOK, RecvInterrupt, Mine, agentVars, faultVars
<1>5. CASE RecvCancel
  BY <1>5 DEF TypeOK, RecvCancel, Stop, Waiting, agentVars, faultVars
<1>. QED
  BY <1>1, <1>2, <1>3, <1>4, <1>5 DEF Command

LEMMA TypeTurnOver ==
  ASSUME TypeOK, ActiveDone \/ DeadlineFires \/ ExitSeen
  PROVE  TypeOK'
<1>1. CASE ActiveDone
  BY <1>1, LenProperties DEF TypeOK, ActiveDone, queueVars, agentVars, faultVars
<1>2. CASE DeadlineFires
  <2>. DEFINE turn == turns[active]
              step == IF turn.task = "awaiting" THEN "aborted" ELSE turn.task
              ends == IF turn.ended THEN turn.ends ELSE turn.ends + 1
              cut == IF turn.ended THEN turn.cut ELSE TRUE
              r == [turn EXCEPT !.task = step, !.ended = TRUE, !.ends = ends, !.cut = cut]
  <2>1. active \in 1..Len(turns) /\ turns \in Seq(TurnRecords)
    BY <1>2, LenProperties DEF DeadlineFires, Aborted, TypeOK
  <2>2. r \in TurnRecords
    <3>1. turn \in TurnRecords
      BY <2>1, ElementOfSeq
    <3>2. /\ turn.task \in TaskSteps /\ turn.ends \in Nat
          /\ turn.cut \in BOOLEAN
      BY <3>1 DEF TurnRecords
    <3>3. step \in TaskSteps
      BY <3>2 DEF TaskSteps
    <3>4. ends \in Nat
      BY <3>2
    <3>5. cut \in BOOLEAN
      BY <3>2, Zenon
    <3>. HIDE DEF turn, step, ends, cut
    <3>. QED
      BY <3>1, <3>3, <3>4, <3>5 DEF TurnRecords
  <2>3. Becomes(active, r)
    BY <1>2 DEF DeadlineFires, Aborted
  <2>4. turns' \in Seq(TurnRecords) /\ Len(turns') = Len(turns)
    BY <2>1, <2>2, <2>3, BecomesFacts
  <2>. QED
    BY <1>2, <2>4, LenProperties
    DEF TypeOK, DeadlineFires, Aborted, queueVars, agentVars, faultVars
<1>3. CASE ExitSeen
  BY <1>3 DEF TypeOK, ExitSeen, Stop, Waiting, agentVars, faultVars
<1>. QED
  BY <1>1, <1>2, <1>3

(* A send task, or the agent's answer, only rewrites its own turn. *)
LEMMA TaskRewrites ==
  ASSUME TypeOK, NEW t \in 1..Len(turns),
         SendTask(t) \/ \E r \in Answers : AgentAnswers(t, r)
  PROVE  \E r \in TurnRecords :
           /\ Becomes(t, r)
           /\ r.by = turns[t].by /\ r.has = turns[t].has /\ r.started = turns[t].started
<1>. DEFINE turn == turns[t]
<1>1. turn \in TurnRecords
  BY ElementOfSeq DEF TypeOK
<1>2. ASSUME NEW r \in Answers, AgentAnswers(t, r)
      PROVE  Becomes(t, [turn EXCEPT !.reply = r]) /\ [turn EXCEPT !.reply = r] \in TurnRecords
  <2>1. Becomes(t, [turn EXCEPT !.reply = r])
    BY <1>2 DEF AgentAnswers
  <2>. QED
    BY <1>1, <2>1 DEF TurnRecords, Replies
<1>3. CASE TaskTakesReply(t)
  <2>. DEFINE r == [turn EXCEPT !.task = "replied"]
  <2>1. Becomes(t, r)
    BY <1>3 DEF TaskTakesReply
  <2>2. r \in TurnRecords /\ r.by = turn.by /\ r.has = turn.has /\ r.started = turn.started
    BY <1>1 DEF TurnRecords, TaskSteps
  <2>. QED
    BY <2>1, <2>2
<1>4. CASE TaskRejected(t) \/ TaskSeesExit(t) \/ TaskTransportClosed(t)
  <2>. DEFINE r == [turn EXCEPT !.task = "done"]
  <2>1. Becomes(t, r)
    BY <1>4 DEF TaskRejected, TaskSeesExit, TaskTransportClosed
  <2>2. r \in TurnRecords /\ r.by = turn.by /\ r.has = turn.has /\ r.started = turn.started
    BY <1>1 DEF TurnRecords, TaskSteps
  <2>. QED
    BY <2>1, <2>2
<1>5. CASE TaskClaimsEnd(t)
  <2>. DEFINE step == IF turn.ended THEN "done" ELSE "claimed"
              r == [turn EXCEPT !.task = step, !.ended = TRUE]
  <2>1. Becomes(t, r)
    BY <1>5 DEF TaskClaimsEnd
  <2>2. step \in TaskSteps
    BY DEF TaskSteps
  <2>3. r \in TurnRecords /\ r.by = turn.by /\ r.has = turn.has /\ r.started = turn.started
    <3>. HIDE DEF step, turn
    <3>. QED
      BY <1>1, <2>2 DEF TurnRecords
  <2>. QED
    BY <2>1, <2>3
<1>6. CASE TaskLoadsInterrupted(t)
  <2>1. PICK cut \in BOOLEAN : cut = (turn.interrupted \/ turn.reply = "cancelled")
    BY Zenon
  <2>. DEFINE r == [turn EXCEPT !.task = "loaded", !.cut = cut]
  <2>2. Becomes(t, r)
    BY <1>6, <2>1, Zenon DEF TaskLoadsInterrupted
  <2>3. r \in TurnRecords /\ r.by = turn.by /\ r.has = turn.has /\ r.started = turn.started
    <3>. HIDE DEF turn
    <3>. QED
      BY <1>1 DEF TurnRecords, TaskSteps
  <2>. QED
    BY <2>2, <2>3
<1>7. CASE TaskSendsEnd(t)
  <2>. DEFINE r == [turn EXCEPT !.task = "done", !.ends = turn.ends + 1]
  <2>1. Becomes(t, r)
    BY <1>7 DEF TaskSendsEnd
  <2>2. turn.ends + 1 \in Nat
    BY <1>1 DEF TurnRecords
  <2>3. r \in TurnRecords /\ r.by = turn.by /\ r.has = turn.has /\ r.started = turn.started
    <3>. HIDE DEF turn
    <3>. QED
      BY <1>1, <2>2 DEF TurnRecords, TaskSteps
  <2>. QED
    BY <2>1, <2>3
<1>. QED
  <2>1. ASSUME NEW r \in Answers, AgentAnswers(t, r)
        PROVE  \E x \in TurnRecords : /\ Becomes(t, x)
                 /\ x.by = turns[t].by /\ x.has = turns[t].has /\ x.started = turns[t].started
    <3>1. LET x == [turn EXCEPT !.reply = r]
          IN  x.by = turn.by /\ x.has = turn.has /\ x.started = turn.started
      BY <1>1 DEF TurnRecords
    <3>. QED
      BY <1>2, <2>1, <3>1
  <2>. QED
    BY <1>3, <1>4, <1>5, <1>6, <1>7, <2>1 DEF SendTask

LEMMA TypeTasks ==
  ASSUME TypeOK,
         (\E t \in 1..Len(turns) :
            SendTask(t) \/ \E r \in Answers : AgentAnswers(t, r))
  PROVE  TypeOK'
<1>1. PICK t \in 1..Len(turns) :
        SendTask(t) \/ \E r \in Answers : AgentAnswers(t, r)
  OBVIOUS
<1>2. PICK r \in TurnRecords : Becomes(t, r)
  BY <1>1, TaskRewrites
<1>3. turns' \in Seq(TurnRecords) /\ Len(turns') = Len(turns)
  BY <1>2, BecomesFacts DEF TypeOK
<1>4. /\ UNCHANGED <<driverVars, queueVars, agentVars, stopping>>
      /\ reported' \in BOOLEAN /\ killed' \in BOOLEAN
  BY <1>1 DEF TypeOK, SendTask, TaskTakesReply, TaskRejected, TaskClaimsEnd, TaskLoadsInterrupted, TaskSendsEnd,
              TaskSeesExit, TaskTransportClosed, AgentAnswers, Fail, faultVars
<1>. QED
  BY <1>3, <1>4 DEF TypeOK, driverVars, queueVars, agentVars

LEMMA TypeSurroundings ==
  ASSUME TypeOK,
         MonitorReports \/ StdoutCloses \/ StdinFails \/ ChildExits \/ StopIntentionally
  PROVE  TypeOK'
<1>1. /\ turns' \in Seq(TurnRecords) /\ Len(turns') = Len(turns)
      /\ UNCHANGED driverVars /\ UNCHANGED queueVars
  <2>1. CASE StdoutCloses
    BY <2>1, CloseFacts DEF StdoutCloses, TypeOK
  <2>2. CASE MonitorReports \/ StdinFails \/ ChildExits \/ StopIntentionally
    BY <2>2 DEF MonitorReports, StdinFails, ChildExits, StopIntentionally, TypeOK
  <2>. QED
    BY <2>1, <2>2
<1>2. /\ child' \in {"running", "exited", "reaped"}
      /\ stdin' \in BOOLEAN /\ stdout' \in BOOLEAN
      /\ reported' \in BOOLEAN /\ stopping' \in BOOLEAN /\ killed' \in BOOLEAN
  BY DEF MonitorReports, StdoutCloses, StdinFails, ChildExits, StopIntentionally,
         TypeOK, agentVars, faultVars
<1>. QED
  BY <1>1, <1>2 DEF TypeOK, driverVars, queueVars

(* Every variable keeps its type, whatever the prompts and the faults. *)
THEOREM TypeCorrect == Spec => []TypeOK
<1>1. Init => TypeOK
  <2>. SUFFICES ASSUME Init PROVE TypeOK
    OBVIOUS
  <2>1. MaxForce \in Nat
    BY PromptAssumption DEF PromptAssumption
  <2>2. turns \in Seq(TurnRecords) /\ active \in 0..Len(turns)
    BY DEF Init
  <2>3. arrived \in [Prompts -> Nat] /\ clock \in Nat /\ forces \in 0..MaxForce
    BY <2>1 DEF Init
  <2>4. /\ queued \subseteq Prompts /\ batched \subseteq Prompts
        /\ edited \subseteq Prompts /\ removed \subseteq Prompts /\ dropped \subseteq Prompts
    BY DEF Init
  <2>5. /\ pc \in {"start", "top", "select", "stopped"}
        /\ child \in {"running", "exited", "reaped"}
    BY DEF Init
  <2>6. /\ deadline \in BOOLEAN /\ stdin \in BOOLEAN /\ stdout \in BOOLEAN
        /\ reported \in BOOLEAN /\ stopping \in BOOLEAN /\ killed \in BOOLEAN
    BY DEF Init
  <2>. QED
    BY <2>2, <2>3, <2>4, <2>5, <2>6 DEF TypeOK
<1>2. TypeOK /\ [Next]_vars => TypeOK'
  <2>. SUFFICES ASSUME TypeOK, [Next]_vars PROVE TypeOK'
    OBVIOUS
  <2>1. CASE Driver
    BY <2>1, PromptAssumption, TypeDriverStarts, TypeLoopTop, TypeCommand, TypeTurnOver
    DEF Driver
  <2>2. CASE \E t \in 1..Len(turns) : SendTask(t)
    BY <2>2, TypeTasks
  <2>3. CASE MonitorReports \/ Environment
    BY <2>3, TypeSurroundings, TypeTasks DEF Environment
  <2>4. CASE UNCHANGED vars
    BY <2>4 DEF vars, TypeOK, driverVars, queueVars, agentVars, faultVars
  <2>. QED
    BY <2>1, <2>2, <2>3, <2>4 DEF Next
<1>. QED
  BY <1>1, <1>2, PTL DEF Spec

-----------------------------------------------------------------------------
(* A turn is reported over at most once, and as cut when it was *)

(* What holds of a turn r: a turn nobody claimed the end of was not        *)
(* reported over, a send task that claimed it has yet to report it, and    *)
(* what it loaded, or the grace said, tells of a force-send that met the   *)
(* turn unanswered.                                                        *)
TurnOK(r) ==
  /\ r.ends <= 1
  /\ r.ended \/ r.ends = 0
  /\ r.task = "awaiting" => ~r.ended
  /\ r.task \in {"claimed", "loaded"} => r.ends = 0 /\ r.ended
  /\ r.task \in {"replied", "claimed", "loaded"} => r.reply \in Answers
  /\ r.partial => r.interrupted
  /\ r.task = "loaded" /\ r.partial => r.cut
  /\ r.ends = 1 => r.cut \/ (r.reply \in Answers /\ ~r.partial)

EndInv ==
  /\ pc = "start" => active = 0
  /\ \A t \in 1..Len(turns) : TurnOK(turns[t])
  /\ OneTaskAwaits

LEMMA TurnsTyped ==
  ASSUME TypeOK
  PROVE  Len(turns) \in Nat /\ \A t \in 1..Len(turns) : turns[t] \in TurnRecords
  BY ElementOfSeq, LenProperties DEF TypeOK

LEMMA EndInvImplies ==
  ASSUME TypeOK, EndInv
  PROVE  OneEndPerTurn /\ OneTaskAwaits /\ CutIsNoResult
<1>1. SUFFICES ASSUME NEW t \in 1..Len(turns)
               PROVE  /\ turns[t].ends <= 1
                      /\ turns[t].ends = 1 => turns[t].ended
                      /\ turns[t].partial /\ turns[t].ends = 1 => turns[t].cut
  BY DEF OneEndPerTurn, EndInv, CutIsNoResult
<1>2. TurnOK(turns[t])
  BY DEF EndInv
<1>. QED
  BY <1>2 DEF TurnOK

(* No turn the driver does not hold still awaits its reply. *)
LEMMA EndDispatch ==
  ASSUME TypeOK, EndInv, active = 0, pc' # "start",
         NEW S \in SUBSET Prompts, NEW who \in Initiators, Dispatch(S, who)
  PROVE  EndInv'
<1>1. /\ Len(turns') = Len(turns) + 1 /\ active' = Len(turns')
      /\ turns'[Len(turns) + 1] = NewTurn(S, who)
      /\ \A u \in 1..Len(turns) : turns'[u] = turns[u]
  BY DispatchFacts DEF TypeOK
<1>2. Len(turns) \in Nat
  BY TurnsTyped
<1>3. TurnOK(NewTurn(S, who))
  BY DEF NewTurn, TurnOK
<1>4. \A u \in 1..Len(turns) : TurnOK(turns[u]) /\ turns[u].task # "awaiting"
  BY <1>2 DEF EndInv, OneTaskAwaits
<1>5. ASSUME NEW u \in 1..Len(turns')
      PROVE  TurnOK(turns'[u]) /\ (turns'[u].task = "awaiting" => u = active')
  <2>1. CASE u = Len(turns) + 1
    <3>1. turns'[u] = NewTurn(S, who)
      BY <1>1, <2>1
    <3>. QED
      BY <1>1, <1>3, <2>1, <3>1
  <2>2. CASE u \in 1..Len(turns)
    <3>1. turns'[u] = turns[u]
      BY <1>1, <2>2
    <3>. QED
      BY <1>4, <2>2, <3>1
  <2>. QED
    BY <1>1, <1>2, <2>1, <2>2
<1>. QED
  BY <1>5 DEF EndInv, OneTaskAwaits

(* One turn is rewritten; it still awaits its reply only if it did. *)
LEMMA EndRewrite ==
  ASSUME TypeOK, EndInv, active' = active \/ active' = 0, pc' = pc \/ pc' # "start",
         NEW t \in 1..Len(turns), NEW r \in TurnRecords,
         Becomes(t, r), TurnOK(r),
         r.task = "awaiting" => turns[t].task = "awaiting" /\ active' = active,
         active' = active \/ t = active
  PROVE  EndInv'
<1>1. /\ Len(turns') = Len(turns) /\ turns'[t] = r
      /\ \A u \in 1..Len(turns) : u # t => turns'[u] = turns[u]
  BY BecomesFacts DEF TypeOK
<1>2. ASSUME NEW u \in 1..Len(turns')
      PROVE  TurnOK(turns'[u]) /\ (turns'[u].task = "awaiting" => u = active')
  <2>1. CASE u = t
    BY <1>1, <2>1 DEF EndInv, OneTaskAwaits
  <2>2. CASE u # t
    <3>1. turns'[u] = turns[u]
      BY <1>1, <2>2
    <3>. QED
      BY <1>1, <2>2, <3>1 DEF EndInv, OneTaskAwaits
  <2>. QED
    BY <2>1, <2>2
<1>. QED
  BY <1>2 DEF EndInv, OneTaskAwaits

LEMMA EndSame ==
  ASSUME EndInv, turns' = turns, active' = active, pc' = pc \/ pc' # "start"
  PROVE  EndInv'
  BY DEF EndInv, OneTaskAwaits

LEMMA EndTask ==
  ASSUME TypeOK, EndInv, NEW t \in 1..Len(turns), SendTask(t)
  PROVE  EndInv'
<1>. DEFINE turn == turns[t]
<1>1. turn \in TurnRecords /\ TurnOK(turn)
  BY TurnsTyped DEF EndInv
<1>2. pc' = pc /\ active' = active
  BY DEF SendTask, TaskTakesReply, TaskRejected, TaskClaimsEnd, TaskLoadsInterrupted, TaskSendsEnd,
         TaskSeesExit, TaskTransportClosed, driverVars
<1>3. CASE TaskTakesReply(t)
  <2>. DEFINE r == [turn EXCEPT !.task = "replied"]
  <2>1. Becomes(t, r) /\ turn.reply \in Answers
    BY <1>3 DEF TaskTakesReply
  <2>2. r \in TurnRecords /\ TurnOK(r) /\ r.task # "awaiting"
    BY <1>1, <2>1 DEF TurnRecords, TaskSteps, TurnOK
  <2>. QED
    BY <1>2, <2>1, <2>2, EndRewrite
<1>4. CASE TaskRejected(t) \/ TaskSeesExit(t) \/ TaskTransportClosed(t)
  <2>. DEFINE r == [turn EXCEPT !.task = "done"]
  <2>1. Becomes(t, r)
    BY <1>4 DEF TaskRejected, TaskSeesExit, TaskTransportClosed
  <2>2. r \in TurnRecords /\ TurnOK(r) /\ r.task # "awaiting"
    BY <1>1 DEF TurnRecords, TaskSteps, TurnOK
  <2>. QED
    BY <1>2, <2>1, <2>2, EndRewrite
<1>5. CASE TaskClaimsEnd(t)
  <2>1. turn.task = "replied" /\ turn.ends \in Nat /\ turn.ended \in BOOLEAN
    BY <1>1, <1>5 DEF TaskClaimsEnd, TurnRecords
  <2>2. CASE turn.ended
    <3>. DEFINE r == [turn EXCEPT !.task = "done", !.ended = TRUE]
    <3>1. Becomes(t, r)
      BY <1>5, <2>2 DEF TaskClaimsEnd
    <3>2. r \in TurnRecords /\ TurnOK(r) /\ r.task # "awaiting"
      BY <1>1, <2>1, <2>2 DEF TurnRecords, TaskSteps, TurnOK
    <3>. QED
      BY <1>2, <3>1, <3>2, EndRewrite
  <2>3. CASE ~turn.ended
    <3>. DEFINE r == [turn EXCEPT !.task = "claimed", !.ended = TRUE]
    <3>1. Becomes(t, r)
      BY <1>5, <2>3 DEF TaskClaimsEnd
    <3>2. r \in TurnRecords /\ TurnOK(r) /\ r.task # "awaiting"
      BY <1>1, <2>1, <2>3 DEF TurnRecords, TaskSteps, TurnOK
    <3>. QED
      BY <1>2, <3>1, <3>2, EndRewrite
  <2>. QED
    BY <2>1, <2>2, <2>3
<1>6. CASE TaskLoadsInterrupted(t)
  <2>1. PICK cut \in BOOLEAN : cut = (turn.interrupted \/ turn.reply = "cancelled")
    BY Zenon
  <2>. DEFINE r == [turn EXCEPT !.task = "loaded", !.cut = cut]
  <2>2. Becomes(t, r) /\ turn.task = "claimed"
    BY <1>6, <2>1, Zenon DEF TaskLoadsInterrupted
  <2>3. /\ turn.ends = 0 /\ turn.ended /\ turn.reply \in Answers
        /\ turn.partial => turn.interrupted
    BY <1>1, <2>2 DEF TurnOK
  <2>4. r \in TurnRecords /\ TurnOK(r) /\ r.task # "awaiting"
    <3>. HIDE DEF turn
    <3>1. /\ r \in TurnRecords /\ r.task = "loaded" /\ r.ends = 0 /\ r.ended
          /\ r.reply = turn.reply
      BY <1>1, <2>3 DEF TurnRecords, TaskSteps
    <3>2. r.partial = turn.partial /\ r.interrupted = turn.interrupted /\ r.cut = cut
      BY <1>1 DEF TurnRecords
    <3>3. (r.partial => r.interrupted) /\ (r.partial => r.cut)
      BY <2>1, <2>3, <3>2, Zenon
    <3>. HIDE DEF r
    <3>. QED
      BY <2>3, <3>1, <3>3 DEF TurnOK
  <2>. QED
    BY <1>2, <2>2, <2>4, EndRewrite
<1>7. CASE TaskSendsEnd(t)
  <2>. DEFINE ends == turn.ends + 1
              r == [turn EXCEPT !.task = "done", !.ends = ends]
  <2>1. Becomes(t, r) /\ turn.task = "loaded"
    BY <1>7 DEF TaskSendsEnd
  <2>2. /\ turn.ends = 0 /\ turn.ended /\ ends = 1 /\ turn.reply \in Answers
        /\ turn.partial => turn.interrupted
        /\ turn.partial => turn.cut
    BY <1>1, <2>1 DEF TurnOK
  <2>3. r \in TurnRecords /\ TurnOK(r) /\ r.task # "awaiting"
    <3>. HIDE DEF turn, ends
    <3>1. /\ r \in TurnRecords /\ r.task = "done" /\ r.ends = 1 /\ r.ended
          /\ r.reply = turn.reply
      BY <1>1, <2>2 DEF TurnRecords, TaskSteps
    <3>2. r.partial = turn.partial /\ r.interrupted = turn.interrupted /\ r.cut = turn.cut
      BY <1>1 DEF TurnRecords
    <3>3. (r.partial => r.interrupted) /\ (r.partial => r.cut)
      BY <2>2, <3>2, Zenon
    <3>. HIDE DEF r
    <3>. QED
      BY <2>2, <3>1, <3>3 DEF TurnOK
  <2>. QED
    BY <1>2, <2>1, <2>3, EndRewrite
<1>. QED
  BY <1>3, <1>4, <1>5, <1>6, <1>7 DEF SendTask

LEMMA EndAnswer ==
  ASSUME TypeOK, EndInv, NEW t \in 1..Len(turns), NEW a \in Answers,
         AgentAnswers(t, a)
  PROVE  EndInv'
<1>. DEFINE turn == turns[t]
            r == [turn EXCEPT !.reply = a]
<1>1. turn \in TurnRecords /\ TurnOK(turn)
  BY TurnsTyped DEF EndInv
<1>2. Becomes(t, r) /\ turn.reply = "none" /\ pc' = pc /\ active' = active
  BY DEF AgentAnswers, Pending, driverVars
<1>3. r \in TurnRecords /\ TurnOK(r) /\ r.task = turn.task
  <2>. HIDE DEF turn
  <2>1. /\ r \in TurnRecords /\ r.task = turn.task /\ r.reply = a
        /\ r.ends = turn.ends /\ r.ended = turn.ended /\ r.cut = turn.cut
        /\ r.partial = turn.partial /\ r.interrupted = turn.interrupted
    BY <1>1 DEF TurnRecords, Replies
  <2>2. "none" \notin Answers
    BY DEF Answers
  <2>. HIDE DEF r
  <2>. QED
    BY <1>1, <1>2, <2>1, <2>2 DEF TurnOK
<1>. QED
  BY <1>2, <1>3, EndRewrite

(* The reader's end leaves every turn where it is. *)
LEMMA EndCloses ==
  ASSUME TypeOK, EndInv, StdoutCloses
  PROVE  EndInv'
<1>1. /\ Len(turns') = Len(turns) /\ \A t \in 1..Len(turns) : Closing(turns'[t], turns[t])
      /\ pc' = pc /\ active' = active
  BY CloseFacts DEF StdoutCloses, TypeOK, driverVars
<1>2. ASSUME NEW t \in 1..Len(turns)
      PROVE  TurnOK(turns'[t]) /\ (turns'[t].task = "awaiting" => t = active')
  <2>1. Closing(turns'[t], turns[t]) /\ TurnOK(turns[t])
    BY <1>1 DEF EndInv
  <2>2. turns'[t].task = turns[t].task
    BY <2>1 DEF Closing
  <2>3. TurnOK(turns'[t])
    BY <2>1 DEF TurnOK, Closing
  <2>. QED
    BY <1>1, <2>2, <2>3 DEF EndInv, OneTaskAwaits
<1>. QED
  BY <1>1, <1>2 DEF EndInv, OneTaskAwaits

(* The grace deadline reports a turn over only if nobody claimed to. *)
LEMMA EndDeadline ==
  ASSUME TypeOK, EndInv, DeadlineFires
  PROVE  EndInv'
<1>. DEFINE turn == turns[active]
            step == IF turn.task = "awaiting" THEN "aborted" ELSE turn.task
<1>1. active \in 1..Len(turns) /\ active' = 0 /\ pc' # "start"
  BY TurnsTyped DEF DeadlineFires, Aborted, TypeOK
<1>2. turn \in TurnRecords /\ TurnOK(turn)
  BY <1>1, TurnsTyped DEF EndInv
<1>3. step \in TaskSteps /\ step # "awaiting" /\ (step # "aborted" => step = turn.task)
  BY <1>2 DEF TurnRecords, TaskSteps
<1>4. CASE turn.ended
  <2>. DEFINE r == [turn EXCEPT !.task = step, !.ended = TRUE]
  <2>1. Becomes(active, r)
    <3>1. r = [turn EXCEPT !.task = step, !.ended = TRUE, !.ends = turn.ends, !.cut = turn.cut]
      <4>. HIDE DEF step, turn
      <4>. QED
        BY <1>2 DEF TurnRecords
    <3>. QED
      BY <1>4, <3>1 DEF DeadlineFires, Aborted
  <2>2. r \in TurnRecords /\ TurnOK(r) /\ r.task # "awaiting"
    <3>. HIDE DEF step, turn
    <3>1. r \in TurnRecords
      BY <1>2, <1>3 DEF TurnRecords
    <3>2. r.task = step /\ r.ends = turn.ends /\ r.ended /\ r.reply = turn.reply
          /\ r.cut = turn.cut /\ r.partial = turn.partial /\ r.interrupted = turn.interrupted
      BY <1>2 DEF TurnRecords
    <3>. HIDE DEF r
    <3>. QED
      BY <1>2, <1>3, <3>1, <3>2 DEF TurnOK
  <2>. QED
    BY <1>1, <2>1, <2>2, EndRewrite
<1>5. CASE ~turn.ended
  <2>. DEFINE ends == turn.ends + 1
              r == [turn EXCEPT !.task = step, !.ended = TRUE, !.ends = ends, !.cut = TRUE]
  <2>1. Becomes(active, r)
    BY <1>5 DEF DeadlineFires, Aborted
  <2>2. ends = 1 /\ turn.task \notin {"claimed", "loaded"}
    BY <1>2, <1>5 DEF TurnOK
  <2>3. r \in TurnRecords /\ TurnOK(r) /\ r.task # "awaiting"
    <3>. HIDE DEF step, turn, ends
    <3>1. r \in TurnRecords
      BY <1>2, <1>3, <2>2 DEF TurnRecords
    <3>2. r.task = step /\ r.ends = 1 /\ r.ended /\ r.reply = turn.reply /\ r.cut
      BY <1>2, <2>2 DEF TurnRecords
    <3>3. r.partial = turn.partial /\ r.interrupted = turn.interrupted
      BY <1>2 DEF TurnRecords
    <3>. HIDE DEF r
    <3>. QED
      BY <1>2, <1>3, <2>2, <3>1, <3>2, <3>3 DEF TurnOK
  <2>. QED
    BY <1>1, <2>1, <2>3, EndRewrite
<1>. QED
  BY <1>4, <1>5

LEMMA EndDriver ==
  ASSUME PromptAssumption, TypeOK, EndInv, Driver
  PROVE  EndInv'
<1>1. ASSUME NEW p \in Prompts, StartWithPrompt(p) PROVE EndInv'
  <2>1. active = 0 /\ pc' # "start" /\ Dispatch({p}, "Initial") /\ "Initial" \in Initiators
    BY <1>1 DEF StartWithPrompt, EndInv, Initiators
  <2>. QED
    BY <2>1, EndDispatch
<1>2. CASE StartRefused \/ StartIdle
  <2>1. turns' = turns /\ active' = active /\ pc' # "start"
    BY <1>2 DEF StartRefused, StartIdle
  <2>. QED
    BY <2>1, EndSame
<1>3. CASE LoopTop
  <2>1. CASE turns' = turns /\ active' = active
    BY <1>3, <2>1, EndSame DEF LoopTop
  <2>2. CASE active = 0 /\ TakeBatch
    <3>1. Dispatch(batched, "User") /\ batched \in SUBSET Prompts /\ "User" \in Initiators
      BY <2>2 DEF TakeBatch, TypeOK, Initiators
    <3>. QED
      BY <1>3, <2>2, <3>1, EndDispatch DEF LoopTop
  <2>3. CASE active = 0 /\ TakeOldest
    <3>. DEFINE p == Oldest(queued)
    <3>1. p \in Prompts
      BY <2>3, OldestWaits DEF TakeOldest, TypeOK
    <3>2. Dispatch({p}, By[p])
      BY <2>3 DEF TakeOldest
    <3>3. {p} \in SUBSET Prompts /\ By[p] \in Initiators
      BY <3>1 DEF PromptAssumption
    <3>. QED
      BY <1>3, <2>3, <3>2, <3>3, EndDispatch DEF LoopTop
  <2>. QED
    BY <1>3, <2>1, <2>2, <2>3 DEF LoopTop
<1>4. ASSUME NEW p \in Prompts, RecvPrompt(p) PROVE EndInv'
  <2>1. CASE active # 0
    BY <1>4, <2>1, EndSame DEF RecvPrompt
  <2>2. CASE active = 0
    <3>1. Dispatch({p}, By[p]) /\ By[p] \in Initiators /\ pc' # "start"
      BY <1>4, <2>2 DEF RecvPrompt, PromptAssumption
    <3>. QED
      BY <2>2, <3>1, EndDispatch
  <2>. QED
    BY <2>1, <2>2
<1>5. ASSUME NEW p \in Prompts, RecvRemove(p) \/ RecvEdit(p) PROVE EndInv'
  <2>1. turns' = turns /\ active' = active /\ pc' # "start"
    BY <1>5 DEF RecvRemove, RecvEdit
  <2>. QED
    BY <2>1, EndSame
<1>6. CASE RecvInterrupt
  <2>. DEFINE turn == turns[active]
              r == Interrupted(turn)
  <2>1. active \in 1..Len(turns) /\ active' = active /\ pc' # "start" /\ Becomes(active, r)
    BY <1>6, TurnsTyped DEF RecvInterrupt, Mine, TypeOK
  <2>2. turn \in TurnRecords /\ TurnOK(turn)
    BY <2>1, TurnsTyped DEF EndInv
  <2>3. r \in TurnRecords /\ TurnOK(r) /\ r.task = turn.task
    <3>. HIDE DEF turn
    <3>1. /\ r \in TurnRecords
          /\ r.task = turn.task /\ r.reply = turn.reply /\ r.ended = turn.ended
          /\ r.ends = turn.ends /\ r.cut = turn.cut /\ r.interrupted
          /\ r.partial => turn.partial \/ turn.reply \notin Answers
      BY <2>2, InterruptedFacts
    <3>. HIDE DEF r
    <3>. QED
      BY <2>2, <3>1 DEF TurnOK
  <2>. QED
    BY <2>1, <2>3, EndRewrite
<1>7. CASE RecvCancel \/ ExitSeen
  <2>1. turns' = turns /\ active' = active /\ pc' # "start"
    BY <1>7 DEF RecvCancel, ExitSeen, Stop
  <2>. QED
    BY <2>1, EndSame
<1>8. CASE ActiveDone
  <2>1. \A t \in 1..Len(turns) : turns[t].task # "awaiting"
    BY <1>8 DEF ActiveDone, EndInv, OneTaskAwaits
  <2>. QED
    BY <1>8, <2>1 DEF ActiveDone, EndInv, OneTaskAwaits
<1>9. CASE DeadlineFires
  BY <1>9, EndDeadline
<1>. QED
  BY <1>1, <1>2, <1>3, <1>4, <1>5, <1>6, <1>7, <1>8, <1>9 DEF Driver, Command

LEMMA EndInvariant == Spec => []EndInv
<1>1. Init => EndInv
  <2>. SUFFICES ASSUME Init PROVE EndInv
    OBVIOUS
  <2>1. active = 0 /\ 1..Len(turns) = {}
    BY DEF Init
  <2>. QED
    BY <2>1 DEF EndInv, OneTaskAwaits
<1>2. TypeOK /\ EndInv /\ [Next]_vars => EndInv'
  <2>. SUFFICES ASSUME TypeOK, EndInv, [Next]_vars PROVE EndInv'
    OBVIOUS
  <2>1. CASE Driver
    BY <2>1, PromptAssumption, EndDriver
  <2>2. CASE \E t \in 1..Len(turns) : SendTask(t)
    BY <2>2, EndTask
  <2>3. CASE MonitorReports \/ StdinFails \/ ChildExits \/ StopIntentionally
    BY <2>3, EndSame DEF MonitorReports, StdinFails, ChildExits, StopIntentionally,
                         driverVars
  <2>6. CASE StdoutCloses
    BY <2>6, EndCloses
  <2>4. CASE \E t \in 1..Len(turns), r \in Answers : AgentAnswers(t, r)
    BY <2>4, EndAnswer
  <2>5. CASE UNCHANGED vars
    BY <2>5, EndSame DEF vars, driverVars
  <2>. QED
    BY <2>1, <2>2, <2>3, <2>4, <2>5, <2>6 DEF Next, Environment
<1>. QED
  BY <1>1, <1>2, TypeCorrect, PTL DEF Spec

(* The send task and the grace deadline never both report a turn over.     *)
THEOREM OneEnd == Spec => []OneEndPerTurn
<1>1. TypeOK /\ EndInv => OneEndPerTurn
  BY EndInvImplies
<1>. QED
  BY <1>1, EndInvariant, TypeCorrect, PTL

(* No send task but the active turn's still waits for an answer. *)
THEOREM OneAwaits == Spec => []OneTaskAwaits
<1>1. EndInv => OneTaskAwaits
  BY DEF EndInv
<1>. QED
  BY <1>1, EndInvariant, PTL

(* A turn a force-send met unanswered is never reported over as if the     *)
(* agent had finished it, whoever reports it and whenever the answer came. *)
THEOREM CutIsNone == Spec => []CutIsNoResult
<1>1. TypeOK /\ EndInv => CutIsNoResult
  BY EndInvImplies
<1>. QED
  BY <1>1, EndInvariant, TypeCorrect, PTL

-----------------------------------------------------------------------------
(* Every accepted prompt is in exactly one place *)

DisjointTurns ==
  \A s, t \in 1..Len(turns) : s # t => turns[s].has \cap turns[t].has = {}

PlaceInv ==
  /\ PlacedOnce
  /\ \A p \in Prompts : arrived[p] <= clock
  /\ \A p \in batched : By[p] = "User"
  /\ pc = "start" => active = 0 /\ Accepted = {}
  /\ pc = "select" /\ active = 0 => Waiting = {}
  /\ pc = "stopped" => Waiting = {}

LEMMA TakenSame ==
  ASSUME TypeOK, NEW t \in 1..Len(turns), NEW r \in TurnRecords,
         Becomes(t, r), r.has = turns[t].has
  PROVE  Taken' = Taken /\ (DisjointTurns => DisjointTurns')
<1>1. Len(turns') = Len(turns) /\ \A u \in 1..Len(turns) : turns'[u].has = turns[u].has
  BY BecomesFacts DEF TypeOK
<1>2. Taken' = Taken
  BY <1>1 DEF Taken
<1>3. DisjointTurns => DisjointTurns'
  BY <1>1 DEF DisjointTurns
<1>. QED
  BY <1>2, <1>3

LEMMA TakenAtClose ==
  ASSUME TypeOK, StdoutCloses
  PROVE  Taken' = Taken /\ (DisjointTurns => DisjointTurns')
<1>1. Len(turns') = Len(turns) /\ \A u \in 1..Len(turns) : turns'[u].has = turns[u].has
  BY CloseFacts DEF TypeOK, Closing
<1>2. Taken' = Taken
  BY <1>1 DEF Taken
<1>3. DisjointTurns => DisjointTurns'
  BY <1>1 DEF DisjointTurns
<1>. QED
  BY <1>2, <1>3

LEMMA TakenMore ==
  ASSUME TypeOK, NEW S \in SUBSET Prompts, NEW who \in Initiators, Dispatch(S, who),
         S \cap Taken = {}
  PROVE  Taken' = Taken \cup S /\ (DisjointTurns => DisjointTurns')
<1>1. /\ Len(turns') = Len(turns) + 1 /\ Len(turns) \in Nat
      /\ turns'[Len(turns) + 1].has = S
      /\ \A u \in 1..Len(turns) : turns'[u] = turns[u]
  <2>1. NewTurn(S, who).has = S
    BY DEF NewTurn
  <2>2. /\ Len(turns') = Len(turns) + 1 /\ turns'[Len(turns) + 1] = NewTurn(S, who)
        /\ \A u \in 1..Len(turns) : turns'[u] = turns[u]
    BY DispatchFacts DEF TypeOK
  <2>. QED
    BY <2>1, <2>2, TurnsTyped
<1>2. 1..Len(turns') = (1..Len(turns)) \cup {Len(turns) + 1}
  BY <1>1
<1>3. Taken' = Taken \cup S
  BY <1>1, <1>2 DEF Taken
<1>4. \A u \in 1..Len(turns) : turns[u].has \cap S = {}
  BY DEF Taken
<1>5. ASSUME DisjointTurns, NEW u \in 1..Len(turns'), NEW v \in 1..Len(turns'), u # v
      PROVE  turns'[u].has \cap turns'[v].has = {}
  <2>1. CASE u \in 1..Len(turns) /\ v \in 1..Len(turns)
    BY <1>1, <1>5, <2>1 DEF DisjointTurns
  <2>2. CASE u = Len(turns) + 1 /\ v \in 1..Len(turns)
    BY <1>1, <1>4, <2>2
  <2>3. CASE v = Len(turns) + 1 /\ u \in 1..Len(turns)
    BY <1>1, <1>4, <2>3
  <2>. QED
    BY <1>2, <1>5, <2>1, <2>2, <2>3
<1>. QED
  BY <1>3, <1>5 DEF DisjointTurns

LEMMA ArriveFacts ==
  ASSUME TypeOK, NEW p \in Prompts, Arrive(p), \A q \in Prompts : arrived[q] <= clock
  PROVE  /\ Accepted' = Accepted \cup {p}
         /\ \A q \in Prompts : arrived'[q] <= clock'
         /\ \A q \in Prompts : arrived[q] < arrived'[p]
         /\ \A q \in Prompts : q # p => arrived'[q] = arrived[q]
<1>1. /\ arrived'[p] = clock + 1 /\ clock' = clock + 1 /\ clock \in Nat
      /\ \A q \in Prompts : q # p => arrived'[q] = arrived[q]
      /\ \A q \in Prompts : arrived[q] \in Nat
  BY DEF Arrive, TypeOK
<1>2. \A q \in Prompts : arrived'[q] <= clock' /\ arrived[q] < arrived'[p]
  BY <1>1
<1>3. Accepted' = Accepted \cup {p}
  BY <1>1 DEF Accepted
<1>. QED
  BY <1>1, <1>2, <1>3

(* An action that moves no prompt, and no turn's prompts, keeps PlaceInv. *)
LEMMA PlaceSame ==
  ASSUME PlaceInv, UNCHANGED queueVars, active' = active, pc' = pc,
         Taken' = Taken, DisjointTurns => DisjointTurns'
  PROVE  PlaceInv'
<1>1. /\ Waiting' = Waiting /\ Accepted' = Accepted /\ arrived' = arrived /\ clock' = clock
      /\ queued' = queued /\ batched' = batched /\ removed' = removed /\ dropped' = dropped
  BY DEF queueVars, Waiting, Accepted
<1>. QED
  BY <1>1 DEF PlaceInv, PlacedOnce, DisjointTurns

LEMMA PlaceTasks ==
  ASSUME TypeOK, PlaceInv, NEW t \in 1..Len(turns),
         SendTask(t) \/ \E r \in Answers : AgentAnswers(t, r)
  PROVE  PlaceInv'
<1>1. PICK r \in TurnRecords : Becomes(t, r) /\ r.has = turns[t].has
  BY TaskRewrites
<1>2. Taken' = Taken /\ (DisjointTurns => DisjointTurns')
  BY <1>1, TakenSame
<1>3. UNCHANGED queueVars /\ active' = active /\ pc' = pc
  BY DEF SendTask, TaskTakesReply, TaskRejected, TaskClaimsEnd, TaskLoadsInterrupted, TaskSendsEnd,
         TaskSeesExit, TaskTransportClosed, AgentAnswers, driverVars
<1>. QED
  BY <1>2, <1>3, PlaceSame

LEMMA PlaceStarts ==
  ASSUME TypeOK, PlaceInv, (\E p \in Prompts : StartWithPrompt(p)) \/ StartRefused \/ StartIdle
  PROVE  PlaceInv'
<1>1. ASSUME NEW p \in Prompts, StartWithPrompt(p) PROVE PlaceInv'
  <2>1. /\ pc = "start" /\ pc' = "top" /\ Dispatch({p}, "Initial") /\ Arrive(p)
        /\ UNCHANGED <<queued, batched, removed, dropped>> /\ "Initial" \in Initiators
    BY <1>1 DEF StartWithPrompt, Initiators
  <2>2. /\ Accepted = {} /\ Waiting = {} /\ Taken = {} /\ removed = {} /\ dropped = {}
        /\ DisjointTurns
    BY <2>1 DEF PlaceInv, PlacedOnce, DisjointTurns
  <2>3. Taken' = {p} /\ DisjointTurns'
    BY <2>1, <2>2, TakenMore
  <2>4. Accepted' = {p} /\ \A q \in Prompts : arrived'[q] <= clock'
    BY <2>1, <2>2, ArriveFacts DEF PlaceInv
  <2>. QED
    BY <2>1, <2>2, <2>3, <2>4 DEF PlaceInv, PlacedOnce, DisjointTurns, Waiting
<1>2. CASE StartRefused \/ StartIdle
  <2>1. /\ pc = "start" /\ pc' \in {"top", "stopped"} /\ turns' = turns
        /\ UNCHANGED queueVars /\ active' = active
    BY <1>2 DEF StartRefused, StartIdle
  <2>2. Accepted = {} /\ Waiting = {}
    BY <2>1 DEF PlaceInv, PlacedOnce
  <2>3. /\ Waiting' = Waiting /\ Accepted' = Accepted /\ Taken' = Taken
        /\ UNCHANGED <<queued, batched, removed, dropped, arrived, clock>>
    BY <2>1 DEF queueVars, Waiting, Accepted, Taken
  <2>. QED
    BY <2>1, <2>2, <2>3 DEF PlaceInv, PlacedOnce
<1>. QED
  BY <1>1, <1>2

LEMMA PlaceLoopTop ==
  ASSUME PromptAssumption, TypeOK, PlaceInv, LoopTop
  PROVE  PlaceInv'
<1>1. /\ pc' = "select" /\ UNCHANGED <<arrived, clock, removed, dropped>>
      /\ Accepted' = Accepted
  BY DEF LoopTop, Accepted
<1>2. CASE active # 0 /\ UNCHANGED <<active, turns, queued, batched>>
  <2>1. Waiting' = Waiting /\ Taken' = Taken
    BY <1>2 DEF Waiting, Taken
  <2>. QED
    BY <1>1, <1>2, <2>1 DEF PlaceInv, PlacedOnce
<1>3. CASE active = 0 /\ TakeBatch
  <2>1. /\ Dispatch(batched, "User") /\ batched \in SUBSET Prompts /\ "User" \in Initiators
        /\ batched' = {} /\ queued' = queued
    BY <1>3 DEF TakeBatch, TypeOK, Initiators
  <2>2. batched \cap Taken = {} /\ DisjointTurns /\ queued \cap batched = {}
    BY DEF PlaceInv, PlacedOnce, Waiting, DisjointTurns
  <2>3. Taken' = Taken \cup batched /\ DisjointTurns'
    BY <2>1, <2>2, TakenMore
  <2>4. active' # 0
    BY <2>1, TurnsTyped DEF Dispatch
  <2>. QED
    BY <1>1, <2>1, <2>2, <2>3, <2>4 DEF PlaceInv, PlacedOnce, DisjointTurns, Waiting
<1>4. CASE active = 0 /\ TakeOldest
  <2>. DEFINE p == Oldest(queued)
  <2>1. p \in queued /\ p \in Prompts
    BY <1>4, OldestWaits DEF TakeOldest, TypeOK
  <2>2. Dispatch({p}, By[p]) /\ queued' = queued \ {p} /\ batched' = batched /\ batched = {}
    BY <1>4 DEF TakeOldest
  <2>3. {p} \in SUBSET Prompts /\ By[p] \in Initiators
    BY <2>1 DEF PromptAssumption
  <2>. HIDE DEF p
  <2>4. {p} \cap Taken = {} /\ DisjointTurns
    BY <2>1 DEF PlaceInv, PlacedOnce, Waiting, DisjointTurns
  <2>5. Taken' = Taken \cup {p} /\ DisjointTurns'
    BY <2>2, <2>3, <2>4, TakenMore
  <2>6. active' # 0
    BY <2>2, TurnsTyped DEF Dispatch
  <2>. QED
    BY <1>1, <2>1, <2>2, <2>4, <2>5, <2>6 DEF PlaceInv, PlacedOnce, DisjointTurns, Waiting
<1>5. CASE active = 0 /\ Waiting = {} /\ UNCHANGED <<active, turns, queued, batched>>
  <2>1. Waiting' = Waiting /\ Taken' = Taken
    BY <1>5 DEF Waiting, Taken
  <2>. QED
    BY <1>1, <1>5, <2>1 DEF PlaceInv, PlacedOnce
<1>. QED
  BY <1>2, <1>3, <1>4, <1>5 DEF LoopTop

LEMMA PlaceCommand ==
  ASSUME PromptAssumption, TypeOK, PlaceInv, Command
  PROVE  PlaceInv'
<1>1. ASSUME NEW p \in Prompts, RecvPrompt(p) PROVE PlaceInv'
  <2>1. /\ pc = "select" /\ pc' = "top" /\ Arrive(p) /\ arrived[p] = 0
        /\ UNCHANGED <<batched, removed, dropped>>
    BY <1>1 DEF RecvPrompt
  <2>2. Accepted' = Accepted \cup {p} /\ \A q \in Prompts : arrived'[q] <= clock'
    BY <2>1, ArriveFacts DEF PlaceInv
  <2>3. p \notin Accepted
    BY <2>1 DEF Accepted
  <2>4. p \notin Waiting /\ p \notin Taken /\ p \notin removed /\ p \notin dropped
    BY <2>3 DEF PlaceInv, PlacedOnce
  <2>5. CASE active # 0
    <3>1. queued' = queued \cup {p} /\ Taken' = Taken /\ active' = active /\ turns' = turns
      BY <1>1, <2>5 DEF RecvPrompt, Taken
    <3>. QED
      BY <2>1, <2>2, <2>4, <3>1 DEF PlaceInv, PlacedOnce, Waiting
  <2>6. CASE active = 0
    <3>1. Dispatch({p}, By[p]) /\ queued' = queued /\ By[p] \in Initiators
      BY <1>1, <2>6 DEF RecvPrompt, PromptAssumption
    <3>2. {p} \in SUBSET Prompts /\ {p} \cap Taken = {}
      BY <2>4
    <3>3. Taken' = Taken \cup {p} /\ (DisjointTurns => DisjointTurns')
      BY <3>1, <3>2, TakenMore
    <3>. QED
      BY <2>1, <2>2, <2>4, <3>1, <3>3 DEF PlaceInv, PlacedOnce, Waiting, DisjointTurns
  <2>. QED
    BY <2>5, <2>6
<1>2. ASSUME NEW p \in Prompts, RecvRemove(p) PROVE PlaceInv'
  <2>1. /\ pc' = "top" /\ p \in Waiting /\ queued' = queued \ {p} /\ batched' = batched \ {p}
        /\ removed' = removed \cup {p}
        /\ UNCHANGED <<active, turns, arrived, clock, dropped>>
    BY <1>2 DEF RecvRemove
  <2>2. Taken' = Taken /\ Accepted' = Accepted
    BY <2>1 DEF Taken, Accepted
  <2>. QED
    BY <2>1, <2>2 DEF PlaceInv, PlacedOnce, Waiting
<1>3. ASSUME NEW p \in Prompts, RecvEdit(p) PROVE PlaceInv'
  <2>1. /\ pc' = "top"
        /\ UNCHANGED <<active, turns, queued, batched, arrived, clock, removed, dropped>>
    BY <1>3 DEF RecvEdit
  <2>2. Taken' = Taken /\ Accepted' = Accepted /\ Waiting' = Waiting
    BY <2>1 DEF Taken, Accepted, Waiting
  <2>. QED
    BY <2>1, <2>2 DEF PlaceInv, PlacedOnce
<1>4. CASE RecvInterrupt
  <2>. DEFINE mine == {p \in queued : By[p] = "User"}
              r == Interrupted(turns[active])
  <2>1. /\ active \in 1..Len(turns) /\ active' = active /\ pc' = "top" /\ Becomes(active, r)
        /\ batched' = batched \cup mine /\ queued' = queued \ mine
        /\ UNCHANGED <<arrived, clock, removed, dropped>>
    BY <1>4, TurnsTyped DEF RecvInterrupt, Mine, TypeOK
  <2>2. r \in TurnRecords /\ r.has = turns[active].has
    BY <2>1, TurnsTyped, InterruptedFacts
  <2>3. Taken' = Taken /\ (DisjointTurns => DisjointTurns')
    BY <2>1, <2>2, TakenSame
  <2>4. Waiting' = Waiting /\ Accepted' = Accepted
    BY <2>1 DEF Waiting, Accepted
  <2>. QED
    BY <2>1, <2>3, <2>4 DEF PlaceInv, PlacedOnce, DisjointTurns
<1>5. CASE RecvCancel
  <2>1. /\ pc' = "stopped" /\ dropped' = dropped \cup Waiting /\ queued' = {} /\ batched' = {}
        /\ UNCHANGED <<turns, arrived, clock, removed>>
    BY <1>5 DEF RecvCancel, Stop
  <2>2. Taken' = Taken /\ Accepted' = Accepted /\ Waiting' = {}
    BY <2>1 DEF Taken, Accepted, Waiting
  <2>. QED
    BY <2>1, <2>2 DEF PlaceInv, PlacedOnce
<1>. QED
  BY <1>1, <1>2, <1>3, <1>4, <1>5 DEF Command

LEMMA DeadlineTakes ==
  ASSUME TypeOK, DeadlineFires
  PROVE  Taken' = Taken /\ (DisjointTurns => DisjointTurns')
<1>. DEFINE turn == turns[active]
            step == IF turn.task = "awaiting" THEN "aborted" ELSE turn.task
            ends == IF turn.ended THEN turn.ends ELSE turn.ends + 1
            cut == IF turn.ended THEN turn.cut ELSE TRUE
            r == [turn EXCEPT !.task = step, !.ended = TRUE, !.ends = ends, !.cut = cut]
<1>1. active \in 1..Len(turns) /\ turns \in Seq(TurnRecords) /\ Becomes(active, r)
  BY TurnsTyped DEF DeadlineFires, Aborted, TypeOK
<1>2. turn \in TurnRecords
  BY <1>1, TurnsTyped
<1>3. r.has = turn.has
  <2>. HIDE DEF step, ends, cut, turn
  <2>. QED
    BY <1>2 DEF TurnRecords
<1>4. Len(turns') = Len(turns) /\ \A u \in 1..Len(turns) : turns'[u].has = turns[u].has
  BY <1>1, <1>3, ExceptSeq DEF Becomes
<1>. QED
  BY <1>4 DEF Taken, DisjointTurns

LEMMA PlaceTurnOver ==
  ASSUME TypeOK, PlaceInv, ActiveDone \/ DeadlineFires \/ ExitSeen
  PROVE  PlaceInv'
<1>1. CASE ActiveDone
  <2>1. pc' = "top" /\ UNCHANGED <<turns, queued, batched, arrived, clock, removed, dropped>>
    BY <1>1 DEF ActiveDone, queueVars
  <2>2. Taken' = Taken /\ Accepted' = Accepted /\ Waiting' = Waiting
    BY <2>1 DEF Taken, Accepted, Waiting
  <2>. QED
    BY <2>1, <2>2 DEF PlaceInv, PlacedOnce
<1>2. CASE DeadlineFires
  <2>1. /\ pc' = "top" /\ active \in 1..Len(turns)
        /\ UNCHANGED <<queued, batched, arrived, clock, removed, dropped>>
    BY <1>2, TurnsTyped DEF DeadlineFires, Aborted, queueVars, TypeOK
  <2>2. Taken' = Taken /\ (DisjointTurns => DisjointTurns')
    BY <1>2, DeadlineTakes
  <2>3. Accepted' = Accepted /\ Waiting' = Waiting
    BY <2>1 DEF Accepted, Waiting
  <2>. QED
    BY <2>1, <2>2, <2>3 DEF PlaceInv, PlacedOnce, DisjointTurns
<1>3. CASE ExitSeen
  <2>1. /\ pc' = "stopped" /\ dropped' = dropped \cup Waiting /\ queued' = {} /\ batched' = {}
        /\ UNCHANGED <<turns, arrived, clock, removed>>
    BY <1>3 DEF ExitSeen, Stop
  <2>2. Taken' = Taken /\ Accepted' = Accepted /\ Waiting' = {}
    BY <2>1 DEF Taken, Accepted, Waiting
  <2>. QED
    BY <2>1, <2>2 DEF PlaceInv, PlacedOnce
<1>. QED
  BY <1>1, <1>2, <1>3

LEMMA PlaceInvariant == Spec => []PlaceInv
<1>1. Init => PlaceInv
  <2>. SUFFICES ASSUME Init PROVE PlaceInv
    OBVIOUS
  <2>1. /\ 1..Len(turns) = {} /\ active = 0 /\ pc = "start" /\ clock = 0
        /\ queued = {} /\ batched = {} /\ removed = {} /\ dropped = {}
        /\ \A p \in Prompts : arrived[p] = 0
    BY DEF Init
  <2>2. Taken = {} /\ Waiting = {} /\ Accepted = {}
    BY <2>1 DEF Taken, Waiting, Accepted
  <2>. QED
    BY <2>1, <2>2 DEF PlaceInv, PlacedOnce
<1>2. TypeOK /\ PlaceInv /\ [Next]_vars => PlaceInv'
  <2>. SUFFICES ASSUME TypeOK, PlaceInv, [Next]_vars PROVE PlaceInv'
    OBVIOUS
  <2>1. CASE Driver
    BY <2>1, PromptAssumption, PlaceStarts, PlaceLoopTop, PlaceCommand, PlaceTurnOver DEF Driver
  <2>2. ASSUME NEW t \in 1..Len(turns),
               SendTask(t) \/ \E r \in Answers : AgentAnswers(t, r)
        PROVE  PlaceInv'
    BY <2>2, PlaceTasks
  <2>3. CASE \/ MonitorReports \/ StdoutCloses \/ StdinFails \/ ChildExits
             \/ StopIntentionally \/ UNCHANGED vars
    <3>1. UNCHANGED queueVars /\ active' = active /\ pc' = pc
          /\ (StdoutCloses \/ turns' = turns)
      BY <2>3 DEF MonitorReports, StdoutCloses, StdinFails, ChildExits, StopIntentionally,
                  driverVars, vars
    <3>2. Taken' = Taken /\ (DisjointTurns => DisjointTurns')
      BY <3>1, TakenAtClose DEF Taken, DisjointTurns
    <3>. QED
      BY <3>1, <3>2, PlaceSame
  <2>. QED
    BY <2>1, <2>2, <2>3 DEF Next, Environment
<1>. QED
  BY <1>1, <1>2, TypeCorrect, PTL DEF Spec

(* No accepted prompt is lost, said twice, or in two places. *)
THEOREM Placed == Spec => []PlacedOnce
<1>1. PlaceInv => PlacedOnce
  BY DEF PlaceInv
<1>. QED
  BY <1>1, PlaceInvariant, PTL

-----------------------------------------------------------------------------
(* The driver implements PromptLedger *)

LEMMA PlaceIs ==
  ASSUME PlacedOnce, NEW p \in Prompts
  PROVE  /\ Place(p) = "waiting" <=> p \in Waiting
         /\ Place(p) = "taken" <=> p \in Taken
         /\ Place(p) = "unsent" <=> p \notin Accepted
  BY DEF Place, PlacedOnce

(* How the driver's sets move decides how a prompt's place does. *)
LEMMA PlaceMoves ==
  ASSUME PlacedOnce, PlacedOnce', NEW S \in SUBSET Prompts,
         removed' = removed, dropped' = dropped,
         Waiting' = Waiting \ S, Taken' = Taken \cup S
  PROVE  \A p \in Prompts : Place(p)' = IF p \in S THEN "taken" ELSE Place(p)
  BY DEF Place, PlacedOnce

LEMMA LedgerStarts ==
  ASSUME TypeOK, PlaceInv, PlaceInv', NEW p \in Prompts, Arrive(p),
         arrived[p] = 0, pc # "stopped", pc' # "stopped", Waiting = {}, Waiting' = {},
         Taken' = Taken \cup {p}, removed' = removed, dropped' = dropped
  PROVE  Ledger!TakeAtOnce(p)
<1>1. PlacedOnce /\ PlacedOnce' /\ \A q \in Prompts : arrived[q] <= clock
  BY DEF PlaceInv
<1>2. \A q \in Prompts : Place(q)' = IF q \in {p} THEN "taken" ELSE Place(q)
  BY <1>1, PlaceMoves
<1>3. Place(p) = "unsent"
  BY <1>1, PlaceIs DEF Accepted
<1>4. /\ arrived' = [arrived EXCEPT ![p] = arrived'[p]] /\ arrived'[p] \in Nat \ {0}
      /\ \A q \in Prompts : arrived[q] < arrived'[p]
  BY <1>1 DEF Arrive, TypeOK
<1>5. \A q \in Prompts : Place(q) # "waiting"
  BY <1>1, PlaceIs
<1>. QED
  BY <1>2, <1>3, <1>4, <1>5 DEF Ledger!TakeAtOnce, Ledger!Arrives, Ledger!WaitingNow

LEMMA LedgerWaits ==
  ASSUME TypeOK, PlaceInv, PlaceInv', NEW p \in Prompts, Arrive(p),
         arrived[p] = 0, pc # "stopped", pc' # "stopped", Waiting' = Waiting \cup {p},
         Taken' = Taken, removed' = removed, dropped' = dropped
  PROVE  Ledger!Wait(p)
<1>1. PlacedOnce /\ PlacedOnce' /\ \A q \in Prompts : arrived[q] <= clock
  BY DEF PlaceInv
<1>2. \A q \in Prompts : Place(q)' = IF q = p THEN "waiting" ELSE Place(q)
  BY <1>1 DEF Place, PlacedOnce
<1>3. Place(p) = "unsent"
  BY <1>1, PlaceIs DEF Accepted
<1>4. /\ arrived' = [arrived EXCEPT ![p] = arrived'[p]] /\ arrived'[p] \in Nat \ {0}
      /\ \A q \in Prompts : arrived[q] < arrived'[p]
  BY <1>1 DEF Arrive, TypeOK
<1>. QED
  BY <1>2, <1>3, <1>4 DEF Ledger!Wait, Ledger!Arrives

LEMMA LedgerTakes ==
  ASSUME TypeOK, PlaceInv, PlaceInv', NEW S \in SUBSET Prompts, S # {}, S \subseteq Waiting,
         \/ \A p \in S : By[p] = "User"
         \/ \E p \in S : S = {p} /\ \A q \in Waiting : arrived[p] <= arrived[q],
         pc # "stopped", pc' # "stopped", arrived' = arrived,
         Waiting' = Waiting \ S, Taken' = Taken \cup S, removed' = removed, dropped' = dropped
  PROVE  Ledger!Take(S)
<1>1. PlacedOnce /\ PlacedOnce'
  BY DEF PlaceInv
<1>2. \A q \in Prompts : Place(q)' = IF q \in S THEN "taken" ELSE Place(q)
  BY <1>1, PlaceMoves
<1>3. \A q \in Prompts : Place(q) = "waiting" <=> q \in Waiting
  BY <1>1, PlaceIs
<1>4. \A q \in S : q \in Prompts
  OBVIOUS
<1>. QED
  BY <1>2, <1>3, <1>4 DEF Ledger!Take, Ledger!WaitingNow

LEMMA LedgerCloses ==
  ASSUME TypeOK, PlaceInv, PlaceInv', pc # "stopped", pc' = "stopped", arrived' = arrived,
         Waiting' = {}, Taken' = Taken, removed' = removed, dropped' = dropped \cup Waiting
  PROVE  Ledger!Close
<1>1. PlacedOnce /\ PlacedOnce'
  BY DEF PlaceInv
<1>2. \A q \in Prompts : Place(q)' = IF Place(q) = "waiting" THEN "dropped" ELSE Place(q)
  BY <1>1 DEF Place, PlacedOnce
<1>. QED
  BY <1>2 DEF Ledger!Close

LEMMA LedgerStutters ==
  ASSUME (pc = "stopped") = (pc' = "stopped"), arrived' = arrived,
         Waiting' = Waiting, Taken' = Taken, removed' = removed, dropped' = dropped
  PROVE  UNCHANGED Ledger!vars
<1>1. \A q \in Prompts : Place(q)' = Place(q)
  BY DEF Place
<1>. QED
  BY <1>1 DEF Ledger!vars

LEMMA LedgerCommand ==
  ASSUME PromptAssumption, TypeOK, PlaceInv, PlaceInv', Command
  PROVE  Ledger!Next \/ UNCHANGED Ledger!vars
<1>1. ASSUME NEW p \in Prompts, RecvPrompt(p) PROVE Ledger!Next
  <2>1. /\ pc = "select" /\ pc' = "top" /\ Arrive(p) /\ arrived[p] = 0
        /\ UNCHANGED <<batched, removed, dropped>>
    BY <1>1 DEF RecvPrompt
  <2>2. CASE active # 0
    <3>1. Waiting' = Waiting \cup {p} /\ Taken' = Taken
      BY <1>1, <2>1, <2>2 DEF RecvPrompt, Waiting, Taken
    <3>2. Ledger!Wait(p)
      BY <2>1, <3>1, LedgerWaits
    <3>. QED
      BY <3>2 DEF Ledger!Next
  <2>3. CASE active = 0
    <3>1. /\ Dispatch({p}, By[p]) /\ queued' = queued /\ By[p] \in Initiators
          /\ {p} \in SUBSET Prompts
      BY <1>1, <2>3 DEF RecvPrompt, PromptAssumption
    <3>2. p \notin Accepted
      BY <2>1 DEF Accepted
    <3>3. {p} \cap Taken = {}
      BY <3>2 DEF PlaceInv, PlacedOnce
    <3>4. Taken' = Taken \cup {p}
      BY <3>1, <3>3, TakenMore
    <3>5. Waiting = {} /\ Waiting' = {}
      BY <2>1, <2>3, <3>1 DEF PlaceInv, Waiting
    <3>6. Ledger!TakeAtOnce(p)
      BY <2>1, <3>4, <3>5, LedgerStarts
    <3>. QED
      BY <3>6 DEF Ledger!Next
  <2>. QED
    BY <2>2, <2>3
<1>2. ASSUME NEW p \in Prompts, RecvRemove(p) PROVE Ledger!Next
  <2>1. /\ pc = "select" /\ pc' = "top" /\ p \in Waiting
        /\ queued' = queued \ {p} /\ batched' = batched \ {p}
        /\ removed' = removed \cup {p} /\ UNCHANGED <<turns, arrived, dropped>>
    BY <1>2 DEF RecvRemove
  <2>2. Taken' = Taken /\ Waiting' = Waiting \ {p}
    BY <2>1 DEF Taken, Waiting
  <2>3. PlacedOnce /\ PlacedOnce'
    BY DEF PlaceInv
  <2>4. \A q \in Prompts : Place(q)' = IF q = p THEN "withdrawn" ELSE Place(q)
    BY <2>1, <2>2, <2>3 DEF Place, PlacedOnce
  <2>5. Place(p) = "waiting"
    BY <2>1, <2>3, PlaceIs
  <2>6. Ledger!Withdraw(p)
    BY <2>1, <2>4, <2>5 DEF Ledger!Withdraw
  <2>. QED
    BY <2>6 DEF Ledger!Next
<1>3. ASSUME NEW p \in Prompts, RecvEdit(p) PROVE UNCHANGED Ledger!vars
  <2>1. /\ pc = "select" /\ pc' = "top" /\ arrived' = arrived
        /\ removed' = removed /\ dropped' = dropped
    BY <1>3 DEF RecvEdit
  <2>2. Taken' = Taken /\ Waiting' = Waiting
    BY <1>3 DEF RecvEdit, Taken, Waiting
  <2>. QED
    BY <2>1, <2>2, LedgerStutters
<1>4. CASE RecvInterrupt
  <2>. DEFINE mine == {p \in queued : By[p] = "User"}
              r == Interrupted(turns[active])
  <2>1. /\ pc = "select" /\ pc' = "top"
        /\ active \in 1..Len(turns) /\ Becomes(active, r)
        /\ batched' = batched \cup mine /\ queued' = queued \ mine
        /\ arrived' = arrived /\ removed' = removed /\ dropped' = dropped
    BY <1>4, TurnsTyped DEF RecvInterrupt, Mine, TypeOK
  <2>2. r \in TurnRecords /\ r.has = turns[active].has
    BY <2>1, TurnsTyped, InterruptedFacts
  <2>3. Taken' = Taken
    BY <2>1, <2>2, TakenSame
  <2>4. Waiting' = Waiting
    BY <2>1 DEF Waiting
  <2>. QED
    BY <2>1, <2>3, <2>4, LedgerStutters
<1>5. CASE RecvCancel
  <2>1. /\ pc = "select" /\ pc' = "stopped" /\ dropped' = dropped \cup Waiting
        /\ queued' = {} /\ batched' = {} /\ UNCHANGED <<turns, arrived, removed>>
    BY <1>5 DEF RecvCancel, Stop
  <2>2. Taken' = Taken /\ Waiting' = {}
    BY <2>1 DEF Taken, Waiting
  <2>3. Ledger!Close
    BY <2>1, <2>2, LedgerCloses
  <2>. QED
    BY <2>3 DEF Ledger!Next
<1>. QED
  BY <1>1, <1>2, <1>3, <1>4, <1>5 DEF Command

LEMMA LedgerLoopTop ==
  ASSUME PromptAssumption, TypeOK, PlaceInv, PlaceInv', LoopTop
  PROVE  Ledger!Next \/ UNCHANGED Ledger!vars
<1>1. /\ pc = "top" /\ pc' = "select" /\ arrived' = arrived
      /\ removed' = removed /\ dropped' = dropped
  BY DEF LoopTop
<1>2. CASE UNCHANGED <<turns, queued, batched>>
  <2>1. Taken' = Taken /\ Waiting' = Waiting
    BY <1>2 DEF Taken, Waiting
  <2>. QED
    BY <1>1, <2>1, LedgerStutters
<1>3. CASE TakeBatch
  <2>1. /\ Dispatch(batched, "User") /\ batched \in SUBSET Prompts /\ "User" \in Initiators
        /\ batched' = {} /\ queued' = queued /\ batched # {}
    BY <1>3 DEF TakeBatch, TypeOK, Initiators
  <2>2. batched \cap Taken = {} /\ queued \cap batched = {} /\ \A p \in batched : By[p] = "User"
    BY DEF PlaceInv, PlacedOnce, Waiting
  <2>3. Taken' = Taken \cup batched
    BY <2>1, <2>2, TakenMore
  <2>4. Waiting' = Waiting \ batched /\ batched \subseteq Waiting
    BY <2>1, <2>2 DEF Waiting
  <2>5. Ledger!Take(batched)
    BY <1>1, <2>1, <2>2, <2>3, <2>4, LedgerTakes
  <2>. QED
    BY <2>1, <2>5 DEF Ledger!Next
<1>4. CASE TakeOldest
  <2>. DEFINE p == Oldest(queued)
  <2>1. p \in queued /\ p \in Prompts /\ \A q \in queued : arrived[p] <= arrived[q]
    BY <1>4, OldestWaits DEF TakeOldest, TypeOK
  <2>2. Dispatch({p}, By[p]) /\ queued' = queued \ {p} /\ batched' = {} /\ batched = {}
    BY <1>4 DEF TakeOldest
  <2>3. {p} \in SUBSET Prompts /\ By[p] \in Initiators
    BY <2>1 DEF PromptAssumption
  <2>. HIDE DEF p
  <2>4. {p} \cap Taken = {} /\ Waiting = queued
    BY <2>1, <2>2 DEF PlaceInv, PlacedOnce, Waiting
  <2>5. Taken' = Taken \cup {p}
    BY <2>2, <2>3, <2>4, TakenMore
  <2>6. Waiting' = Waiting \ {p}
    BY <2>2, <2>4 DEF Waiting
  <2>7. Ledger!Take({p})
    <3>1. \E x \in {p} : {p} = {x} /\ \A q \in Waiting : arrived[x] <= arrived[q]
      BY <2>1, <2>4
    <3>2. {p} # {} /\ {p} \subseteq Waiting
      BY <2>1, <2>4
    <3>. QED
      BY <1>1, <2>3, <2>5, <2>6, <3>1, <3>2, LedgerTakes
  <2>. QED
    BY <2>3, <2>7 DEF Ledger!Next
<1>. QED
  BY <1>2, <1>3, <1>4 DEF LoopTop

LEMMA LedgerDriver ==
  ASSUME PromptAssumption, TypeOK, PlaceInv, PlaceInv', Driver
  PROVE  Ledger!Next \/ UNCHANGED Ledger!vars
<1>1. ASSUME NEW p \in Prompts, StartWithPrompt(p) PROVE Ledger!Next
  <2>1. /\ pc = "start" /\ pc' = "top" /\ Dispatch({p}, "Initial") /\ Arrive(p)
        /\ UNCHANGED <<queued, batched, removed, dropped>>
        /\ "Initial" \in Initiators /\ {p} \in SUBSET Prompts
    BY <1>1 DEF StartWithPrompt, Initiators
  <2>2. Accepted = {} /\ Waiting = {} /\ Taken = {}
    BY <2>1 DEF PlaceInv, PlacedOnce
  <2>3. Taken' = Taken \cup {p}
    BY <2>1, <2>2, TakenMore
  <2>4. Waiting' = {} /\ arrived[p] = 0
    BY <2>1, <2>2 DEF Waiting, Accepted, TypeOK
  <2>5. Ledger!TakeAtOnce(p)
    BY <2>1, <2>2, <2>3, <2>4, LedgerStarts
  <2>. QED
    BY <2>5 DEF Ledger!Next
<1>2. CASE StartRefused
  <2>1. pc = "start" /\ pc' = "stopped" /\ turns' = turns /\ UNCHANGED queueVars
    BY <1>2 DEF StartRefused
  <2>2. Waiting = {}
    BY <2>1 DEF PlaceInv, PlacedOnce
  <2>3. /\ Waiting' = {} /\ Taken' = Taken /\ arrived' = arrived
        /\ removed' = removed /\ dropped' = dropped \cup Waiting
    BY <2>1, <2>2 DEF queueVars, Waiting, Taken
  <2>4. Ledger!Close
    BY <2>1, <2>3, LedgerCloses
  <2>. QED
    BY <2>4 DEF Ledger!Next
<1>3. CASE StartIdle \/ ActiveDone
  <2>1. /\ pc # "stopped" /\ pc' # "stopped" /\ turns' = turns /\ UNCHANGED queueVars
    BY <1>3 DEF StartIdle, ActiveDone
  <2>2. /\ Waiting' = Waiting /\ Taken' = Taken /\ arrived' = arrived
        /\ removed' = removed /\ dropped' = dropped
    BY <2>1 DEF queueVars, Waiting, Taken
  <2>. QED
    BY <2>1, <2>2, LedgerStutters
<1>4. CASE DeadlineFires
  <2>1. /\ pc = "select" /\ pc' = "top" /\ active \in 1..Len(turns)
        /\ UNCHANGED <<queued, batched, arrived, removed, dropped>>
    BY <1>4, TurnsTyped DEF DeadlineFires, Aborted, queueVars, TypeOK
  <2>2. Taken' = Taken
    BY <1>4, DeadlineTakes
  <2>3. Waiting' = Waiting
    BY <2>1 DEF Waiting
  <2>. QED
    BY <2>1, <2>2, <2>3, LedgerStutters
<1>5. CASE ExitSeen
  <2>1. /\ pc = "select" /\ pc' = "stopped" /\ dropped' = dropped \cup Waiting
        /\ queued' = {} /\ batched' = {} /\ UNCHANGED <<turns, arrived, removed>>
    BY <1>5 DEF ExitSeen, Stop
  <2>2. Taken' = Taken /\ Waiting' = {}
    BY <2>1 DEF Taken, Waiting
  <2>3. Ledger!Close
    BY <2>1, <2>2, LedgerCloses
  <2>. QED
    BY <2>3 DEF Ledger!Next
<1>. QED
  BY <1>1, <1>2, <1>3, <1>4, <1>5, LedgerLoopTop, LedgerCommand DEF Driver

(* The driver's prompts live exactly the life PromptLedger allows. *)
THEOREM Implements == Spec => LedgerSpec
<1>1. Init => Ledger!Init
  <2>. SUFFICES ASSUME Init PROVE Ledger!Init
    OBVIOUS
  <2>1. /\ 1..Len(turns) = {} /\ pc = "start" /\ arrived = [p \in Prompts |-> 0]
        /\ queued = {} /\ batched = {} /\ removed = {} /\ dropped = {}
    BY DEF Init
  <2>2. Taken = {} /\ Waiting = {}
    BY <2>1 DEF Taken, Waiting
  <2>3. \A p \in Prompts : Place(p) = "unsent"
    BY <2>1, <2>2 DEF Place
  <2>. QED
    BY <2>1, <2>3 DEF Ledger!Init
<1>2. TypeOK /\ PlaceInv /\ PlaceInv' /\ [Next]_vars => [Ledger!Next]_(Ledger!vars)
  <2>. SUFFICES ASSUME TypeOK, PlaceInv, PlaceInv', [Next]_vars
                PROVE  Ledger!Next \/ UNCHANGED Ledger!vars
    OBVIOUS
  <2>1. CASE Driver
    BY <2>1, PromptAssumption, LedgerDriver
  <2>2. ASSUME NEW t \in 1..Len(turns),
               SendTask(t) \/ \E r \in Answers : AgentAnswers(t, r)
        PROVE  UNCHANGED Ledger!vars
    <3>1. PICK r \in TurnRecords : Becomes(t, r) /\ r.has = turns[t].has
      BY <2>2, TaskRewrites
    <3>2. Taken' = Taken
      BY <3>1, TakenSame
    <3>3. UNCHANGED queueVars /\ pc' = pc
      BY <2>2 DEF SendTask, TaskTakesReply, TaskRejected, TaskClaimsEnd, TaskLoadsInterrupted, TaskSendsEnd,
             TaskSeesExit, TaskTransportClosed, AgentAnswers, driverVars
    <3>. QED
      BY <3>2, <3>3, LedgerStutters DEF queueVars, Waiting
  <2>3. CASE \/ MonitorReports \/ StdoutCloses \/ StdinFails \/ ChildExits
             \/ StopIntentionally \/ UNCHANGED vars
    <3>1. UNCHANGED queueVars /\ pc' = pc /\ (StdoutCloses \/ turns' = turns)
      BY <2>3 DEF MonitorReports, StdoutCloses, StdinFails, ChildExits, StopIntentionally,
                  driverVars, vars
    <3>2. Taken' = Taken
      BY <3>1, TakenAtClose DEF Taken
    <3>. QED
      BY <3>1, <3>2, LedgerStutters DEF queueVars, Waiting
  <2>. QED
    BY <2>1, <2>2, <2>3 DEF Next, Environment
<1>. QED
  BY <1>1, <1>2, TypeCorrect, PlaceInvariant, PTL DEF Spec, LedgerSpec, Ledger!Spec
-----------------------------------------------------------------------------
(* What the clients were told *)

LEMMA MarksCut ==
  ASSUME NEW A, NEW E
  PROVE  [p \in A |-> p \in E] = [p \in A |-> p \in E \cap A]
<1>1. \A p \in A : (p \in E) = (p \in E \cap A)
  BY SMT
<1>. QED
  BY <1>1

(* Nothing strands behind a free slot, and the list announced last is the  *)
(* list of those who wait, whatever was edited, removed or set aside.      *)
THEOREM NoneStranded == Spec => []NothingStranded
<1>. DEFINE Told == pc = "select" => announced = Listing(Waiting)
<1>1. Init => Told
  BY DEF Init
<1>2. Told /\ [Next]_vars => Told'
  <2>. SUFFICES ASSUME Told, [Next]_vars PROVE Told'
    OBVIOUS
  <2>1. CASE LoopTop
    <3>1. /\ edited' = edited \cap (queued' \cup batched')
          /\ announced' = [p \in queued' \cup batched' |-> p \in edited]
      BY <2>1 DEF LoopTop
    <3>. QED
      BY <3>1, MarksCut DEF Listing, Waiting
  <2>2. CASE Driver /\ ~LoopTop
    <3>1. pc' # "select"
      BY <2>2 DEF Driver, Command, StartWithPrompt, StartRefused, StartIdle, RecvPrompt,
                  RecvRemove, RecvEdit, RecvInterrupt, RecvCancel, ActiveDone,
                  DeadlineFires, ExitSeen, Stop
    <3>. QED
      BY <3>1
  <2>3. CASE \/ \E t \in 1..Len(turns) : SendTask(t)
             \/ MonitorReports \/ Environment \/ UNCHANGED vars
    <3>1. UNCHANGED <<pc, announced, queued, batched, edited>>
      BY <2>3 DEF SendTask, TaskTakesReply, TaskRejected, TaskClaimsEnd, TaskLoadsInterrupted, TaskSendsEnd,
                  TaskSeesExit, TaskTransportClosed, AgentAnswers, MonitorReports,
                  Environment, StdoutCloses, StdinFails, ChildExits, StopIntentionally,
                  vars, driverVars, queueVars
    <3>. QED
      BY <3>1 DEF Listing, Waiting
  <2>. QED
    BY <2>1, <2>2, <2>3 DEF Next
<1>3. Told /\ PlaceInv => NothingStranded
  BY DEF NothingStranded, PlaceInv
<1>. QED
  BY <1>1, <1>2, <1>3, PlaceInvariant, PTL DEF Spec
=============================================================================
