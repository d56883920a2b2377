---------------------------- MODULE PeerDelivery ----------------------------
(***************************************************************************)
(* Getting a peer's message to its receiver                                *)
(* (src/src/daemon/actor/peers/, docs/adr/0026-peer-sessions.md), for one  *)
(* receiving task and one sender.                                          *)
(*                                                                         *)
(* A direct message becomes a turn in the receiver's queue, or is held for *)
(* its next prompt when it has no live session.  A post to the channel and *)
(* what is held ride on the digest of a prompt.  The actor decides from a  *)
(* mirror of the queue and from the updates of the session's driver, which *)
(* reach it late and may be those of a session it has dropped since.       *)
(*                                                                         *)
(* TurnDriver models the driver's turns and force-sends; here it takes its *)
(* prompts in order and reports what it does.  The receiver is visible and *)
(* not muted, no mention and no named channel is used, and the guard's     *)
(* limits on rate are left out; what is saved is saved at once (Persist).  *)
(***************************************************************************)
EXTENDS Integers, Sequences, SequencesExt, FiniteSets

CONSTANTS MaxIds,      \* bound: messages and posts
          MaxEvents,   \* bound: acts of the user, exits and restarts
          MaxRuns,     \* bound: session runs
          HeldItems,   \* HELD_ITEMS
          Faults       \* bound: what may go wrong

ASSUME PeerAssumption ==
  /\ {MaxIds, MaxEvents, MaxRuns} \subseteq Nat /\ HeldItems \in Nat \ {0}
  /\ Faults \subseteq {"lapse", "exit", "stdin", "cancel", "restart"}

Ids == 1..MaxIds
Runs == 1..MaxRuns
Statuses == {"none", "posted", "queued", "held", "delivered", "refused", "removed"}

(* PeerDelivery, carried by a prompt; 0: none.  `posts` are those its      *)
(* digest covers, the omitted ones included.                               *)
Prompt == [direct : 0..MaxIds, held : SUBSET Ids, posts : SUBSET Ids]
Upto(p) == IF p.posts = {} THEN 0 ELSE CHOOSE i \in p.posts : \A j \in p.posts : j <= i
Content(p) == (p.held \cup p.posts \cup {p.direct}) \ {0}
NoPrompt == [direct |-> 0, held |-> {}, posts |-> {}]

VARIABLES
  \* the actor
  last,       \* next_id - 1
  status,     \* of each record
  in_flight, held, reserved, removing,
  slot,       \* the guard's slot from the sender to the receiver is taken
  cursor,     \* the newest post the receiver has seen
  queued,     \* Task.queued_prompts: the mirror of the driver's queue
  live,       \* the run of the task's session handle, 0: none
  resuming,   \* the task waits in pending_resume, or for its first start
  blocked,    \* the task is Blocked
  started,    \* runs started
  \* the sessions
  driver,     \* of each run
  removals,   \* RemoveQueued calls on their way to a driver
  updates,    \* the updates on their way to the actor
  \* bound and history
  events,     \* so far
  told        \* what the agent has been sent

records == <<last, status, in_flight, held, slot, cursor>>
marks == <<reserved, removing>>
task == <<queued, live, resuming, blocked, started>>
sessions == <<driver, removals, told>>
vars == <<records, marks, task, sessions, updates, events>>

Entry == [q : Nat, direct : 0..MaxIds]
Drivers == [pc : {"none", "starting", "on", "off"}, exited : BOOLEAN, reported : BOOLEAN,
            inbox : Seq(Prompt), waiting : Seq([q : Nat, prompt : Prompt]),
            turn : {"none", "running", "unsent", "over"}, announced : Seq(Entry), next_q : Nat]

TypeOK ==
  /\ last \in 0..MaxIds /\ cursor \in 0..MaxIds
  /\ status \in [Ids -> Statuses]
  /\ \A S \in {in_flight, held, reserved, removing, told} : S \subseteq 1..last
  /\ {slot, resuming, blocked} \subseteq BOOLEAN
  /\ queued \in Seq(Entry) /\ live \in 0..started /\ started \in 0..MaxRuns
  /\ driver \in [Runs -> Drivers] /\ events \in 0..MaxEvents
  /\ \A r \in Runs : driver[r].pc = "none" <=> r > started

Init ==
  /\ last = 0 /\ status = [i \in Ids |-> "none"]
  /\ in_flight = {} /\ held = {} /\ reserved = {} /\ removing = {}
  /\ slot = FALSE /\ cursor = 0
  /\ queued = <<>> /\ live = 0 /\ resuming = TRUE /\ blocked = FALSE /\ started = 0
  /\ driver = [r \in Runs |->
       [pc |-> "none", exited |-> FALSE, reported |-> FALSE, inbox |-> <<>>,
        waiting |-> <<>>, turn |-> "none", announced |-> <<>>, next_q |-> 0]]
  /\ removals = {} /\ updates = <<>> /\ events = 0 /\ told = {}

-----------------------------------------------------------------------------
(* The actor: sessions and digests *)

(* peers_hold, of a set of records *)
Holding(S) ==
  /\ held' = held \cup S
  /\ slot' = (slot /\ S = {})

(* Mutation: the handle goes, and what its session carried is forgotten. *)
DropsHandleOnly ==
  /\ live' = 0 /\ reserved' = {}
  /\ UNCHANGED <<held, slot, in_flight, removing, status>>
(* The handle is removed, and peers_session_gone holds what it carried. *)
drop_session ==
  /\ live' = 0 /\ reserved' = {}
  /\ Holding(in_flight) /\ in_flight' = {} /\ removing' = removing \ in_flight
  /\ status' = [i \in Ids |-> IF i \in in_flight THEN "held" ELSE status[i]]

Unseen == {i \in Ids : status[i] = "posted" /\ i > cursor /\ i \notin reserved}
OldestHeld ==
  LET free == held \ reserved
  IN {i \in free : Cardinality({j \in free : j <= i}) <= HeldItems}

(* peers_prepare: the prompt, and what it reserves *)
Prepared(direct) == [direct |-> direct, held |-> OldestHeld, posts |-> Unseen]
Reserves(p) == reserved' = reserved \cup p.held \cup p.posts

(* The driver of run r still listens to its command channel. *)
Listens(r) == r # 0 /\ driver[r].pc \in {"starting", "on"}
Submit(p) == driver' = [driver EXCEPT ![live].inbox = Append(@, p)]

Happens == events < MaxEvents /\ events' = events + 1

(* A prompt of the user reaches the session, or starts it again. *)
UserPrompt ==
  /\ Happens
  /\ IF Listens(live)
       THEN /\ Reserves(Prepared(0)) /\ Submit(Prepared(0))
            /\ UNCHANGED <<records, removing, live, resuming, blocked>>
       ELSE /\ drop_session
            /\ resuming' = TRUE /\ blocked' = FALSE
            /\ UNCHANGED <<last, cursor, driver>>
  /\ UNCHANGED <<queued, started, removals, told, updates>>

(* start_session, with the prompt that waited for it *)
ResumeReplayReady ==
  /\ resuming /\ started < MaxRuns
  /\ resuming' = FALSE /\ started' = started + 1 /\ live' = started + 1
  /\ Reserves(Prepared(0))
  /\ driver' = [driver EXCEPT ![started + 1].pc = "starting",
                              ![started + 1].waiting = <<[q |-> 0, prompt |-> Prepared(0)]>>]
  /\ UNCHANGED <<records, removing, queued, blocked, removals, told, updates, events>>

(* The user stops the task: the handle goes, and the process with it. *)
CancelTask ==
  /\ "cancel" \in Faults /\ Happens /\ (live # 0 \/ resuming)
  /\ drop_session /\ resuming' = FALSE /\ blocked' = FALSE
  /\ driver' = IF live = 0 THEN driver
               ELSE [driver EXCEPT ![live].exited = TRUE, ![live].reported = TRUE]
  /\ UNCHANGED <<last, cursor, queued, started, removals, told, updates>>

-----------------------------------------------------------------------------
(* The actor: messages *)

NewRecord(s) == last < MaxIds /\ last' = last + 1 /\ status' = [status EXCEPT ![last + 1] = s]

peers_post ==
  /\ NewRecord("posted")
  /\ UNCHANGED <<in_flight, held, slot, cursor, marks, task, sessions, updates, events>>

(* peers_direct: Delivery::Hold *)
DirectHeld ==
  /\ live = 0 /\ ~blocked /\ ~slot
  /\ NewRecord("held") /\ held' = held \cup {last + 1}
  /\ UNCHANGED <<in_flight, slot, cursor, marks, task, sessions, updates, events>>

(* peers_direct: Delivery::Queue, and peers_submit *)
DirectQueued ==
  /\ Listens(live) /\ ~blocked /\ ~slot
  /\ NewRecord("queued") /\ in_flight' = in_flight \cup {last + 1} /\ slot' = TRUE
  /\ Reserves(Prepared(last + 1)) /\ Submit(Prepared(last + 1))
  /\ UNCHANGED <<held, cursor, removing, task, removals, told, updates, events>>

(* The handle turns out to be stale: drop_session holds the message too. *)
DirectFindsStale ==
  /\ live # 0 /\ ~Listens(live) /\ ~blocked /\ ~slot
  /\ last < MaxIds /\ last' = last + 1
  /\ live' = 0 /\ reserved' = {} /\ removing' = removing \ in_flight
  /\ held' = held \cup in_flight \cup {last + 1} /\ in_flight' = {} /\ slot' = FALSE
  /\ status' = [i \in Ids |-> IF i \in in_flight \cup {last + 1} THEN "held" ELSE status[i]]
  /\ UNCHANGED <<cursor, queued, resuming, blocked, started, sessions, updates, events>>

(* Waiting for more than QUEUED_TTL, the message keeps its place but not   *)
(* the slot.                                                               *)
SlotLapses ==
  /\ "lapse" \in Faults /\ slot /\ slot' = FALSE
  /\ UNCHANGED <<last, status, in_flight, held, cursor, marks, task, sessions, updates, events>>

(* Mutation: an entry without a message is marked like one with. *)
MarksAny(i) ==
  /\ Happens
  /\ removing' = removing \cup {queued[i].direct}
  /\ removals' = IF live = 0 THEN removals ELSE removals \cup {<<live, queued[i].q>>}
  /\ UNCHANGED <<records, reserved, task, driver, told, updates>>
(* SessionRemoveQueued: the user removes an entry of the mirrored queue. *)
peers_removing(i) ==
  /\ Happens
  /\ removing' = removing \cup ({queued[i].direct} \ {0})
  /\ removals' = IF live = 0 THEN removals ELSE removals \cup {<<live, queued[i].q>>}
  /\ UNCHANGED <<records, reserved, task, driver, told, updates>>

-----------------------------------------------------------------------------
(* The actor: updates *)

Hears(type) == updates # <<>> /\ Head(updates).type = type /\ updates' = Tail(updates)
(* is_stale_run *)
IsStale(r) == live # 0 /\ live # r
Ignored == UNCHANGED <<records, marks, task>>

peers_turn_started(p) ==
  LET done == ({p.direct} \cap in_flight) \cup (p.held \cap held)
  IN /\ in_flight' = in_flight \ done /\ held' = held \ done
     /\ removing' = removing \ ({p.direct} \cap in_flight)
     /\ slot' = (slot /\ p.direct \notin in_flight)
     /\ status' = [i \in Ids |-> IF i \in done THEN "delivered" ELSE status[i]]
     /\ cursor' = IF Upto(p) > cursor THEN Upto(p) ELSE cursor
     /\ reserved' = {i \in reserved : i > Upto(p) /\ i \notin p.held}

HearTurnStarted ==
  /\ Hears("TurnStarted")
  /\ IF IsStale(Head(updates).run) \/ live = 0 THEN Ignored
     ELSE /\ peers_turn_started(Head(updates).prompt) /\ blocked' = FALSE
          /\ UNCHANGED <<last, queued, live, resuming, started>>
  /\ UNCHANGED <<sessions, events>>

DirectsOf(entries) == {entries[i].direct : i \in DOMAIN entries} \ {0}

(* Mutation: the record's slot is not given back on removal. *)
KeepsSlot(gone) ==
  /\ in_flight' = in_flight \ gone /\ removing' = removing \ gone
  /\ held' = held \cup ((gone \cap in_flight) \ removing)
  /\ slot' = slot
  /\ status' = [i \in Ids |-> IF i \notin gone \cap in_flight THEN status[i]
                              ELSE IF i \in removing THEN "removed" ELSE "held"]
peers_queue_changed(gone) ==
  /\ in_flight' = in_flight \ gone /\ removing' = removing \ gone
  /\ held' = held \cup ((gone \cap in_flight) \ removing)
  /\ slot' = (slot /\ gone \cap in_flight = {})
  /\ status' = [i \in Ids |-> IF i \notin gone \cap in_flight THEN status[i]
                              ELSE IF i \in removing THEN "removed" ELSE "held"]

HearQueueChanged ==
  /\ Hears("QueueChanged")
  /\ LET u == Head(updates)
     IN IF IsStale(u.run) THEN Ignored
        ELSE /\ peers_queue_changed(DirectsOf(queued) \ DirectsOf(u.queued))
             /\ queued' = u.queued
             /\ UNCHANGED <<last, cursor, reserved, live, resuming, blocked, started>>
  /\ UNCHANGED <<sessions, events>>

HearTurnEnded ==
  /\ Hears("TurnEnded")
  /\ reserved' = IF ~IsStale(Head(updates).run) /\ queued = <<>> THEN {} ELSE reserved
  /\ UNCHANGED <<records, removing, task, sessions, events>>

HearError ==
  /\ Hears("Error")
  /\ IF IsStale(Head(updates).run) THEN Ignored
     ELSE /\ drop_session /\ blocked' = TRUE
          /\ UNCHANGED <<last, cursor, queued, resuming, started>>
  /\ UNCHANGED <<sessions, events>>

-----------------------------------------------------------------------------
(* The driver of run r *)

Entries(w) == [i \in DOMAIN w |-> [q |-> w[i].q, direct |-> w[i].prompt.direct]]

Sent(r, p) == <<[type |-> "TurnStarted", run |-> r, prompt |-> p]>>
Changed(r, d, list) ==
  IF list = d.announced THEN <<>>
  ELSE <<[type |-> "QueueChanged", run |-> r, queued |-> list]>>

(* Mutation: a prompt that leaves the queue is announced before its turn. *)
AnnouncesFirst(r, d) ==
  LET starts == d.turn = "none" /\ d.waiting # <<>>
      rest == IF starts THEN Tail(d.waiting) ELSE d.waiting
      list == Entries(rest)
  IN /\ driver' = [driver EXCEPT ![r] =
            [d EXCEPT !.waiting = rest, !.announced = list,
                      !.turn = IF starts THEN "running" ELSE @]]
     /\ updates' = updates \o Changed(r, d, list)
                            \o IF starts THEN Sent(r, d.waiting[1].prompt) ELSE <<>>
     /\ told' = told \cup IF starts THEN Content(d.waiting[1].prompt) ELSE {}
(* The top of its loop: a free slot takes the oldest prompt, and a list    *)
(* that differs from the announced one is announced.  A prompt that cannot *)
(* be written starts no turn.                                              *)
LoopTop(r, d) ==
  LET starts == d.turn = "none" /\ d.waiting # <<>>
      rest == IF starts THEN Tail(d.waiting) ELSE d.waiting
      list == Entries(rest)
  IN \E sent \in {starts} \cup (IF "stdin" \in Faults THEN {FALSE} ELSE {}) :
       /\ driver' = [driver EXCEPT ![r] =
              [d EXCEPT !.waiting = rest, !.announced = list,
                        !.turn = IF sent THEN "running" ELSE IF starts THEN "unsent" ELSE @]]
       /\ updates' = updates \o (IF sent THEN Sent(r, d.waiting[1].prompt) ELSE <<>>)
                              \o Changed(r, d, list)
       /\ told' = told \cup IF sent THEN Content(d.waiting[1].prompt) ELSE {}

ActorIdle == UNCHANGED <<records, marks, task, events>>
IsOn(r) == driver[r].pc = "on" /\ ActorIdle

Handshake(r) ==
  /\ driver[r].pc = "starting" /\ ~driver[r].exited /\ ActorIdle
  /\ LoopTop(r, [driver[r] EXCEPT !.pc = "on"]) /\ UNCHANGED removals

TakesPrompt(r) ==
  /\ IsOn(r) /\ driver[r].inbox # <<>>
  /\ LET d == driver[r]
         q == IF d.turn = "none" THEN 0 ELSE d.next_q + 1
     IN LoopTop(r, [d EXCEPT !.inbox = Tail(@), !.next_q = IF q = 0 THEN @ ELSE q,
                             !.waiting = Append(@, [q |-> q, prompt |-> Head(d.inbox)])])
  /\ UNCHANGED removals

(* The entry with the id q, if it still waits. *)
take_queued(w, q) ==
  LET index == {i \in DOMAIN w : w[i].q = q}
  IN IF index = {} THEN w ELSE RemoveAt(w, CHOOSE i \in index : \A j \in index : i <= j)

RemovesQueued(r) ==
  \E x \in removals :
    /\ x[1] = r /\ IsOn(r) /\ removals' = removals \ {x}
    /\ LoopTop(r, [driver[r] EXCEPT !.waiting = take_queued(@, x[2])])

(* The agent answers: the turn's end is reported before the driver sees it. *)
AgentAnswers(r) ==
  /\ IsOn(r) /\ driver[r].turn = "running" /\ ~driver[r].exited
  /\ driver' = [driver EXCEPT ![r].turn = "over"]
  /\ updates' = Append(updates, [type |-> "TurnEnded", run |-> r])
  /\ UNCHANGED <<removals, told>>

FreesSlot(r) ==
  /\ IsOn(r) /\ driver[r].turn = "over"
  /\ LoopTop(r, [driver[r] EXCEPT !.turn = "none"]) /\ UNCHANGED removals

ChildExits(r) ==
  /\ "exit" \in Faults /\ driver[r].pc \in {"starting", "on"} /\ ~driver[r].exited
  /\ Happens /\ UNCHANGED <<records, marks, task>>
  /\ driver' = [driver EXCEPT ![r].exited = TRUE]
  /\ UNCHANGED <<removals, told, updates>>

(* The send task of a prompt that was not written reports it and kills.    *)
SendGivesUp(r) ==
  /\ IsOn(r) /\ driver[r].turn = "unsent" /\ ~driver[r].exited
  /\ driver' = [driver EXCEPT ![r].exited = TRUE]
  /\ UNCHANGED <<removals, told, updates>>

MonitorReports(r) ==
  /\ driver[r].exited /\ ~driver[r].reported /\ ActorIdle
  /\ driver' = [driver EXCEPT ![r].reported = TRUE]
  /\ updates' = Append(updates, [type |-> "Error", run |-> r])
  /\ UNCHANGED <<removals, told>>

DriverStops(r) ==
  /\ driver[r].exited /\ driver[r].pc \in {"starting", "on"} /\ ActorIdle
  /\ driver' = [driver EXCEPT ![r].pc = "off", ![r].inbox = <<>>, ![r].waiting = <<>>,
                              ![r].turn = "none", ![r].announced = <<>>]
  /\ updates' = IF driver[r].announced = <<>> THEN updates
                ELSE Append(updates, [type |-> "QueueChanged", run |-> r, queued |-> <<>>])
  /\ removals' = {x \in removals : x[1] # r} /\ UNCHANGED told

-----------------------------------------------------------------------------
(* load_state: the queues are gone, and what waited in them is refused.    *)
Restart ==
  /\ "restart" \in Faults /\ Happens
  /\ status' = [i \in Ids |-> IF status[i] = "queued" THEN "refused" ELSE status[i]]
  /\ in_flight' = {} /\ reserved' = {} /\ removing' = {} /\ slot' = FALSE
  /\ queued' = <<>> /\ live' = 0 /\ resuming' = FALSE
  /\ driver' = [r \in Runs |-> IF driver[r].pc = "none" THEN driver[r] ELSE
       [pc |-> "off", exited |-> TRUE, reported |-> TRUE, inbox |-> <<>>, waiting |-> <<>>,
        turn |-> "none", announced |-> <<>>, next_q |-> 0]]
  /\ removals' = {} /\ updates' = <<>>
  /\ UNCHANGED <<last, held, cursor, blocked, started, told>>

Actor ==
  \/ UserPrompt \/ ResumeReplayReady \/ CancelTask \/ SlotLapses
  \/ peers_post \/ DirectHeld \/ DirectQueued \/ DirectFindsStale
  \/ \E i \in DOMAIN queued : peers_removing(i)
HearsUpdate == HearTurnStarted \/ HearQueueChanged \/ HearTurnEnded \/ HearError
Driver(r) ==
  \/ Handshake(r) \/ TakesPrompt(r) \/ RemovesQueued(r) \/ FreesSlot(r)
  \/ SendGivesUp(r) \/ MonitorReports(r) \/ DriverStops(r)
Next ==
  \/ Actor \/ HearsUpdate \/ Restart
  \/ \E r \in Runs : Driver(r) \/ AgentAnswers(r) \/ ChildExits(r)

Spec == Init /\ [][Next]_vars

-----------------------------------------------------------------------------
(* The feed's records agree with what the actor acts on, whatever order      *)
(* the updates come in: a queued record is in flight and a held one waits  *)
(* for the next prompt, and the sender's slot is taken only for a message  *)
(* that still waits (a slot nobody gives back locks the sender out).       *)
RecordsAgree ==
  /\ \A i \in Ids : (status[i] = "queued" <=> i \in in_flight) /\ (status[i] = "held" <=> i \in held)
  /\ slot => in_flight # {}

(* What the feed says of a message is true and stays: the agent was sent   *)
(* what is delivered and not what the user removed, and a settled record   *)
(* changes no more (ADR 0026, invariant 6).                                *)
VerdictsHold ==
  [][\A i \in Ids :
       /\ status[i] \in {"delivered", "removed", "refused"} => status'[i] = status[i]
       /\ status'[i] = "delivered" => i \in told
       /\ status[i] # "removed" /\ status'[i] = "removed" => i \notin told]_vars

(* No message is forgotten in the queue of a session: while a record is in *)
(* flight its prompt waits in the live session, or an update under way     *)
(* settles it: its turn started, it left the list, or the session failed   *)
(* (ADR 0026: "losing it any other way ... holds it").                     *)
Waits(i) ==
  /\ Listens(live)
  /\ \/ \E j \in DOMAIN driver[live].inbox : driver[live].inbox[j].direct = i
     \/ \E j \in DOMAIN driver[live].waiting : driver[live].waiting[j].prompt.direct = i
Under(type) == {k \in DOMAIN updates : updates[k].type = type /\ updates[k].run = live}
LeavesList(i) ==
  \E k \in Under("QueueChanged") :
    /\ i \notin DirectsOf(updates[k].queued)
    /\ \/ i \in DirectsOf(queued)
       \/ \E j \in Under("QueueChanged") : j < k /\ i \in DirectsOf(updates[j].queued)
SessionFails ==
  \/ Under("Error") # {} \/ driver[live].turn = "unsent"
  \/ driver[live].exited /\ ~driver[live].reported
NothingInLimbo ==
  \A i \in in_flight :
    /\ live # 0
    /\ \/ Waits(i) \/ LeavesList(i) \/ SessionFails
       \/ \E k \in Under("TurnStarted") : updates[k].prompt.direct = i
=============================================================================
