---------------------------- MODULE ServiceStart ----------------------------
(***************************************************************************)
(* The services of one project (src/src/service/ and                       *)
(* src/src/daemon/actor/service_start.rs, docs/adr/0016): starting them in *)
(* `dependsOn` order, one readiness verdict per run, and holding a         *)
(* dependent until what it depends on is ready.                            *)
(*                                                                         *)
(* The actor handles one command or event at a time.  Beside it run, for   *)
(* each spawned process, the readiness monitor and the log readers         *)
(* (ready.rs), which share `settled` and `timed_out`, and the exit waiter  *)
(* (spawn.rs); and PortForward's watchers.  The declarations are read from *)
(* the file at each command and each event, and polled for changes.        *)
(***************************************************************************)
EXTENDS PortForward, FiniteSets, SequencesExt

CONSTANTS Svcs,      \* the services, as numbers in the order of their names
          Fwd,       \* the port-forward's name
          Configs,   \* what the file may declare
          Broken,    \* an existing file that does not parse
          Unprobed,  \* services without port, healthcheck and readyPattern
          MaxActs,   \* bound: commands, edits, timeouts, exits, refusals, lost forwards
          Faults     \* bound: what may go wrong

Names == Svcs \cup {Fwd}
Declared == [declared : SUBSET Svcs, deps : [Svcs -> SUBSET Names], fwd : Nat]

ASSUME ServiceAssumption ==
  /\ Svcs \subseteq Nat /\ IsFiniteSet(Svcs) /\ Fwd \notin Svcs
  /\ Configs \subseteq Declared /\ Configs # {} /\ Broken \notin Configs
  /\ Unprobed \subseteq Svcs /\ MaxActs \in Nat
  /\ Faults \subseteq {"refuse", "unreadable", "timeout", "exit"}

VARIABLES
  svc,      \* ServiceManager.services; `group` is the run whose processes it can kill
  runs,     \* of each run id given out; proc is "none" when nothing was spawned
  svcq,     \* service events under way to the actor
  file,     \* the workspace file
  applied,  \* ConfigObserver.applied
  \* bound and history
  acts,     \* what MaxActs bounds, so far
  wanted,   \* services a start has covered since they were last stopped
  skipped   \* the last wake-up passed a waiting service over, or went by a file
            \* that differs from the applied one

vars == <<svc, runs, svcq, fwd, watch, pfq, file, applied, acts, wanted, skipped>>

NoService == [status |-> "none", run |-> 0, alive |-> FALSE, held |-> {}, group |-> 0]
Process(s) ==
  [svc |-> s, proc |-> "up", stopping |-> FALSE, settled |-> FALSE, timed |-> FALSE,
   ready |-> "no", late |-> "no", gone |-> "no"]
Processless(s) == [Process(s) EXCEPT !.proc = "none"]
Event(r, kind) == [run |-> r, kind |-> kind]

Kinds == {"Running", "Stopped", "Failed", "NotReady", "LateReady"}

TypeOK ==
  /\ svc \in [Svcs -> [status : {"none", "Starting", "Running", "Failed", "Stopped"},
                       run : Nat, alive : BOOLEAN, held : SUBSET Names, group : Nat]]
  /\ \A s \in Svcs :
       /\ svc[s].run \in 0..Len(runs) /\ svc[s].group \in 0..svc[s].run
       /\ svc[s].run # 0 => runs[svc[s].run].svc = s
       /\ svc[s].held # {} => svc[s].status \in {"Starting", "Failed"}
  /\ \A r \in DOMAIN runs :
       runs[r] \in [svc : Svcs, proc : {"none", "up", "ok", "err"},
                    stopping : BOOLEAN, settled : BOOLEAN, timed : BOOLEAN,
                    ready : {"no", "won", "plain", "late", "sent"},
                    late : {"no", "checked", "swapped", "sent"},
                    gone : {"no", "marked", "sent"}]
  /\ svcq \in Seq([run : DOMAIN runs, kind : Kinds])
  /\ fwd \in [status : PfStatuses, served : BOOLEAN, run : 0..Len(watch), cfg : Nat]
  /\ watch \in Seq([at : Steps, once : BOOLEAN, fails : 0..MaxFailures])
  /\ pfq \in Seq(PfKinds)
  /\ file \in Configs \cup {Broken} /\ applied \in Configs
  /\ acts \in 0..MaxActs /\ wanted \subseteq Svcs /\ skipped \in BOOLEAN

Init ==
  /\ svc = [s \in Svcs |-> NoService] /\ runs = <<>> /\ svcq = <<>>
  /\ ForwardInit
  /\ file \in Configs /\ applied = file
  /\ acts = 0 /\ wanted = {} /\ skipped = FALSE

-----------------------------------------------------------------------------
(* The actor's operations, on the state st of one handler *)

Now == [svc |-> svc, runs |-> runs, q |-> svcq, fwd |-> fwd, watch |-> watch]

Becomes(st) ==
  /\ svc' = st.svc /\ runs' = st.runs /\ svcq' = st.q
  /\ fwd' = st.fwd /\ watch' = st.watch

(* A new entry of s under a new run id. *)
Enters(st, s, entry, run) ==
  [st EXCEPT !.runs = Append(@, run),
             !.svc[s] = [entry EXCEPT !.run = Len(st.runs) + 1]]
SendsFor(st, s, kind) == [st EXCEPT !.q = Append(@, Event(st.svc[s].run, kind))]

record_start_failure(st, s) ==
  LET entry == [NoService EXCEPT !.status = "Failed", !.group = st.svc[s].group]
  IN SendsFor(Enters(st, s, entry, Processless(s)), s, "Failed")

(* Mutation: nobody is told of a dependent that is failed. *)
HoldQuietly(st, s, deps, failed, refused) ==
  LET status == IF failed THEN "Failed" ELSE "Starting"
      entry == [NoService EXCEPT !.status = status, !.held = deps, !.group = st.svc[s].group]
  IN IF refused THEN record_start_failure(st, s) ELSE Enters(st, s, entry, Processless(s))
(* mark_waiting, and fail_waiting when `failed`.  refused: no port. *)
hold(st, s, deps, failed, refused) ==
  LET status == IF failed THEN "Failed" ELSE "Starting"
      entry == [NoService EXCEPT !.status = status, !.held = deps, !.group = st.svc[s].group]
      held == Enters(st, s, entry, Processless(s))
  IN IF refused THEN record_start_failure(st, s)
     ELSE IF failed THEN SendsFor(held, s, "Failed") ELSE held

(* stopping, alive and kill_group, as stop_key and start do them *)
Kill(st, s) ==
  LET e == st.svc[s] IN
  [st EXCEPT
    !.runs = [r \in DOMAIN st.runs |->
      [st.runs[r] EXCEPT !.stopping = @ \/ r = e.run,
                         !.proc = IF r = e.group /\ @ = "up" THEN "err" ELSE @]],
    !.svc[s].alive = FALSE, !.svc[s].group = 0]

(* Mutation: what the service waited for is kept. *)
StopKeepsHold(st, s) ==
  IF st.svc[s].status = "none" THEN st
  ELSE [Kill(st, s) EXCEPT !.svc[s].status = "Stopped"]
stop_key(st, s) ==
  IF st.svc[s].status = "none" THEN st
  ELSE [Kill(st, s) EXCEPT !.svc[s].status = "Stopped", !.svc[s].held = {}]

remove_service(st, s) == [stop_key(st, s) EXCEPT !.svc[s] = NoService]

StopAll(st, S) == FoldSet(LAMBDA s, acc : stop_key(acc, s), st, S)
RemoveAll(st, S) == FoldSet(LAMBDA s, acc : remove_service(acc, s), st, S)

Live(e) == e.status \in {"Starting", "Running"}

(* refused: no port, a placeholder without a port, or no spawn *)
start(st, s, refused) ==
  LET free == IF st.svc[s].status = "none" THEN st ELSE Kill(st, s)
      entry == [NoService EXCEPT !.status = "Starting", !.alive = TRUE,
                                 !.group = Len(st.runs) + 1]
      ready == [Process(s) EXCEPT !.settled = TRUE, !.ready = "sent"]
      up == Enters(free, s, entry, IF s \in Unprobed THEN ready ELSE Process(s))
  IN IF Live(st.svc[s]) /\ st.svc[s].held = {} THEN st
     ELSE IF refused THEN record_start_failure(free, s)
     ELSE IF s \in Unprobed THEN SendsFor(up, s, "Running") ELSE up

dependency_state(st, c, dep) ==
  CASE dep \in Svcs /\ st.svc[dep].status = "Running" -> "Ready"
    [] dep \in Svcs /\ st.svc[dep].status = "Starting" -> "Pending"
    [] dep \in Svcs /\ st.svc[dep].status \in {"Failed", "Stopped"} -> "Unavailable"
    [] dep = Fwd /\ st.fwd.status # "none" -> forward_state(st.fwd)
    [] dep = Fwd /\ st.fwd.status = "none" /\ c.fwd # 0 -> "Pending"
    [] OTHER -> "Ready"

dependency_gate(st, c, deps) ==
  LET states == {dependency_state(st, c, dep) : dep \in deps} IN
  CASE "Unavailable" \in states -> "Fail"
    [] "Unavailable" \notin states /\ "Pending" \in states -> "Wait"
    [] OTHER -> "Go"

dependency_closure(c, name) ==
  LET closed == {S \in SUBSET Names :
                   name \in S /\ \A s \in S \cap c.declared : c.deps[s] \subseteq S}
  IN {n \in Names : \A S \in closed : n \in S}
in_dependency_cycle(c, s) == \E dep \in c.deps[s] : s \in dependency_closure(c, dep)

(* Dependencies first *)
sorted_services(c) ==
  CHOOSE order \in SetToSeqs(c.declared) :
    \A i, j \in DOMAIN order :
      i < j /\ order[j] \in dependency_closure(c, order[i])
        => order[i] \in dependency_closure(c, order[j])

(* start_for_dependents, of the declared forwards among deps *)
StartsForward(st, c, deps) ==
  IF Fwd \in deps /\ c.fwd # 0 THEN insert_starting(st, c.fwd, TRUE) ELSE st

(* Mutation: a run that timed out counts as gone. *)
LaunchOverTimedOut(st, c, s, explicit, bad) ==
  LET e == st.svc[s]
      ready == StartsForward(st, c, c.deps[s])
      gate == dependency_gate(ready, c, c.deps[s])
  IN IF Live(e) THEN st
     ELSE IF in_dependency_cycle(c, s) THEN record_start_failure(ready, s)
     ELSE IF gate = "Go" THEN start(ready, s, s \in bad)
     ELSE hold(ready, s, c.deps[s], gate = "Fail", s \in bad)

launch_service(st, c, s, explicit, bad) ==
  LET e == st.svc[s]
      free == IF e.alive THEN stop_key(st, s) ELSE st
      ready == StartsForward(free, c, c.deps[s])
      gate == dependency_gate(ready, c, c.deps[s])
  IN IF Live(e) \/ (e.alive /\ ~explicit) THEN st
     ELSE IF in_dependency_cycle(c, s) THEN record_start_failure(ready, s)
     ELSE IF gate = "Go" THEN start(ready, s, s \in bad)
     ELSE hold(ready, s, c.deps[s], gate = "Fail", s \in bad)

(* start_services, and start_one_service for a closure: of the services S *)
Launch(st, c, S, explicit, bad) ==
  FoldLeft(LAMBDA acc, s :
             IF s \in S THEN launch_service(acc, c, s, s \in explicit, bad) ELSE acc,
           st, sorted_services(c))

waiting_in_project(st) ==
  {s \in Svcs : st.svc[s].status \in {"Starting", "Failed"} /\ st.svc[s].held # {}}

start_missing_forwards(st, c, deps) ==
  IF st.fwd.status = "none" THEN StartsForward(st, c, deps) ELSE st

(* One waiting service; `was` is its entry when the wake-up began. *)
Reconsider(st, c, s, was, bad) ==
  LET failed == was.status = "Failed"
      asked == IF failed THEN st ELSE start_missing_forwards(st, c, was.held)
      gate == dependency_gate(asked, c, was.held)
  IN IF s \notin c.declared THEN st
     ELSE IF gate = "Go" THEN start(asked, s, s \in bad)
     ELSE IF gate = "Fail" /\ ~failed THEN hold(asked, s, was.held, TRUE, s \in bad)
     ELSE asked

(* In the order of their names: the last of those left is woken last. *)
advance_waiting(st, c, bad) ==
  IF c = Broken THEN st
  ELSE MapThenFoldSet(LAMBDA s, acc : Reconsider(acc, c, s, st.svc[s], bad),
                      st, LAMBDA s : s, Max, waiting_in_project(st))

PassesOver(st, c) == \E s \in waiting_in_project(st) : c = Broken \/ s \notin c.declared

Acts == acts < MaxActs /\ acts' = acts + 1

(* What is refused a port or a spawn during a handler *)
Refused == IF "refuse" \in Faults THEN SUBSET Svcs ELSE {{}}

(* A handler that leaves the actor in st and then calls advance_waiting *)
Advances(st, bad) ==
  /\ Becomes(advance_waiting(st, file, bad))
  /\ skipped' = (PassesOver(st, file) \/ file # applied')
(* The same of an event, where a refusal counts *)
Wakes(st) ==
  \E bad \in Refused : Advances(st, bad) /\ IF bad = {} THEN UNCHANGED acts ELSE Acts

-----------------------------------------------------------------------------
(* Events *)

(* Mutation: a late readiness only revives a run already failed. *)
RevivesFailedOnly(st, ev) ==
  LET s == st.runs[ev.run].svc
      e == st.svc[s]
  IN IF e.run # ev.run THEN st
     ELSE CASE ev.kind = "Running" ->
               IF e.alive THEN [st EXCEPT !.svc[s].status = "Running"] ELSE st
          [] ev.kind \in {"Stopped", "Failed"} ->
               [st EXCEPT !.svc[s].status = ev.kind, !.svc[s].alive = FALSE]
          [] ev.kind = "NotReady" ->
               IF e.status = "Starting" THEN [st EXCEPT !.svc[s].status = "Failed"] ELSE st
          [] ev.kind = "LateReady" ->
               IF e.alive /\ e.status = "Failed"
               THEN [st EXCEPT !.svc[s].status = "Running"] ELSE st
apply_event(st, ev) ==
  LET s == st.runs[ev.run].svc
      e == st.svc[s]
  IN IF e.run # ev.run THEN st
     ELSE CASE ev.kind = "Running" ->
               IF e.alive THEN [st EXCEPT !.svc[s].status = "Running"] ELSE st
          [] ev.kind \in {"Stopped", "Failed"} ->
               [st EXCEPT !.svc[s].status = ev.kind, !.svc[s].alive = FALSE]
          [] ev.kind = "NotReady" ->
               IF e.status = "Starting" THEN [st EXCEPT !.svc[s].status = "Failed"] ELSE st
          [] ev.kind = "LateReady" ->
               IF e.alive /\ e.status \in {"Starting", "Failed"}
               THEN [st EXCEPT !.svc[s].status = "Running"] ELSE st

ServiceEvent ==
  /\ svcq # <<>>
  /\ UNCHANGED <<pfq, file, applied, wanted>>
  /\ Wakes(apply_event([Now EXCEPT !.q = Tail(@)], Head(svcq)))

ForwardEvent ==
  /\ pfq # <<>>
  /\ pfq' = Tail(pfq) /\ UNCHANGED <<file, applied, wanted>>
  /\ Wakes(apply_pf_event(Now, Head(pfq)))

(* handle_config_changes, of a file that has settled and parses *)
ConfigChanges ==
  LET kept == RemoveAll(Now, Svcs \ file.declared)
      changed == fwd.status # "none" /\ fwd.cfg # file.fwd
      retired == IF changed THEN remove_forward(kept) ELSE kept
  IN /\ file \notin {Broken, applied}
     /\ applied' = file /\ wanted' = wanted \cap file.declared
     /\ UNCHANGED <<pfq, file>>
     /\ Wakes(retired)

-----------------------------------------------------------------------------
(* Commands and edits of the file *)

EditFile ==
  /\ Acts
  /\ file' \in Configs \cup (IF "unreadable" \in Faults THEN {Broken} ELSE {})
  /\ file' # file
  /\ UNCHANGED <<svc, runs, svcq, fwd, watch, pfq, applied, wanted, skipped>>

(* What a start of s starts *)
Covered(c, s) == dependency_closure(c, s) \cap c.declared

Launches(st, S, explicit) ==
  /\ \E bad \in Refused : Becomes(Launch(st, file, S, explicit, bad))
  /\ wanted' = wanted \cup S

StartService(s) ==
  /\ Acts /\ file # Broken
  /\ Launches(Now, Covered(file, s), {s})
  /\ UNCHANGED <<pfq, file, applied, skipped>>

StartAllServices ==
  /\ Acts /\ file # Broken
  /\ Launches(Now, file.declared, {})
  /\ UNCHANGED <<pfq, file, applied, skipped>>

(* start_services, then start_portforwards *)
OpenProject ==
  /\ Acts /\ file # Broken
  /\ \E bad \in Refused :
       LET st == Launch(Now, file, file.declared, {}, bad) IN
       Becomes(IF file.fwd = 0 THEN st ELSE insert_starting(st, file.fwd, FALSE))
  /\ wanted' = wanted \cup file.declared
  /\ UNCHANGED <<pfq, file, applied, skipped>>

(* A service the file does not declare is only stopped, and nobody is      *)
(* woken for it.                                                           *)
RestartService(s) ==
  /\ Acts
  /\ IF file = Broken
     THEN Becomes(stop_key(Now, s)) /\ wanted' = wanted \ {s}
     ELSE Launches(stop_key(Now, s), Covered(file, s), {s})
  /\ skipped' = (skipped \/ file = Broken \/ s \notin file.declared)
  /\ UNCHANGED <<pfq, file, applied>>

StopService(s) ==
  /\ Acts
  /\ wanted' = wanted \ {s} /\ UNCHANGED <<pfq, file, applied>>
  /\ \E bad \in Refused : Advances(stop_key(Now, s), bad)

StopProject ==
  /\ Acts
  /\ Becomes(stop_forward(StopAll(Now, Svcs)))
  /\ wanted' = {}
  /\ UNCHANGED <<pfq, file, applied, skipped>>

StartPortForward ==
  /\ Acts /\ file # Broken /\ file.fwd # 0
  /\ Becomes(insert_starting(Now, file.fwd, FALSE))
  /\ UNCHANGED <<pfq, file, applied, wanted, skipped>>

StopPortForward ==
  /\ Acts /\ fwd.status # "none"
  /\ UNCHANGED <<pfq, file, applied, wanted>>
  /\ \E bad \in Refused : Advances(stop_forward(Now), bad)

-----------------------------------------------------------------------------
(* A spawned process and the tasks beside it *)

RunGoes(r, run) == runs' = [runs EXCEPT ![r] = run]
Reports(r, kind) == svcq' = Append(svcq, Event(r, kind))
Beside == UNCHANGED <<svc, fwd, watch, pfq, file, applied, wanted, skipped>>

(* report_running of a probe or of a log line: the swap, the load, the send *)
Settles(r) ==
  /\ runs[r].proc # "none" /\ ~runs[r].settled
  /\ RunGoes(r, [runs[r] EXCEPT !.settled = TRUE, !.ready = "won"])
  /\ UNCHANGED svcq
LoadsTimedOut(r) ==
  /\ runs[r].ready = "won"
  /\ RunGoes(r, [runs[r] EXCEPT !.ready = IF runs[r].timed THEN "late" ELSE "plain"])
  /\ UNCHANGED svcq
ReportsReady(r) ==
  /\ runs[r].ready \in {"plain", "late"}
  /\ RunGoes(r, [runs[r] EXCEPT !.ready = "sent"])
  /\ Reports(r, IF runs[r].ready = "late" THEN "LateReady" ELSE "Running")

(* report_not_ready: the load, the swap, the send *)
TimesOut(r) ==
  /\ Acts /\ "timeout" \in Faults
  /\ runs[r].proc # "none" /\ ~runs[r].settled /\ runs[r].late = "no"
  /\ RunGoes(r, [runs[r] EXCEPT !.late = "checked"])
  /\ UNCHANGED svcq
SwapsTimedOut(r) ==
  /\ runs[r].late = "checked"
  /\ RunGoes(r, [runs[r] EXCEPT !.late = "swapped", !.timed = TRUE])
  /\ UNCHANGED svcq
ReportsNotReady(r) ==
  /\ runs[r].late = "swapped"
  /\ RunGoes(r, [runs[r] EXCEPT !.late = "sent"])
  /\ Reports(r, "NotReady")

Exits(r) ==
  /\ Acts /\ "exit" \in Faults
  /\ runs[r].proc = "up"
  /\ \E code \in {"ok", "err"} : RunGoes(r, [runs[r] EXCEPT !.proc = code])
  /\ UNCHANGED svcq
(* The exit waiter *)
ExitSeen(r) ==
  /\ runs[r].proc \in {"ok", "err"} /\ runs[r].gone = "no"
  /\ RunGoes(r, [runs[r] EXCEPT !.settled = TRUE, !.gone = "marked"])
  /\ UNCHANGED svcq
ReportsExit(r) ==
  /\ runs[r].gone = "marked"
  /\ RunGoes(r, [runs[r] EXCEPT !.gone = "sent"])
  /\ Reports(r, IF runs[r].stopping \/ runs[r].proc = "ok" THEN "Stopped" ELSE "Failed")

Tasks(r) ==
  \/ TimesOut(r) \/ Exits(r)
  \/ /\ \/ Settles(r) \/ LoadsTimedOut(r) \/ ReportsReady(r)
        \/ SwapsTimedOut(r) \/ ReportsNotReady(r)
        \/ ExitSeen(r) \/ ReportsExit(r)
     /\ UNCHANGED acts

Watcher(g) ==
  Watches(g) /\ UNCHANGED <<svc, runs, svcq, file, applied, acts, wanted, skipped>>
ForwardLost(g) ==
  Acts /\ Trouble(g) /\ UNCHANGED <<svc, runs, svcq, file, applied, wanted, skipped>>

Next ==
  \/ ServiceEvent \/ ForwardEvent \/ ConfigChanges \/ EditFile
  \/ \E s \in Svcs : StartService(s) \/ RestartService(s) \/ StopService(s)
  \/ StartAllServices \/ OpenProject \/ StopProject
  \/ StartPortForward \/ StopPortForward
  \/ \E r \in DOMAIN runs : Tasks(r) /\ Beside
  \/ \E g \in DOMAIN watch : Watcher(g) \/ ForwardLost(g)

Spec == Init /\ [][Next]_vars

(* The actor handles what the watchers send, and a watcher whose commands  *)
(* come back goes on.  A command or an edit starts one watcher at most.    *)
LiveSpec ==
  /\ Spec
  /\ WF_vars(ForwardEvent)
  /\ \A g \in 1..MaxActs : WF_vars(g \in DOMAIN watch /\ Watcher(g))

-----------------------------------------------------------------------------
(* A process that runs is the newest run of a service that was started and *)
(* not stopped since, behind an entry that knows it and can kill it: no    *)
(* second copy, nothing started behind a stop, no hold over a live process *)
(* (ADR 0016, invariants 2 and 5; launch_service, start, hold, stop_key).  *)
ProcessesAreOwned ==
  \A r \in DOMAIN runs : runs[r].proc = "up" =>
    LET e == svc[runs[r].svc] IN
    /\ e.run = r /\ e.group = r /\ e.alive /\ e.held = {}
    /\ e.status \in {"Starting", "Running", "Failed"}
    /\ runs[r].svc \in wanted

(* Everything run r had to say has reached the actor. *)
Heard(r) ==
  /\ \A i \in DOMAIN svcq : svcq[i].run # r
  /\ runs[r].ready \in {"no", "sent"} /\ runs[r].late \in {"no", "sent"}
  /\ runs[r].proc = "up" \/ runs[r].gone = "sent"

(* When everything a run had to say has been heard, the entry says what    *)
(* became of it: ready even when its readiness raced with the timeout,     *)
(* failed when it only timed out, ended when it exited in between          *)
(* (ADR 0016, invariant 1; report_running, report_not_ready, apply_event). *)
StatusSettles ==
  \A s \in Svcs : LET e == svc[s] IN
    e.run # 0 /\ runs[e.run].proc # "none" /\ ~runs[e.run].stopping /\ Heard(e.run) =>
      LET run == runs[e.run] IN
      /\ e.alive <=> run.proc = "up"
      /\ e.status = CASE run.proc = "ok" -> "Stopped"
                      [] run.proc = "err" -> "Failed"
                      [] run.proc = "up" /\ run.ready = "sent" -> "Running"
                      [] run.proc = "up" /\ run.ready = "no" /\ run.late = "sent" -> "Failed"
                      [] OTHER -> "Starting"

(* Once every event of a service is handled, no dependent waits for what   *)
(* has been settled, by the file the actor applied: one that waits has a   *)
(* dependency that is still coming up, and one that failed for a dependency *)
(* has one that is not ready                                               *)
(* (ADR 0016, invariant 3; every caller of advance_waiting).               *)
NoMissedWakeup ==
  svcq = <<>> /\ ~skipped =>
    \A s \in waiting_in_project(Now) :
      LET gate == dependency_gate(Now, applied, svc[s].held) IN
      IF svc[s].status = "Starting" THEN gate = "Wait" ELSE gate # "Go"

(* src/src/portforward/mod.rs:114: notifying a forward's `stop` "asks the  *)
(* watcher task to kill its kubectl child and exit".                       *)
StopEndsForward ==
  \A g \in 1..MaxActs :
    (g \in DOMAIN watch /\ fwd.run = g /\ fwd.status = "Stopped")
      ~> (g \in DOMAIN watch /\ watch[g].at = "gone")
=============================================================================
