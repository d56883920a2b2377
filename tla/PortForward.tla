---------------------------- MODULE PortForward ----------------------------
(***************************************************************************)
(* One declared port-forward of a project (src/src/portforward/): the      *)
(* actor's entry, the watcher tasks that run `kubectl port-forward` for    *)
(* it, and the events they send.                                           *)
(*                                                                         *)
(* Each start makes a new watcher and a new `stop`, which the entry keeps. *)
(* notify_waiters wakes who waits on it at that moment and stores nothing: *)
(* a watcher that is asking lsof or kubectl does not hear it, the check at *)
(* the loop's top (watch.rs:31) never sees it, and one that waits for its  *)
(* port takes it for a failed connection and retries (watch.rs:242).       *)
(* Events name the forward, not the watcher.                               *)
(***************************************************************************)
EXTENDS Naturals, Sequences

CONSTANTS MaxFailures,   \* MAX_CONSECUTIVE_FAILURES
          MaxPfEvents    \* bound: events a watcher finds waiting when it connects

ASSUME PortForwardAssumption == MaxFailures \in Nat \ {0} /\ MaxPfEvents \in Nat

VARIABLES
  fwd,     \* the actor's entry; `run` is the watcher its `stop` belongs to
  watch,   \* the watchers ever spawned
  pfq      \* events under way to the actor

PfStatuses == {"none", "Starting", "Active", "Failed", "Stopped"}
Steps == {"probe", "look", "connect", "up", "recheck", "sleep", "gone"}
PfKinds == {"Active", "Restarted", "Failed", "ServedLocally"}

NoForward == [status |-> "none", served |-> FALSE, run |-> 0, cfg |-> 0]

ForwardInit == fwd = NoForward /\ watch = <<>> /\ pfq = <<>>

Up == {"Starting", "Active"}

(* Actor: st is the state of the runtime within one command. *)
insert_starting(st, cfg, for_dependent) ==
  IF st.fwd.status \in Up THEN st
  ELSE [st EXCEPT
    !.fwd = [status |-> "Starting", served |-> FALSE,
             run |-> Len(st.watch) + 1, cfg |-> cfg],
    !.watch = Append(@, [at |-> IF for_dependent THEN "probe" ELSE "look",
                         once |-> FALSE, fails |-> 0])]

Hears == {"probe", "up", "recheck", "sleep"}

stop_forward(st) ==
  IF st.fwd.status = "none" THEN st
  ELSE [st EXCEPT
    !.fwd.status = "Stopped",
    !.watch = [g \in DOMAIN st.watch |->
                 IF g = st.fwd.run /\ st.watch[g].at \in Hears
                 THEN [st.watch[g] EXCEPT !.at = "gone"] ELSE st.watch[g]]]

remove_forward(st) == [stop_forward(st) EXCEPT !.fwd = NoForward]

forward_state(f) ==
  CASE f.status = "Active" \/ (f.status = "Stopped" /\ f.served) -> "Ready"
    [] f.status = "Starting" -> "Pending"
    [] OTHER -> "Unavailable"

apply_pf_event(st, kind) ==
  IF st.fwd.status = "none" THEN st
  ELSE CASE kind \in {"Active", "Restarted"} -> [st EXCEPT !.fwd.status = "Active"]
         [] kind = "Failed" -> [st EXCEPT !.fwd.status = "Failed"]
         [] kind = "ServedLocally" ->
              IF st.fwd.status # "Starting" THEN st
              ELSE [st EXCEPT !.fwd.status = "Stopped", !.fwd.served = TRUE]

-----------------------------------------------------------------------------
(* A watcher.  What lsof, kubectl and the local port answer is the          *)
(* environment's choice.                                                    *)

Goes(g, w) == watch' = [watch EXCEPT ![g] = w]
Sends(kind) == pfq' = Append(pfq, kind)

(* serve_for_dependent: a server that already answers is used instead. *)
Probe(g) ==
  /\ watch[g].at = "probe"
  /\ \/ Goes(g, [watch[g] EXCEPT !.at = "gone"]) /\ Sends("ServedLocally")
     \/ Goes(g, [watch[g] EXCEPT !.at = "look"]) /\ UNCHANGED pfq
  /\ UNCHANGED fwd

(* The loop's top: the port is served as before, another process holds it, *)
(* or kubectl is spawned for a pod.                                        *)
Look(g) ==
  /\ watch[g].at = "look"
  /\ \/ watch[g].once /\ Goes(g, [watch[g] EXCEPT !.at = "recheck", !.fails = 0])
        /\ UNCHANGED pfq
     \/ ~watch[g].once /\ Goes(g, [watch[g] EXCEPT !.at = "gone"]) /\ Sends("Failed")
     \/ Goes(g, [watch[g] EXCEPT !.at = "connect"]) /\ UNCHANGED pfq
  /\ UNCHANGED fwd

Connected(g) ==
  /\ watch[g].at = "connect"
  /\ Len(pfq) < MaxPfEvents
  /\ Sends(IF watch[g].once THEN "Restarted" ELSE "Active")
  /\ Goes(g, [at |-> "up", once |-> TRUE, fails |-> 0])
  /\ UNCHANGED fwd

(* A pause is over. *)
LooksAgain(g) ==
  /\ watch[g].at \in {"recheck", "sleep"}
  /\ Goes(g, [watch[g] EXCEPT !.at = "look"])
  /\ UNCHANGED <<fwd, pfq>>

(* The port is not released, there is no pod or no kubectl, the port never *)
(* opened, or a stop ended the wait for it.                                *)
Fails(g) ==
  LET fails == watch[g].fails + 1 IN
  /\ watch[g].at \in {"look", "connect"}
  /\ IF fails >= MaxFailures
     THEN Goes(g, [watch[g] EXCEPT !.at = "gone"]) /\ Sends("Failed")
     ELSE Goes(g, [watch[g] EXCEPT !.at = "sleep", !.fails = fails]) /\ UNCHANGED pfq
  /\ UNCHANGED fwd

KubectlExits(g) ==
  /\ watch[g].at = "up"
  /\ Goes(g, [watch[g] EXCEPT !.at = "look"])
  /\ UNCHANGED <<fwd, pfq>>

Watches(g) == Probe(g) \/ Look(g) \/ Connected(g) \/ LooksAgain(g)
Trouble(g) == Fails(g) \/ KubectlExits(g)
=============================================================================
