----------------------------- MODULE FactoryProofs -----------------------------
(* Proofs about Factory, for any tasks and limits, and any failures,        *)
(* crashes and use of the project folder by its owner.                      *)
EXTENDS Factory, SequenceTheorems, FiniteSetTheorems, TLAPS

(* The parts of what is saved that these proofs are about. *)
Frame(x) ==
  /\ {"tasks", "entry", "outcome", "pipe", "lease"} \subseteq DOMAIN x
  /\ DOMAIN x.entry = Tasks
  /\ {"task", "state", "back"} \subseteq DOMAIN x.lease
  /\ x.lease.task \in Tasks \cup {NoTask}

(* A run in the project folder is the only one, and nobody else's lease    *)
(* is in its way.                                                          *)
Alone(x) ==
  \A t \in Tasks : InFolder(t) /\ InRun(x.entry[t]) =>
     /\ x.lease.task \in {t, NoTask}
     /\ \A u \in Tasks : InFolder(u) /\ InRun(x.entry[u]) => u = t

(* A lease is a folder task's, and is given back after its run. *)
LeaseOK(x) ==
  /\ x.lease.task = NoTask <=> x.lease.state = "none"
  /\ x.lease.task # NoTask => InFolder(x.lease.task) /\ x.entry[x.lease.task] # "none"
  /\ x.lease.state \in {"returning", "held"} => ~InRun(x.entry[x.lease.task])

(* What may be on disk after any of the writes of a handler. *)
Image(x) == Frame(x) /\ Alone(x) /\ LeaseOK(x)

(* Between two handlers: a folder being prepared has no run yet. *)
Settled(x) == x.lease.state = "preparing" => ~InRun(x.entry[x.lease.task])

(* A task that entered the queue is known ever after. *)
Grows(x, y) == \A t \in Tasks : x.entry[t] # "none" => y.entry[t] # "none"

IsSeq(s) == \E S : s \in Seq(S)

(* A handler under way, that began with o. *)
Loose(a, o) ==
  /\ {"x", "w"} \subseteq DOMAIN a /\ IsSeq(a.w) /\ Image(a.x) /\ Grows(o, a.x)
  /\ \A i \in 1..Len(a.w) : Image(a.w[i]) /\ Grows(a.w[i], a.x)
Sound(a, o) == Loose(a, o) /\ Settled(a.x)

(* What is saved, and what the actor holds. *)
Stands(l, x) ==
  /\ IsSeq(l) /\ Len(l) >= 1 /\ \A i \in 1..Len(l) : Image(l[i]) /\ Grows(l[i], x)
  /\ Image(x) /\ Settled(x)

Good == Stands(log, m) /\ DOMAIN kind = Tasks

-----------------------------------------------------------------------------
(* Sequences *)

LEMMA AppendAny ==
  ASSUME NEW s, IsSeq(s), NEW e
  PROVE  LET n == Append(s, e) IN
         /\ IsSeq(n) /\ Len(s) \in Nat /\ Len(n) = Len(s) + 1
         /\ \A i \in 1..Len(s) : n[i] = s[i]
         /\ n[Len(s) + 1] = e
<1>1. PICK S : s \in Seq(S)
  BY DEF IsSeq
<1>. DEFINE T == S \cup {e}
<1>2. s \in Seq(T) /\ e \in T
  BY <1>1, SeqMonotonic
<1>. HIDE DEF T
<1>. QED
  BY <1>2, AppendProperties, LenProperties DEF IsSeq

LEMMA ConcatAny ==
  ASSUME NEW s, IsSeq(s), NEW t, IsSeq(t)
  PROVE  /\ IsSeq(s \o t) /\ Len(s) \in Nat /\ Len(t) \in Nat /\ Len(s \o t) = Len(s) + Len(t)
         /\ \A i \in 1..Len(s \o t) :
              \/ i \in 1..Len(s) /\ (s \o t)[i] = s[i]
              \/ i - Len(s) \in 1..Len(t) /\ (s \o t)[i] = t[i - Len(s)]
<1>1. PICK S : s \in Seq(S)
  BY DEF IsSeq
<1>2. PICK T : t \in Seq(T)
  BY DEF IsSeq
<1>. DEFINE U == S \cup T
<1>3. s \in Seq(U) /\ t \in Seq(U)
  BY <1>1, <1>2, SeqMonotonic
<1>. HIDE DEF U
<1>4. /\ s \o t \in Seq(U) /\ Len(s \o t) = Len(s) + Len(t)
      /\ \A i \in 1..Len(s) + Len(t) :
           (s \o t)[i] = IF i <= Len(s) THEN s[i] ELSE t[i - Len(s)]
  BY <1>3, ConcatProperties
<1>5. Len(s) \in Nat /\ Len(t) \in Nat
  BY <1>3, LenProperties
<1>. QED
  BY <1>4, <1>5 DEF IsSeq

LEMMA TailAny ==
  ASSUME NEW s, IsSeq(s), Len(s) > 1
  PROVE  /\ IsSeq(Tail(s)) /\ Len(s) \in Nat /\ Len(Tail(s)) = Len(s) - 1
         /\ \A i \in 1..Len(Tail(s)) : Tail(s)[i] = s[i + 1]
<1>1. PICK S : s \in Seq(S)
  BY DEF IsSeq
<1>2. s # <<>> /\ Len(s) \in Nat
  BY <1>1, LenProperties
<1>. QED
  BY <1>1, <1>2, HeadTailProperties DEF IsSeq

-----------------------------------------------------------------------------
(* Images *)

LEMMA GrowsTwice ==
  ASSUME NEW x, NEW y, NEW z, Grows(x, y), Grows(y, z)
  PROVE  Grows(x, z)
  BY DEF Grows

(* Entries and lease are all that counts. *)
SameKeys(x, y) == Frame(y) /\ y.entry = x.entry /\ y.lease = x.lease

LEMMA SameImage ==
  ASSUME NEW x, Image(x), NEW y, SameKeys(x, y)
  PROVE  Image(y) /\ Grows(x, y) /\ (Settled(x) => Settled(y))
  BY DEF Image, SameKeys, Alone, LeaseOK, Grows, Settled

(* An entry that leaves its run, or moves within it, or had none. *)
LEMMA EntryImage ==
  ASSUME NEW x, Image(x), NEW t \in Tasks, NEW e, e # "none", ~InRun(e) \/ InRun(x.entry[t]),
         NEW y, Frame(y), y.entry = [x.entry EXCEPT ![t] = e], y.lease = x.lease
  PROVE  Image(y) /\ Grows(x, y) /\ (Settled(x) => Settled(y))
<1>1. y.entry = [x.entry EXCEPT ![t] = e]
  OBVIOUS
<1>2. \A u \in Tasks : InRun(y.entry[u]) => InRun(x.entry[u])
  BY <1>1 DEF Image, Frame
<1>3. \A u \in Tasks : x.entry[u] # "none" => y.entry[u] # "none"
  BY <1>1 DEF Image, Frame
<1>4. Alone(y)
  BY <1>1, <1>2 DEF Image, Alone
<1>5. LeaseOK(y) /\ (Settled(x) => Settled(y))
  <2>1. x.lease.task # NoTask => x.lease.task \in Tasks
    BY DEF Image, Frame
  <2>. QED
    BY <1>1, <1>2, <1>3, <2>1 DEF Image, LeaseOK, Settled
<1>. QED
  BY <1>1, <1>3, <1>4, <1>5 DEF Image, Grows

(* An entry that comes to its run. *)
MayRun(x, t) ==
  /\ InFolder(t) => /\ x.lease.task \in {t, NoTask}
                    /\ \A u \in Tasks : InFolder(u) => ~InRun(x.entry[u])
  /\ x.lease.task = t => x.lease.state \notin {"returning", "held"}

LEMMA StartImage ==
  ASSUME NEW x, Image(x), NEW t \in Tasks, MayRun(x, t),
         NEW y, Frame(y), y.entry = [x.entry EXCEPT ![t] = "running"], y.lease = x.lease
  PROVE  /\ Image(y) /\ Grows(x, y)
         /\ Settled(x) /\ x.lease.task # t => Settled(y)
<1>1. y.entry = [x.entry EXCEPT ![t] = "running"]
  OBVIOUS
<1>2. \A u \in Tasks : u # t => y.entry[u] = x.entry[u]
  BY <1>1 DEF Image, Frame
<1>3. y.entry[t] = "running"
  BY <1>1 DEF Image, Frame
<1>4. Alone(y)
  BY <1>1, <1>2, <1>3 DEF Image, Alone, MayRun
<1>5. x.lease.task # NoTask => x.lease.task \in Tasks
  BY DEF Image, Frame
<1>6. LeaseOK(y) /\ (Settled(x) /\ x.lease.task # t => Settled(y))
  BY <1>1, <1>2, <1>3, <1>5, FactoryAssumption
     DEF Image, LeaseOK, MayRun, Settled, FactoryAssumption
<1>. QED
  BY <1>1, <1>2, <1>3, <1>4, <1>6 DEF Image, Grows

LEMMA LeaseImage ==
  ASSUME NEW x, Image(x), x.lease.task # NoTask, NEW state, state # "none",
         state \in {"returning", "held"} => ~InRun(x.entry[x.lease.task]),
         NEW y, Frame(y), y.entry = x.entry, y.lease.task = x.lease.task, y.lease.state = state
  PROVE  Image(y) /\ Grows(x, y) /\ (state # "preparing" => Settled(y))
  BY DEF Image, Alone, LeaseOK, Grows, Settled

LEMMA DropImage ==
  ASSUME NEW x, Image(x), NEW y, y = [x EXCEPT !.lease = NoLease]
  PROVE  /\ Image(y) /\ Grows(x, y) /\ Settled(y)
         /\ y.entry = x.entry /\ y.lease = NoLease
<1>1. /\ Frame(y) /\ y.entry = x.entry /\ y.lease = NoLease
      /\ y.lease.task = NoTask /\ y.lease.state = "none"
  BY DEF Image, Frame, NoLease
<1>. QED
  BY <1>1 DEF Image, Alone, LeaseOK, Grows, Settled

LEMMA BeginImage ==
  ASSUME NEW x, Image(x), NEW t \in Tasks, InFolder(t), x.entry[t] = "queued",
         \A u \in Tasks : InFolder(u) => ~InRun(x.entry[u]),
         NEW y, y = [x EXCEPT !.lease = [task |-> t, state |-> "preparing", back |-> "none"]]
  PROVE  /\ Image(y) /\ Grows(x, y) /\ Settled(y) /\ y.entry = x.entry
<1>1. /\ Frame(y) /\ y.entry = x.entry
      /\ y.lease.task = t /\ y.lease.state = "preparing"
  BY DEF Image, Frame
<1>. QED
  BY <1>1, FactoryAssumption
     DEF Image, Alone, LeaseOK, Grows, Settled, InRun, FactoryAssumption

-----------------------------------------------------------------------------
(* Handlers *)

(* One write more, or one that waits for the next. *)
LEMMA MoveLoose ==
  ASSUME NEW a, NEW o, Loose(a, o), NEW b, {"x", "w"} \subseteq DOMAIN b,
         Image(b.x), Grows(a.x, b.x), b.w = a.w \/ b.w = Append(a.w, b.x)
  PROVE  Loose(b, o)
<1>1. Grows(o, b.x) /\ \A i \in 1..Len(a.w) : Image(a.w[i]) /\ Grows(a.w[i], b.x)
  BY GrowsTwice DEF Loose
<1>2. CASE b.w = a.w
  BY <1>1, <1>2 DEF Loose
<1>3. CASE b.w = Append(a.w, b.x)
  <2>1. /\ IsSeq(b.w) /\ Len(a.w) \in Nat /\ Len(b.w) = Len(a.w) + 1
        /\ \A i \in 1..Len(a.w) : b.w[i] = a.w[i]
        /\ b.w[Len(a.w) + 1] = b.x
    BY <1>3, AppendAny DEF Loose
  <2>2. Grows(b.x, b.x)
    BY DEF Grows
  <2>3. ASSUME NEW i \in 1..Len(b.w)
        PROVE  Image(b.w[i]) /\ Grows(b.w[i], b.x)
    <3>1. i \in 1..Len(a.w) \/ i = Len(a.w) + 1
      BY <2>1
    <3>. QED
      BY <1>1, <2>1, <2>2, <3>1
  <2>. QED
    BY <1>1, <2>1, <2>3 DEF Loose
<1>. QED
  BY <1>2, <1>3

(* What a handler notes beside what is saved. *)
LEMMA Notes ==
  ASSUME NEW a, NEW o, NEW b, {"x", "w"} \subseteq DOMAIN b, b.x = a.x, b.w = a.w
  PROVE  (Loose(a, o) => Loose(b, o)) /\ (Sound(a, o) => Sound(b, o))
  BY DEF Loose, Sound

LEMMA SaveLoose ==
  ASSUME NEW a, NEW o, Loose(a, o), NEW x, Image(x), Grows(a.x, x)
  PROVE  Loose(Save(a, x), o) /\ Save(a, x).x = x /\ (Settled(x) => Sound(Save(a, x), o))
<1>1. /\ {"x", "w"} \subseteq DOMAIN Save(a, x)
      /\ Save(a, x).x = x /\ Save(a, x).w = Append(a.w, x)
  BY DEF Loose, Save
<1>2. Loose(Save(a, x), o)
  BY <1>1, MoveLoose
<1>. QED
  BY <1>1, <1>2 DEF Sound

(* Fields no lease or entry depends on. *)
LEMMA SaveSame ==
  ASSUME NEW a, NEW o, Loose(a, o), NEW x, SameKeys(a.x, x)
  PROVE  /\ Loose(Save(a, x), o) /\ (Sound(a, o) => Sound(Save(a, x), o))
         /\ Save(a, x).x = x
<1>1. Image(x) /\ Grows(a.x, x) /\ (Settled(a.x) => Settled(x))
  BY SameImage DEF Loose
<1>. QED
  BY <1>1, SaveLoose DEF Sound

LEMMA PutLease ==
  ASSUME NEW a, NEW o, Loose(a, o), a.x.lease.task # NoTask, NEW state, state # "none",
         state \in {"returning", "held"} => ~InRun(a.x.entry[a.x.lease.task])
  PROVE  LET b == runner_put_lease(a, state) IN
         /\ Loose(b, o) /\ (state # "preparing" => Sound(b, o))
         /\ b.x.entry = a.x.entry /\ b.x.lease.task = a.x.lease.task
<1>1. Image(a.x)
  BY DEF Loose
<1>2. PICK y : y = [a.x EXCEPT !.lease.state = state]
  OBVIOUS
<1>3. /\ Frame(y) /\ y.entry = a.x.entry
      /\ y.lease.task = a.x.lease.task /\ y.lease.state = state
  BY <1>1, <1>2 DEF Image, Frame
<1>4. Image(y) /\ Grows(a.x, y) /\ (state # "preparing" => Settled(y))
  BY <1>1, <1>3, LeaseImage
<1>5. runner_put_lease(a, state) = Save(a, y)
  BY <1>2 DEF runner_put_lease
<1>. QED
  BY <1>3, <1>4, <1>5, SaveLoose

LEMMA DropLease ==
  ASSUME NEW a, NEW o, Loose(a, o)
  PROVE  Sound(runner_drop_lease(a), o)
<1>1. Image(a.x)
  BY DEF Loose
<1>2. PICK y : y = [a.x EXCEPT !.lease = NoLease]
  OBVIOUS
<1>3. Image(y) /\ Grows(a.x, y) /\ Settled(y)
  BY <1>1, <1>2, DropImage
<1>4. runner_drop_lease(a) = Save(a, y)
  BY <1>2 DEF runner_drop_lease
<1>. QED
  BY <1>3, <1>4, SaveLoose

(* The folder can be given back once its task is not in its run. *)
LEMMA GiveBack ==
  ASSUME NEW a, NEW o, Loose(a, o), a.x.lease.task # NoTask, ~InRun(a.x.entry[a.x.lease.task])
  PROVE  LET b == runner_give_back(a) IN
         Sound(b, o) /\ b.x.entry = a.x.entry /\ b.x.lease.task = a.x.lease.task
<1>. DEFINE c == runner_put_lease(a, "returning")
<1>1. Sound(c, o) /\ c.x.entry = a.x.entry /\ c.x.lease.task = a.x.lease.task
  BY PutLease
<1>2. runner_give_back(a) = [c EXCEPT !.job = Waiting("return")]
  BY DEF runner_give_back
<1>3. {"x", "w"} \subseteq DOMAIN c
  BY <1>1 DEF Sound, Loose
<1>. HIDE DEF c
<1>. QED
  BY <1>1, <1>2, <1>3, Notes

LEMMA EntryLeft ==
  ASSUME NEW a, NEW o, Sound(a, o), NEW t \in Tasks, ~InRun(a.x.entry[t])
  PROVE  LET b == runner_checkout_entry_left(a, t) IN
         Sound(b, o) /\ b.x.entry = a.x.entry /\ b.x.lease.task = a.x.lease.task
<1>1. CASE a.x.lease.task = t /\ a.x.lease.state = "running"
  <2>1. a.x.lease.task # NoTask
    BY <1>1, FactoryAssumption DEF FactoryAssumption
  <2>. QED
    BY <1>1, <2>1, GiveBack DEF Sound, runner_checkout_entry_left
<1>2. CASE ~(a.x.lease.task = t /\ a.x.lease.state = "running")
  BY <1>2 DEF runner_checkout_entry_left
<1>. QED
  BY <1>1, <1>2

(* An entry that leaves its run or moves within it. *)
LEMMA PutEntry ==
  ASSUME NEW a, NEW o, Sound(a, o), NEW t \in Tasks, NEW e, e # "none",
         ~InRun(e) \/ InRun(a.x.entry[t])
  PROVE  LET b == runner_put_entry(a, t, e) IN
         /\ Sound(b, o) /\ b.x.entry = [a.x.entry EXCEPT ![t] = e]
         /\ b.x.lease.task = a.x.lease.task
<1>1. Image(a.x) /\ Frame(a.x) /\ Loose(a, o) /\ Settled(a.x)
  BY DEF Sound, Loose, Image
<1>2. PICK y : y = [a.x EXCEPT !.entry[t] = e]
  OBVIOUS
<1>3. Frame(y) /\ y.entry = [a.x.entry EXCEPT ![t] = e] /\ y.lease = a.x.lease
  BY <1>1, <1>2 DEF Frame
<1>4. Image(y) /\ Grows(a.x, y) /\ Settled(y)
  BY <1>1, <1>3, EntryImage
<1>5. PICK c : c = Save(a, y)
  OBVIOUS
<1>6. Sound(c, o) /\ c.x = y
  BY <1>1, <1>4, <1>5, SaveLoose
<1>7. c.x.entry[t] = e
  BY <1>1, <1>3, <1>6 DEF Frame
<1>8. runner_put_entry(a, t, e) = IF InRun(e) THEN c ELSE runner_checkout_entry_left(c, t)
  BY <1>2, <1>5 DEF runner_put_entry
<1>. QED
  BY <1>3, <1>6, <1>7, <1>8, EntryLeft

LEMMA EndEntry ==
  ASSUME NEW a, NEW o, Sound(a, o), NEW t \in Tasks
  PROVE  Sound(runner_end_entry(a, t), o)
<1>1. ~InRun("left") /\ "left" # "none"
  BY DEF InRun
<1>. QED
  BY <1>1, PutEntry DEF runner_end_entry

PutsRun(a, t, b) == \E outcome, keep : b = runner_put_run(a, t, outcome, keep)

LEMMA PutRun ==
  ASSUME NEW a, NEW o, Loose(a, o), NEW t \in Tasks, NEW b, PutsRun(a, t, b)
  PROVE  /\ Loose(b, o) /\ (Sound(a, o) => Sound(b, o))
         /\ b.x.entry = a.x.entry /\ b.x.lease = a.x.lease
<1>0. PICK outcome, keep : b = runner_put_run(a, t, outcome, keep)
  BY DEF PutsRun
<1>1. PICK y : y = [a.x EXCEPT !.outcome[t] = outcome]
  OBVIOUS
<1>2. SameKeys(a.x, y)
  BY <1>1 DEF Loose, Image, Frame, SameKeys
<1>3. PICK c : c = Save(a, y)
  OBVIOUS
<1>4. Loose(c, o) /\ (Sound(a, o) => Sound(c, o)) /\ c.x = y /\ {"x", "w"} \subseteq DOMAIN c
  BY <1>2, <1>3, SaveSame DEF Loose
<1>5. b = [c EXCEPT !.runs = IF outcome \in Final /\ ~keep THEN @ \ {t} ELSE @ \cup {t}]
  BY <1>0, <1>1, <1>3 DEF runner_put_run
<1>6. {"x", "w"} \subseteq DOMAIN b /\ b.x = c.x /\ b.w = c.w
  BY <1>4, <1>5
<1>7. Loose(b, o) /\ (Sound(a, o) => Sound(b, o))
  BY <1>4, <1>6, Notes
<1>. QED
  BY <1>2, <1>4, <1>6, <1>7 DEF SameKeys

LEMMA Redispatches ==
  ASSUME NEW a, NEW o, Sound(a, o)
  PROVE  Sound(Redispatch(a), o)
<1>1. PICK b : b = Redispatch(a)
  OBVIOUS
<1>2. {"x", "w"} \subseteq DOMAIN b /\ b.x = a.x /\ b.w = a.w
  BY <1>1 DEF Redispatch, Sound, Loose
<1>. QED
  BY <1>1, <1>2, Notes

LEMMA DiscardQueued ==
  ASSUME NEW a, NEW o, Sound(a, o), NEW t \in Tasks
  PROVE  LET b == runner_discard_queued(a, t) IN
         Sound(b, o) /\ ~InRun(b.x.entry[t]) /\ b.x.lease.task = a.x.lease.task
<1>1. ~InRun("left") /\ "left" # "none"
  BY DEF InRun
<1>2. PICK c : c = runner_put_entry(a, t, "left")
  OBVIOUS
<1>3. /\ Sound(c, o) /\ c.x.entry = [a.x.entry EXCEPT ![t] = "left"]
      /\ c.x.lease.task = a.x.lease.task
  BY <1>1, <1>2, PutEntry
<1>4. DOMAIN a.x.entry = Tasks
  BY DEF Sound, Loose, Image, Frame
<1>5. PICK b : b = runner_discard_queued(a, t)
  OBVIOUS
<1>6. {"x", "w"} \subseteq DOMAIN b /\ b.x = c.x /\ b.w = c.w
  BY <1>2, <1>3, <1>5 DEF runner_discard_queued, Sound, Loose
<1>. QED
  BY <1>1, <1>3, <1>4, <1>5, <1>6, Notes

LEMMA PipelineFinished ==
  ASSUME NEW a, NEW o, Sound(a, o), NEW t \in Tasks, NEW outcome
  PROVE  Sound(runner_pipeline_finished(a, t, outcome), o)
<1>1. CASE a.x.entry[t] # "running"
  BY <1>1 DEF runner_pipeline_finished
<1>2. CASE a.x.entry[t] = "running"
  <2>1. PICK delivers : delivers = (DeliversAfter(outcome) /\ Delivers(t) /\ Isolated(a.x, t))
    OBVIOUS
  <2>2. PICK b : b = runner_put_entry(a, t, IF delivers THEN "delivering" ELSE "left")
    OBVIOUS
  <2>3. PICK c : c = runner_put_run(b, t, IF delivers THEN "delivering" ELSE AttemptEnds(t, outcome), TRUE)
    OBVIOUS
  <2>4. PICK d : d = [c EXCEPT !.finishing = @ \cup {t},
                               !.wrap[t] = [NoWrap EXCEPT !.at = "flush", !.deliver = delivers,
                                                          !.wait = Behind(c)]]
    OBVIOUS
  <2>5. Sound(b, o)
    <3>1. /\ (IF delivers THEN "delivering" ELSE "left") # "none"
          /\ InRun(a.x.entry[t])
      BY <1>2 DEF InRun
    <3>. QED
      BY <2>2, <3>1, PutEntry
  <2>6. Sound(c, o)
    <3>1. PutsRun(b, t, c)
      BY <2>3 DEF PutsRun
    <3>. QED
      BY <2>5, <3>1, PutRun DEF Sound
  <2>7. Sound(d, o)
    <3>1. {"x", "w"} \subseteq DOMAIN d /\ d.x = c.x /\ d.w = c.w
      BY <2>4, <2>6 DEF Sound, Loose
    <3>. QED
      BY <2>6, <3>1, Notes
  <2>8. runner_pipeline_finished(a, t, outcome) = Redispatch(IF t \in a.runs THEN d ELSE b)
    BY <1>2, <2>1, <2>2, <2>3, <2>4 DEF runner_pipeline_finished
  <2>. QED
    BY <2>5, <2>7, <2>8, Redispatches
<1>. QED
  BY <1>1, <1>2

LEMMA TaskDeleted ==
  ASSUME NEW a, NEW o, Sound(a, o), NEW t \in Tasks
  PROVE  Sound(runner_task_deleted(a, t), o)
<1>1. PICK b : b = IF t \in a.runs /\ a.x.outcome[t] \notin Final
                   THEN runner_put_run(a, t, "deleted", t \in a.finishing) ELSE a
  OBVIOUS
<1>2. Sound(b, o)
  <2>1. b = a \/ PutsRun(a, t, b)
    BY <1>1 DEF PutsRun
  <2>. QED
    BY <2>1, PutRun DEF Sound
<1>3. Sound(runner_put_entry(a, t, "left"), o)
  BY PutEntry DEF InRun
<1>4. Sound(runner_end_entry(b, t), o)
  BY <1>2, EndEntry
<1>5. runner_task_deleted(a, t) \in {a, Redispatch(runner_put_entry(a, t, "left")),
                                     Redispatch(runner_end_entry(b, t))}
  BY <1>1 DEF runner_task_deleted
<1>. QED
  BY <1>3, <1>4, <1>5, Redispatches

LEMMA SavePipe ==
  ASSUME NEW a, NEW o, Sound(a, o), NEW t \in Tasks, NEW pipe
  PROVE  /\ SameKeys(a.x, [a.x EXCEPT !.pipe[t] = pipe])
         /\ Sound(Save(a, [a.x EXCEPT !.pipe[t] = pipe]), o)
         /\ Save(a, [a.x EXCEPT !.pipe[t] = pipe]).x = [a.x EXCEPT !.pipe[t] = pipe]
<1>1. PICK y : y = [a.x EXCEPT !.pipe[t] = pipe]
  OBVIOUS
<1>2. SameKeys(a.x, y)
  BY <1>1 DEF Sound, Loose, Image, Frame, SameKeys
<1>. QED
  BY <1>1, <1>2, SaveSame DEF Sound

LEMMA SaveTasks ==
  ASSUME NEW a, NEW o, Sound(a, o), NEW tasks
  PROVE  /\ Sound(Save(a, [a.x EXCEPT !.tasks = tasks]), o)
         /\ Save(a, [a.x EXCEPT !.tasks = tasks]).x.entry = a.x.entry
<1>1. PICK y : y = [a.x EXCEPT !.tasks = tasks]
  OBVIOUS
<1>2. SameKeys(a.x, y)
  BY <1>1 DEF Sound, Loose, Image, Frame, SameKeys
<1>. QED
  BY <1>1, <1>2, SaveSame DEF Sound, SameKeys

LEMMA Finalize ==
  ASSUME NEW a, NEW o, Sound(a, o), NEW t \in Tasks, NEW outcome
  PROVE  Sound(workflow_finalize(a, t, outcome), o)
  BY SavePipe, PipelineFinished DEF workflow_finalize

(* A task that is started: its lease, if it has one, comes after. *)
LEMMA Start ==
  ASSUME NEW a, NEW o, Sound(a, o), NEW t \in Tasks, a.x.entry[t] = "queued", MayRun(a.x, t),
         NEW created, NEW d, d = runner_start(a, t, created)
  PROVE  /\ Loose(d, o) /\ d.x.lease.task = a.x.lease.task
         /\ created = "refused" => Sound(d, o) /\ d.x.entry[t] = "left"
         /\ created # "refused" => d.x.entry[t] = "running"
         /\ a.x.lease.task # t => Sound(d, o)
<1>0. DOMAIN a.x.entry = Tasks /\ {"x", "w"} \subseteq DOMAIN a /\ Loose(a, o) /\ Image(a.x)
  BY DEF Sound, Loose, Image, Frame
<1>1. CASE created = "refused"
  <2>1. PICK b : b = runner_put_entry(a, t, "left")
    OBVIOUS
  <2>2. /\ Sound(b, o) /\ b.x.entry = [a.x.entry EXCEPT ![t] = "left"]
        /\ b.x.lease.task = a.x.lease.task
    BY <2>1, PutEntry DEF InRun
  <2>3. d = runner_put_run(b, t, "failed", FALSE)
    BY <1>1, <2>1 DEF runner_start
  <2>4. Sound(d, o) /\ d.x.entry = b.x.entry /\ d.x.lease = b.x.lease
    <3>1. Loose(b, o)
      BY <2>2 DEF Sound
    <3>2. PutsRun(b, t, d)
      BY <2>3 DEF PutsRun
    <3>. QED
      BY <2>2, <3>1, <3>2, PutRun
  <2>5. Loose(d, o) /\ d.x.entry[t] = "left" /\ d.x.lease.task = a.x.lease.task
    BY <1>0, <2>2, <2>4 DEF Sound
  <2>. QED
    BY <1>1, <2>4, <2>5
<1>2. CASE created # "refused"
  <2>1. PICK begun : begun = [a.x EXCEPT !.pipe[t] = created]
    OBVIOUS
  <2>2. PICK b : b = IF created = "checkout" THEN [a EXCEPT !.x = begun] ELSE Save(a, begun)
    OBVIOUS
  <2>3. PICK y : y = [b.x EXCEPT !.entry[t] = "running"]
    OBVIOUS
  <2>4. PICK c : c = Save(b, y)
    OBVIOUS
  <2>5. d = runner_put_run(c, t, "running", FALSE)
    <3>1. d = runner_put_run(runner_put_entry(b, t, "running"), t, "running", FALSE)
      BY <1>2, <2>1, <2>2 DEF runner_start
    <3>2. runner_put_entry(b, t, "running") = c
      BY <2>3, <2>4 DEF runner_put_entry, InRun
    <3>. QED
      BY <3>1, <3>2
  <2>6. SameKeys(a.x, begun)
    BY <2>1, SavePipe
  <2>7. Image(begun) /\ Grows(a.x, begun) /\ Settled(begun)
    BY <1>0, <2>6, SameImage DEF Sound
  <2>8. Sound(b, o) /\ b.x = begun
    <3>1. CASE created = "checkout"
      <4>1. {"x", "w"} \subseteq DOMAIN b /\ b.x = begun /\ b.w = a.w
        BY <1>0, <2>2, <3>1
      <4>. QED
        BY <1>0, <2>7, <4>1, MoveLoose DEF Sound
    <3>2. CASE created # "checkout"
      BY <1>0, <2>2, <2>7, <3>2, SaveLoose
    <3>. QED
      BY <3>1, <3>2
  <2>9. Frame(y) /\ y.entry = [begun.entry EXCEPT ![t] = "running"] /\ y.lease = begun.lease
    BY <2>3, <2>7, <2>8 DEF Image, Frame
  <2>10. MayRun(begun, t) /\ begun.entry = a.x.entry /\ begun.lease = a.x.lease
    BY <2>6 DEF SameKeys, MayRun
  <2>11. Image(y) /\ Grows(begun, y) /\ (begun.lease.task # t => Settled(y))
    BY <2>7, <2>9, <2>10, StartImage
  <2>12. Loose(c, o) /\ c.x = y /\ (a.x.lease.task # t => Sound(c, o))
    BY <2>4, <2>8, <2>10, <2>11, SaveLoose DEF Sound
  <2>13. y.entry[t] = "running" /\ y.lease.task = a.x.lease.task
    BY <1>0, <2>9, <2>10
  <2>14. /\ Loose(d, o) /\ (Sound(c, o) => Sound(d, o))
         /\ d.x.entry = c.x.entry /\ d.x.lease = c.x.lease
    <3>1. PutsRun(c, t, d)
      BY <2>5 DEF PutsRun
    <3>. QED
      BY <2>12, <3>1, PutRun
  <2>. QED
    BY <1>2, <2>12, <2>13, <2>14
<1>. QED
  BY <1>1, <1>2

LEMMA CheckoutBegin ==
  ASSUME NEW a, NEW o, Sound(a, o), NEW t \in Tasks, InFolder(t), a.x.entry[t] = "queued",
         \A u \in Tasks : InFolder(u) => ~InRun(a.x.entry[u])
  PROVE  Sound(runner_checkout_begin(a, t), o)
<1>1. Image(a.x) /\ Loose(a, o)
  BY DEF Sound, Loose
<1>2. PICK y : y = [a.x EXCEPT !.lease = [task |-> t, state |-> "preparing", back |-> "none"]]
  OBVIOUS
<1>3. Image(y) /\ Grows(a.x, y) /\ Settled(y)
  BY <1>1, <1>2, BeginImage
<1>4. PICK c : c = Save(a, y)
  OBVIOUS
<1>5. Sound(c, o)
  BY <1>1, <1>3, <1>4, SaveLoose
<1>6. PICK b : b = runner_checkout_begin(a, t)
  OBVIOUS
<1>7. {"x", "w"} \subseteq DOMAIN b /\ b.x = c.x /\ b.w = c.w
  BY <1>2, <1>4, <1>5, <1>6 DEF runner_checkout_begin, Sound, Loose
<1>. QED
  BY <1>5, <1>6, <1>7, Notes

(* A start that nothing refuses: the folder is nobody's. *)
LEMMA TryStart ==
  ASSUME NEW a, NEW o, Sound(a, o), NEW t \in Tasks, MayStart(a, t), NEW created
  PROVE  Sound(runner_try_start(a, t, created), o)
<1>1. a.x.entry[t] = "queued" /\ LeaseOK(a.x) /\ Frame(a.x)
  BY DEF MayStart, Sound, Loose, Image
<1>2. InFolder(t) => /\ a.x.lease.task = NoTask
                     /\ \A u \in Tasks : InFolder(u) => ~InRun(a.x.entry[u])
  BY <1>1 DEF MayStart, runner_checkout_refusal, LeaseOK
<1>3. a.x.lease.task # t
  BY <1>1, <1>2, FactoryAssumption DEF LeaseOK, FactoryAssumption
<1>4. MayRun(a.x, t)
  BY <1>2, <1>3 DEF MayRun
<1>5. CASE Leased(t)
  BY <1>1, <1>2, <1>5, CheckoutBegin DEF runner_try_start, Leased
<1>6. CASE ~Leased(t)
  BY <1>1, <1>3, <1>4, <1>6, Start DEF runner_try_start
<1>. QED
  BY <1>5, <1>6

LEMMA CheckoutRefused ==
  ASSUME NEW a, NEW o, Loose(a, o), NEW t
  PROVE  Sound(runner_checkout_refused(a, t), o)
<1>1. PICK c : c = runner_drop_lease(a)
  OBVIOUS
<1>2. Sound(c, o)
  BY <1>1, DropLease
<1>3. PICK b : b = runner_checkout_refused(a, t)
  OBVIOUS
<1>4. {"x", "w"} \subseteq DOMAIN b /\ b.x = c.x /\ b.w = c.w
  BY <1>1, <1>2, <1>3 DEF runner_checkout_refused, Sound, Loose
<1>. QED
  BY <1>2, <1>3, <1>4, Notes

(* What a restart finds may be any image: a lease that was being prepared  *)
(* comes to its run or is given back.                                      *)
LEMMA Restores ==
  ASSUME NEW a, NEW o, Loose(a, o)
  PROVE  Sound(runner_checkout_restore(a), o)
<1>0. LeaseOK(a.x)
  BY DEF Loose, Image
<1>1. CASE a.x.lease.state \in {"none", "held"}
  BY <1>1 DEF runner_checkout_restore, Sound, Settled
<1>2. CASE a.x.lease.state \notin {"none", "held"}
  <2>1. a.x.lease.task # NoTask
    BY <1>0, <1>2 DEF LeaseOK
  <2>2. CASE ~InRun(a.x.entry[a.x.lease.task])
    BY <1>2, <2>1, <2>2, GiveBack DEF runner_checkout_restore
  <2>3. CASE InRun(a.x.entry[a.x.lease.task])
    <3>1. Sound(runner_put_lease(a, "running"), o)
      BY <2>1, PutLease
    <3>2. a.x.lease.state = "running" => Sound(a, o)
      BY DEF Sound, Settled
    <3>. QED
      BY <1>2, <2>3, <3>1, <3>2 DEF runner_checkout_restore
  <2>. QED
    BY <2>2, <2>3
<1>. QED
  BY <1>1, <1>2

LEMMA Sweep ==
  ASSUME NEW a, NEW o, Sound(a, o), NEW t \in Tasks
  PROVE  Sound(runner_sweep(a, t), o)
<1>1. PICK b : b = [a EXCEPT !.x.entry[t] = "running"]
  OBVIOUS
<1>2. Sound(runner_pipeline_finished(a, t, a.x.pipe[t]), o)
  BY PipelineFinished
<1>3. Sound(runner_task_deleted(a, t), o)
  BY TaskDeleted
<1>4. a.x.entry[t] = "delivering" => Sound(runner_pipeline_finished(b, t, "success"), o)
  <2>1. SUFFICES ASSUME a.x.entry[t] = "delivering"
                 PROVE  Sound(b, o)
    BY PipelineFinished
  <2>2. Loose(a, o) /\ Image(a.x) /\ Frame(a.x) /\ Settled(a.x) /\ {"x", "w"} \subseteq DOMAIN a
    BY DEF Sound, Loose, Image
  <2>3. PICK y : y = [a.x EXCEPT !.entry[t] = "running"]
    OBVIOUS
  <2>4. {"x", "w"} \subseteq DOMAIN b /\ b.x = y /\ b.w = a.w
    BY <1>1, <2>2, <2>3
  <2>5. Frame(y) /\ y.entry = [a.x.entry EXCEPT ![t] = "running"] /\ y.lease = a.x.lease
    BY <2>2, <2>3 DEF Frame
  <2>6. InRun(a.x.entry[t])
    BY <2>1 DEF InRun
  <2>7. Image(y) /\ Grows(a.x, y) /\ Settled(y)
    BY <2>2, <2>5, <2>6, EntryImage
  <2>. QED
    BY <2>2, <2>4, <2>7, MoveLoose DEF Sound
<1>. QED
  BY <1>1, <1>2, <1>3, <1>4 DEF runner_sweep

-----------------------------------------------------------------------------
(* Steps *)

LEMMA BecomesGood ==
  ASSUME Good, NEW a, Sound(a, m), Becomes(a), kind' = kind
  PROVE  Good'
<1>1. m' = a.x /\ log' = log \o a.w
  BY DEF Becomes, Holds
<1>2. IsSeq(log) /\ IsSeq(a.w) /\ Len(log) >= 1
  BY DEF Good, Stands, Sound, Loose
<1>3. /\ IsSeq(log') /\ Len(log') >= 1
      /\ Len(log) \in Nat /\ Len(a.w) \in Nat /\ Len(log') = Len(log) + Len(a.w)
      /\ \A i \in 1..Len(log') : \/ i \in 1..Len(log) /\ log'[i] = log[i]
                                 \/ i - Len(log) \in 1..Len(a.w) /\ log'[i] = a.w[i - Len(log)]
  <2>1. PICK w : w = a.w
    OBVIOUS
  <2>2. /\ IsSeq(log \o w) /\ Len(log) \in Nat /\ Len(w) \in Nat
        /\ Len(log \o w) = Len(log) + Len(w)
        /\ \A i \in 1..Len(log \o w) :
             \/ i \in 1..Len(log) /\ (log \o w)[i] = log[i]
             \/ i - Len(log) \in 1..Len(w) /\ (log \o w)[i] = w[i - Len(log)]
    BY <1>2, <2>1, ConcatAny
  <2>. QED
    BY <1>1, <1>2, <2>1, <2>2
<1>4. ASSUME NEW i \in 1..Len(log')
      PROVE  Image(log'[i]) /\ Grows(log'[i], m')
  <2>1. CASE i \in 1..Len(log) /\ log'[i] = log[i]
    <3>1. Image(log[i]) /\ Grows(log[i], m) /\ Grows(m, a.x)
      BY <2>1 DEF Good, Stands, Sound, Loose
    <3>. QED
      BY <1>1, <2>1, <3>1, GrowsTwice
  <2>2. CASE i - Len(log) \in 1..Len(a.w) /\ log'[i] = a.w[i - Len(log)]
    BY <1>1, <2>2 DEF Sound, Loose
  <2>. QED
    BY <1>3, <2>1, <2>2
<1>5. Image(m') /\ Settled(m')
  BY <1>1 DEF Sound, Loose
<1>. QED
  BY <1>3, <1>4, <1>5 DEF Good, Stands, IsSeq, Image, Frame, Alone, LeaseOK, Grows, Settled, InFolder

LEMMA HereSound ==
  ASSUME Good
  PROVE  Sound(Here, m) /\ Here.x = m /\ {"x", "w"} \subseteq DOMAIN Here
<1>1. Here.x = m /\ Here.w = <<>> /\ {"x", "w"} \subseteq DOMAIN Here
  BY DEF Here
<1>2. IsSeq(<<>>) /\ Len(<<>>) = 0
  BY DEF IsSeq
<1>. QED
  BY <1>1, <1>2 DEF Good, Stands, Sound, Loose, Grows

(* Handlers that only note something. *)
LEMMA NotesGood ==
  ASSUME Good, NEW a, {"x", "w"} \subseteq DOMAIN a, a.x = Here.x, a.w = Here.w, Becomes(a),
         kind' = kind
  PROVE  Good'
  BY HereSound, Notes, BecomesGood

LEMMA RestGood ==
  ASSUME Good, UNCHANGED <<kind, m, log>>
  PROVE  Good'
  BY DEF Good, Stands, IsSeq, Image, Frame, Alone, LeaseOK, Grows, Settled, InFolder

(* Dispatch, and what a person asks for. *)
LEMMA StartSteps ==
  ASSUME Good, NEW t \in Tasks,
         DispatchStarts(t) \/ DispatchDiscards(t) \/ runner_start_now(t) \/ runner_dequeue(t)
  PROVE  Good'
<1>0. Sound(Here, m) /\ Here.x = m /\ {"x", "w"} \subseteq DOMAIN Here
  BY HereSound
<1>1. CASE DispatchStarts(t)
  <2>1. MayStart(Here, t) /\ kind' = kind
    BY <1>1 DEF DispatchStarts, Apart
  <2>2. PICK created : Becomes(runner_try_start(Here, t, created))
    BY <1>1 DEF DispatchStarts
  <2>3. Sound(runner_try_start(Here, t, created), m)
    BY <1>0, <2>1, TryStart
  <2>. QED
    BY <2>1, <2>2, <2>3, BecomesGood
<1>2. CASE DispatchDiscards(t) \/ runner_dequeue(t)
  <2>1. Becomes(runner_discard_queued(Here, t)) /\ kind' = kind
    BY <1>2 DEF DispatchDiscards, runner_dequeue, Apart
  <2>2. Sound(runner_discard_queued(Here, t), m)
    BY <1>0, DiscardQueued
  <2>. QED
    BY <2>1, <2>2, BecomesGood
<1>3. CASE runner_start_now(t)
  <2>1. kind' = kind
    BY <1>3 DEF runner_start_now, Apart
  <2>2. PICK a : a = [Here EXCEPT !.block = FALSE]
    OBVIOUS
  <2>3. PICK b : b = IF Leased(t) THEN [a EXCEPT !.forced = @ \cup {t}] ELSE a
    OBVIOUS
  <2>4. {"x", "w"} \subseteq DOMAIN a /\ a.x = Here.x /\ a.w = Here.w
    BY <1>0, <2>2
  <2>5. {"x", "w"} \subseteq DOMAIN b /\ b.x = Here.x /\ b.w = Here.w
    BY <2>3, <2>4
  <2>6. Sound(a, m) /\ Sound(b, m)
    BY <1>0, <2>4, <2>5, Notes
  <2>7. \/ MayStart(a, t) /\ \E created \in Creations(t) : Becomes(runner_try_start(b, t, created))
        \/ Becomes(a)
    BY <1>3, <2>2, <2>3 DEF runner_start_now
  <2>8. CASE Becomes(a)
    BY <2>1, <2>6, <2>8, BecomesGood
  <2>9. CASE MayStart(a, t) /\ \E created \in Creations(t) : Becomes(runner_try_start(b, t, created))
    <3>1. PICK created : Becomes(runner_try_start(b, t, created))
      BY <2>9
    <3>2. (Delivers(t) /\ b.block) = (Delivers(t) /\ a.block)
      BY <1>0, <2>2, <2>3
    <3>3. MayStart(b, t)
      BY <2>4, <2>5, <2>9, <3>2 DEF MayStart, runner_checkout_refusal
    <3>4. Sound(runner_try_start(b, t, created), m)
      BY <2>6, <3>3, TryStart
    <3>. QED
      BY <2>1, <3>1, <3>4, BecomesGood
  <2>. QED
    BY <2>7, <2>8, <2>9
<1>. QED
  BY <1>1, <1>2, <1>3

(* Pipelines that end, and rows that go. *)
LEMMA EndSteps ==
  ASSUME Good, NEW t \in Tasks,
         \/ StopsOne(t) \/ SweepsOne(t) \/ CheckoutLands(t) \/ DeleteTask(t)
         \/ \E outcome \in {"success", "limit", "failed"} : PipelineEnds(t, outcome)
  PROVE  Good'
<1>0. Sound(Here, m) /\ Here.x = m /\ {"x", "w"} \subseteq DOMAIN Here
  BY HereSound
<1>1. CASE StopsOne(t)
  <2>1. Sound(workflow_finalize(Here, t, "stopped"), m) /\ Sound(runner_discard_queued(Here, t), m)
    BY <1>0, Finalize, DiscardQueued
  <2>2. /\ kind' = kind
        /\ \/ Becomes(Here) \/ Becomes(workflow_finalize(Here, t, "stopped"))
           \/ Becomes(runner_discard_queued(Here, t))
    BY <1>1 DEF StopsOne, Apart
  <2>. QED
    BY <1>0, <2>1, <2>2, BecomesGood
<1>2. CASE SweepsOne(t)
  <2>1. Becomes(runner_sweep(Here, t)) /\ kind' = kind
    BY <1>2 DEF SweepsOne, Apart
  <2>. QED
    BY <1>0, <2>1, Sweep, BecomesGood
<1>3. CASE CheckoutLands(t)
  <2>1. /\ Sound(workflow_finalize(Here, t, "failed"), m)
        /\ Sound(Save(Here, [m EXCEPT !.pipe[t] = "active"]), m)
    BY <1>0, Finalize, SavePipe
  <2>2. /\ kind' = kind
        /\ \/ Becomes(workflow_finalize(Here, t, "failed"))
           \/ Becomes(Save(Here, [m EXCEPT !.pipe[t] = "active"]))
    BY <1>3 DEF CheckoutLands, Apart
  <2>. QED
    BY <2>1, <2>2, BecomesGood
<1>4. CASE \E outcome \in {"success", "limit", "failed"} : PipelineEnds(t, outcome)
  <2>1. PICK outcome : PipelineEnds(t, outcome)
    BY <1>4
  <2>2. Becomes(workflow_finalize(Here, t, outcome)) /\ kind' = kind
    BY <2>1 DEF PipelineEnds, Apart
  <2>. QED
    BY <1>0, <2>2, Finalize, BecomesGood
<1>5. CASE DeleteTask(t)
  <2>1. PICK a : a = IF Running(m, t) THEN workflow_finalize(Here, t, "stopped") ELSE Here
    OBVIOUS
  <2>2. PICK b : b = IF m.pipe[t] = "none" THEN a ELSE Save(a, [a.x EXCEPT !.pipe[t] = "none"])
    OBVIOUS
  <2>3. PICK c : c = runner_task_deleted(b, t)
    OBVIOUS
  <2>4. PICK tasks : tasks = c.x.tasks \ {t}
    OBVIOUS
  <2>5. PICK d : d = Save(c, [c.x EXCEPT !.tasks = tasks])
    OBVIOUS
  <2>6. PICK e : e = [d EXCEPT !.mail.delete = @ \ {t}]
    OBVIOUS
  <2>7. Becomes(e) /\ kind' = kind
    BY <1>5, <2>1, <2>2, <2>3, <2>4, <2>5, <2>6 DEF DeleteTask, Apart
  <2>8. Sound(a, m)
    BY <1>0, <2>1, Finalize
  <2>9. Sound(b, m)
    BY <2>2, <2>8, SavePipe
  <2>10. Sound(c, m)
    BY <2>3, <2>9, TaskDeleted
  <2>11. Sound(d, m)
    BY <2>5, <2>10, SaveTasks
  <2>12. {"x", "w"} \subseteq DOMAIN e /\ e.x = d.x /\ e.w = d.w
    BY <2>6, <2>11 DEF Sound, Loose
  <2>13. Sound(e, m)
    BY <2>11, <2>12, Notes
  <2>. QED
    BY <2>7, <2>13, BecomesGood
<1>. QED
  BY <1>1, <1>2, <1>3, <1>4, <1>5

(* The lease: its folder was inspected, switched, given back. *)
LEMMA InspectedGood ==
  ASSUME Good, NEW t \in Tasks, runner_checkout_inspected(t)
  PROVE  Good'
<1>0. Sound(Here, m) /\ Here.x = m /\ {"x", "w"} \subseteq DOMAIN Here /\ Loose(Here, m)
  BY HereSound DEF Sound
<1>1. kind' = kind
  BY DEF runner_checkout_inspected, Apart
<1>2. CASE Becomes(runner_checkout_refused(Here, t))
  BY <1>0, <1>1, <1>2, CheckoutRefused, BecomesGood
<1>3. PICK b : b = [runner_drop_lease(Here) EXCEPT !.job = NoJob]
  OBVIOUS
<1>4. CASE Becomes(b)
  <2>1. PICK c : c = runner_drop_lease(Here)
    OBVIOUS
  <2>2. Sound(c, m)
    BY <1>0, <2>1, DropLease
  <2>3. {"x", "w"} \subseteq DOMAIN b /\ b.x = c.x /\ b.w = c.w
    BY <1>3, <2>1, <2>2 DEF Sound, Loose
  <2>. QED
    BY <1>1, <1>4, <2>2, <2>3, Notes, BecomesGood
<1>5. PICK y : y = [m EXCEPT !.lease.back = job.point]
  OBVIOUS
<1>6. PICK a : a = Save(Here, y)
  OBVIOUS
<1>7. PICK d : d = [a EXCEPT !.job.at = "flush", !.job.wait = Behind(a)]
  OBVIOUS
<1>8. CASE Becomes(d)
  <2>1. Image(m) /\ Frame(m) /\ Settled(m)
    BY DEF Good, Stands, Image
  <2>2. /\ Frame(y) /\ y.entry = m.entry
        /\ y.lease.task = m.lease.task /\ y.lease.state = m.lease.state
    BY <1>5, <2>1 DEF Frame
  <2>3. Image(y) /\ Grows(m, y) /\ Settled(y)
    BY <2>1, <2>2 DEF Image, Alone, LeaseOK, Grows, Settled
  <2>4. Sound(a, m)
    BY <1>0, <1>6, <2>3, SaveLoose
  <2>5. {"x", "w"} \subseteq DOMAIN d /\ d.x = a.x /\ d.w = a.w
    BY <1>7, <2>4 DEF Sound, Loose
  <2>. QED
    BY <1>1, <1>8, <2>4, <2>5, Notes, BecomesGood
<1>9. Becomes(runner_checkout_refused(Here, t)) \/ Becomes(b) \/ Becomes(d)
  BY <1>3, <1>5, <1>6, <1>7 DEF runner_checkout_inspected
<1>. QED
  BY <1>2, <1>4, <1>8, <1>9

LEMMA SwitchedGood ==
  ASSUME Good, NEW t \in Tasks, runner_checkout_switched(t)
  PROVE  Good'
<1>0. Sound(Here, m) /\ Here.x = m /\ {"x", "w"} \subseteq DOMAIN Here
  BY HereSound
<1>1. kind' = kind /\ m.lease.task = t /\ m.lease.state = "preparing"
  BY DEF runner_checkout_switched, Preparing, Apart
<1>2. PICK a : a = [Here EXCEPT !.forced = @ \ {t}, !.job = NoJob]
  OBVIOUS
<1>3. Sound(a, m) /\ a.x = m
  <2>1. {"x", "w"} \subseteq DOMAIN a /\ a.x = Here.x /\ a.w = Here.w
    BY <1>0, <1>2
  <2>. QED
    BY <1>0, <2>1, Notes
<1>4. Loose(a, m) /\ ~InRun(m.entry[t]) /\ t # NoTask /\ Alone(m)
  BY <1>1, <1>3, FactoryAssumption DEF Sound, Loose, Settled, Image, FactoryAssumption
<1>5. CASE Becomes(runner_checkout_refused(a, t))
  BY <1>1, <1>4, <1>5, CheckoutRefused, BecomesGood
<1>6. CASE Becomes(runner_give_back(a))
  BY <1>1, <1>3, <1>4, <1>6, GiveBack, BecomesGood
<1>7. CASE Becomes(runner_give_back(runner_discard_queued(a, t)))
  <2>1. PICK b : b = runner_discard_queued(a, t)
    OBVIOUS
  <2>2. Sound(b, m) /\ ~InRun(b.x.entry[t]) /\ b.x.lease.task = t
    BY <1>1, <1>3, <2>1, DiscardQueued
  <2>3. Sound(runner_give_back(b), m)
    BY <1>4, <2>2, GiveBack DEF Sound
  <2>. QED
    BY <1>1, <1>7, <2>1, <2>3, BecomesGood
<1>8. CASE /\ m.entry[t] = "queued"
           /\ \E created \in Creations(t) :
                LET b == runner_start(a, t, created)
                IN Becomes(IF b.x.entry[t] = "running"
                           THEN runner_put_lease(b, "running") ELSE runner_give_back(b))
  <2>1. PICK created, b :
          /\ b = runner_start(a, t, created)
          /\ Becomes(IF b.x.entry[t] = "running"
                     THEN runner_put_lease(b, "running") ELSE runner_give_back(b))
    BY <1>8
  <2>2. MayRun(m, t)
    BY <1>1, <1>4 DEF MayRun, Alone
  <2>3. /\ Loose(b, m) /\ b.x.lease.task = t
        /\ b.x.entry[t] \in {"left", "running"}
    BY <1>1, <1>3, <1>8, <2>1, <2>2, Start
  <2>4. Sound(runner_put_lease(b, "running"), m)
    BY <1>4, <2>3, PutLease
  <2>5. b.x.entry[t] # "running" => Sound(runner_give_back(b), m)
    BY <1>4, <2>3, GiveBack DEF InRun
  <2>. QED
    BY <1>1, <2>1, <2>4, <2>5, BecomesGood
<1>9. \/ Becomes(runner_checkout_refused(a, t)) \/ Becomes(runner_give_back(a))
      \/ Becomes(runner_give_back(runner_discard_queued(a, t)))
      \/ /\ m.entry[t] = "queued"
         /\ \E created \in Creations(t) :
              LET b == runner_start(a, t, created)
              IN Becomes(IF b.x.entry[t] = "running"
                         THEN runner_put_lease(b, "running") ELSE runner_give_back(b))
  BY <1>2 DEF runner_checkout_switched
<1>. QED
  BY <1>5, <1>6, <1>7, <1>8, <1>9

LEMMA ReturnSteps ==
  ASSUME Good, runner_checkout_returned \/ runner_checkout_retry
  PROVE  Good'
<1>0. Sound(Here, m) /\ Here.x = m /\ {"x", "w"} \subseteq DOMAIN Here
  BY HereSound
<1>1. Image(m) /\ LeaseOK(m) /\ Settled(m)
  BY DEF Good, Stands, Image
<1>2. CASE runner_checkout_returned
  <2>1. PICK a : a = [Here EXCEPT !.job = NoJob]
    OBVIOUS
  <2>2. {"x", "w"} \subseteq DOMAIN a /\ a.x = Here.x /\ a.w = Here.w
    BY <1>0, <2>1
  <2>3. Loose(a, m) /\ a.x = m
    BY <1>0, <2>2, Notes DEF Sound
  <2>4. m.lease.task # NoTask /\ ~InRun(m.entry[m.lease.task])
    BY <1>1, <1>2 DEF runner_checkout_returned, LeaseOK
  <2>5. Sound(runner_drop_lease(a), m)
    BY <2>3, DropLease
  <2>6. Sound(runner_put_lease(a, "held"), m)
    BY <2>3, <2>4, PutLease
  <2>7. /\ kind' = kind
        /\ Becomes(runner_drop_lease(a)) \/ Becomes(runner_put_lease(a, "held"))
    BY <1>2, <2>1 DEF runner_checkout_returned, Apart
  <2>. QED
    BY <2>5, <2>6, <2>7, BecomesGood
<1>3. CASE runner_checkout_retry
  <2>1. PICK a : a = [Here EXCEPT !.block = FALSE]
    OBVIOUS
  <2>2. {"x", "w"} \subseteq DOMAIN a /\ a.x = Here.x /\ a.w = Here.w
    BY <1>0, <2>1
  <2>3. Sound(a, m) /\ Loose(a, m) /\ a.x = m
    BY <1>0, <2>2, Notes DEF Sound
  <2>4. m.lease.state = "held" => Sound(runner_give_back(a), m)
    BY <1>1, <2>3, GiveBack DEF LeaseOK
  <2>5. /\ kind' = kind
        /\ \/ Becomes(a)
           \/ m.lease.state = "held" /\ Becomes(runner_give_back(a))
    BY <1>3, <2>1 DEF runner_checkout_retry, Apart
  <2>. QED
    BY <2>3, <2>4, <2>5, BecomesGood
<1>. QED
  BY <1>2, <1>3

(* The wrap-up of an attempt, and the end of its pull request. *)
LEMMA WrapSteps ==
  ASSUME Good, NEW t \in Tasks, runner_finished(t) \/ runner_pull_settled(t)
  PROVE  Good'
<1>0. Sound(Here, m) /\ Here.x = m /\ {"x", "w"} \subseteq DOMAIN Here
  BY HereSound
<1>1. CASE runner_finished(t)
  <2>1. PICK a : a = [Here EXCEPT !.finishing = @ \ {t}, !.wrap[t] = NoWrap]
    OBVIOUS
  <2>2. {"x", "w"} \subseteq DOMAIN a /\ a.x = Here.x /\ a.w = Here.w
    BY <1>0, <2>1
  <2>3. Sound(a, m) /\ a.x = m
    BY <1>0, <2>2, Notes
  <2>4. PICK delivered : delivered = runner_put_entry(a, t, "delivered")
    OBVIOUS
  <2>5. PICK left : left = runner_end_entry(a, t)
    OBVIOUS
  <2>6. Sound(delivered, m) /\ Sound(left, m)
    <3>1. ~InRun("delivered") /\ "delivered" # "none"
      BY DEF InRun
    <3>. QED
      BY <2>3, <2>4, <2>5, <3>1, PutEntry, EndEntry
  <2>7. /\ kind' = kind
        /\ \/ Becomes(a)
           \/ \E b : Becomes(b) /\ (PutsRun(a, t, b) \/ PutsRun(delivered, t, b) \/ PutsRun(left, t, b))
    <3>1. PICK b : b = CASE wrap[t].result = "none" -> runner_put_run(a, t, m.outcome[t], FALSE)
                         [] wrap[t].result = "opened" /\ Has(m, t) ->
                              runner_put_run(delivered, t, "delivered", FALSE)
                         [] wrap[t].result = "opened" /\ ~Has(m, t) ->
                              runner_put_run(a, t, "deleted", FALSE)
                         [] wrap[t].result = "noChanges" -> runner_put_run(left, t, "noChanges", FALSE)
                         [] OTHER -> runner_put_run(left, t, "deliveryFailed", FALSE)
      OBVIOUS
    <3>2. kind' = kind /\ (Becomes(a) \/ Becomes(b))
      BY <1>1, <2>1, <2>4, <2>5, <3>1 DEF runner_finished, Apart
    <3>3. PutsRun(a, t, b) \/ PutsRun(delivered, t, b) \/ PutsRun(left, t, b)
      BY <3>1 DEF PutsRun
    <3>. QED
      BY <3>2, <3>3
  <2>8. ASSUME NEW b, Becomes(b), PutsRun(a, t, b) \/ PutsRun(delivered, t, b) \/ PutsRun(left, t, b)
        PROVE  Sound(b, m)
    BY <2>3, <2>6, <2>8, PutRun DEF Sound
  <2>. QED
    BY <2>3, <2>7, <2>8, BecomesGood
<1>2. CASE runner_pull_settled(t)
  <2>1. PICK a, outcome : /\ a = IF t \in runs THEN runner_put_run(Here, t, outcome, FALSE) ELSE Here
                          /\ Becomes(runner_put_entry(a, t, "left"))
    BY <1>2 DEF runner_pull_settled
  <2>2. a = Here \/ PutsRun(Here, t, a)
    BY <2>1 DEF PutsRun
  <2>3. Sound(a, m)
    BY <1>0, <2>2, PutRun DEF Sound
  <2>4. Sound(runner_put_entry(a, t, "left"), m)
    <3>1. ~InRun("left") /\ "left" # "none"
      BY DEF InRun
    <3>. QED
      BY <2>3, <3>1, PutEntry
  <2>. QED
    BY <1>2, <2>1, <2>4, BecomesGood DEF runner_pull_settled, Apart
<1>. QED
  BY <1>1, <1>2

(* Handlers that save nothing. *)
LEMMA OwnSteps ==
  ASSUME Good, OwnCommands \/ runner_stop
  PROVE  Good'
<1>0. Sound(Here, m) /\ Here.x = m /\ {"x", "w"} \subseteq DOMAIN Here
  BY HereSound
<1>1. CASE runner_checkout_returned
  BY <1>1, ReturnSteps
<1>2. CASE HandleDispatch
  <2>1. PICK a : a = [Here EXCEPT !.mail.dispatch = FALSE]
    OBVIOUS
  <2>2. Becomes(a) /\ kind' = kind
    BY <1>2, <2>1 DEF HandleDispatch, Apart
  <2>3. {"x", "w"} \subseteq DOMAIN a /\ a.x = Here.x /\ a.w = Here.w
    BY <1>0, <2>1
  <2>. QED
    BY <2>2, <2>3, NotesGood
<1>3. CASE Tick
  <2>1. PICK a : a = [Here EXCEPT !.block = FALSE]
    OBVIOUS
  <2>2. Becomes(a) /\ kind' = kind
    BY <1>3, <2>1 DEF Tick, Apart
  <2>3. {"x", "w"} \subseteq DOMAIN a /\ a.x = Here.x /\ a.w = Here.w
    BY <1>0, <2>1
  <2>. QED
    BY <2>2, <2>3, NotesGood
<1>4. CASE DispatchEnds \/ NothingToStop \/ RowIsGone \/ runner_stop
  <2>1. Becomes(Here) /\ kind' = kind
    BY <1>4 DEF DispatchEnds, NothingToStop, RowIsGone, runner_stop, Apart
  <2>. QED
    BY <1>0, <2>1, BecomesGood
<1>. QED
  BY <1>1, <1>2, <1>3, <1>4 DEF OwnCommands

(* A write reaches the disk. *)
LEMMA WriterGood ==
  ASSUME Good, WriterApplies
  PROVE  Good'
<1>1. m' = m /\ kind' = kind /\ log' = Tail(log) /\ IsSeq(log) /\ Len(log) > 1
  BY DEF WriterApplies, Good, Stands
<1>2. /\ IsSeq(log') /\ Len(log) \in Nat /\ Len(log') = Len(log) - 1
      /\ \A i \in 1..Len(log') : log'[i] = log[i + 1]
  BY <1>1, TailAny
<1>3. ASSUME NEW i \in 1..Len(log')
      PROVE  Image(log'[i]) /\ Grows(log'[i], m)
  <2>1. i + 1 \in 1..Len(log) /\ log'[i] = log[i + 1]
    BY <1>2
  <2>. QED
    BY <2>1 DEF Good, Stands
<1>4. Len(log') >= 1
  BY <1>1, <1>2
<1>. QED
  BY <1>1, <1>2, <1>3, <1>4
     DEF Good, Stands, IsSeq, Image, Frame, Alone, LeaseOK, Grows, Settled, InFolder

(* Setting up a task says where it runs; before, nothing was saved of it. *)
LEMMA KindImage ==
  ASSUME NEW x, Image(x), NEW t \in Tasks, ~InRun(x.entry[t]), x.lease.task # t,
         DOMAIN kind = Tasks, NEW k, kind' = [kind EXCEPT ![t] = k]
  PROVE  Image(x)'
<1>1. \A u \in Tasks : u # t => InFolder(u)' = InFolder(u)
  BY DEF InFolder
<1>2. Frame(x) /\ Alone(x) /\ LeaseOK(x)
  BY DEF Image
<1>3. Alone(x)'
  BY <1>1, <1>2 DEF Alone
<1>4. LeaseOK(x)'
  BY <1>1, <1>2 DEF LeaseOK, Frame
<1>5. Frame(x)'
  BY <1>2 DEF Frame
<1>. QED
  BY <1>3, <1>4, <1>5 DEF Image

LEMMA StandsNext ==
  ASSUME NEW l, NEW x, l = log', x = m', Stands(l, x)', DOMAIN kind' = Tasks
  PROVE  Good'
  BY DEF Good, Stands, IsSeq, Image, Frame, Alone, LeaseOK, Grows, Settled, InFolder

LEMMA EnqueueGood ==
  ASSUME Good, NEW t \in Tasks, Enqueue(t)
  PROVE  Good'
<1>1. PICK k \in Kinds : kind' = [kind EXCEPT ![t] = k]
  BY DEF Enqueue
<1>2. /\ Image(m) /\ Frame(m) /\ Settled(m) /\ m.entry[t] = "none" /\ m.lease.task # t
      /\ IsSeq(log) /\ Len(log) >= 1 /\ DOMAIN kind = Tasks
      /\ \A i \in 1..Len(log) : Image(log[i]) /\ Grows(log[i], m)
  BY FactoryAssumption DEF Good, Stands, Enqueue, Image, LeaseOK, FactoryAssumption
<1>3. PICK y : y = [m EXCEPT !.tasks = @ \cup {t}]
  OBVIOUS
<1>4. PICK z : z = [y EXCEPT !.entry[t] = "queued"]
  OBVIOUS
<1>5. /\ Frame(y) /\ y.entry = m.entry /\ y.lease = m.lease
      /\ Frame(z) /\ z.entry = [m.entry EXCEPT ![t] = "queued"] /\ z.lease = m.lease
  BY <1>2, <1>3, <1>4 DEF Frame
<1>6. Image(y) /\ Grows(m, y) /\ Settled(y)
  BY <1>2, <1>5, SameImage DEF SameKeys
<1>7. Image(z) /\ Grows(y, z) /\ Settled(z)
  BY <1>5, <1>6, EntryImage DEF InRun
<1>8. m' = z /\ log' = log \o Append(<<y>>, z)
  <2>1. PICK a : a = Save(Here, y)
    OBVIOUS
  <2>2. a.x = y /\ a.w = <<y>> /\ {"x", "w"} \subseteq DOMAIN a
    BY <2>1 DEF Save, Here
  <2>3. PICK b : b = Save(a, z)
    OBVIOUS
  <2>4. b.x = z /\ b.w = Append(<<y>>, z) /\ {"x", "w"} \subseteq DOMAIN b
    BY <2>2, <2>3 DEF Save
  <2>5. runner_put_entry(a, t, "queued") = b
    <3>1. ~InRun("queued") /\ b.x.lease.task # t
      BY <1>2, <1>5, <2>4 DEF InRun
    <3>2. runner_put_entry(a, t, "queued") = runner_checkout_entry_left(b, t)
      BY <1>4, <2>2, <2>3, <3>1 DEF runner_put_entry
    <3>. QED
      BY <3>1, <3>2 DEF runner_checkout_entry_left
  <2>6. Becomes([b EXCEPT !.block = FALSE])
    BY <1>3, <2>1, <2>5 DEF Enqueue
  <2>7. m' = [b EXCEPT !.block = FALSE].x /\ log' = log \o [b EXCEPT !.block = FALSE].w
    BY <2>6 DEF Becomes, Holds
  <2>. QED
    BY <2>4, <2>7
<1>9. ASSUME NEW x, x \in {y, z} \/ \E i \in 1..Len(log) : x = log[i]
      PROVE  Image(x) /\ Grows(x, z) /\ ~InRun(x.entry[t]) /\ x.lease.task # t
  <2>1. CASE x \in {y, z}
    <3>1. x.entry[t] \in {"none", "queued"}
      BY <1>2, <1>5, <2>1 DEF Frame
    <3>2. Grows(z, z)
      BY DEF Grows
    <3>. QED
      BY <1>2, <1>5, <1>6, <1>7, <2>1, <3>1, <3>2 DEF InRun
  <2>2. CASE \E i \in 1..Len(log) : x = log[i]
    <3>1. Image(x) /\ Grows(x, m) /\ Grows(x, z)
      BY <1>2, <1>6, <1>7, <2>2, GrowsTwice
    <3>2. x.entry[t] = "none"
      BY <1>2, <3>1 DEF Grows
    <3>. QED
      BY <3>1, <3>2, FactoryAssumption DEF InRun, Image, LeaseOK, FactoryAssumption
  <2>. QED
    BY <1>9, <2>1, <2>2
<1>10. /\ IsSeq(log') /\ Len(log') >= 1
       /\ \A i \in 1..Len(log') : log'[i] \in {y, z} \/ \E j \in 1..Len(log) : log'[i] = log[j]
  <2>1. PICK w : w = Append(<<y>>, z)
    OBVIOUS
  <2>2. IsSeq(w) /\ Len(w) = 2 /\ w[1] = y /\ w[2] = z
    <3>1. IsSeq(<<y>>) /\ Len(<<y>>) = 1 /\ <<y>>[1] = y
      BY <<y>> \in Seq({y}) DEF IsSeq
    <3>. QED
      BY <2>1, <3>1, AppendAny
  <2>3. /\ IsSeq(log \o w) /\ Len(log) \in Nat /\ Len(w) \in Nat
        /\ Len(log \o w) = Len(log) + Len(w)
        /\ \A i \in 1..Len(log \o w) :
             \/ i \in 1..Len(log) /\ (log \o w)[i] = log[i]
             \/ i - Len(log) \in 1..Len(w) /\ (log \o w)[i] = w[i - Len(log)]
    BY <1>2, <2>2, ConcatAny
  <2>4. log' = log \o w
    BY <1>8, <2>1
  <2>5. ASSUME NEW i \in 1..Len(log')
        PROVE  log'[i] \in {y, z} \/ \E j \in 1..Len(log) : log'[i] = log[j]
    <3>1. CASE i \in 1..Len(log) /\ log'[i] = log[i]
      BY <3>1
    <3>2. CASE i - Len(log) \in 1..Len(w) /\ log'[i] = w[i - Len(log)]
      <4>1. i - Len(log) \in {1, 2}
        BY <2>2, <3>2
      <4>. QED
        BY <2>2, <3>2, <4>1
    <3>. QED
      BY <2>3, <2>4, <3>1, <3>2
  <2>. QED
    BY <1>2, <2>2, <2>3, <2>4, <2>5
<1>11. ASSUME NEW x, x \in {y, z} \/ \E i \in 1..Len(log) : x = log[i]
       PROVE  Image(x)'
  BY <1>1, <1>2, <1>9, <1>11, KindImage
<1>12. PICK l : l = log'
  OBVIOUS
<1>13. ASSUME NEW i \in 1..Len(l)
       PROVE  Image(l[i])' /\ Grows(l[i], z)
  <2>1. l[i] \in {y, z} \/ \E j \in 1..Len(log) : l[i] = log[j]
    BY <1>10, <1>12
  <2>. QED
    BY <1>9, <1>11, <2>1
<1>14. Image(z)'
  BY <1>11
<1>15. DOMAIN kind' = Tasks
  BY <1>1, <1>2
<1>16. Stands(l, z)'
  BY <1>7, <1>10, <1>12, <1>13, <1>14 DEF Stands, IsSeq, Settled, Grows
<1>. QED
  BY <1>8, <1>12, <1>15, <1>16, StandsNext

(* A restart: what is on disk is an image, and so is what follows it. *)
LEMMA RestartGood ==
  ASSUME Good, Restart
  PROVE  Good'
<1>1. kind' = kind /\ Head(log) = log[1] /\ Image(log[1])
  BY DEF Restart, Apart, Good, Stands
<1>2. PICK x : x = Loaded(Head(log))
  OBVIOUS
<1>3. SameKeys(log[1], x)
  BY <1>1, <1>2 DEF Loaded, Image, Frame, SameKeys
<1>4. Image(x) /\ Grows(x, x)
  BY <1>1, <1>3, SameImage DEF Grows
<1>5. PICK a : a = [x |-> x, w |-> <<>>, finishing |-> {}, forced |-> {}, block |-> FALSE,
                    runs |-> {t \in Tasks : Has(x, t) /\ x.outcome[t] \notin Final \cup {"none"}},
                    mail |-> [dispatch |-> FALSE, delete |-> {}],
                    job |-> NoJob, wrap |-> [t \in Tasks |-> NoWrap]]
  OBVIOUS
<1>6. PICK b : b = runner_checkout_restore(a)
  OBVIOUS
<1>7. Holds(b) /\ log' = <<x>> \o b.w
  BY <1>2, <1>5, <1>6 DEF Restart
<1>8. Loose(a, x)
  <2>1. a.x = x /\ a.w = <<>> /\ {"x", "w"} \subseteq DOMAIN a
    BY <1>5
  <2>2. IsSeq(<<>>) /\ Len(<<>>) = 0
    BY DEF IsSeq
  <2>. QED
    BY <1>4, <2>1, <2>2 DEF Loose
<1>9. Sound(b, x)
  BY <1>6, <1>8, Restores
<1>10. PICK l, w, y : l = log' /\ w = b.w /\ y = b.x
  OBVIOUS
<1>11. m' = y /\ l = <<x>> \o w
  BY <1>7, <1>10 DEF Holds
<1>12. /\ IsSeq(w) /\ Image(y) /\ Settled(y) /\ Grows(x, y)
       /\ \A i \in 1..Len(w) : Image(w[i]) /\ Grows(w[i], y)
  BY <1>9, <1>10 DEF Sound, Loose
<1>13. IsSeq(<<x>>) /\ Len(<<x>>) = 1 /\ <<x>>[1] = x
  BY <<x>> \in Seq({x}) DEF IsSeq
<1>14. PICK s : s = <<x>>
  OBVIOUS
<1>15. /\ IsSeq(l) /\ Len(w) \in Nat /\ Len(l) = Len(s) + Len(w)
       /\ \A i \in 1..Len(l) : \/ i \in 1..Len(s) /\ l[i] = s[i]
                               \/ i - Len(s) \in 1..Len(w) /\ l[i] = w[i - Len(s)]
  BY <1>11, <1>12, <1>13, <1>14, ConcatAny
<1>16. ASSUME NEW i \in 1..Len(l)
       PROVE  Image(l[i]) /\ Grows(l[i], y)
  <2>1. CASE i \in 1..Len(s) /\ l[i] = s[i]
    <3>1. i = 1
      BY <1>13, <1>14, <2>1
    <3>. QED
      BY <1>4, <1>12, <1>13, <1>14, <2>1, <3>1
  <2>2. CASE i - Len(s) \in 1..Len(w) /\ l[i] = w[i - Len(s)]
    BY <1>12, <2>2
  <2>. QED
    BY <1>15, <2>1, <2>2
<1>17. Len(l) >= 1
  BY <1>13, <1>14, <1>15
<1>18. Stands(l, y)
  BY <1>12, <1>15, <1>16, <1>17 DEF Stands
<1>19. Stands(l, y)'
  BY <1>1, <1>18 DEF Stands, IsSeq, Image, Frame, Alone, LeaseOK, Grows, Settled, InFolder
<1>20. DOMAIN kind' = Tasks
  BY <1>1 DEF Good
<1>. QED
  BY <1>10, <1>11, <1>19, <1>20, StandsNext

LEMMA InitGood ==
  ASSUME Init
  PROVE  Good
<1>1. /\ DOMAIN kind = Tasks /\ log = <<m>>
      /\ m.entry = [t \in Tasks |-> "none"] /\ m.lease = NoLease
      /\ {"tasks", "entry", "outcome", "pipe", "lease"} \subseteq DOMAIN m
  BY DEF Init
<1>2. Frame(m)
  BY <1>1 DEF Frame, NoLease
<1>3. Image(m) /\ Settled(m) /\ Grows(m, m)
  BY <1>1, <1>2 DEF Image, Alone, LeaseOK, Settled, Grows, NoLease, InRun
<1>4. IsSeq(log) /\ Len(log) = 1 /\ log[1] = m
  BY <1>1, <<m>> \in Seq({m}) DEF IsSeq
<1>5. \A i \in 1..Len(log) : log[i] = m
  BY <1>4
<1>. QED
  BY <1>1, <1>3, <1>4, <1>5 DEF Good, Stands

LEMMA NextGood ==
  ASSUME Good, [Next]_vars
  PROVE  Good'
<1>1. CASE UNCHANGED vars
  BY <1>1, RestGood DEF vars
<1>2. ASSUME NEW t \in Tasks, Commands(t)
      PROVE  Good'
  BY <1>2, StartSteps, EndSteps, InspectedGood, SwitchedGood, WrapSteps DEF Commands
<1>3. ASSUME NEW t \in Tasks, Asked(t)
      PROVE  Good'
  BY <1>3, EnqueueGood, StartSteps, EndSteps DEF Asked
<1>4. ASSUME NEW t \in Tasks, WrapsUp(t) \/ Edits(t)
      PROVE  Good'
  BY <1>4, RestGood DEF WrapsUp, CostRead, Commits, Pushes, OpensPull, WrapStep, Edits
<1>5. CASE LeaseJob \/ UsesFolder \/ \E b \in Tasks \cup UserBranches : PullCloses(b)
  BY <1>5, RestGood DEF LeaseJob, Inspects, Looks, Switches, GivesBack, UsesFolder, PullCloses
<1>6. CASE OwnCommands \/ runner_stop
  BY <1>6, OwnSteps
<1>7. CASE runner_checkout_retry
  BY <1>7, ReturnSteps
<1>8. CASE WriterApplies
  BY <1>8, WriterGood
<1>9. CASE Restart
  BY <1>9, RestartGood
<1>. QED
  BY <1>1, <1>2, <1>3, <1>4, <1>5, <1>6, <1>7, <1>8, <1>9 DEF Next

LEMMA GoodIsOne == Good => OneRunInFolder
<1>. SUFFICES ASSUME Good PROVE OneRunInFolder
  OBVIOUS
<1>. DEFINE S == {t \in Tasks : InFolder(t) /\ InRun(m.entry[t])}
<1>1. Alone(m)
  BY DEF Good, Stands, Image
<1>2. Cardinality(S) <= 1
  <2>1. CASE S = {}
    BY <2>1, FS_EmptySet
  <2>2. CASE S # {}
    <3>1. PICK t \in Tasks : t \in S
      BY <2>2
    <3>2. S = {t}
      BY <1>1, <3>1 DEF Alone
    <3>. HIDE DEF S
    <3>. QED
      BY <3>2, FS_Singleton
  <2>. QED
    BY <2>1, <2>2
<1>. QED
  BY <1>1, <1>2 DEF OneRunInFolder, Alone

(* One task at a time works in the project folder, whatever order the      *)
(* dispatch, a person's starts, the sweep, the reports of git and of the   *)
(* pipelines come in, and wherever a crash cuts the queue of writes: every *)
(* image that may be found on disk has at most one run there, and a lease  *)
(* that is that run's (runner_checkout_refusal, runner_checkout_begin,     *)
(* runner_checkout_restore).                                               *)
THEOREM OneInFolder == Spec => []OneRunInFolder
<1>1. Init => Good
  BY InitGood
<1>2. Good /\ [Next]_vars => Good'
  BY NextGood
<1>3. Good => OneRunInFolder
  BY GoodIsOne
<1>. QED
  BY <1>1, <1>2, <1>3, PTL DEF Spec

-----------------------------------------------------------------------------
(* Slots *)

(* Those who take a slot: runs, and the one a folder is being prepared for. *)
Taken(x) ==
  {t \in Tasks : InRun(x.entry[t]) \/ (x.lease.task = t /\ x.lease.state = "preparing")}

(* A handler under way none of whose writes gives a slot to others than B. *)
Fits(a, B) ==
  /\ {"x", "w"} \subseteq DOMAIN a /\ IsSeq(a.w)
  /\ Frame(a.x) /\ Taken(a.x) \subseteq B
  /\ \A i \in 1..Len(a.w) : Taken(a.w[i]) \subseteq B

LEMMA FitsNotes ==
  ASSUME NEW a, NEW B, Fits(a, B), NEW b, {"x", "w"} \subseteq DOMAIN b, b.x = a.x, b.w = a.w
  PROVE  Fits(b, B)
  BY DEF Fits

LEMMA FitsSave ==
  ASSUME NEW a, NEW B, Fits(a, B), NEW x, Frame(x), Taken(x) \subseteq B
  PROVE  Fits(Save(a, x), B) /\ Save(a, x).x = x
<1>1. PICK b : b = Save(a, x)
  OBVIOUS
<1>2. {"x", "w"} \subseteq DOMAIN b /\ b.x = x /\ b.w = Append(a.w, x)
  BY <1>1 DEF Fits, Save
<1>3. /\ IsSeq(b.w) /\ Len(a.w) \in Nat /\ Len(b.w) = Len(a.w) + 1
      /\ \A i \in 1..Len(a.w) : b.w[i] = a.w[i]
      /\ b.w[Len(a.w) + 1] = x
  BY <1>2, AppendAny DEF Fits
<1>4. ASSUME NEW i \in 1..Len(b.w)
      PROVE  Taken(b.w[i]) \subseteq B
  <2>1. i \in 1..Len(a.w) \/ i = Len(a.w) + 1
    BY <1>3
  <2>. QED
    BY <1>3, <2>1 DEF Fits
<1>. QED
  BY <1>1, <1>2, <1>3, <1>4 DEF Fits

(* Other fields, and other return points, take no slot. *)
LEMMA FitsSame ==
  ASSUME NEW a, NEW B, Fits(a, B), NEW x, SameKeys(a.x, x)
  PROVE  Fits(Save(a, x), B) /\ Save(a, x).x = x
<1>1. Frame(x) /\ Taken(x) \subseteq B
  BY DEF SameKeys, Taken, Fits
<1>. QED
  BY <1>1, FitsSave

LEMMA FitsLease ==
  ASSUME NEW a, NEW B, Fits(a, B), NEW state, state # "preparing"
  PROVE  Fits(runner_put_lease(a, state), B) /\ Fits(runner_drop_lease(a), B)
<1>1. PICK y : y = [a.x EXCEPT !.lease.state = state]
  OBVIOUS
<1>2. Frame(y) /\ y.entry = a.x.entry /\ y.lease.state = state
  BY <1>1 DEF Fits, Frame
<1>3. Taken(y) \subseteq B
  BY <1>2 DEF Taken, Fits
<1>4. PICK z : z = [a.x EXCEPT !.lease = NoLease]
  OBVIOUS
<1>5. Frame(z) /\ z.entry = a.x.entry /\ z.lease.state = "none"
  BY <1>4 DEF Fits, Frame, NoLease
<1>6. Taken(z) \subseteq B
  BY <1>5 DEF Taken, Fits
<1>. QED
  BY <1>1, <1>2, <1>3, <1>4, <1>5, <1>6, FitsSave DEF runner_put_lease, runner_drop_lease

LEMMA FitsGiveBack ==
  ASSUME NEW a, NEW B, Fits(a, B)
  PROVE  Fits(runner_give_back(a), B)
<1>1. PICK c : c = runner_put_lease(a, "returning")
  OBVIOUS
<1>2. Fits(c, B)
  BY <1>1, FitsLease
<1>3. PICK b : b = runner_give_back(a)
  OBVIOUS
<1>4. {"x", "w"} \subseteq DOMAIN b /\ b.x = c.x /\ b.w = c.w
  BY <1>1, <1>2, <1>3 DEF runner_give_back, Fits
<1>. QED
  BY <1>2, <1>3, <1>4, FitsNotes

LEMMA FitsEntry ==
  ASSUME NEW a, NEW B, Fits(a, B), NEW t \in Tasks, NEW e, ~InRun(e) \/ t \in B
  PROVE  /\ Fits(runner_put_entry(a, t, e), B)
         /\ Fits(runner_end_entry(a, t), B)
<1>1. ASSUME NEW f, ~InRun(f) \/ t \in B
      PROVE  Fits(runner_put_entry(a, t, f), B)
  <2>1. PICK y : y = [a.x EXCEPT !.entry[t] = f]
    OBVIOUS
  <2>2. Frame(y) /\ y.entry = [a.x.entry EXCEPT ![t] = f] /\ y.lease = a.x.lease
    BY <2>1 DEF Fits, Frame
  <2>3. y.entry[t] = f /\ \A u \in Tasks : u # t => y.entry[u] = a.x.entry[u]
    BY <2>2 DEF Fits, Frame
  <2>4. Taken(y) \subseteq B
    BY <1>1, <2>2, <2>3 DEF Taken, Fits
  <2>5. PICK b : b = Save(a, y)
    OBVIOUS
  <2>6. Fits(b, B)
    BY <2>2, <2>4, <2>5, FitsSave
  <2>7. Fits(runner_checkout_entry_left(b, t), B)
    BY <2>6, FitsGiveBack DEF runner_checkout_entry_left
  <2>. QED
    BY <2>1, <2>5, <2>6, <2>7 DEF runner_put_entry
<1>2. ~InRun("left")
  BY DEF InRun
<1>. QED
  BY <1>1, <1>2 DEF runner_end_entry

LEMMA FitsRun ==
  ASSUME NEW a, NEW B, Fits(a, B), NEW t \in Tasks, NEW b, PutsRun(a, t, b)
  PROVE  Fits(b, B) /\ b.x.entry = a.x.entry
<1>1. PICK outcome, keep : b = runner_put_run(a, t, outcome, keep)
  BY DEF PutsRun
<1>2. PICK y : y = [a.x EXCEPT !.outcome[t] = outcome]
  OBVIOUS
<1>3. SameKeys(a.x, y)
  BY <1>2 DEF Fits, Frame, SameKeys
<1>4. PICK c : c = Save(a, y)
  OBVIOUS
<1>5. Fits(c, B) /\ c.x = y
  BY <1>3, <1>4, FitsSame
<1>6. {"x", "w"} \subseteq DOMAIN b /\ b.x = c.x /\ b.w = c.w
  BY <1>1, <1>2, <1>4, <1>5 DEF runner_put_run, Fits
<1>. QED
  BY <1>3, <1>5, <1>6, FitsNotes DEF SameKeys

LEMMA FitsRedispatch ==
  ASSUME NEW a, NEW B, Fits(a, B)
  PROVE  Fits(Redispatch(a), B)
<1>1. PICK b : b = Redispatch(a)
  OBVIOUS
<1>2. {"x", "w"} \subseteq DOMAIN b /\ b.x = a.x /\ b.w = a.w
  BY <1>1 DEF Redispatch, Fits
<1>. QED
  BY <1>1, <1>2, FitsNotes

LEMMA FitsDiscard ==
  ASSUME NEW a, NEW B, Fits(a, B), NEW t \in Tasks
  PROVE  Fits(runner_discard_queued(a, t), B)
<1>1. PICK c : c = runner_put_entry(a, t, "left")
  OBVIOUS
<1>2. Fits(c, B)
  BY <1>1, FitsEntry DEF InRun
<1>3. PICK b : b = runner_discard_queued(a, t)
  OBVIOUS
<1>4. {"x", "w"} \subseteq DOMAIN b /\ b.x = c.x /\ b.w = c.w
  BY <1>1, <1>2, <1>3 DEF runner_discard_queued, Fits
<1>. QED
  BY <1>2, <1>3, <1>4, FitsNotes

(* The end of a pipeline keeps the slot its run has, for the delivery. *)
LEMMA FitsFinished ==
  ASSUME NEW a, NEW B, Fits(a, B), NEW t \in Tasks, NEW outcome, a.x.entry[t] = "running" => t \in B
  PROVE  Fits(runner_pipeline_finished(a, t, outcome), B)
<1>1. CASE a.x.entry[t] # "running"
  BY <1>1 DEF runner_pipeline_finished
<1>2. CASE a.x.entry[t] = "running"
  <2>1. PICK delivers : delivers = (DeliversAfter(outcome) /\ Delivers(t) /\ Isolated(a.x, t))
    OBVIOUS
  <2>2. PICK b : b = runner_put_entry(a, t, IF delivers THEN "delivering" ELSE "left")
    OBVIOUS
  <2>3. PICK c : c = runner_put_run(b, t, IF delivers THEN "delivering" ELSE AttemptEnds(t, outcome), TRUE)
    OBVIOUS
  <2>4. PICK d : d = [c EXCEPT !.finishing = @ \cup {t},
                               !.wrap[t] = [NoWrap EXCEPT !.at = "flush", !.deliver = delivers,
                                                          !.wait = Behind(c)]]
    OBVIOUS
  <2>5. Fits(b, B)
    BY <1>2, <2>2, FitsEntry
  <2>6. Fits(c, B)
    BY <2>3, <2>5, FitsRun DEF PutsRun
  <2>7. {"x", "w"} \subseteq DOMAIN d /\ d.x = c.x /\ d.w = c.w
    BY <2>4, <2>6 DEF Fits
  <2>8. Fits(d, B)
    BY <2>6, <2>7, FitsNotes
  <2>9. runner_pipeline_finished(a, t, outcome) = Redispatch(IF t \in a.runs THEN d ELSE b)
    BY <1>2, <2>1, <2>2, <2>3, <2>4 DEF runner_pipeline_finished
  <2>. QED
    BY <2>5, <2>8, <2>9, FitsRedispatch
<1>. QED
  BY <1>1, <1>2

LEMMA FitsDeleted ==
  ASSUME NEW a, NEW B, Fits(a, B), NEW t \in Tasks
  PROVE  Fits(runner_task_deleted(a, t), B)
<1>1. PICK b : b = IF t \in a.runs /\ a.x.outcome[t] \notin Final
                   THEN runner_put_run(a, t, "deleted", t \in a.finishing) ELSE a
  OBVIOUS
<1>2. b = a \/ PutsRun(a, t, b)
  BY <1>1 DEF PutsRun
<1>3. ~InRun("left")
  BY DEF InRun
<1>4. Fits(runner_put_entry(a, t, "left"), B) /\ Fits(runner_end_entry(b, t), B)
  BY <1>2, <1>3, FitsRun, FitsEntry
<1>5. runner_task_deleted(a, t) \in {a, Redispatch(runner_put_entry(a, t, "left")),
                                     Redispatch(runner_end_entry(b, t))}
  BY <1>1 DEF runner_task_deleted
<1>. QED
  BY <1>4, <1>5, FitsRedispatch

(* A start gives a slot to the task that is started. *)
LEMMA FitsStart ==
  ASSUME NEW a, NEW B, Fits(a, B), NEW t \in B, t \in Tasks, NEW created
  PROVE  Fits(runner_start(a, t, created), B)
<1>1. CASE created = "refused"
  <2>1. PICK b : b = runner_put_entry(a, t, "left")
    OBVIOUS
  <2>2. Fits(b, B)
    BY <2>1, FitsEntry
  <2>3. PutsRun(b, t, runner_start(a, t, created))
    BY <1>1, <2>1 DEF runner_start, PutsRun
  <2>. QED
    BY <2>2, <2>3, FitsRun
<1>2. CASE created # "refused"
  <2>1. PICK begun : begun = [a.x EXCEPT !.pipe[t] = created]
    OBVIOUS
  <2>2. PICK b : b = IF created = "checkout" THEN [a EXCEPT !.x = begun] ELSE Save(a, begun)
    OBVIOUS
  <2>3. SameKeys(a.x, begun)
    BY <2>1 DEF Fits, Frame, SameKeys
  <2>4. Fits(b, B)
    <3>1. CASE created = "checkout"
      <4>1. {"x", "w"} \subseteq DOMAIN b /\ b.x = begun /\ b.w = a.w
        BY <2>2, <3>1 DEF Fits
      <4>. QED
        BY <2>3, <4>1 DEF Fits, SameKeys, Taken
    <3>2. CASE created # "checkout"
      BY <2>2, <2>3, <3>2, FitsSame
    <3>. QED
      BY <3>1, <3>2
  <2>5. PICK c : c = runner_put_entry(b, t, "running")
    OBVIOUS
  <2>6. Fits(c, B)
    BY <2>4, <2>5, FitsEntry
  <2>7. PutsRun(c, t, runner_start(a, t, created))
    BY <1>2, <2>1, <2>2, <2>5 DEF runner_start, PutsRun
  <2>. QED
    BY <2>6, <2>7, FitsRun
<1>. QED
  BY <1>1, <1>2

LEMMA FitsTryStart ==
  ASSUME NEW a, NEW B, Fits(a, B), NEW t \in B, t \in Tasks, NEW created,
         a.x.lease.state # "preparing"
  PROVE  Fits(runner_try_start(a, t, created), B)
<1>1. CASE Leased(t)
  <2>1. PICK y : y = [a.x EXCEPT !.lease = [task |-> t, state |-> "preparing", back |-> "none"]]
    OBVIOUS
  <2>2. Frame(y) /\ y.entry = a.x.entry /\ y.lease.task = t
    BY <2>1 DEF Fits, Frame
  <2>3. Taken(y) \subseteq B
    BY <2>2 DEF Taken, Fits
  <2>4. PICK c : c = Save(a, y)
    OBVIOUS
  <2>5. Fits(c, B)
    BY <2>2, <2>3, <2>4, FitsSave
  <2>6. PICK b : b = runner_checkout_begin(a, t)
    OBVIOUS
  <2>7. {"x", "w"} \subseteq DOMAIN b /\ b.x = c.x /\ b.w = c.w
    BY <2>1, <2>4, <2>5, <2>6 DEF runner_checkout_begin, Fits
  <2>. QED
    BY <1>1, <2>5, <2>6, <2>7, FitsNotes DEF runner_try_start
<1>2. CASE ~Leased(t)
  BY <1>2, FitsStart DEF runner_try_start
<1>. QED
  BY <1>1, <1>2

LEMMA FitsRefused ==
  ASSUME NEW a, NEW B, Fits(a, B), NEW t
  PROVE  Fits(runner_checkout_refused(a, t), B)
<1>1. PICK c : c = runner_drop_lease(a)
  OBVIOUS
<1>2. Fits(c, B)
  BY <1>1, FitsLease
<1>3. PICK b : b = runner_checkout_refused(a, t)
  OBVIOUS
<1>4. {"x", "w"} \subseteq DOMAIN b /\ b.x = c.x /\ b.w = c.w
  BY <1>1, <1>2, <1>3 DEF runner_checkout_refused, Fits
<1>. QED
  BY <1>2, <1>3, <1>4, FitsNotes

LEMMA FitsRestored ==
  ASSUME NEW a, NEW B, Fits(a, B)
  PROVE  Fits(runner_checkout_restore(a), B)
  BY FitsGiveBack, FitsLease DEF runner_checkout_restore

LEMMA FitsSweep ==
  ASSUME NEW a, NEW B, Fits(a, B), NEW t \in Tasks, Taken(a.x) \subseteq B
  PROVE  Fits(runner_sweep(a, t), B)
<1>1. PICK b : b = [a EXCEPT !.x.entry[t] = "running"]
  OBVIOUS
<1>2. Fits(runner_task_deleted(a, t), B)
  BY FitsDeleted
<1>3. InRun(a.x.entry[t]) => t \in B
  BY DEF Taken
<1>4. a.x.entry[t] = "running" => Fits(runner_pipeline_finished(a, t, a.x.pipe[t]), B)
  BY <1>3, FitsFinished DEF InRun
<1>5. a.x.entry[t] = "delivering" => Fits(runner_pipeline_finished(b, t, "success"), B)
  <2>1. SUFFICES ASSUME a.x.entry[t] = "delivering"
                 PROVE  Fits(b, B) /\ t \in B
    BY FitsFinished
  <2>2. PICK y : y = [a.x EXCEPT !.entry[t] = "running"]
    OBVIOUS
  <2>3. {"x", "w"} \subseteq DOMAIN b /\ b.x = y /\ b.w = a.w
    BY <1>1, <2>2 DEF Fits
  <2>4. Frame(y) /\ y.entry = [a.x.entry EXCEPT ![t] = "running"] /\ y.lease = a.x.lease
    BY <2>2 DEF Fits, Frame
  <2>5. \A u \in Tasks : u # t => y.entry[u] = a.x.entry[u]
    BY <2>4 DEF Fits, Frame
  <2>6. t \in B
    BY <1>3, <2>1 DEF InRun
  <2>7. Taken(y) \subseteq B
    BY <2>4, <2>5, <2>6 DEF Taken, Fits
  <2>. QED
    BY <2>3, <2>4, <2>6, <2>7 DEF Fits
<1>. QED
  BY <1>1, <1>2, <1>4, <1>5 DEF runner_sweep

-----------------------------------------------------------------------------
(* Steps and slots *)

Few(x, H) == IsFiniteSet(Taken(x)) /\ Cardinality(Taken(x) \ H) <= MaxConcurrent
(* Whatever a restart may find takes no more slots than there are. *)
Slim ==
  /\ "byHand" \in DOMAIN hist
  /\ Few(m, hist.byHand) /\ \A i \in 1..Len(log) : Few(log[i], hist.byHand)

LEMMA FewFit ==
  ASSUME NEW x, NEW B, NEW H, Taken(x) \subseteq B, IsFiniteSet(B),
         Cardinality(B \ H) <= MaxConcurrent
  PROVE  Few(x, H)
<1>1. IsFiniteSet(Taken(x)) /\ IsFiniteSet(B \ H)
  BY FS_Subset, B \ H \subseteq B
<1>2. Taken(x) \ H \subseteq B \ H
  OBVIOUS
<1>3. Cardinality(Taken(x) \ H) <= Cardinality(B \ H) /\ Cardinality(B \ H) \in Nat
      /\ IsFiniteSet(Taken(x) \ H)
  BY <1>1, <1>2, FS_Subset, FS_CardinalityType
<1>4. Cardinality(Taken(x) \ H) \in Nat
  BY <1>3, FS_CardinalityType
<1>. QED
  BY <1>1, <1>3, <1>4, FactoryAssumption DEF Few, FactoryAssumption

LEMMA SlimNext ==
  ASSUME Good, Slim, NEW a, NEW B, Fits(a, B), Becomes(a), IsFiniteSet(B),
         "byHand" \in DOMAIN hist', hist.byHand \subseteq hist'.byHand,
         Cardinality(B \ hist'.byHand) <= MaxConcurrent
  PROVE  Slim'
<1>1. m' = a.x /\ log' = log \o a.w
  BY DEF Becomes, Holds
<1>2. IsSeq(log) /\ IsSeq(a.w)
  BY DEF Good, Stands, Fits
<1>3. PICK w, l, H : w = a.w /\ l = log' /\ H = hist'.byHand
  OBVIOUS
<1>4. \A i \in 1..Len(l) : \/ i \in 1..Len(log) /\ l[i] = log[i]
                           \/ i - Len(log) \in 1..Len(w) /\ l[i] = w[i - Len(log)]
  BY <1>1, <1>2, <1>3, ConcatAny
<1>5. \A i \in 1..Len(w) : Taken(w[i]) \subseteq B
  BY <1>3 DEF Fits
<1>6. ASSUME NEW i \in 1..Len(log)
      PROVE  Few(log[i], H)
  <2>1. Few(log[i], hist.byHand)
    BY DEF Slim
  <2>2. PICK T : T = Taken(log[i])
    OBVIOUS
  <2>3. IsFiniteSet(T) /\ Cardinality(T \ hist.byHand) <= MaxConcurrent
    BY <2>1, <2>2 DEF Few
  <2>4. IsFiniteSet(T \ hist.byHand) /\ T \ H \subseteq T \ hist.byHand
    BY <1>3, <2>3, FS_Subset, T \ hist.byHand \subseteq T
  <2>5. /\ Cardinality(T \ H) <= Cardinality(T \ hist.byHand)
        /\ IsFiniteSet(T \ H)
    BY <2>4, FS_Subset
  <2>6. Cardinality(T \ H) \in Nat /\ Cardinality(T \ hist.byHand) \in Nat
    BY <2>4, <2>5, FS_CardinalityType
  <2>7. Cardinality(T \ H) <= MaxConcurrent
    BY <2>3, <2>5, <2>6, FactoryAssumption DEF FactoryAssumption
  <2>. QED
    BY <2>2, <2>3, <2>7 DEF Few
<1>7. ASSUME NEW x, Taken(x) \subseteq B
      PROVE  Few(x, H)
  BY <1>3, <1>7, FewFit
<1>8. Few(a.x, H)
  BY <1>7 DEF Fits
<1>9. \A i \in 1..Len(l) : Few(l[i], H)
  BY <1>4, <1>5, <1>6, <1>7
<1>. QED
  BY <1>1, <1>3, <1>8, <1>9 DEF Slim, Few, Taken

(* A handler that gives no slot to anybody new. *)
LEMMA SlimKept ==
  ASSUME Good, Slim, NEW a, Fits(a, Taken(m)), Becomes(a),
         hist' = hist \/ \E S : hist' = [hist EXCEPT !.lost = S]
  PROVE  Slim'
<1>1. IsFiniteSet(Taken(m)) /\ Cardinality(Taken(m) \ hist.byHand) <= MaxConcurrent
  BY DEF Slim, Few
<1>2. "byHand" \in DOMAIN hist' /\ hist'.byHand = hist.byHand
  BY DEF Slim
<1>. QED
  BY <1>1, <1>2, SlimNext

LEMMA HereFits ==
  ASSUME Good
  PROVE  Fits(Here, Taken(m)) /\ Here.x = m /\ {"x", "w"} \subseteq DOMAIN Here
<1>1. Here.x = m /\ Here.w = <<>> /\ {"x", "w"} \subseteq DOMAIN Here
  BY DEF Here
<1>2. IsSeq(<<>>) /\ Len(<<>>) = 0
  BY DEF IsSeq
<1>3. Frame(m)
  BY DEF Good, Stands, Image
<1>. QED
  BY <1>1, <1>2, <1>3 DEF Fits

LEMMA MoreFits ==
  ASSUME NEW a, NEW B, Fits(a, B), NEW C, B \subseteq C
  PROVE  Fits(a, C)
  BY DEF Fits

(* A set grows by one element at most when one is added. *)
LEMMA OneMore ==
  ASSUME NEW S, IsFiniteSet(S), NEW x
  PROVE  Cardinality(S \cup {x}) <= Cardinality(S) + 1
<1>. DEFINE n == Cardinality(S)
<1>1. n \in Nat
  BY FS_CardinalityType
<1>2. Cardinality(S \cup {x}) = n \/ Cardinality(S \cup {x}) = n + 1
  BY FS_AddElement
<1>. HIDE DEF n
<1>3. Cardinality(S \cup {x}) <= n + 1
  BY <1>1, <1>2
<1>. QED
  BY <1>3 DEF n

(* The starts: a slot was free, or a person asked for it. *)
LEMMA StartSlots ==
  ASSUME Good, Slim, NEW t \in Tasks, DispatchStarts(t) \/ runner_start_now(t)
  PROVE  Slim'
<1>0. Fits(Here, Taken(m)) /\ Here.x = m /\ {"x", "w"} \subseteq DOMAIN Here
  BY HereFits
<1>. DEFINE B == Taken(m) \cup {t}
           H == hist.byHand
<1>1. /\ IsFiniteSet(Taken(m)) /\ Cardinality(Taken(m) \ H) <= MaxConcurrent
      /\ IsFiniteSet(B)
  BY FS_AddElement DEF Slim, Few
<1>2. CASE DispatchStarts(t)
  <2>1. PICK created : Becomes(runner_try_start(Here, t, created))
    BY <1>2 DEF DispatchStarts
  <2>2. m.lease.state # "preparing"
    BY <1>0, <1>2 DEF DispatchStarts, MayStart, runner_checkout_refusal
  <2>3. Fits(runner_try_start(Here, t, created), B)
    BY <1>0, <2>2, MoreFits, FitsTryStart
  <2>4. Taken(m) = {u \in Tasks : InRun(m.entry[u])}
    BY <2>2 DEF Taken
  <2>5. Cardinality(Taken(m)) < MaxConcurrent
    <3>1. ~(runner_slots(m) >= MaxConcurrent)
      BY <1>2 DEF DispatchStarts, runner_project_wait
    <3>2. Cardinality(Taken(m)) \in Nat
      BY <1>1, FS_CardinalityType
    <3>3. runner_slots(m) = Cardinality(Taken(m)) + 0
      BY <2>2, <2>4 DEF runner_slots
    <3>. QED
      BY <3>1, <3>2, <3>3, FactoryAssumption DEF FactoryAssumption
  <2>6. Cardinality(B \ H) <= MaxConcurrent
    <3>1. IsFiniteSet(B \ H) /\ Cardinality(B \ H) <= Cardinality(B)
      BY <1>1, FS_Subset, B \ H \subseteq B
    <3>2. Cardinality(B) <= Cardinality(Taken(m)) + 1
      BY <1>1, OneMore
    <3>3. Cardinality(B \ H) \in Nat /\ Cardinality(B) \in Nat /\ Cardinality(Taken(m)) \in Nat
      BY <1>1, <3>1, FS_CardinalityType
    <3>. QED
      BY <2>5, <3>1, <3>2, <3>3, FactoryAssumption DEF FactoryAssumption
  <2>7. hist' = hist
    BY <1>2 DEF DispatchStarts, Quietly
  <2>. QED
    BY <1>1, <2>1, <2>3, <2>6, <2>7, SlimNext DEF Slim
<1>3. CASE runner_start_now(t)
  <2>1. PICK a : a = [Here EXCEPT !.block = FALSE]
    OBVIOUS
  <2>2. PICK b : b = IF Leased(t) THEN [a EXCEPT !.forced = @ \cup {t}] ELSE a
    OBVIOUS
  <2>3. {"x", "w"} \subseteq DOMAIN a /\ a.x = m /\ a.w = Here.w
    BY <1>0, <2>1
  <2>4. {"x", "w"} \subseteq DOMAIN b /\ b.x = m /\ b.w = Here.w
    BY <2>2, <2>3
  <2>5. Fits(a, Taken(m)) /\ Fits(b, Taken(m)) /\ Fits(b, B)
    BY <1>0, <2>3, <2>4, FitsNotes, MoreFits
  <2>6. \/ /\ MayStart(a, t) /\ hist' = [hist EXCEPT !.byHand = @ \cup {t}]
           /\ \E created : Becomes(runner_try_start(b, t, created))
        \/ Becomes(a) /\ hist' = hist
    BY <1>3, <2>1, <2>2 DEF runner_start_now
  <2>7. CASE Becomes(a) /\ hist' = hist
    BY <2>5, <2>7, SlimKept
  <2>8. ASSUME MayStart(a, t), hist' = [hist EXCEPT !.byHand = @ \cup {t}],
               NEW created, Becomes(runner_try_start(b, t, created))
        PROVE  Slim'
    <3>1. b.x.lease.state # "preparing"
      BY <2>3, <2>4, <2>8 DEF MayStart, runner_checkout_refusal
    <3>2. Fits(runner_try_start(b, t, created), B)
      BY <2>5, <3>1, FitsTryStart
    <3>3. /\ "byHand" \in DOMAIN hist' /\ hist.byHand \subseteq hist'.byHand
          /\ B \ hist'.byHand \subseteq Taken(m) \ H
      BY <2>8 DEF Slim
    <3>4. IsFiniteSet(Taken(m) \ H) /\ Cardinality(Taken(m) \ H) \in Nat
      BY <1>1, FS_Subset, FS_CardinalityType, Taken(m) \ H \subseteq Taken(m)
    <3>5. Cardinality(B \ hist'.byHand) <= Cardinality(Taken(m) \ H)
      BY <3>3, <3>4, FS_Subset
    <3>6. Cardinality(B \ hist'.byHand) \in Nat
      BY <3>3, <3>4, FS_Subset, FS_CardinalityType
    <3>7. Cardinality(Taken(m) \ H) <= MaxConcurrent
      BY DEF Slim, Few
    <3>8. Cardinality(B \ hist'.byHand) <= MaxConcurrent
      BY <3>4, <3>5, <3>6, <3>7, FactoryAssumption DEF FactoryAssumption
    <3>. QED
      BY <1>1, <2>8, <3>2, <3>3, <3>8, SlimNext
  <2>. QED
    BY <2>6, <2>7, <2>8
<1>. QED
  BY <1>2, <1>3

(* Handlers that hand on the slot of a run, or free it. *)
LEMMA EndSlots ==
  ASSUME Good, Slim, NEW t \in Tasks,
         \/ DispatchDiscards(t) \/ runner_dequeue(t) \/ StopsOne(t) \/ SweepsOne(t)
         \/ CheckoutLands(t) \/ DeleteTask(t)
         \/ \E outcome \in {"success", "limit", "failed"} : PipelineEnds(t, outcome)
  PROVE  Slim'
<1>0. Fits(Here, Taken(m)) /\ Here.x = m /\ {"x", "w"} \subseteq DOMAIN Here
  BY HereFits
<1>1. ASSUME NEW a, Fits(a, Taken(m)), a.x.entry = m.entry, NEW pipe
      PROVE  /\ Fits(Save(a, [a.x EXCEPT !.pipe[t] = pipe]), Taken(m))
             /\ Save(a, [a.x EXCEPT !.pipe[t] = pipe]).x.entry = m.entry
  <2>1. PICK y : y = [a.x EXCEPT !.pipe[t] = pipe]
    OBVIOUS
  <2>2. SameKeys(a.x, y)
    BY <1>1, <2>1 DEF Fits, Frame, SameKeys
  <2>. QED
    BY <1>1, <2>1, <2>2, FitsSame DEF SameKeys
<1>2. ASSUME NEW outcome
      PROVE  Fits(workflow_finalize(Here, t, outcome), Taken(m))
  <2>1. m.entry[t] = "running" => t \in Taken(m)
    BY DEF Taken, InRun
  <2>2. PICK b : b = Save(Here, [Here.x EXCEPT !.pipe[t] = outcome])
    OBVIOUS
  <2>3. Fits(b, Taken(m)) /\ b.x.entry = m.entry
    BY <1>0, <1>1, <2>2
  <2>. QED
    BY <2>1, <2>2, <2>3, FitsFinished DEF workflow_finalize
<1>3. Fits(runner_discard_queued(Here, t), Taken(m)) /\ Fits(runner_sweep(Here, t), Taken(m))
  BY <1>0, FitsDiscard, FitsSweep
<1>4. CASE DispatchDiscards(t) \/ runner_dequeue(t)
  BY <1>3, <1>4, SlimKept DEF DispatchDiscards, runner_dequeue, Quietly
<1>5. CASE StopsOne(t)
  <2>1. /\ hist' = hist
        /\ \/ Becomes(Here) \/ Becomes(workflow_finalize(Here, t, "stopped"))
           \/ Becomes(runner_discard_queued(Here, t))
    BY <1>5 DEF StopsOne, Quietly
  <2>. QED
    BY <1>0, <1>2, <1>3, <2>1, SlimKept
<1>6. CASE SweepsOne(t)
  BY <1>3, <1>6, SlimKept DEF SweepsOne, Quietly
<1>7. CASE CheckoutLands(t)
  <2>1. /\ hist' = hist
        /\ \/ Becomes(workflow_finalize(Here, t, "failed"))
           \/ Becomes(Save(Here, [Here.x EXCEPT !.pipe[t] = "active"]))
    BY <1>0, <1>7 DEF CheckoutLands, Quietly
  <2>. QED
    BY <1>0, <1>1, <1>2, <2>1, SlimKept
<1>8. CASE \E outcome \in {"success", "limit", "failed"} : PipelineEnds(t, outcome)
  BY <1>2, <1>8, SlimKept DEF PipelineEnds, Quietly
<1>9. CASE DeleteTask(t)
  <2>1. PICK a : a = IF Running(m, t) THEN workflow_finalize(Here, t, "stopped") ELSE Here
    OBVIOUS
  <2>2. PICK b : b = IF m.pipe[t] = "none" THEN a ELSE Save(a, [a.x EXCEPT !.pipe[t] = "none"])
    OBVIOUS
  <2>3. PICK c : c = runner_task_deleted(b, t)
    OBVIOUS
  <2>4. PICK y : y = [c.x EXCEPT !.tasks = @ \ {t}]
    OBVIOUS
  <2>5. PICK d : d = Save(c, y)
    OBVIOUS
  <2>6. PICK e : e = [d EXCEPT !.mail.delete = @ \ {t}]
    OBVIOUS
  <2>7. Becomes(e) /\ hist' = hist
    BY <1>9, <2>1, <2>2, <2>3, <2>4, <2>5, <2>6 DEF DeleteTask
  <2>8. Fits(a, Taken(m))
    BY <1>0, <1>2, <2>1
  <2>9. Fits(b, Taken(m))
    <3>1. PICK z : z = [a.x EXCEPT !.pipe[t] = "none"]
      OBVIOUS
    <3>2. SameKeys(a.x, z)
      BY <2>8, <3>1 DEF Fits, Frame, SameKeys
    <3>. QED
      BY <2>2, <2>8, <3>1, <3>2, FitsSame
  <2>10. Fits(c, Taken(m))
    BY <2>3, <2>9, FitsDeleted
  <2>11. SameKeys(c.x, y)
    BY <2>4, <2>10 DEF Fits, Frame, SameKeys
  <2>12. Fits(d, Taken(m))
    BY <2>5, <2>10, <2>11, FitsSame
  <2>13. {"x", "w"} \subseteq DOMAIN e /\ e.x = d.x /\ e.w = d.w
    BY <2>6, <2>12 DEF Fits
  <2>. QED
    BY <2>7, <2>12, <2>13, FitsNotes, SlimKept
<1>. QED
  BY <1>4, <1>5, <1>6, <1>7, <1>8, <1>9

(* The reports of the lease's git task: the task whose folder was prepared *)
(* has a slot already.                                                     *)
LEMMA LeaseSlots ==
  ASSUME Good, Slim, NEW t \in Tasks, runner_checkout_inspected(t) \/ runner_checkout_switched(t)
  PROVE  Slim'
<1>0. Fits(Here, Taken(m)) /\ Here.x = m /\ {"x", "w"} \subseteq DOMAIN Here
  BY HereFits
<1>1. hist' = hist /\ t \in Taken(m)
  BY DEF runner_checkout_inspected, runner_checkout_switched, Quietly, Preparing, Taken
<1>2. CASE runner_checkout_inspected(t)
  <2>1. PICK b : b = [runner_drop_lease(Here) EXCEPT !.job = NoJob]
    OBVIOUS
  <2>2. PICK y : y = [m EXCEPT !.lease.back = job.point]
    OBVIOUS
  <2>3. PICK a : a = Save(Here, y)
    OBVIOUS
  <2>4. PICK d : d = [a EXCEPT !.job.at = "flush", !.job.wait = Behind(a)]
    OBVIOUS
  <2>5. Becomes(runner_checkout_refused(Here, t)) \/ Becomes(b) \/ Becomes(d)
    BY <1>2, <2>1, <2>2, <2>3, <2>4 DEF runner_checkout_inspected
  <2>6. Fits(runner_checkout_refused(Here, t), Taken(m))
    BY <1>0, FitsRefused
  <2>7. Fits(b, Taken(m))
    <3>1. PICK c : c = runner_drop_lease(Here)
      OBVIOUS
    <3>2. Fits(c, Taken(m))
      BY <1>0, <3>1, FitsLease
    <3>3. {"x", "w"} \subseteq DOMAIN b /\ b.x = c.x /\ b.w = c.w
      BY <2>1, <3>1, <3>2 DEF Fits
    <3>. QED
      BY <3>2, <3>3, FitsNotes
  <2>8. Fits(d, Taken(m))
    <3>1. Frame(m)
      BY <1>0 DEF Fits
    <3>2. /\ Frame(y) /\ y.entry = m.entry
          /\ y.lease.task = m.lease.task /\ y.lease.state = m.lease.state
      BY <2>2, <3>1 DEF Frame
    <3>3. Taken(y) \subseteq Taken(m)
      BY <3>2 DEF Taken
    <3>4. Fits(a, Taken(m))
      BY <1>0, <2>3, <3>2, <3>3, FitsSave
    <3>5. {"x", "w"} \subseteq DOMAIN d /\ d.x = a.x /\ d.w = a.w
      BY <2>4, <3>4 DEF Fits
    <3>. QED
      BY <3>4, <3>5, FitsNotes
  <2>. QED
    BY <1>1, <2>5, <2>6, <2>7, <2>8, SlimKept
<1>3. CASE runner_checkout_switched(t)
  <2>1. PICK a : a = [Here EXCEPT !.forced = @ \ {t}, !.job = NoJob]
    OBVIOUS
  <2>2. {"x", "w"} \subseteq DOMAIN a /\ a.x = m /\ a.w = Here.w
    BY <1>0, <2>1
  <2>3. Fits(a, Taken(m))
    BY <1>0, <2>2, FitsNotes
  <2>4. PICK b : /\ Becomes(b)
                 /\ \/ b = runner_checkout_refused(a, t) \/ b = runner_give_back(a)
                    \/ b = runner_give_back(runner_discard_queued(a, t))
                    \/ \E created : LET c == runner_start(a, t, created) IN
                         b = runner_put_lease(c, "running") \/ b = runner_give_back(c)
    BY <1>3, <2>1 DEF runner_checkout_switched
  <2>5. \A created : Fits(runner_start(a, t, created), Taken(m))
    BY <1>1, <2>3, FitsStart
  <2>6. Fits(b, Taken(m))
    <3>1. Fits(runner_checkout_refused(a, t), Taken(m)) /\ Fits(runner_give_back(a), Taken(m))
      BY <2>3, FitsRefused, FitsGiveBack
    <3>2. Fits(runner_give_back(runner_discard_queued(a, t)), Taken(m))
      BY <2>3, FitsDiscard, FitsGiveBack
    <3>3. \A created : /\ Fits(runner_put_lease(runner_start(a, t, created), "running"), Taken(m))
                       /\ Fits(runner_give_back(runner_start(a, t, created)), Taken(m))
      BY <2>5, FitsLease, FitsGiveBack
    <3>. QED
      BY <2>4, <3>1, <3>2, <3>3
  <2>. QED
    BY <1>1, <2>4, <2>6, SlimKept
<1>. QED
  BY <1>2, <1>3

LEMMA ReturnSlots ==
  ASSUME Good, Slim, runner_checkout_returned \/ runner_checkout_retry
  PROVE  Slim'
<1>0. Fits(Here, Taken(m)) /\ Here.x = m /\ {"x", "w"} \subseteq DOMAIN Here
  BY HereFits
<1>1. hist' = hist
  BY DEF runner_checkout_returned, runner_checkout_retry, Quietly
<1>2. PICK a, b : a = [Here EXCEPT !.job = NoJob] /\ b = [Here EXCEPT !.block = FALSE]
  OBVIOUS
<1>3. Fits(a, Taken(m)) /\ Fits(b, Taken(m))
  <2>1. {"x", "w"} \subseteq DOMAIN a /\ a.x = Here.x /\ a.w = Here.w
    BY <1>0, <1>2
  <2>2. {"x", "w"} \subseteq DOMAIN b /\ b.x = Here.x /\ b.w = Here.w
    BY <1>0, <1>2
  <2>. QED
    BY <1>0, <2>1, <2>2, FitsNotes
<1>4. \/ Becomes(runner_drop_lease(a)) \/ Becomes(runner_put_lease(a, "held"))
      \/ Becomes(runner_give_back(b)) \/ Becomes(b)
  BY <1>2 DEF runner_checkout_returned, runner_checkout_retry
<1>5. Fits(runner_drop_lease(a), Taken(m)) /\ Fits(runner_put_lease(a, "held"), Taken(m))
  BY <1>3, FitsLease, "held" # "preparing"
<1>. QED
  BY <1>1, <1>3, <1>4, <1>5, FitsGiveBack, SlimKept

LEMMA WrapSlots ==
  ASSUME Good, Slim, NEW t \in Tasks, runner_finished(t) \/ runner_pull_settled(t)
  PROVE  Slim'
<1>0. Fits(Here, Taken(m)) /\ Here.x = m /\ {"x", "w"} \subseteq DOMAIN Here
  BY HereFits
<1>1. hist' = hist \/ \E S : hist' = [hist EXCEPT !.lost = S]
  BY DEF runner_finished, runner_pull_settled, Quietly
<1>2. ~InRun("left") /\ ~InRun("delivered")
  BY DEF InRun
<1>3. CASE runner_finished(t)
  <2>1. PICK a : a = [Here EXCEPT !.finishing = @ \ {t}, !.wrap[t] = NoWrap]
    OBVIOUS
  <2>2. {"x", "w"} \subseteq DOMAIN a /\ a.x = Here.x /\ a.w = Here.w
    BY <1>0, <2>1
  <2>3. Fits(a, Taken(m))
    BY <1>0, <2>2, FitsNotes
  <2>4. PICK delivered, left : /\ delivered = runner_put_entry(a, t, "delivered")
                               /\ left = runner_end_entry(a, t)
    OBVIOUS
  <2>5. Fits(delivered, Taken(m)) /\ Fits(left, Taken(m))
    BY <1>2, <2>3, <2>4, FitsEntry
  <2>6. PICK b : b = CASE wrap[t].result = "none" -> runner_put_run(a, t, m.outcome[t], FALSE)
                       [] wrap[t].result = "opened" /\ Has(m, t) ->
                            runner_put_run(delivered, t, "delivered", FALSE)
                       [] wrap[t].result = "opened" /\ ~Has(m, t) ->
                            runner_put_run(a, t, "deleted", FALSE)
                       [] wrap[t].result = "noChanges" -> runner_put_run(left, t, "noChanges", FALSE)
                       [] OTHER -> runner_put_run(left, t, "deliveryFailed", FALSE)
    OBVIOUS
  <2>7. Becomes(a) \/ Becomes(b)
    BY <1>3, <2>1, <2>4, <2>6 DEF runner_finished
  <2>8. PutsRun(a, t, b) \/ PutsRun(delivered, t, b) \/ PutsRun(left, t, b)
    BY <2>6 DEF PutsRun
  <2>. QED
    BY <1>1, <2>3, <2>5, <2>7, <2>8, FitsRun, SlimKept
<1>4. CASE runner_pull_settled(t)
  <2>1. PICK a, outcome : /\ a = IF t \in runs THEN runner_put_run(Here, t, outcome, FALSE) ELSE Here
                          /\ Becomes(runner_put_entry(a, t, "left"))
    BY <1>4 DEF runner_pull_settled
  <2>2. a = Here \/ PutsRun(Here, t, a)
    BY <2>1 DEF PutsRun
  <2>. QED
    BY <1>0, <1>1, <1>2, <2>1, <2>2, FitsRun, FitsEntry, SlimKept
<1>. QED
  BY <1>3, <1>4

LEMMA OwnSlots ==
  ASSUME Good, Slim, OwnCommands \/ runner_stop
  PROVE  Slim'
<1>0. Fits(Here, Taken(m)) /\ Here.x = m /\ {"x", "w"} \subseteq DOMAIN Here
  BY HereFits
<1>1. CASE runner_checkout_returned
  BY <1>1, ReturnSlots
<1>2. CASE ~runner_checkout_returned
  <2>1. PICK a, b : a = [Here EXCEPT !.mail.dispatch = FALSE] /\ b = [Here EXCEPT !.block = FALSE]
    OBVIOUS
  <2>2. hist' = hist /\ (Becomes(a) \/ Becomes(b) \/ Becomes(Here))
    BY <1>2, <2>1 DEF OwnCommands, HandleDispatch, Tick, DispatchEnds, NothingToStop, RowIsGone,
                      runner_stop, Quietly
  <2>3. {"x", "w"} \subseteq DOMAIN a /\ a.x = Here.x /\ a.w = Here.w
    BY <1>0, <2>1
  <2>4. {"x", "w"} \subseteq DOMAIN b /\ b.x = Here.x /\ b.w = Here.w
    BY <1>0, <2>1
  <2>. QED
    BY <1>0, <2>2, <2>3, <2>4, FitsNotes, SlimKept
<1>. QED
  BY <1>1, <1>2

LEMMA EnqueueSlots ==
  ASSUME Good, Slim, NEW t \in Tasks, Enqueue(t)
  PROVE  Slim'
<1>0. Fits(Here, Taken(m)) /\ Here.x = m /\ {"x", "w"} \subseteq DOMAIN Here
  BY HereFits
<1>1. PICK y : y = [m EXCEPT !.tasks = @ \cup {t}]
  OBVIOUS
<1>2. PICK a : a = Save(Here, y)
  OBVIOUS
<1>3. SameKeys(m, y)
  BY <1>0, <1>1 DEF Fits, Frame, SameKeys
<1>4. Fits(a, Taken(m))
  BY <1>0, <1>2, <1>3, FitsSame
<1>5. PICK c : c = runner_put_entry(a, t, "queued")
  OBVIOUS
<1>6. Fits(c, Taken(m))
  BY <1>4, <1>5, FitsEntry DEF InRun
<1>7. PICK b : b = [c EXCEPT !.block = FALSE]
  OBVIOUS
<1>8. Becomes(b) /\ hist' = hist
  BY <1>1, <1>2, <1>5, <1>7 DEF Enqueue, Quietly
<1>9. {"x", "w"} \subseteq DOMAIN b /\ b.x = c.x /\ b.w = c.w
  BY <1>6, <1>7 DEF Fits
<1>. QED
  BY <1>6, <1>8, <1>9, FitsNotes, SlimKept

LEMMA WriterSlots ==
  ASSUME Good, Slim, WriterApplies
  PROVE  Slim'
<1>1. m' = m /\ hist' = hist /\ log' = Tail(log) /\ IsSeq(log) /\ Len(log) > 1
  BY DEF WriterApplies, Good, Stands
<1>2. /\ Len(log) \in Nat /\ Len(log') = Len(log) - 1
      /\ \A i \in 1..Len(log') : log'[i] = log[i + 1]
  BY <1>1, TailAny
<1>3. ASSUME NEW i \in 1..Len(log')
      PROVE  Few(log'[i], hist.byHand)
  <2>1. i + 1 \in 1..Len(log) /\ log'[i] = log[i + 1]
    BY <1>2
  <2>. QED
    BY <2>1 DEF Slim
<1>. QED
  BY <1>1, <1>3 DEF Slim, Few, Taken

(* A restart finds an image, and restoring its lease frees its slot or     *)
(* leaves it to the run.                                                   *)
LEMMA RestartSlots ==
  ASSUME Good, Slim, Restart
  PROVE  Slim'
<1>1. Head(log) = log[1] /\ Frame(log[1]) /\ Few(log[1], hist.byHand) /\ hist' = hist
  BY DEF Restart, Good, Stands, Image, Slim
<1>2. PICK x : x = Loaded(Head(log))
  OBVIOUS
<1>3. Frame(x) /\ Taken(x) = Taken(log[1])
  BY <1>1, <1>2 DEF Loaded, Frame, Taken
<1>4. PICK a : a = [x |-> x, w |-> <<>>, finishing |-> {}, forced |-> {}, block |-> FALSE,
                    runs |-> {t \in Tasks : Has(x, t) /\ x.outcome[t] \notin Final \cup {"none"}},
                    mail |-> [dispatch |-> FALSE, delete |-> {}],
                    job |-> NoJob, wrap |-> [t \in Tasks |-> NoWrap]]
  OBVIOUS
<1>5. PICK b : b = runner_checkout_restore(a)
  OBVIOUS
<1>6. Holds(b) /\ log' = <<x>> \o b.w
  BY <1>2, <1>4, <1>5 DEF Restart
<1>7. Fits(a, Taken(x))
  <2>1. a.x = x /\ a.w = <<>> /\ {"x", "w"} \subseteq DOMAIN a
    BY <1>4
  <2>2. IsSeq(<<>>) /\ Len(<<>>) = 0
    BY DEF IsSeq
  <2>. QED
    BY <1>3, <2>1, <2>2 DEF Fits
<1>8. Fits(b, Taken(x))
  BY <1>5, <1>7, FitsRestored
<1>9. PICK l, w, s : l = log' /\ w = b.w /\ s = <<x>>
  OBVIOUS
<1>10. IsSeq(s) /\ Len(s) = 1 /\ s[1] = x
  BY <1>9, <<x>> \in Seq({x}) DEF IsSeq
<1>11. \A i \in 1..Len(l) : \/ i \in 1..Len(s) /\ l[i] = s[i]
                            \/ i - Len(s) \in 1..Len(w) /\ l[i] = w[i - Len(s)]
  <2>1. IsSeq(w)
    BY <1>8, <1>9 DEF Fits
  <2>2. l = s \o w
    BY <1>6, <1>9
  <2>. QED
    BY <1>10, <2>1, <2>2, ConcatAny
<1>12. ASSUME NEW y, Taken(y) \subseteq Taken(x)
       PROVE  Few(y, hist.byHand)
  BY <1>1, <1>3, <1>12, FewFit DEF Few
<1>13. ASSUME NEW i \in 1..Len(l)
       PROVE  Few(l[i], hist.byHand)
  <2>1. Taken(l[i]) \subseteq Taken(x)
    <3>1. CASE i \in 1..Len(s) /\ l[i] = s[i]
      <4>1. i = 1
        BY <1>10, <3>1
      <4>. QED
        BY <1>10, <3>1, <4>1
    <3>2. CASE i - Len(s) \in 1..Len(w) /\ l[i] = w[i - Len(s)]
      BY <1>8, <1>9, <3>2 DEF Fits
    <3>. QED
      BY <1>11, <3>1, <3>2
  <2>. QED
    BY <1>12, <2>1
<1>14. Few(b.x, hist.byHand) /\ m' = b.x
  BY <1>6, <1>8, <1>12 DEF Fits, Holds
<1>. QED
  BY <1>1, <1>9, <1>13, <1>14 DEF Slim, Few, Taken

LEMMA InitSlim ==
  ASSUME Init
  PROVE  Slim
<1>1. Taken(m) = {}
  BY DEF Init, Taken, InRun, NoLease
<1>2. Few(m, hist.byHand)
  <2>1. {} \ hist.byHand = {} /\ Cardinality({}) = 0 /\ IsFiniteSet({})
    BY FS_EmptySet
  <2>. QED
    BY <1>1, <2>1, FactoryAssumption DEF Few, FactoryAssumption
<1>3. log = <<m>> /\ "byHand" \in DOMAIN hist
  BY DEF Init
<1>4. \A i \in 1..Len(log) : log[i] = m
  BY <1>3
<1>. QED
  BY <1>2, <1>3, <1>4 DEF Slim

LEMMA SlimStep ==
  ASSUME Good, Slim, [Next]_vars
  PROVE  Slim'
<1>1. ASSUME UNCHANGED <<m, log, hist>>
      PROVE  Slim'
  BY <1>1 DEF Slim, Few, Taken
<1>2. CASE UNCHANGED vars
  BY <1>1, <1>2 DEF vars
<1>3. ASSUME NEW t \in Tasks, Commands(t) \/ Asked(t)
      PROVE  Slim'
  BY <1>3, EnqueueSlots, StartSlots, EndSlots, LeaseSlots, WrapSlots DEF Commands, Asked
<1>4. ASSUME NEW t \in Tasks, WrapsUp(t) \/ Edits(t)
      PROVE  Slim'
  <2>1. ASSUME NEW S, hist' = [hist EXCEPT !.strayed = S], UNCHANGED <<m, log>>
        PROVE  Slim'
    <3>1. "byHand" \in DOMAIN hist' /\ hist'.byHand = hist.byHand
      BY <2>1 DEF Slim
    <3>. QED
      BY <2>1, <3>1 DEF Slim, Few, Taken
  <2>2. UNCHANGED <<m, log>> /\ (hist' = hist \/ \E S : hist' = [hist EXCEPT !.strayed = S])
    BY <1>4 DEF WrapsUp, CostRead, Commits, Pushes, OpensPull, WrapStep, Edits
  <2>. QED
    BY <1>1, <2>1, <2>2
<1>5. CASE LeaseJob \/ UsesFolder \/ \E b \in Tasks \cup UserBranches : PullCloses(b)
  BY <1>1, <1>5 DEF LeaseJob, Inspects, Looks, Switches, GivesBack, UsesFolder, PullCloses
<1>6. CASE OwnCommands \/ runner_stop \/ runner_checkout_retry
  BY <1>6, OwnSlots, ReturnSlots
<1>7. CASE WriterApplies \/ Restart
  BY <1>7, WriterSlots, RestartSlots
<1>. QED
  BY <1>2, <1>3, <1>4, <1>5, <1>6, <1>7 DEF Next

(* The slots of a project are never overdrawn but by hand, however many    *)
(* tasks there are: a delivery keeps the slot of its run, a folder being   *)
(* prepared has one, and what a restart finds on disk has no more than     *)
(* what the actor held (runner_slots, runner_checkout_restore).            *)
THEOREM SlotsHold == Spec => []SlotsBounded
<1>1. Init => Good /\ Slim
  BY InitGood, InitSlim
<1>2. Good /\ Slim /\ [Next]_vars => (Good /\ Slim)'
  BY NextGood, SlimStep
<1>3. Slim => SlotsBounded
  <2>1. Taken(m) \ hist.byHand = {t \in Tasks \ hist.byHand :
                                    \/ InRun(m.entry[t])
                                    \/ m.lease.task = t /\ m.lease.state = "preparing"}
    BY DEF Taken
  <2>. QED
    BY <2>1 DEF Slim, Few, SlotsBounded
<1>. QED
  BY <1>1, <1>2, <1>3, PTL DEF Spec
==============================================================================
