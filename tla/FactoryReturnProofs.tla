-------------------------- MODULE FactoryReturnProofs --------------------------
(* The project folder can always be returned: while it is on a task branch, *)
(* the lease that says where to is on disk, and in every write that waits,  *)
(* whatever fails and whenever the daemon stops.  And no open pull request  *)
(* is forgotten, which rests on it: a delivery pushes what is checked out.  *)
(* The types are last, as a switched folder needs its lease's task.         *)
(* The lease itself is the subject of FactoryProofs.                        *)
EXTENDS FactoryProofs

Prep == {"inspect", "inspected", "flush", "switch", "switched"}
Ret == {"return", "returned"}

(* A lease and the git task that works for it. *)
InStep(x, j) ==
  /\ x.lease.state = "preparing" <=> j.at \in Prep
  /\ x.lease.state = "returning" <=> j.at \in Ret

Shaped(x) == "lease" \in DOMAIN x /\ {"task", "state", "back"} \subseteq DOMAIN x.lease
Same(x, y) == x.lease.task = y.lease.task /\ x.lease.back = y.lease.back

(* A handler that began with o and leaves alone whose lease it is, and     *)
(* where the folder goes back to.                                          *)
Kept(a, o) ==
  /\ {"x", "w", "job"} \subseteq DOMAIN a /\ IsSeq(a.w)
  /\ Shaped(a.x) /\ Same(a.x, o)
  /\ \A i \in 1..Len(a.w) : Shaped(a.w[i]) /\ Same(a.w[i], o)
Tidy(a, o, j) ==
  Kept(a, o) /\ InStep(a.x, a.job) /\ (a.job = j \/ a.job = Waiting("return"))

(* A return point is a branch of the user's, if it is known. *)
Clear(x) == Shaped(x) /\ x.lease.back \in UserBranches \cup {"none"}
At(x, b) == x.lease.task = b /\ x.lease.back # "none"

(* What holds of the writes l, the actor's lease in x, its git task j and  *)
(* the branch h of the folder.                                             *)
Away(j) ==
  \/ j.at \in {"inspect", "inspected", "flush", "switch"}
  \/ j.at = "switched" /\ j.ok = FALSE
  \/ j.at = "returned" /\ j.ok = TRUE
Returnable(l, x, j, h) ==
  /\ Clear(x) /\ \A i \in 1..Len(l) : Clear(l[i])
  /\ h \in UserBranches \cup Tasks
  /\ h \in Tasks => At(x, h) /\ \A i \in 1..Len(l) : At(l[i], h)
  /\ {"at", "ok", "point", "wait"} \subseteq DOMAIN j /\ j.ok \in BOOLEAN
  /\ InStep(x, j)
  /\ Away(j) => h \notin Tasks
  /\ j.at = "inspected" /\ j.ok = TRUE => j.point \in UserBranches
  /\ j.at \in {"flush", "switch"} => j.ok = TRUE
  /\ j.at = "flush" => /\ j.wait \in Nat /\ x.lease.back # "none"
                       /\ \A i \in 1..Len(l) : i > j.wait => Same(l[i], x)
  /\ j.at = "switch" \/ (j.at = "switched" /\ j.ok = TRUE) =>
       x.lease.back # "none" /\ \A i \in 1..Len(l) : Same(l[i], x)
Known == Returnable(log, m, job, head)

-----------------------------------------------------------------------------
(* Handlers *)

(* No git task, or one that was just spawned. *)
Fresh == {NoJob, Waiting("inspect"), Waiting("return")}

LEMMA FreshJob ==
  ASSUME NEW j, j \in Fresh
  PROVE  /\ {"at", "ok", "point", "wait"} \subseteq DOMAIN j /\ j.ok \in BOOLEAN
         /\ j.at \in {"none", "inspect", "return"}
         /\ j = NoJob => j.at = "none"
         /\ \A s \in {"inspect", "return"} : j = Waiting(s) => j.at = s
<1>1. /\ {"at", "ok", "point", "wait"} \subseteq DOMAIN NoJob /\ NoJob.ok \in BOOLEAN
      /\ NoJob.at = "none"
  BY DEF NoJob
<1>2. ASSUME NEW s \in {"inspect", "return"}
      PROVE  /\ {"at", "ok", "point", "wait"} \subseteq DOMAIN Waiting(s)
             /\ Waiting(s).ok \in BOOLEAN /\ Waiting(s).at = s
  BY DEF Waiting, NoJob
<1>3. j = NoJob \/ \E s \in {"inspect", "return"} : j = Waiting(s)
  BY DEF Fresh
<1>. QED
  BY <1>1, <1>2, <1>3

LEMMA NotesTidy ==
  ASSUME NEW a, NEW o, Kept(a, o), NEW j, NEW b, {"x", "w", "job"} \subseteq DOMAIN b,
         b.x = a.x, b.w = a.w, b.job = a.job
  PROVE  Kept(b, o) /\ (Tidy(a, o, j) => Tidy(b, o, j))
  BY DEF Kept, Tidy

(* One write more, or one that waits for the next. *)
LEMMA MoveKept ==
  ASSUME NEW a, NEW o, Kept(a, o), NEW b, {"x", "w", "job"} \subseteq DOMAIN b,
         Shaped(b.x), Same(b.x, a.x), b.w = a.w \/ b.w = Append(a.w, b.x)
  PROVE  Kept(b, o)
<1>1. Same(b.x, o)
  BY DEF Kept, Same
<1>2. CASE b.w = a.w
  BY <1>1, <1>2 DEF Kept
<1>3. CASE b.w = Append(a.w, b.x)
  <2>1. /\ IsSeq(b.w) /\ Len(a.w) \in Nat /\ Len(b.w) = Len(a.w) + 1
        /\ \A i \in 1..Len(a.w) : b.w[i] = a.w[i]
        /\ b.w[Len(a.w) + 1] = b.x
    BY <1>3, AppendAny DEF Kept
  <2>2. ASSUME NEW i \in 1..Len(b.w)
        PROVE  Shaped(b.w[i]) /\ Same(b.w[i], o)
    <3>1. i \in 1..Len(a.w) \/ i = Len(a.w) + 1
      BY <2>1
    <3>. QED
      BY <1>1, <2>1, <3>1 DEF Kept
  <2>. QED
    BY <1>1, <2>1, <2>2 DEF Kept
<1>. QED
  BY <1>2, <1>3

LEMMA SaveTidy ==
  ASSUME NEW a, NEW o, Kept(a, o), NEW j, NEW x, Shaped(x), x.lease = a.x.lease,
         NEW b, b = Save(a, x)
  PROVE  Kept(b, o) /\ (Tidy(a, o, j) => Tidy(b, o, j)) /\ b.job = a.job /\ b.x = x
<1>1. /\ {"x", "w", "job"} \subseteq DOMAIN b
      /\ b.x = x /\ b.w = Append(a.w, x) /\ b.job = a.job
  BY DEF Kept, Save
<1>2. Same(x, a.x)
  BY DEF Same
<1>3. Kept(b, o)
  BY <1>1, <1>2, MoveKept
<1>. QED
  BY <1>1, <1>3 DEF Tidy, InStep

LEMMA PutLeaseKept ==
  ASSUME NEW a, NEW o, Kept(a, o), NEW state, NEW b, b = runner_put_lease(a, state)
  PROVE  Kept(b, o) /\ b.job = a.job /\ b.x.lease.state = state
<1>1. PICK y : y = [a.x EXCEPT !.lease.state = state]
  OBVIOUS
<1>2. Shaped(y) /\ Same(y, a.x) /\ y.lease.state = state
  BY <1>1 DEF Kept, Shaped, Same
<1>3. b = Save(a, y)
  BY <1>1 DEF runner_put_lease
<1>4. /\ {"x", "w", "job"} \subseteq DOMAIN b
      /\ b.x = y /\ b.w = Append(a.w, y) /\ b.job = a.job
  BY <1>3 DEF Kept, Save
<1>. QED
  BY <1>2, <1>4, MoveKept

LEMMA GiveBackTidy ==
  ASSUME NEW a, NEW o, Kept(a, o), NEW j, NEW b, b = runner_give_back(a)
  PROVE  Kept(b, o) /\ Tidy(b, o, j)
<1>1. PICK c : c = runner_put_lease(a, "returning")
  OBVIOUS
<1>2. Kept(c, o) /\ c.x.lease.state = "returning"
  BY <1>1, PutLeaseKept
<1>3. b = [c EXCEPT !.job = Waiting("return")]
  BY <1>1 DEF runner_give_back
<1>4. /\ {"x", "w", "job"} \subseteq DOMAIN b
      /\ b.x = c.x /\ b.w = c.w /\ b.job = Waiting("return")
  BY <1>2, <1>3 DEF Kept
<1>5. Kept(b, o)
  BY <1>2, <1>4 DEF Kept
<1>6. b.job.at = "return"
  BY <1>4 DEF Waiting, NoJob
<1>. QED
  BY <1>2, <1>4, <1>5, <1>6 DEF Tidy, InStep, Prep, Ret

LEMMA EntryLeftTidy ==
  ASSUME NEW a, NEW o, Kept(a, o), NEW j, NEW t, NEW b, b = runner_checkout_entry_left(a, t)
  PROVE  Kept(b, o) /\ (Tidy(a, o, j) => Tidy(b, o, j))
<1>1. b = a \/ b = runner_give_back(a)
  BY DEF runner_checkout_entry_left
<1>. QED
  BY <1>1, GiveBackTidy

LEMMA PutEntryTidy ==
  ASSUME NEW a, NEW o, Kept(a, o), NEW j, NEW t, NEW e, NEW b, b = runner_put_entry(a, t, e)
  PROVE  Kept(b, o) /\ (Tidy(a, o, j) => Tidy(b, o, j))
<1>1. PICK y : y = [a.x EXCEPT !.entry[t] = e]
  OBVIOUS
<1>2. Shaped(y) /\ y.lease = a.x.lease
  BY <1>1 DEF Kept, Shaped
<1>3. PICK c : c = Save(a, y)
  OBVIOUS
<1>4. Kept(c, o) /\ (Tidy(a, o, j) => Tidy(c, o, j))
  BY <1>2, <1>3, SaveTidy
<1>5. b = c \/ b = runner_checkout_entry_left(c, t)
  BY <1>1, <1>3 DEF runner_put_entry
<1>. QED
  BY <1>4, <1>5, EntryLeftTidy

LEMMA EndEntryTidy ==
  ASSUME NEW a, NEW o, Kept(a, o), NEW j, NEW t, NEW b, b = runner_end_entry(a, t)
  PROVE  Kept(b, o) /\ (Tidy(a, o, j) => Tidy(b, o, j))
<1>1. b = a \/ b = runner_put_entry(a, t, "left")
  BY DEF runner_end_entry
<1>. QED
  BY <1>1, PutEntryTidy

LEMMA PutRunTidy ==
  ASSUME NEW a, NEW o, Kept(a, o), NEW j, NEW t, NEW b, PutsRun(a, t, b)
  PROVE  /\ Kept(b, o) /\ (Tidy(a, o, j) => Tidy(b, o, j))
         /\ b.job = a.job /\ b.x.lease = a.x.lease
<1>1. PICK outcome, keep : b = runner_put_run(a, t, outcome, keep)
  BY DEF PutsRun
<1>2. PICK y : y = [a.x EXCEPT !.outcome[t] = outcome]
  OBVIOUS
<1>3. Shaped(y) /\ y.lease = a.x.lease
  BY <1>2 DEF Kept, Shaped
<1>4. PICK c : c = Save(a, y)
  OBVIOUS
<1>5. Kept(c, o) /\ (Tidy(a, o, j) => Tidy(c, o, j)) /\ c.job = a.job /\ c.x = y
  BY <1>3, <1>4, SaveTidy
<1>6. b = [c EXCEPT !.runs = IF outcome \in Final /\ ~keep THEN @ \ {t} ELSE @ \cup {t}]
  BY <1>1, <1>2, <1>4 DEF runner_put_run
<1>7. {"x", "w", "job"} \subseteq DOMAIN b /\ b.x = c.x /\ b.w = c.w /\ b.job = c.job
  BY <1>5, <1>6 DEF Kept
<1>8. Kept(b, o) /\ (Tidy(c, o, j) => Tidy(b, o, j))
  BY <1>5, <1>7, NotesTidy
<1>. QED
  BY <1>3, <1>5, <1>7, <1>8

LEMMA RedispatchTidy ==
  ASSUME NEW a, NEW o, Kept(a, o), NEW j, NEW b, b = Redispatch(a)
  PROVE  Kept(b, o) /\ (Tidy(a, o, j) => Tidy(b, o, j))
<1>1. {"x", "w", "job"} \subseteq DOMAIN b /\ b.x = a.x /\ b.w = a.w /\ b.job = a.job
  BY DEF Redispatch, Kept
<1>. QED
  BY <1>1, NotesTidy

LEMMA DiscardTidy ==
  ASSUME NEW a, NEW o, Kept(a, o), NEW j, NEW t, NEW b, b = runner_discard_queued(a, t)
  PROVE  Kept(b, o) /\ (Tidy(a, o, j) => Tidy(b, o, j))
<1>1. PICK c : c = runner_put_entry(a, t, "left")
  OBVIOUS
<1>2. Kept(c, o) /\ (Tidy(a, o, j) => Tidy(c, o, j))
  BY <1>1, PutEntryTidy
<1>3. {"x", "w", "job"} \subseteq DOMAIN b /\ b.x = c.x /\ b.w = c.w /\ b.job = c.job
  BY <1>1, <1>2 DEF runner_discard_queued, Kept
<1>4. Kept(b, o) /\ (Tidy(c, o, j) => Tidy(b, o, j))
  BY <1>2, <1>3, NotesTidy
<1>. QED
  BY <1>2, <1>4

LEMMA FinishedTidy ==
  ASSUME NEW a, NEW o, Kept(a, o), NEW j, NEW t, NEW outcome,
         NEW z, z = runner_pipeline_finished(a, t, outcome)
  PROVE  Kept(z, o) /\ (Tidy(a, o, j) => Tidy(z, o, j))
<1>1. PICK delivers : delivers = (DeliversAfter(outcome) /\ Delivers(t) /\ Isolated(a.x, t))
  OBVIOUS
<1>2. PICK b : b = runner_put_entry(a, t, IF delivers THEN "delivering" ELSE "left")
  OBVIOUS
<1>3. PICK c : c = runner_put_run(b, t, IF delivers THEN "delivering" ELSE AttemptEnds(t, outcome), TRUE)
  OBVIOUS
<1>4. PICK d : d = [c EXCEPT !.finishing = @ \cup {t},
                             !.wrap[t] = [NoWrap EXCEPT !.at = "flush", !.deliver = delivers,
                                                        !.wait = Behind(c)]]
  OBVIOUS
<1>5. Kept(b, o) /\ (Tidy(a, o, j) => Tidy(b, o, j))
  BY <1>2, PutEntryTidy
<1>6. Kept(c, o) /\ (Tidy(b, o, j) => Tidy(c, o, j))
  <2>1. PutsRun(b, t, c)
    BY <1>3 DEF PutsRun
  <2>. QED
    BY <1>5, <2>1, PutRunTidy
<1>7. Kept(d, o) /\ (Tidy(c, o, j) => Tidy(d, o, j))
  <2>1. {"x", "w", "job"} \subseteq DOMAIN d /\ d.x = c.x /\ d.w = c.w /\ d.job = c.job
    BY <1>4, <1>6 DEF Kept
  <2>. QED
    BY <1>6, <2>1, NotesTidy
<1>8. z = a \/ z = Redispatch(d) \/ z = Redispatch(b)
  BY <1>1, <1>2, <1>3, <1>4 DEF runner_pipeline_finished
<1>. QED
  BY <1>5, <1>6, <1>7, <1>8, RedispatchTidy

LEMMA TaskDeletedTidy ==
  ASSUME NEW a, NEW o, Kept(a, o), NEW j, NEW t, NEW z, z = runner_task_deleted(a, t)
  PROVE  Kept(z, o) /\ (Tidy(a, o, j) => Tidy(z, o, j))
<1>1. PICK b : b = IF t \in a.runs /\ a.x.outcome[t] \notin Final
                   THEN runner_put_run(a, t, "deleted", t \in a.finishing) ELSE a
  OBVIOUS
<1>2. Kept(b, o) /\ (Tidy(a, o, j) => Tidy(b, o, j))
  <2>1. b = a \/ PutsRun(a, t, b)
    BY <1>1 DEF PutsRun
  <2>. QED
    BY <2>1, PutRunTidy
<1>3. PICK c, d : c = runner_put_entry(a, t, "left") /\ d = runner_end_entry(b, t)
  OBVIOUS
<1>4. Kept(c, o) /\ (Tidy(a, o, j) => Tidy(c, o, j))
  BY <1>3, PutEntryTidy
<1>5. Kept(d, o) /\ (Tidy(b, o, j) => Tidy(d, o, j))
  BY <1>2, <1>3, EndEntryTidy
<1>6. z = a \/ z = Redispatch(c) \/ z = Redispatch(d)
  BY <1>1, <1>3 DEF runner_task_deleted
<1>. QED
  BY <1>2, <1>4, <1>5, <1>6, RedispatchTidy

(* Fields no lease depends on. *)
Elsewhere(a, b) ==
  \/ \E t, pipe : b = Save(a, [a.x EXCEPT !.pipe[t] = pipe])
  \/ \E tasks : b = Save(a, [a.x EXCEPT !.tasks = tasks])

LEMMA ElsewhereTidy ==
  ASSUME NEW a, NEW o, Kept(a, o), NEW j, NEW b, Elsewhere(a, b)
  PROVE  Kept(b, o) /\ (Tidy(a, o, j) => Tidy(b, o, j)) /\ b.job = a.job /\ b.x.lease = a.x.lease
<1>1. PICK x : /\ b = Save(a, x)
               /\ \/ \E t, pipe : x = [a.x EXCEPT !.pipe[t] = pipe]
                  \/ \E tasks : x = [a.x EXCEPT !.tasks = tasks]
  BY DEF Elsewhere
<1>2. Shaped(x) /\ x.lease = a.x.lease
  BY <1>1 DEF Kept, Shaped
<1>. QED
  BY <1>1, <1>2, SaveTidy

LEMMA FinalizeTidy ==
  ASSUME NEW a, NEW o, Kept(a, o), NEW j, NEW t, NEW outcome,
         NEW b, b = workflow_finalize(a, t, outcome)
  PROVE  Kept(b, o) /\ (Tidy(a, o, j) => Tidy(b, o, j))
<1>1. PICK c : c = Save(a, [a.x EXCEPT !.pipe[t] = outcome])
  OBVIOUS
<1>2. Kept(c, o) /\ (Tidy(a, o, j) => Tidy(c, o, j))
  <2>1. Elsewhere(a, c)
    BY <1>1 DEF Elsewhere
  <2>. QED
    BY <2>1, ElsewhereTidy
<1>3. b = runner_pipeline_finished(c, t, outcome)
  BY <1>1 DEF workflow_finalize
<1>. QED
  BY <1>2, <1>3, FinishedTidy

LEMMA StartTidy ==
  ASSUME NEW a, NEW o, Kept(a, o), NEW j, NEW t, NEW created, NEW d, d = runner_start(a, t, created)
  PROVE  /\ Kept(d, o) /\ (Tidy(a, o, j) => Tidy(d, o, j))
         /\ created # "refused" => d.job = a.job
<1>1. CASE created = "refused"
  <2>1. PICK b : b = runner_put_entry(a, t, "left")
    OBVIOUS
  <2>2. Kept(b, o) /\ (Tidy(a, o, j) => Tidy(b, o, j))
    BY <2>1, PutEntryTidy
  <2>3. PutsRun(b, t, d)
    BY <1>1, <2>1 DEF runner_start, PutsRun
  <2>. QED
    BY <1>1, <2>2, <2>3, PutRunTidy
<1>2. CASE created # "refused"
  <2>1. PICK begun : begun = [a.x EXCEPT !.pipe[t] = created]
    OBVIOUS
  <2>2. PICK b : b = IF created = "checkout" THEN [a EXCEPT !.x = begun] ELSE Save(a, begun)
    OBVIOUS
  <2>3. PICK y : y = [b.x EXCEPT !.entry[t] = "running"]
    OBVIOUS
  <2>4. PICK c : c = Save(b, y)
    OBVIOUS
  <2>5. PutsRun(c, t, d)
    <3>1. d = runner_put_run(runner_put_entry(b, t, "running"), t, "running", FALSE)
      BY <1>2, <2>1, <2>2 DEF runner_start
    <3>2. runner_put_entry(b, t, "running") = c
      BY <2>3, <2>4 DEF runner_put_entry, InRun
    <3>. QED
      BY <3>1, <3>2 DEF PutsRun
  <2>6. Shaped(begun) /\ begun.lease = a.x.lease
    BY <2>1 DEF Kept, Shaped
  <2>7. Kept(b, o) /\ (Tidy(a, o, j) => Tidy(b, o, j)) /\ b.job = a.job
    <3>1. CASE created = "checkout"
      <4>1. /\ {"x", "w", "job"} \subseteq DOMAIN b
            /\ b.x = begun /\ b.w = a.w /\ b.job = a.job
        BY <2>2, <3>1 DEF Kept
      <4>2. Same(begun, a.x)
        BY <2>6 DEF Same
      <4>3. Kept(b, o)
        BY <2>6, <4>1, <4>2, MoveKept
      <4>. QED
        BY <2>6, <4>1, <4>3 DEF Tidy, InStep
    <3>2. CASE created # "checkout"
      BY <2>2, <2>6, <3>2, SaveTidy
    <3>. QED
      BY <3>1, <3>2
  <2>8. Shaped(y) /\ y.lease = b.x.lease
    BY <2>3, <2>7 DEF Kept, Shaped
  <2>9. Kept(c, o) /\ (Tidy(b, o, j) => Tidy(c, o, j)) /\ c.job = b.job
    BY <2>4, <2>7, <2>8, SaveTidy
  <2>. QED
    BY <2>5, <2>7, <2>9, PutRunTidy
<1>. QED
  BY <1>1, <1>2

LEMMA SweepTidy ==
  ASSUME NEW a, NEW o, Kept(a, o), NEW j, NEW t, NEW z, z = runner_sweep(a, t)
  PROVE  Kept(z, o) /\ (Tidy(a, o, j) => Tidy(z, o, j))
<1>1. PICK b : b = [a EXCEPT !.x.entry[t] = "running"]
  OBVIOUS
<1>2. Kept(b, o) /\ (Tidy(a, o, j) => Tidy(b, o, j))
  <2>1. PICK y : y = [a.x EXCEPT !.entry[t] = "running"]
    OBVIOUS
  <2>2. Shaped(y) /\ y.lease = a.x.lease /\ Same(y, a.x)
    BY <2>1 DEF Kept, Shaped, Same
  <2>3. {"x", "w", "job"} \subseteq DOMAIN b /\ b.x = y /\ b.w = a.w /\ b.job = a.job
    BY <1>1, <2>1 DEF Kept
  <2>4. Kept(b, o)
    BY <2>2, <2>3, MoveKept
  <2>. QED
    BY <2>2, <2>3, <2>4 DEF Tidy, InStep
<1>3. \/ z = a \/ z = runner_task_deleted(a, t)
      \/ \E outcome : z = runner_pipeline_finished(a, t, outcome)
      \/ \E outcome : z = runner_pipeline_finished(b, t, outcome)
  BY <1>1 DEF runner_sweep
<1>. QED
  BY <1>2, <1>3, TaskDeletedTidy, FinishedTidy

-----------------------------------------------------------------------------
(* Steps *)

LEMMA Joined ==
  ASSUME Good, NEW w, IsSeq(w), NEW l, l = log \o w
  PROVE  /\ Len(log) \in Nat /\ Len(log) >= 1 /\ Len(w) \in Nat /\ Len(l) = Len(log) + Len(w)
         /\ \A i \in 1..Len(l) : \/ i \in 1..Len(log) /\ l[i] = log[i]
                                 \/ /\ i > Len(log) /\ i - Len(log) \in 1..Len(w)
                                    /\ l[i] = w[i - Len(log)]
<1>1. IsSeq(log) /\ Len(log) >= 1
  BY DEF Good, Stands
<1>2. /\ Len(log) \in Nat /\ Len(w) \in Nat /\ Len(l) = Len(log) + Len(w)
      /\ \A i \in 1..Len(l) : \/ i \in 1..Len(log) /\ l[i] = log[i]
                              \/ i - Len(log) \in 1..Len(w) /\ l[i] = w[i - Len(log)]
  BY <1>1, ConcatAny
<1>. QED
  BY <1>1, <1>2

(* A handler that leaves whose lease it is alone. *)
LEMMA TidyKnown ==
  ASSUME Good, Known, NEW j, j = job \/ j = NoJob, NEW a, Tidy(a, m, j), Becomes(a), head' = head
  PROVE  Known'
<1>1. PICK l, x, w, k : l = log' /\ x = m' /\ w = a.w /\ k = job'
  OBVIOUS
<1>2. /\ l = log \o w /\ x = a.x /\ k = a.job
      /\ IsSeq(w) /\ Shaped(x) /\ Same(x, m) /\ InStep(x, k)
      /\ \A i \in 1..Len(w) : Shaped(w[i]) /\ Same(w[i], m)
      /\ k = j \/ k = Waiting("return")
  BY <1>1 DEF Becomes, Holds, Tidy, Kept
<1>3. Returnable(log, m, job, head)
  BY DEF Known
<1>4. /\ Len(log) \in Nat /\ Len(log) >= 1
      /\ \A i \in 1..Len(l) : \/ i \in 1..Len(log) /\ l[i] = log[i]
                              \/ i > Len(log) /\ Shaped(l[i]) /\ Same(l[i], m)
  BY <1>2, Joined
<1>5. Clear(x) /\ \A i \in 1..Len(l) : Clear(l[i])
  BY <1>2, <1>3, <1>4 DEF Returnable, Clear, Same
<1>6. head \in Tasks => At(x, head) /\ \A i \in 1..Len(l) : At(l[i], head)
  BY <1>2, <1>3, <1>4 DEF Returnable, At, Same
<1>7. ASSUME k = job
      PROVE  Returnable(l, x, k, head)
  <2>1. job.at = "flush" => /\ job.wait \in Nat /\ x.lease.back # "none"
                            /\ \A i \in 1..Len(l) : i > job.wait => Same(l[i], x)
    BY <1>2, <1>3, <1>4 DEF Returnable, Same
  <2>2. job.at = "switch" \/ (job.at = "switched" /\ job.ok = TRUE) =>
          x.lease.back # "none" /\ \A i \in 1..Len(l) : Same(l[i], x)
    BY <1>2, <1>3, <1>4 DEF Returnable, Same
  <2>. QED
    BY <1>2, <1>3, <1>5, <1>6, <1>7, <2>1, <2>2 DEF Returnable
<1>8. ASSUME k = NoJob \/ k = Waiting("return")
      PROVE  Returnable(l, x, k, head)
  <2>1. /\ {"at", "ok", "point", "wait"} \subseteq DOMAIN k /\ k.ok \in BOOLEAN
        /\ k.at \in {"none", "return"}
    BY <1>8, FreshJob DEF Fresh
  <2>2. head \in UserBranches \cup Tasks
    BY <1>3 DEF Returnable
  <2>. QED
    BY <1>2, <1>3, <1>5, <1>6, <2>1, <2>2 DEF Returnable, Away
<1>9. Returnable(l, x, k, head)
  BY <1>2, <1>7, <1>8
<1>. QED
  BY <1>1, <1>9 DEF Known

(* One that begins, drops or settles the lease, while the folder is on a   *)
(* branch of its owner's.                                                  *)
AwayFrom(a) ==
  /\ {"x", "w", "job"} \subseteq DOMAIN a /\ IsSeq(a.w)
  /\ Clear(a.x) /\ \A i \in 1..Len(a.w) : Clear(a.w[i])
  /\ InStep(a.x, a.job)
  /\ a.job \in Fresh

LEMMA AwayKnown ==
  ASSUME Good, Known, head \notin Tasks, NEW a, AwayFrom(a), Becomes(a), head' = head
  PROVE  Known'
<1>1. PICK l, x, w, k : l = log' /\ x = m' /\ w = a.w /\ k = job'
  OBVIOUS
<1>2. /\ l = log \o w /\ x = a.x /\ k = a.job
      /\ IsSeq(w) /\ Clear(x) /\ InStep(x, k)
      /\ \A i \in 1..Len(w) : Clear(w[i])
      /\ k \in Fresh
  BY <1>1 DEF Becomes, Holds, AwayFrom
<1>3. Returnable(log, m, job, head)
  BY DEF Known
<1>4. \A i \in 1..Len(l) : \/ i \in 1..Len(log) /\ l[i] = log[i]
                           \/ /\ i > Len(log) /\ i - Len(log) \in 1..Len(w)
                              /\ l[i] = w[i - Len(log)]
  BY <1>2, Joined
<1>5. \A i \in 1..Len(l) : Clear(l[i])
  BY <1>2, <1>3, <1>4 DEF Returnable
<1>6. /\ {"at", "ok", "point", "wait"} \subseteq DOMAIN k /\ k.ok \in BOOLEAN
      /\ k.at \in {"none", "inspect", "return"}
  BY <1>2, FreshJob
<1>7. Returnable(l, x, k, head)
  BY <1>2, <1>3, <1>5, <1>6 DEF Returnable, Away
<1>. QED
  BY <1>1, <1>7 DEF Known

LEMMA HereTidy ==
  ASSUME Known
  PROVE  /\ Kept(Here, m) /\ Tidy(Here, m, job) /\ {"x", "w", "job"} \subseteq DOMAIN Here
         /\ Here.x = m /\ Here.w = <<>> /\ Here.job = job
<1>1. /\ {"x", "w", "job"} \subseteq DOMAIN Here
      /\ Here.x = m /\ Here.w = <<>> /\ Here.job = job
  BY DEF Here
<1>2. IsSeq(<<>>) /\ Len(<<>>) = 0
  BY DEF IsSeq
<1>3. Shaped(m) /\ InStep(m, job)
  BY DEF Known, Returnable, Clear
<1>. QED
  BY <1>1, <1>2, <1>3 DEF Kept, Tidy, Same

(* A folder nobody leases is on a branch of its owner's. *)
LEMMA FreeIsAway ==
  ASSUME Good, Known, m.lease.state = "none"
  PROVE  head \notin Tasks
<1>1. m.lease.task = NoTask
  BY DEF Good, Stands, Image, LeaseOK
<1>. QED
  BY <1>1, FactoryAssumption DEF Known, Returnable, At, FactoryAssumption

LEMMA TryStartKnown ==
  ASSUME Good, Known, NEW a, {"x", "w", "job"} \subseteq DOMAIN a,
         a.x = Here.x, a.w = Here.w, a.job = Here.job,
         NEW t \in Tasks, MayStart(a, t), NEW created,
         Becomes(runner_try_start(a, t, created)), head' = head
  PROVE  Known'
<1>1. Kept(a, m) /\ Tidy(a, m, job) /\ a.x = m
  BY HereTidy, NotesTidy
<1>2. PICK b : b = runner_try_start(a, t, created)
  OBVIOUS
<1>3. CASE ~Leased(t)
  <2>1. b = runner_start(a, t, created)
    BY <1>2, <1>3 DEF runner_try_start
  <2>2. Tidy(b, m, job)
    BY <1>1, <2>1, StartTidy
  <2>. QED
    BY <1>2, <2>2, TidyKnown
<1>4. CASE Leased(t)
  <2>1. head \notin Tasks
    BY <1>1, <1>4, FreeIsAway DEF Leased, MayStart, runner_checkout_refusal
  <2>2. PICK y : y = [a.x EXCEPT !.lease = [task |-> t, state |-> "preparing", back |-> "none"]]
    OBVIOUS
  <2>3. PICK c : c = Save(a, y)
    OBVIOUS
  <2>4. b = [c EXCEPT !.job = Waiting("inspect")]
    BY <1>2, <1>4, <2>2, <2>3 DEF runner_try_start, runner_checkout_begin
  <2>5. Clear(y) /\ y.lease.state = "preparing"
    BY <1>1, <2>2 DEF Kept, Shaped, Clear
  <2>6. {"x", "w", "job"} \subseteq DOMAIN c /\ c.x = y /\ c.w = Append(a.w, y)
    BY <1>1, <2>3 DEF Kept, Save
  <2>7. /\ {"x", "w", "job"} \subseteq DOMAIN b /\ b.x = y /\ b.w = Append(a.w, y)
        /\ b.job = Waiting("inspect")
    BY <2>4, <2>6
  <2>8. IsSeq(b.w) /\ \A i \in 1..Len(b.w) : b.w[i] = y
    <3>1. IsSeq(a.w) /\ Len(a.w) = 0
      <4>1. a.w = <<>>
        BY HereTidy
      <4>. QED
        BY <1>1, <4>1 DEF Kept
    <3>. QED
      BY <2>7, <3>1, AppendAny
  <2>9. InStep(b.x, b.job) /\ b.job \in Fresh
    <3>1. b.job.at = "inspect"
      BY <2>7 DEF Waiting, NoJob
    <3>. QED
      BY <2>5, <2>7, <3>1 DEF InStep, Prep, Ret, Fresh
  <2>10. AwayFrom(b)
    BY <2>5, <2>7, <2>8, <2>9 DEF AwayFrom
  <2>. QED
    BY <1>2, <2>1, <2>10, AwayKnown
<1>. QED
  BY <1>3, <1>4

(* Handlers that leave the lease to whose it is, whatever else they do. *)
LEMMA TidySteps ==
  ASSUME Good, Known, NEW t \in Tasks,
         \/ DispatchDiscards(t) \/ runner_dequeue(t) \/ StopsOne(t) \/ SweepsOne(t)
         \/ CheckoutLands(t) \/ runner_finished(t) \/ runner_pull_settled(t)
         \/ \E outcome \in {"success", "limit", "failed"} : PipelineEnds(t, outcome)
  PROVE  Known'
<1>0. Kept(Here, m) /\ Tidy(Here, m, job) /\ {"x", "w", "job"} \subseteq DOMAIN Here
  BY HereTidy
<1>1. PICK discards, sweeps : /\ discards = runner_discard_queued(Here, t)
                              /\ sweeps = runner_sweep(Here, t)
  OBVIOUS
<1>2. Tidy(discards, m, job) /\ Tidy(sweeps, m, job)
  BY <1>0, <1>1, DiscardTidy, SweepTidy
<1>3. ASSUME NEW outcome, Becomes(workflow_finalize(Here, t, outcome)), head' = head
      PROVE  Known'
  <2>1. PICK b : b = workflow_finalize(Here, t, outcome)
    OBVIOUS
  <2>2. Tidy(b, m, job)
    BY <1>0, <2>1, FinalizeTidy
  <2>. QED
    BY <1>3, <2>1, <2>2, TidyKnown
<1>4. CASE DispatchDiscards(t) \/ runner_dequeue(t)
  <2>1. Becomes(discards) /\ head' = head
    BY <1>1, <1>4 DEF DispatchDiscards, runner_dequeue, Apart, folder
  <2>. QED
    BY <1>2, <2>1, TidyKnown
<1>5. CASE StopsOne(t)
  <2>1. /\ head' = head
        /\ Becomes(Here) \/ Becomes(discards) \/ Becomes(workflow_finalize(Here, t, "stopped"))
    BY <1>1, <1>5 DEF StopsOne, Apart, folder
  <2>. QED
    BY <1>0, <1>2, <1>3, <2>1, TidyKnown
<1>6. CASE SweepsOne(t)
  <2>1. Becomes(sweeps) /\ head' = head
    BY <1>1, <1>6 DEF SweepsOne, Apart, folder
  <2>. QED
    BY <1>2, <2>1, TidyKnown
<1>7. CASE CheckoutLands(t)
  <2>1. PICK b : b = Save(Here, [m EXCEPT !.pipe[t] = "active"])
    OBVIOUS
  <2>2. Elsewhere(Here, b)
    BY <2>1, HereTidy DEF Elsewhere
  <2>3. Tidy(b, m, job)
    BY <1>0, <2>2, ElsewhereTidy
  <2>4. head' = head /\ (Becomes(b) \/ Becomes(workflow_finalize(Here, t, "failed")))
    BY <1>7, <2>1 DEF CheckoutLands, Apart, folder
  <2>. QED
    BY <1>3, <2>3, <2>4, TidyKnown
<1>8. CASE \E outcome \in {"success", "limit", "failed"} : PipelineEnds(t, outcome)
  BY <1>3, <1>8 DEF PipelineEnds, Apart, folder
<1>9. CASE runner_finished(t)
  <2>1. PICK a : a = [Here EXCEPT !.finishing = @ \ {t}, !.wrap[t] = NoWrap]
    OBVIOUS
  <2>2. {"x", "w", "job"} \subseteq DOMAIN a /\ a.x = Here.x /\ a.w = Here.w /\ a.job = Here.job
    BY <1>0, <2>1
  <2>3. Kept(a, m) /\ Tidy(a, m, job)
    BY <1>0, <2>2, NotesTidy
  <2>4. PICK delivered, left : /\ delivered = runner_put_entry(a, t, "delivered")
                               /\ left = runner_end_entry(a, t)
    OBVIOUS
  <2>5. Kept(delivered, m) /\ Tidy(delivered, m, job) /\ Kept(left, m) /\ Tidy(left, m, job)
    BY <2>3, <2>4, PutEntryTidy, EndEntryTidy
  <2>6. /\ head' = head
        /\ \/ Becomes(a)
           \/ \E b : Becomes(b) /\ (PutsRun(a, t, b) \/ PutsRun(delivered, t, b) \/ PutsRun(left, t, b))
    <3>1. PICK b : b = CASE wrap[t].result = "none" -> runner_put_run(a, t, m.outcome[t], FALSE)
                         [] wrap[t].result = "opened" /\ Has(m, t) ->
                              runner_put_run(delivered, t, "delivered", FALSE)
                         [] wrap[t].result = "opened" /\ ~Has(m, t) ->
                              runner_put_run(a, t, "deleted", FALSE)
                         [] wrap[t].result = "noChanges" -> runner_put_run(left, t, "noChanges", FALSE)
                         [] OTHER -> runner_put_run(left, t, "deliveryFailed", FALSE)
      OBVIOUS
    <3>2. head' = head /\ (Becomes(a) \/ Becomes(b))
      BY <1>9, <2>1, <2>4, <3>1 DEF runner_finished, Apart, folder
    <3>3. PutsRun(a, t, b) \/ PutsRun(delivered, t, b) \/ PutsRun(left, t, b)
      BY <3>1 DEF PutsRun
    <3>. QED
      BY <3>2, <3>3
  <2>. QED
    BY <2>3, <2>5, <2>6, PutRunTidy, TidyKnown
<1>10. CASE runner_pull_settled(t)
  <2>1. PICK a, outcome : /\ a = IF t \in runs THEN runner_put_run(Here, t, outcome, FALSE) ELSE Here
                          /\ Becomes(runner_put_entry(a, t, "left"))
    BY <1>10 DEF runner_pull_settled
  <2>2. a = Here \/ PutsRun(Here, t, a)
    BY <2>1 DEF PutsRun
  <2>3. Kept(a, m) /\ Tidy(a, m, job)
    BY <1>0, <2>2, PutRunTidy
  <2>4. PICK b : b = runner_put_entry(a, t, "left")
    OBVIOUS
  <2>5. Tidy(b, m, job)
    BY <2>3, <2>4, PutEntryTidy
  <2>6. head' = head
    BY <1>10 DEF runner_pull_settled, Apart, folder
  <2>. QED
    BY <2>1, <2>4, <2>5, <2>6, TidyKnown
<1>. QED
  BY <1>4, <1>5, <1>6, <1>7, <1>8, <1>9, <1>10

LEMMA StartNowKnown ==
  ASSUME Good, Known, NEW t \in Tasks, DispatchStarts(t) \/ runner_start_now(t)
  PROVE  Known'
<1>0. Kept(Here, m) /\ Tidy(Here, m, job) /\ {"x", "w", "job"} \subseteq DOMAIN Here
  BY HereTidy
<1>1. CASE DispatchStarts(t)
  <2>1. MayStart(Here, t) /\ head' = head
    BY <1>1 DEF DispatchStarts, Apart, folder
  <2>2. PICK created : Becomes(runner_try_start(Here, t, created))
    BY <1>1 DEF DispatchStarts
  <2>. QED
    BY <1>0, <2>1, <2>2, TryStartKnown
<1>2. CASE runner_start_now(t)
  <2>1. head' = head
    BY <1>2 DEF runner_start_now, Apart, folder
  <2>2. PICK a : a = [Here EXCEPT !.block = FALSE]
    OBVIOUS
  <2>3. PICK b : b = IF Leased(t) THEN [a EXCEPT !.forced = @ \cup {t}] ELSE a
    OBVIOUS
  <2>4. /\ {"x", "w", "job", "block"} \subseteq DOMAIN a
        /\ a.x = Here.x /\ a.w = Here.w /\ a.job = Here.job
    BY <2>2 DEF Here
  <2>5. /\ {"x", "w", "job"} \subseteq DOMAIN b
        /\ b.x = Here.x /\ b.w = Here.w /\ b.job = Here.job /\ b.block = a.block
    BY <2>3, <2>4
  <2>6. \/ MayStart(a, t) /\ \E created \in Creations(t) : Becomes(runner_try_start(b, t, created))
        \/ Becomes(a)
    BY <1>2, <2>2, <2>3 DEF runner_start_now
  <2>7. CASE Becomes(a)
    <3>1. Tidy(a, m, job)
      BY <1>0, <2>4, NotesTidy
    <3>. QED
      BY <2>1, <2>7, <3>1, TidyKnown
  <2>8. CASE MayStart(a, t) /\ \E created \in Creations(t) : Becomes(runner_try_start(b, t, created))
    <3>1. PICK created : Becomes(runner_try_start(b, t, created))
      BY <2>8
    <3>2. (Delivers(t) /\ b.block) = (Delivers(t) /\ a.block)
      BY <2>5
    <3>3. MayStart(b, t)
      BY <2>4, <2>5, <2>8, <3>2 DEF MayStart, runner_checkout_refusal
    <3>. QED
      BY <2>1, <2>5, <3>1, <3>3, TryStartKnown
  <2>. QED
    BY <2>6, <2>7, <2>8
<1>. QED
  BY <1>1, <1>2

LEMMA DeleteKnown ==
  ASSUME Good, Known, NEW t \in Tasks, DeleteTask(t)
  PROVE  Known'
<1>0. Kept(Here, m) /\ Tidy(Here, m, job) /\ {"x", "w", "job"} \subseteq DOMAIN Here
  BY HereTidy
<1>1. PICK a : a = IF Running(m, t) THEN workflow_finalize(Here, t, "stopped") ELSE Here
  OBVIOUS
<1>2. PICK b : b = IF m.pipe[t] = "none" THEN a ELSE Save(a, [a.x EXCEPT !.pipe[t] = "none"])
  OBVIOUS
<1>3. PICK c : c = runner_task_deleted(b, t)
  OBVIOUS
<1>4. PICK tasks : tasks = c.x.tasks \ {t}
  OBVIOUS
<1>5. PICK d : d = Save(c, [c.x EXCEPT !.tasks = tasks])
  OBVIOUS
<1>6. PICK e : e = [d EXCEPT !.mail.delete = @ \ {t}]
  OBVIOUS
<1>7. Becomes(e) /\ head' = head
  BY <1>1, <1>2, <1>3, <1>4, <1>5, <1>6 DEF DeleteTask, Apart, folder
<1>8. Kept(a, m) /\ Tidy(a, m, job)
  BY <1>0, <1>1, FinalizeTidy
<1>9. Kept(b, m) /\ Tidy(b, m, job)
  <2>1. b = a \/ Elsewhere(a, b)
    BY <1>2 DEF Elsewhere
  <2>. QED
    BY <1>8, <2>1, ElsewhereTidy
<1>10. Kept(c, m) /\ Tidy(c, m, job)
  BY <1>3, <1>9, TaskDeletedTidy
<1>11. Kept(d, m) /\ Tidy(d, m, job)
  <2>1. Elsewhere(c, d)
    BY <1>5 DEF Elsewhere
  <2>. QED
    BY <1>10, <2>1, ElsewhereTidy
<1>12. {"x", "w", "job"} \subseteq DOMAIN e /\ e.x = d.x /\ e.w = d.w /\ e.job = d.job
  BY <1>6, <1>11 DEF Kept
<1>13. Tidy(e, m, job)
  BY <1>11, <1>12, NotesTidy
<1>. QED
  BY <1>7, <1>13, TidyKnown

LEMMA EnqueueKnown ==
  ASSUME Good, Known, NEW t \in Tasks, Enqueue(t)
  PROVE  Known'
<1>0. Kept(Here, m) /\ Tidy(Here, m, job) /\ {"x", "w", "job"} \subseteq DOMAIN Here /\ Here.x = m
  BY HereTidy
<1>1. PICK tasks : tasks = m.tasks \cup {t}
  OBVIOUS
<1>2. PICK a : a = Save(Here, [m EXCEPT !.tasks = tasks])
  OBVIOUS
<1>3. PICK b : b = runner_put_entry(a, t, "queued")
  OBVIOUS
<1>4. PICK c : c = [b EXCEPT !.block = FALSE]
  OBVIOUS
<1>5. Becomes(c) /\ head' = head
  BY <1>1, <1>2, <1>3, <1>4 DEF Enqueue, folder
<1>6. Kept(a, m) /\ Tidy(a, m, job)
  <2>1. Elsewhere(Here, a)
    BY <1>0, <1>2 DEF Elsewhere
  <2>. QED
    BY <1>0, <2>1, ElsewhereTidy
<1>7. Kept(b, m) /\ Tidy(b, m, job)
  BY <1>3, <1>6, PutEntryTidy
<1>8. {"x", "w", "job"} \subseteq DOMAIN c /\ c.x = b.x /\ c.w = b.w /\ c.job = b.job
  BY <1>4, <1>7 DEF Kept
<1>9. Tidy(c, m, job)
  BY <1>7, <1>8, NotesTidy
<1>. QED
  BY <1>5, <1>9, TidyKnown

LEMMA OwnKnown ==
  ASSUME Good, Known,
         \/ HandleDispatch \/ DispatchEnds \/ NothingToStop \/ RowIsGone \/ Tick \/ runner_stop
         \/ runner_checkout_retry
  PROVE  Known'
<1>0. Kept(Here, m) /\ Tidy(Here, m, job) /\ {"x", "w", "job"} \subseteq DOMAIN Here
  BY HereTidy
<1>1. PICK a, b : /\ a = [Here EXCEPT !.mail.dispatch = FALSE]
                  /\ b = [Here EXCEPT !.block = FALSE]
  OBVIOUS
<1>2. /\ {"x", "w", "job"} \subseteq DOMAIN a /\ a.x = Here.x /\ a.w = Here.w /\ a.job = Here.job
      /\ {"x", "w", "job"} \subseteq DOMAIN b /\ b.x = Here.x /\ b.w = Here.w /\ b.job = Here.job
  BY <1>0, <1>1
<1>3. Tidy(a, m, job) /\ Tidy(b, m, job) /\ Kept(b, m)
  BY <1>0, <1>2, NotesTidy
<1>4. PICK c : c = runner_give_back(b)
  OBVIOUS
<1>5. Tidy(c, m, job)
  BY <1>3, <1>4, GiveBackTidy
<1>6. head' = head /\ (Becomes(Here) \/ Becomes(a) \/ Becomes(b) \/ Becomes(c))
  <2>1. CASE HandleDispatch \/ Tick
    BY <1>1, <2>1 DEF HandleDispatch, Tick, Apart, folder
  <2>2. CASE DispatchEnds \/ NothingToStop \/ RowIsGone \/ runner_stop
    BY <2>2 DEF DispatchEnds, NothingToStop, RowIsGone, runner_stop, Apart, folder
  <2>3. CASE runner_checkout_retry
    BY <1>1, <1>4, <2>3 DEF runner_checkout_retry, Apart, folder
  <2>. QED
    BY <2>1, <2>2, <2>3
<1>. QED
  BY <1>0, <1>3, <1>5, <1>6, TidyKnown

LEMMA OneWrite ==
  ASSUME NEW y, NEW w, w = Append(<<>>, y)
  PROVE  IsSeq(w) /\ Len(w) = 1 /\ \A i \in 1..Len(w) : w[i] = y
<1>1. w = <<y>>
  OBVIOUS
<1>2. w \in Seq({y}) /\ Len(w) = 1 /\ w[1] = y
  BY <1>1
<1>3. \A i \in 1..Len(w) : i = 1
  BY <1>2
<1>4. IsSeq(w)
  BY <1>2 DEF IsSeq
<1>. QED
  BY <1>2, <1>3, <1>4

(* The reports of the lease's git task. *)
LEMMA DropAway ==
  ASSUME NEW a, {"x", "w", "job"} \subseteq DOMAIN a, Shaped(a.x), a.w = <<>>,
         NEW c, c = runner_drop_lease(a),
         NEW b, {"x", "w", "job"} \subseteq DOMAIN b, b.x = c.x, b.w = c.w, b.job = NoJob
  PROVE  AwayFrom(b)
<1>1. PICK y : y = [a.x EXCEPT !.lease = NoLease]
  OBVIOUS
<1>2. Clear(y) /\ y.lease.state = "none"
  BY <1>1 DEF Clear, Shaped, NoLease
<1>3. c.x = y /\ c.w = Append(a.w, y)
  BY <1>1 DEF runner_drop_lease, Save
<1>4. b.w = Append(<<>>, y)
  BY <1>3
<1>5. IsSeq(b.w) /\ \A i \in 1..Len(b.w) : b.w[i] = y
  BY <1>4, OneWrite
<1>6. NoJob.at = "none"
  BY DEF NoJob
<1>. QED
  BY <1>2, <1>3, <1>5, <1>6 DEF AwayFrom, InStep, Prep, Ret, Fresh

LEMMA RefusedKnown ==
  ASSUME Good, Known, Away(job), NEW a, {"x", "w", "job", "block", "forced"} \subseteq DOMAIN a,
         a.x = m, a.w = <<>>, NEW t, Becomes(runner_checkout_refused(a, t)), head' = head
  PROVE  Known'
<1>1. PICK c, b : c = runner_drop_lease(a) /\ b = runner_checkout_refused(a, t)
  OBVIOUS
<1>2. {"x", "w", "job"} \subseteq DOMAIN c
  BY <1>1 DEF runner_drop_lease, Save
<1>3. {"x", "w", "job"} \subseteq DOMAIN b /\ b.x = c.x /\ b.w = c.w /\ b.job = NoJob
  BY <1>1, <1>2 DEF runner_checkout_refused
<1>4. head \notin Tasks /\ Shaped(m)
  BY DEF Known, Returnable, Clear
<1>5. AwayFrom(b)
  BY <1>1, <1>3, <1>4, DropAway
<1>. QED
  BY <1>1, <1>4, <1>5, AwayKnown

LEMMA InspectedKnown ==
  ASSUME Good, Known, NEW t \in Tasks, runner_checkout_inspected(t)
  PROVE  Known'
<1>0. /\ Kept(Here, m) /\ Tidy(Here, m, job) /\ Here.x = m /\ Here.w = <<>> /\ Here.job = job
      /\ {"x", "w", "job", "block", "forced"} \subseteq DOMAIN Here
  BY HereTidy DEF Here
<1>1. /\ head' = head /\ job.at = "inspected" /\ m.lease.state = "preparing"
      /\ Away(job) /\ head \notin Tasks /\ Shaped(m)
  BY DEF runner_checkout_inspected, Preparing, Apart, folder, Known, Returnable, Away, Clear
<1>2. CASE Becomes(runner_checkout_refused(Here, t))
  BY <1>0, <1>1, <1>2, RefusedKnown
<1>3. PICK b, c : b = [c EXCEPT !.job = NoJob] /\ c = runner_drop_lease(Here)
  OBVIOUS
<1>4. CASE Becomes(b)
  <2>1. {"x", "w", "job"} \subseteq DOMAIN c
    BY <1>0, <1>3 DEF runner_drop_lease, Save
  <2>2. {"x", "w", "job"} \subseteq DOMAIN b /\ b.x = c.x /\ b.w = c.w /\ b.job = NoJob
    BY <1>3, <2>1
  <2>3. AwayFrom(b)
    BY <1>0, <1>1, <1>3, <2>2, DropAway
  <2>. QED
    BY <1>1, <1>4, <2>3, AwayKnown
<1>5. PICK y : y = [m EXCEPT !.lease.back = job.point]
  OBVIOUS
<1>6. PICK a : a = Save(Here, y)
  OBVIOUS
<1>7. PICK d : d = [a EXCEPT !.job.at = "flush", !.job.wait = Behind(a)]
  OBVIOUS
<1>8. CASE job.ok = TRUE /\ Becomes(d)
  <2>1. PICK l, k : l = log' /\ k = job'
    OBVIOUS
  <2>2. /\ {"x", "w", "job"} \subseteq DOMAIN a /\ a.x = y /\ a.w = Append(<<>>, y) /\ a.job = job
    BY <1>0, <1>6 DEF Save
  <2>3. PICK n : n = Behind(a)
    OBVIOUS
  <2>4. d.x = y /\ d.w = Append(<<>>, y) /\ d.job = [job EXCEPT !.at = "flush", !.wait = n]
    BY <1>7, <2>2, <2>3
  <2>6. PICK w : w = Append(<<>>, y)
    OBVIOUS
  <2>7. IsSeq(w) /\ Len(w) = 1 /\ \A i \in 1..Len(w) : w[i] = y
    BY <2>6, OneWrite
  <2>8. l = log \o w /\ m' = y /\ k = [job EXCEPT !.at = "flush", !.wait = n]
    BY <1>8, <2>1, <2>4, <2>6 DEF Becomes, Holds
  <2>9. /\ Len(log) \in Nat /\ Len(log) >= 1
        /\ \A i \in 1..Len(l) : \/ i \in 1..Len(log) /\ l[i] = log[i]
                                \/ i > Len(log) /\ l[i] = y
    BY <2>7, <2>8, Joined
  <2>10. n = Len(log)
    BY <2>2, <2>3, <2>6, <2>7, <2>9 DEF Behind
  <2>11. Returnable(log, m, job, head)
    BY DEF Known
  <2>12. /\ k.at = "flush" /\ k.wait = n /\ k.ok = TRUE
         /\ {"at", "ok", "point", "wait"} \subseteq DOMAIN k
    BY <1>8, <2>8, <2>11 DEF Returnable
  <2>13. job.point \in UserBranches /\ job.point # "none"
    BY <1>1, <1>8, <2>11 DEF Returnable, UserBranches
  <2>14. /\ Clear(y) /\ y.lease.back # "none" /\ y.lease.state = "preparing"
    BY <1>1, <1>5, <2>13 DEF Shaped, Clear
  <2>15. \A i \in 1..Len(l) : Clear(l[i]) /\ (i > n => Same(l[i], y))
    BY <2>9, <2>10, <2>11, <2>14 DEF Returnable, Same
  <2>16. InStep(y, k)
    BY <2>12, <2>14 DEF InStep, Prep, Ret
  <2>17. Returnable(l, y, k, head)
    BY <1>1, <2>9, <2>10, <2>11, <2>12, <2>14, <2>15, <2>16 DEF Returnable
  <2>. QED
    BY <1>1, <2>1, <2>8, <2>17 DEF Known
<1>9. \/ Becomes(runner_checkout_refused(Here, t)) \/ Becomes(b)
      \/ job.ok = TRUE /\ Becomes(d)
  <2>1. job.ok \in BOOLEAN
    BY DEF Known, Returnable
  <2>. QED
    BY <1>3, <1>5, <1>6, <1>7, <2>1 DEF runner_checkout_inspected
<1>. QED
  BY <1>2, <1>4, <1>8, <1>9

LEMMA StartJob ==
  ASSUME NEW a, NEW o, Kept(a, o), a.x.lease.state # "running", NEW t, NEW created,
         NEW d, d = runner_start(a, t, created)
  PROVE  d.job = a.job
<1>1. CASE created # "refused"
  BY <1>1, StartTidy
<1>2. CASE created = "refused"
  <2>1. PICK y : y = [a.x EXCEPT !.entry[t] = "left"]
    OBVIOUS
  <2>2. Shaped(y) /\ y.lease = a.x.lease
    BY <2>1 DEF Kept, Shaped
  <2>3. PICK c : c = Save(a, y)
    OBVIOUS
  <2>4. Kept(c, o) /\ c.job = a.job /\ c.x = y
    BY <2>2, <2>3, SaveTidy
  <2>5. PICK b : b = runner_put_entry(a, t, "left")
    OBVIOUS
  <2>6. b = runner_checkout_entry_left(c, t)
    BY <2>1, <2>3, <2>5 DEF runner_put_entry, InRun
  <2>7. b = c
    BY <2>2, <2>4, <2>6 DEF runner_checkout_entry_left
  <2>8. PutsRun(b, t, d)
    BY <1>2, <2>5 DEF runner_start, PutsRun
  <2>. QED
    BY <2>4, <2>7, <2>8, PutRunTidy
<1>. QED
  BY <1>1, <1>2

LEMMA SwitchedKnown ==
  ASSUME Good, Known, NEW t \in Tasks, runner_checkout_switched(t)
  PROVE  Known'
<1>0. /\ Kept(Here, m) /\ Here.x = m /\ Here.w = <<>>
      /\ {"x", "w", "job", "block", "forced"} \subseteq DOMAIN Here
  BY HereTidy DEF Here
<1>1. head' = head /\ job.at = "switched" /\ m.lease.state = "preparing"
  BY DEF runner_checkout_switched, Preparing, Apart, folder
<1>2. PICK a : a = [Here EXCEPT !.forced = @ \ {t}, !.job = NoJob]
  OBVIOUS
<1>3. /\ a.x = m /\ a.w = <<>> /\ a.job = NoJob
      /\ {"x", "w", "job", "block", "forced"} \subseteq DOMAIN a
  BY <1>0, <1>2
<1>4. Kept(a, m)
  BY <1>0, <1>3 DEF Kept
<1>5. CASE job.ok = FALSE /\ Becomes(runner_checkout_refused(a, t))
  BY <1>1, <1>3, <1>5, RefusedKnown DEF Away
<1>6. CASE \E b : Kept(b, m) /\ Becomes(runner_give_back(b))
  <2>1. PICK b, c : Kept(b, m) /\ c = runner_give_back(b) /\ Becomes(c)
    BY <1>6
  <2>2. Tidy(c, m, NoJob)
    BY <2>1, GiveBackTidy
  <2>. QED
    BY <1>1, <2>1, <2>2, TidyKnown
<1>7. CASE \E b : Kept(b, m) /\ b.job = NoJob /\ Becomes(runner_put_lease(b, "running"))
  <2>1. PICK b, c : Kept(b, m) /\ b.job = NoJob /\ c = runner_put_lease(b, "running") /\ Becomes(c)
    BY <1>7
  <2>2. Kept(c, m) /\ c.job = NoJob /\ c.x.lease.state = "running"
    BY <2>1, PutLeaseKept
  <2>3. c.job.at = "none"
    BY <2>2 DEF NoJob
  <2>4. Tidy(c, m, NoJob)
    BY <2>2, <2>3 DEF Tidy, InStep, Prep, Ret
  <2>. QED
    BY <1>1, <2>1, <2>4, TidyKnown
<1>8. CASE \E created \in Creations(t) :
             LET b == runner_start(a, t, created)
             IN Becomes(IF b.x.entry[t] = "running"
                        THEN runner_put_lease(b, "running") ELSE runner_give_back(b))
  <2>1. PICK created, b :
          /\ b = runner_start(a, t, created)
          /\ Becomes(IF b.x.entry[t] = "running"
                     THEN runner_put_lease(b, "running") ELSE runner_give_back(b))
    BY <1>8
  <2>2. Kept(b, m)
    BY <1>4, <2>1, StartTidy
  <2>3. b.job = a.job
    <3>1. a.x.lease.state # "running"
      BY <1>1, <1>3
    <3>. QED
      BY <1>4, <2>1, <3>1, StartJob
  <2>. QED
    BY <1>3, <1>6, <1>7, <2>1, <2>2, <2>3
<1>9. CASE Becomes(runner_give_back(a)) \/ Becomes(runner_give_back(runner_discard_queued(a, t)))
  <2>1. PICK b : b = runner_discard_queued(a, t)
    OBVIOUS
  <2>2. Kept(b, m)
    BY <1>4, <2>1, DiscardTidy
  <2>. QED
    BY <1>4, <1>6, <1>9, <2>1, <2>2
<1>10. \/ job.ok = FALSE /\ Becomes(runner_checkout_refused(a, t))
       \/ Becomes(runner_give_back(a)) \/ Becomes(runner_give_back(runner_discard_queued(a, t)))
       \/ \E created \in Creations(t) :
            LET b == runner_start(a, t, created)
            IN Becomes(IF b.x.entry[t] = "running"
                       THEN runner_put_lease(b, "running") ELSE runner_give_back(b))
  <2>1. job.ok \in BOOLEAN
    BY DEF Known, Returnable
  <2>. QED
    BY <1>2, <2>1 DEF runner_checkout_switched
<1>. QED
  BY <1>5, <1>8, <1>9, <1>10

LEMMA ReturnedKnown ==
  ASSUME Good, Known, runner_checkout_returned
  PROVE  Known'
<1>0. Kept(Here, m) /\ Here.x = m /\ Here.w = <<>> /\ {"x", "w", "job"} \subseteq DOMAIN Here
  BY HereTidy
<1>1. head' = head /\ job.at = "returned" /\ job.ok \in BOOLEAN /\ Shaped(m)
  BY DEF runner_checkout_returned, Apart, folder, Known, Returnable, Clear
<1>2. PICK a : a = [Here EXCEPT !.job = NoJob]
  OBVIOUS
<1>3. a.x = m /\ a.w = <<>> /\ a.job = NoJob /\ {"x", "w", "job"} \subseteq DOMAIN a
  BY <1>0, <1>2
<1>4. Kept(a, m)
  BY <1>0, <1>3 DEF Kept
<1>5. CASE job.ok = TRUE /\ Becomes(runner_drop_lease(a))
  <2>1. PICK b : b = runner_drop_lease(a)
    OBVIOUS
  <2>2. {"x", "w", "job"} \subseteq DOMAIN b /\ b.job = NoJob
    BY <1>3, <2>1 DEF runner_drop_lease, Save
  <2>3. AwayFrom(b)
    BY <1>1, <1>3, <2>1, <2>2, DropAway
  <2>4. head \notin Tasks
    BY <1>1, <1>5 DEF Known, Returnable, Away
  <2>. QED
    BY <1>1, <1>5, <2>1, <2>3, <2>4, AwayKnown
<1>6. CASE Becomes(runner_put_lease(a, "held"))
  <2>1. PICK b : b = runner_put_lease(a, "held")
    OBVIOUS
  <2>2. Kept(b, m) /\ b.job = NoJob /\ b.x.lease.state = "held"
    BY <1>3, <1>4, <2>1, PutLeaseKept
  <2>3. b.job.at = "none"
    BY <2>2 DEF NoJob
  <2>4. Tidy(b, m, NoJob)
    BY <2>2, <2>3 DEF Tidy, InStep, Prep, Ret
  <2>. QED
    BY <1>1, <1>6, <2>1, <2>4, TidyKnown
<1>7. \/ job.ok = TRUE /\ Becomes(runner_drop_lease(a))
      \/ Becomes(runner_put_lease(a, "held"))
  BY <1>1, <1>2 DEF runner_checkout_returned
<1>. QED
  BY <1>5, <1>6, <1>7

(* Git's own steps, and the person's. *)
LEMMA GitKnown ==
  ASSUME Good, Known, LeaseJob \/ UsesFolder
  PROVE  Known'
<1>0. Returnable(log, m, job, head)
  BY DEF Known
<1>1. PICK k, h : k = job' /\ h = head'
  OBVIOUS
<1>2. m' = m /\ log' = log
  BY DEF LeaseJob, Inspects, Looks, Switches, GivesBack, UsesFolder
<1>3. SUFFICES Returnable(log, m, k, h)
  BY <1>1, <1>2 DEF Known
<1>4. /\ {"at", "ok", "point", "wait"} \subseteq DOMAIN job /\ job.ok \in BOOLEAN
      /\ InStep(m, job) /\ Clear(m) /\ \A i \in 1..Len(log) : Clear(log[i])
      /\ head \in UserBranches \cup Tasks
      /\ head \in Tasks => At(m, head) /\ \A i \in 1..Len(log) : At(log[i], head)
  BY <1>0 DEF Returnable
<1>5. UserBranches \cap Tasks = {}
  BY FactoryAssumption DEF FactoryAssumption
<1>6. CASE Inspects
  <2>1. h = head /\ head \notin Tasks /\ head \in UserBranches
    BY <1>0, <1>1, <1>4, <1>6 DEF Inspects, folder, Returnable, Away
  <2>2. \/ k = [job EXCEPT !.at = "inspected", !.ok = FALSE]
        \/ k = [job EXCEPT !.at = "inspected", !.point = head]
    BY <1>1, <1>6 DEF Inspects
  <2>3. /\ {"at", "ok", "point", "wait"} \subseteq DOMAIN k /\ k.ok \in BOOLEAN
        /\ k.at = "inspected" /\ (k.ok = TRUE => k.point = head)
    BY <1>4, <2>2
  <2>4. InStep(m, k)
    BY <1>4, <1>6, <2>3 DEF Inspects, InStep, Prep, Ret
  <2>. QED
    BY <1>4, <2>1, <2>3, <2>4 DEF Returnable
<1>7. CASE Looks
  <2>1. h = head /\ head \notin Tasks /\ job.at = "flush" /\ job.wait = 0
    BY <1>0, <1>1, <1>7 DEF Looks, Flushed, folder, Returnable, Away
  <2>2. \/ k = [job EXCEPT !.at = "switched", !.ok = FALSE]
        \/ k = [job EXCEPT !.at = "switch"]
    BY <1>1, <1>7 DEF Looks
  <2>3. /\ {"at", "ok", "point", "wait"} \subseteq DOMAIN k /\ k.ok \in BOOLEAN
        /\ (k.at = "switch" /\ k.ok = TRUE) \/ (k.at = "switched" /\ k.ok = FALSE)
    <3>1. job.ok = TRUE
      BY <1>0, <2>1 DEF Returnable
    <3>. QED
      BY <1>4, <2>2, <3>1
  <2>4. InStep(m, k)
    BY <1>4, <2>1, <2>3 DEF InStep, Prep, Ret
  <2>5. m.lease.back # "none" /\ \A i \in 1..Len(log) : Same(log[i], m)
    BY <1>0, <2>1 DEF Returnable
  <2>. QED
    BY <1>4, <2>1, <2>3, <2>4, <2>5 DEF Returnable
<1>8. CASE Switches
  <2>1. /\ job.at = "switch" /\ head \notin Tasks /\ m.lease.state = "preparing"
        /\ m.lease.back # "none" /\ \A i \in 1..Len(log) : Same(log[i], m)
    BY <1>0, <1>8 DEF Switches, Returnable, Away, InStep, Prep
  <2>2. m.lease.task \in Tasks
    BY <2>1 DEF Good, Stands, Image, Frame, LeaseOK
  <2>3. \/ k = [job EXCEPT !.at = "switched", !.ok = FALSE] /\ h = head
        \/ k = [job EXCEPT !.at = "switched"] /\ h = m.lease.task
    BY <1>1, <1>8 DEF Switches
  <2>4. /\ {"at", "ok", "point", "wait"} \subseteq DOMAIN k /\ k.ok \in BOOLEAN
        /\ k.at = "switched" /\ (h = head \/ k.ok = job.ok)
    BY <1>4, <2>3
  <2>5. InStep(m, k)
    BY <1>4, <2>1, <2>4 DEF InStep, Prep, Ret
  <2>6. CASE h = head
    BY <1>4, <2>1, <2>4, <2>5, <2>6 DEF Returnable
  <2>7. CASE h = m.lease.task /\ k = [job EXCEPT !.at = "switched"]
    <3>1. k.ok = TRUE
      BY <1>0, <1>4, <2>1, <2>7 DEF Returnable
    <3>2. At(m, h) /\ \A i \in 1..Len(log) : At(log[i], h)
      BY <2>1, <2>7 DEF At, Same
    <3>. QED
      BY <1>4, <2>1, <2>2, <2>4, <2>5, <2>7, <3>1, <3>2 DEF Returnable, Away
  <2>. QED
    BY <2>3, <2>6, <2>7
<1>9. CASE GivesBack
  <2>1. job.at = "return"
    BY <1>9 DEF GivesBack
  <2>2. \/ k = [job EXCEPT !.at = "returned"] /\ h = head /\ head # m.lease.task
        \/ k = [job EXCEPT !.at = "returned", !.ok = FALSE] /\ h = head
        \/ k = [job EXCEPT !.at = "returned"] /\ h = m.lease.back /\ m.lease.back # "none"
    BY <1>1, <1>9 DEF GivesBack
  <2>3. /\ {"at", "ok", "point", "wait"} \subseteq DOMAIN k /\ k.ok \in BOOLEAN
        /\ k.at = "returned"
        /\ k.ok = FALSE \/ h \in UserBranches \ Tasks
    BY <1>4, <1>5, <2>2 DEF At, Clear
  <2>4. InStep(m, k)
    BY <1>4, <2>1, <2>3 DEF InStep, Prep, Ret
  <2>5. h = head \/ h \in UserBranches \ Tasks
    BY <1>4, <1>5, <2>2 DEF Clear
  <2>. QED
    BY <1>4, <2>3, <2>4, <2>5 DEF Returnable, Away
<1>10. CASE UsesFolder
  <2>1. k = job /\ (h = head \/ h \in UserBranches \ Tasks)
    BY <1>1, <1>5, <1>10 DEF UsesFolder
  <2>. QED
    BY <1>0, <2>1 DEF Returnable
<1>. QED
  BY <1>6, <1>7, <1>8, <1>9, <1>10 DEF LeaseJob

(* A write reaches the disk. *)
LEMMA WriterKnown ==
  ASSUME Good, Known, WriterApplies
  PROVE  Known'
<1>0. Returnable(log, m, job, head)
  BY DEF Known
<1>1. PICK l, k, n : l = log' /\ k = job' /\ n = Less(job.wait)
  OBVIOUS
<1>2. /\ m' = m /\ head' = head /\ l = Tail(log) /\ k = [job EXCEPT !.wait = n]
      /\ IsSeq(log) /\ Len(log) > 1
  BY <1>1 DEF WriterApplies, folder, Good, Stands
<1>3. /\ Len(log) \in Nat /\ Len(l) = Len(log) - 1
      /\ \A i \in 1..Len(l) : l[i] = log[i + 1]
  BY <1>2, TailAny
<1>4. \A i \in 1..Len(l) : i + 1 \in 1..Len(log) /\ l[i] = log[i + 1]
  BY <1>3
<1>5. /\ {"at", "ok", "point", "wait"} \subseteq DOMAIN job
      /\ {"at", "ok", "point", "wait"} \subseteq DOMAIN k
      /\ k.at = job.at /\ k.ok = job.ok /\ k.point = job.point /\ k.wait = n
  BY <1>0, <1>2 DEF Returnable
<1>6. job.at = "flush" => /\ n \in Nat /\ m.lease.back # "none"
                          /\ \A i \in 1..Len(l) : i > n => Same(l[i], m)
  <2>1. SUFFICES ASSUME job.at = "flush"
                 PROVE  n \in Nat /\ \A i \in 1..Len(l) : i > n => Same(l[i], m)
    BY <1>0 DEF Returnable
  <2>2. job.wait \in Nat /\ \A i \in 1..Len(log) : i > job.wait => Same(log[i], m)
    BY <1>0, <2>1 DEF Returnable
  <2>3. n \in Nat /\ \A i \in Nat : i > n => i + 1 > job.wait
    BY <1>1, <2>2 DEF Less
  <2>. QED
    BY <1>3, <1>4, <2>2, <2>3
<1>7. /\ \A i \in 1..Len(l) : Clear(l[i])
      /\ head \in Tasks => \A i \in 1..Len(l) : At(l[i], head)
      /\ job.at = "switch" \/ (job.at = "switched" /\ job.ok = TRUE) =>
           \A i \in 1..Len(l) : Same(l[i], m)
  BY <1>0, <1>4 DEF Returnable
<1>8. InStep(m, k) /\ (Away(k) => Away(job))
  BY <1>0, <1>5 DEF Returnable, InStep, Away
<1>9. Returnable(l, m, k, head)
  BY <1>0, <1>5, <1>6, <1>7, <1>8 DEF Returnable
<1>. QED
  BY <1>1, <1>2, <1>9 DEF Known

(* A restart: what is on disk says where the folder goes back to. *)
LEMMA RestoreTidy ==
  ASSUME NEW a, NEW o, Kept(a, o), LeaseOK(a.x), a.job = NoJob,
         NEW b, b = runner_checkout_restore(a)
  PROVE  Tidy(b, o, NoJob)
<1>0. NoJob.at = "none"
  BY DEF NoJob
<1>1. CASE b = runner_give_back(a)
  BY <1>1, GiveBackTidy
<1>2. CASE b = runner_put_lease(a, "running")
  <2>1. Kept(b, o) /\ b.job = NoJob /\ b.x.lease.state = "running"
    BY <1>2, PutLeaseKept
  <2>. QED
    BY <1>0, <2>1 DEF Tidy, InStep, Prep, Ret
<1>3. CASE b = a /\ a.x.lease.state \in {"none", "held", "running"}
  BY <1>0, <1>3 DEF Tidy, InStep, Prep, Ret
<1>. QED
  BY <1>1, <1>2, <1>3 DEF runner_checkout_restore

LEMMA RestartKnown ==
  ASSUME Good, Known, Restart
  PROVE  Known'
<1>0. Returnable(log, m, job, head) /\ 1 \in 1..Len(log)
  <2>1. Len(log) >= 1 /\ IsSeq(log)
    BY DEF Good, Stands
  <2>2. Len(log) \in Nat
    BY <2>1, AppendAny
  <2>. QED
    BY <2>1, <2>2 DEF Known
<1>1. Head(log) = log[1] /\ Image(log[1]) /\ head' = head
  BY <1>0 DEF Restart, Apart, folder, Good, Stands
<1>2. PICK x : x = Loaded(Head(log))
  OBVIOUS
<1>3. /\ x.lease = log[1].lease /\ x.entry = log[1].entry /\ Shaped(x) /\ Clear(x) /\ LeaseOK(x)
      /\ head \in Tasks => At(x, head)
  <2>1. Clear(log[1]) /\ (head \in Tasks => At(log[1], head))
    BY <1>0 DEF Returnable
  <2>2. x.lease = log[1].lease /\ x.entry = log[1].entry /\ Shaped(x)
    BY <1>1, <1>2 DEF Loaded, Image, Frame, Shaped
  <2>. QED
    BY <1>1, <2>1, <2>2 DEF Clear, At, Image, LeaseOK
<1>4. PICK a : a = [x |-> x, w |-> <<>>, finishing |-> {}, forced |-> {}, block |-> FALSE,
                    runs |-> {t \in Tasks : Has(x, t) /\ x.outcome[t] \notin Final \cup {"none"}},
                    mail |-> [dispatch |-> FALSE, delete |-> {}],
                    job |-> NoJob, wrap |-> [t \in Tasks |-> NoWrap]]
  OBVIOUS
<1>5. PICK b : b = runner_checkout_restore(a)
  OBVIOUS
<1>6. Holds(b) /\ log' = <<x>> \o b.w
  BY <1>2, <1>4, <1>5 DEF Restart
<1>7. Tidy(b, x, NoJob)
  <2>1. a.x = x /\ a.w = <<>> /\ a.job = NoJob /\ {"x", "w", "job"} \subseteq DOMAIN a
    BY <1>4
  <2>2. IsSeq(<<>>) /\ Len(<<>>) = 0
    BY DEF IsSeq
  <2>3. Kept(a, x)
    BY <1>3, <2>1, <2>2 DEF Kept, Same
  <2>. QED
    BY <1>3, <1>5, <2>1, <2>3, RestoreTidy
<1>8. PICK l, w, y, k, s : l = log' /\ w = b.w /\ y = b.x /\ k = b.job /\ s = Append(<<>>, x)
  OBVIOUS
<1>9. m' = y /\ job' = k /\ l = s \o w
  BY <1>6, <1>8 DEF Holds
<1>10. /\ IsSeq(w) /\ Shaped(y) /\ Same(y, x) /\ InStep(y, k)
       /\ \A i \in 1..Len(w) : Shaped(w[i]) /\ Same(w[i], x)
       /\ k = NoJob \/ k = Waiting("return")
  BY <1>7, <1>8 DEF Tidy, Kept
<1>11. IsSeq(s) /\ Len(s) = 1 /\ \A i \in 1..Len(s) : s[i] = x
  BY <1>8, OneWrite
<1>12. \A i \in 1..Len(l) : \/ i \in 1..Len(s) /\ l[i] = s[i]
                            \/ i - Len(s) \in 1..Len(w) /\ l[i] = w[i - Len(s)]
  BY <1>9, <1>10, <1>11, ConcatAny
<1>13. \A i \in 1..Len(l) : Shaped(l[i]) /\ Same(l[i], x)
  BY <1>3, <1>10, <1>11, <1>12 DEF Same
<1>14. /\ Clear(y) /\ \A i \in 1..Len(l) : Clear(l[i])
       /\ head \in Tasks => At(y, head) /\ \A i \in 1..Len(l) : At(l[i], head)
  BY <1>3, <1>10, <1>13 DEF Clear, At, Same
<1>15. /\ {"at", "ok", "point", "wait"} \subseteq DOMAIN k /\ k.ok \in BOOLEAN
       /\ k.at \in {"none", "return"}
  BY <1>10, FreshJob DEF Fresh
<1>16. Returnable(l, y, k, head)
  BY <1>0, <1>10, <1>14, <1>15 DEF Returnable, Away
<1>. QED
  BY <1>1, <1>8, <1>9, <1>16 DEF Known

LEMMA InitKnown ==
  ASSUME Init
  PROVE  Known
<1>1. /\ log = <<m>> /\ m.lease = NoLease /\ "lease" \in DOMAIN m /\ job = NoJob
      /\ head = "main"
  BY DEF Init
<1>2. Clear(m) /\ m.lease.state = "none"
  BY <1>1 DEF Clear, Shaped, NoLease
<1>3. \A i \in 1..Len(log) : log[i] = m
  BY <1>1
<1>4. head \in UserBranches /\ head \notin Tasks
  BY <1>1, FactoryAssumption DEF FactoryAssumption, UserBranches
<1>5. {"at", "ok", "point", "wait"} \subseteq DOMAIN job /\ job.ok \in BOOLEAN /\ job.at = "none"
  BY <1>1 DEF NoJob
<1>. QED
  BY <1>2, <1>3, <1>4, <1>5 DEF Known, Returnable, InStep, Prep, Ret, Away

LEMMA RestKnown ==
  ASSUME Known, UNCHANGED <<m, log, job, head>>
  PROVE  Known'
  BY DEF Known

LEMMA NextKnown ==
  ASSUME Good, Known, [Next]_vars
  PROVE  Known'
<1>1. CASE UNCHANGED vars
  BY <1>1, RestKnown DEF vars, folder
<1>2. ASSUME NEW t \in Tasks, Commands(t)
      PROVE  Known'
  BY <1>2, StartNowKnown, TidySteps, InspectedKnown, SwitchedKnown DEF Commands
<1>3. ASSUME NEW t \in Tasks, Asked(t)
      PROVE  Known'
  BY <1>3, EnqueueKnown, StartNowKnown, DeleteKnown, TidySteps DEF Asked
<1>4. ASSUME NEW t \in Tasks, WrapsUp(t) \/ Edits(t)
      PROVE  Known'
  BY <1>4, RestKnown DEF WrapsUp, CostRead, Commits, Pushes, OpensPull, WrapStep, Edits
<1>5. CASE \E b \in Tasks \cup UserBranches : PullCloses(b)
  BY <1>5, RestKnown DEF PullCloses, folder
<1>6. CASE LeaseJob \/ UsesFolder
  BY <1>6, GitKnown
<1>7. CASE OwnCommands \/ runner_stop \/ runner_checkout_retry
  BY <1>7, OwnKnown, ReturnedKnown DEF OwnCommands
<1>8. CASE WriterApplies
  BY <1>8, WriterKnown
<1>9. CASE Restart
  BY <1>9, RestartKnown
<1>. QED
  BY <1>1, <1>2, <1>3, <1>4, <1>5, <1>6, <1>7, <1>8, <1>9 DEF Next

LEMMA KnownIsReturn == Good /\ Known => ReturnPointKnown
<1>1. SUFFICES ASSUME Good, Known, head \in Tasks, NEW i \in DOMAIN log
               PROVE  log[i].lease.task = head /\ log[i].lease.back # "none"
  BY DEF ReturnPointKnown
<1>2. DOMAIN log = 1..Len(log)
  BY LenProperties DEF Good, Stands, IsSeq
<1>. QED
  BY <1>1, <1>2 DEF Known, Returnable, At

(* Whatever is on disk or waits to be, a project folder on a task branch   *)
(* has a lease that says where to return it.  Its proof is why the code    *)
(* flushes between the inspection and the switch: until then the folder is *)
(* on a branch of its owner's, and from then on every write carries the    *)
(* point.                                                                  *)
THEOREM ReturnIsKnown == Spec => []ReturnPointKnown
<1>1. Init => Good /\ Known
  BY InitGood, InitKnown
<1>2. Good /\ Known /\ [Next]_vars => (Good /\ Known)'
  BY NextGood, NextKnown
<1>3. Good /\ Known => ReturnPointKnown
  BY KnownIsReturn
<1>. QED
  BY <1>1, <1>2, <1>3, PTL DEF Spec

-----------------------------------------------------------------------------
(* Pull requests *)

(* Whoever has an entry has a row, on disk too: a task is queued after its *)
(* row is made, and leaves before its row goes.                            *)
Rows(x) == DOMAIN x.outcome = Tasks /\ \A t \in Tasks : Has(x, t) => t \in x.tasks

(* A delivery from the project folder has the lease (k is the kind of t). *)
Lent(x, t, k) == k.folder /\ x.entry[t] = "delivering" => x.lease.task = t

(* x is safe to restart from while t has a pull request, or is to have one. *)
Tracked(x, t, k) ==
  /\ x.entry[t] \in {"delivering", "delivered", "left"}
  /\ Lent(x, t, k)
  /\ \/ x.outcome[t] = "deleted" \/ t \notin x.tasks
     \/ x.entry[t] = "delivering" /\ x.outcome[t] = "delivering"
     \/ x.entry[t] = "delivered" /\ x.outcome[t] \in {"delivering", "delivered"}
Mirrored(x, r, t) == Has(x, t) /\ x.outcome[t] \in {"delivering", "delivered"} => t \in r

OpenPull(t) == pulls[t] = "open" /\ t \notin hist.lost \cup hist.strayed
AtWork(w) == w.at \in {"commit", "push", "open"}
AsksFlush(w) == w.at = "flush" /\ w.deliver
InFlight(w) == w.at # "none" /\ w.deliver
FoundNothing(w) == w.at = "told" /\ w.result = "noChanges"
WrapOK(w) ==
  /\ {"at", "deliver", "result", "wait"} \subseteq DOMAIN w
  /\ w.wait \in Nat /\ w.result \in {"none", "opened", "noChanges", "failed"}
  /\ AtWork(w) \/ (w.at = "told" /\ w.result # "none") => w.deliver

Watch(t) ==
  /\ WrapOK(wrap[t])
  /\ OpenPull(t) \/ AtWork(wrap[t]) \/ AsksFlush(wrap[t]) =>
       kind[t].deliver /\ Tracked(m, t, kind[t]) /\ Mirrored(m, runs, t)
  /\ OpenPull(t) \/ AtWork(wrap[t]) => \A i \in 1..Len(log) : Tracked(log[i], t, kind[t])
  /\ AsksFlush(wrap[t]) => \A i \in 1..Len(log) : i > wrap[t].wait => Tracked(log[i], t, kind[t])
  /\ InFlight(wrap[t]) =>
       /\ t \in finishing /\ m.entry[t] \in {"delivering", "left"}
       /\ \/ kind[t].folder => m.entry[t] = "delivering" /\ m.lease.task = t
          \/ t \notin m.tasks
  /\ OpenPull(t) => t \in commits /\ (FoundNothing(wrap[t]) => t \notin m.tasks)
  /\ t \in mail.delete => m.entry[t] = "left"
Watching ==
  /\ DOMAIN wrap = Tasks /\ DOMAIN pulls = Tasks \cup UserBranches
  /\ "delete" \in DOMAIN mail /\ {"lost", "strayed"} \subseteq DOMAIN hist
  /\ Rows(m) /\ \A i \in 1..Len(log) : Rows(log[i])
  /\ \A t \in Tasks : Watch(t)

-----------------------------------------------------------------------------
(* What a handler leaves alone *)

Akin(x, y, t) ==
  /\ y.entry[t] = x.entry[t] /\ y.outcome[t] = x.outcome[t]
  /\ t \in y.tasks <=> t \in x.tasks
  /\ x.entry[t] = "delivering" /\ x.lease.task = t => y.lease.task = t
Near(y, u) == Frame(y) /\ Rows(y) /\ \A t \in Tasks \ {u} : Akin(m, y, t)

(* A handler at work on u, and on nobody else. *)
Minds(a, u) ==
  /\ {"x", "w", "runs", "finishing", "mail", "wrap"} \subseteq DOMAIN a
  /\ IsSeq(a.w) /\ Near(a.x, u) /\ \A i \in 1..Len(a.w) : Near(a.w[i], u)
  /\ DOMAIN a.wrap = Tasks /\ "delete" \in DOMAIN a.mail
  /\ \A t \in Tasks \ {u} :
       /\ a.wrap[t] = wrap[t] /\ (t \in a.runs <=> t \in runs)
       /\ t \in a.finishing <=> t \in finishing
       /\ t \in a.mail.delete <=> t \in mail.delete

(* The same but for what is saved, and for what is sent and noted elsewhere. *)
Others(a, b) ==
  b.runs = a.runs /\ b.finishing = a.finishing /\ b.wrap = a.wrap /\ b.mail.delete = a.mail.delete
Fields(b) ==
  {"x", "w", "runs", "finishing", "mail", "wrap"} \subseteq DOMAIN b /\ "delete" \in DOMAIN b.mail
SameRow(x, y, u) ==
  y.entry[u] = x.entry[u] /\ y.outcome[u] = x.outcome[u] /\ y.tasks = x.tasks

LEMMA NearStep ==
  ASSUME NEW u, NEW x, Near(x, u), NEW y, Frame(y), Rows(y), \A t \in Tasks \ {u} : Akin(x, y, t)
  PROVE  Near(y, u)
  BY DEF Near, Akin

LEMMA MindsNotes ==
  ASSUME NEW u, NEW a, Minds(a, u), NEW b, Fields(b), Others(a, b), b.x = a.x, b.w = a.w
  PROVE  Minds(b, u)
  BY DEF Minds, Others, Fields

LEMMA MindsSave ==
  ASSUME NEW u, NEW a, Minds(a, u), NEW x, Frame(x), Rows(x), \A t \in Tasks \ {u} : Akin(a.x, x, t)
  PROVE  Minds(Save(a, x), u) /\ Save(a, x).x = x /\ Others(a, Save(a, x))
<1>1. PICK b : b = Save(a, x)
  OBVIOUS
<1>2. /\ Fields(b) /\ Others(a, b) /\ b.mail = a.mail
      /\ b.x = x /\ b.w = Append(a.w, x)
  BY <1>1 DEF Minds, Save, Fields, Others
<1>3. /\ IsSeq(b.w) /\ Len(a.w) \in Nat /\ Len(b.w) = Len(a.w) + 1
      /\ \A i \in 1..Len(a.w) : b.w[i] = a.w[i]
      /\ b.w[Len(a.w) + 1] = x
  BY <1>2, AppendAny DEF Minds
<1>4. Near(x, u)
  BY NearStep DEF Minds
<1>5. ASSUME NEW i \in 1..Len(b.w)
      PROVE  Near(b.w[i], u)
  <2>1. i \in 1..Len(a.w) \/ i = Len(a.w) + 1
    BY <1>3
  <2>. QED
    BY <1>3, <1>4, <2>1 DEF Minds
<1>. QED
  BY <1>1, <1>2, <1>3, <1>4, <1>5 DEF Minds, Fields, Others

LEMMA MindsLease ==
  ASSUME NEW u, NEW a, Minds(a, u), NEW state
  PROVE  LET b == runner_put_lease(a, state) IN
         Minds(b, u) /\ Others(a, b) /\ \A t \in Tasks : SameRow(a.x, b.x, t)
<1>1. PICK y : y = [a.x EXCEPT !.lease.state = state]
  OBVIOUS
<1>2. Frame(a.x) /\ Rows(a.x)
  BY DEF Minds, Near
<1>3. /\ Frame(y) /\ y.entry = a.x.entry /\ y.outcome = a.x.outcome /\ y.tasks = a.x.tasks
      /\ y.lease.task = a.x.lease.task
  BY <1>1, <1>2 DEF Frame
<1>4. Rows(y) /\ (\A t \in Tasks : Akin(a.x, y, t) /\ SameRow(a.x, y, t))
  BY <1>2, <1>3 DEF Rows, Has, Akin, SameRow
<1>. QED
  BY <1>1, <1>3, <1>4, MindsSave DEF runner_put_lease

(* A lease is dropped under no delivery. *)
LEMMA MindsDrop ==
  ASSUME NEW u, NEW a, Minds(a, u),
         a.x.lease.task \in Tasks => a.x.entry[a.x.lease.task] # "delivering"
  PROVE  LET b == runner_drop_lease(a) IN
         Minds(b, u) /\ Others(a, b) /\ \A t \in Tasks : SameRow(a.x, b.x, t)
<1>1. PICK y : y = [a.x EXCEPT !.lease = NoLease]
  OBVIOUS
<1>2. Frame(a.x) /\ Rows(a.x)
  BY DEF Minds, Near
<1>3. Frame(y) /\ y.entry = a.x.entry /\ y.outcome = a.x.outcome /\ y.tasks = a.x.tasks
  BY <1>1, <1>2 DEF Frame, NoLease
<1>4. Rows(y) /\ (\A t \in Tasks : Akin(a.x, y, t) /\ SameRow(a.x, y, t))
  BY <1>2, <1>3 DEF Rows, Has, Akin, SameRow
<1>. QED
  BY <1>1, <1>3, <1>4, MindsSave DEF runner_drop_lease

LEMMA MindsGiveBack ==
  ASSUME NEW u, NEW a, Minds(a, u)
  PROVE  LET b == runner_give_back(a) IN
         Minds(b, u) /\ Others(a, b) /\ \A t \in Tasks : SameRow(a.x, b.x, t)
<1>1. PICK c : c = runner_put_lease(a, "returning")
  OBVIOUS
<1>2. Minds(c, u) /\ Others(a, c) /\ \A t \in Tasks : SameRow(a.x, c.x, t)
  BY <1>1, MindsLease
<1>3. PICK b : b = runner_give_back(a)
  OBVIOUS
<1>4. Fields(b) /\ Others(c, b) /\ b.x = c.x /\ b.w = c.w
  BY <1>1, <1>2, <1>3 DEF runner_give_back, Minds, Fields, Others
<1>5. Minds(b, u) /\ Others(a, b)
  BY <1>2, <1>4, MindsNotes DEF Others
<1>. QED
  BY <1>2, <1>3, <1>4, <1>5

LEMMA MindsEntry ==
  ASSUME NEW u \in Tasks, NEW a, Minds(a, u), NEW e, e = "left" \/ u \in a.x.tasks
  PROVE  LET b == runner_put_entry(a, u, e) IN
         /\ Minds(b, u) /\ Others(a, b)
         /\ b.x.entry[u] = e /\ b.x.outcome[u] = a.x.outcome[u] /\ b.x.tasks = a.x.tasks
<1>1. PICK y : y = [a.x EXCEPT !.entry[u] = e]
  OBVIOUS
<1>2. Frame(a.x) /\ Rows(a.x)
  BY DEF Minds, Near
<1>3. /\ Frame(y) /\ y.entry = [a.x.entry EXCEPT ![u] = e] /\ y.lease = a.x.lease
      /\ y.outcome = a.x.outcome /\ y.tasks = a.x.tasks
  BY <1>1, <1>2 DEF Frame
<1>4. y.entry[u] = e /\ \A t \in Tasks : t # u => y.entry[t] = a.x.entry[t]
  BY <1>2, <1>3 DEF Frame
<1>5. Rows(y) /\ (\A t \in Tasks \ {u} : Akin(a.x, y, t))
  BY <1>2, <1>3, <1>4 DEF Rows, Has, Akin
<1>6. PICK c : c = Save(a, y)
  OBVIOUS
<1>7. Minds(c, u) /\ c.x = y /\ Others(a, c)
  BY <1>3, <1>5, <1>6, MindsSave
<1>8. PICK d : d = runner_checkout_entry_left(c, u)
  OBVIOUS
<1>9. Minds(d, u) /\ Others(a, d) /\ SameRow(y, d.x, u)
  <2>1. d = c \/ d = runner_give_back(c)
    BY <1>8 DEF runner_checkout_entry_left
  <2>2. SameRow(y, y, u)
    BY DEF SameRow
  <2>. QED
    BY <1>7, <2>1, <2>2, MindsGiveBack DEF Others
<1>10. runner_put_entry(a, u, e) = c \/ runner_put_entry(a, u, e) = d
  BY <1>1, <1>6, <1>8 DEF runner_put_entry
<1>. QED
  BY <1>3, <1>4, <1>7, <1>9, <1>10 DEF SameRow

LEMMA MindsEnd ==
  ASSUME NEW u \in Tasks, NEW a, Minds(a, u)
  PROVE  LET b == runner_end_entry(a, u) IN
         /\ Minds(b, u) /\ Others(a, b) /\ ~Has(b.x, u)
         /\ b.x.outcome[u] = a.x.outcome[u] /\ b.x.tasks = a.x.tasks
         /\ b.x.entry[u] = a.x.entry[u] \/ b.x.entry[u] = "left"
<1>1. CASE Has(a.x, u)
  BY <1>1, MindsEntry DEF runner_end_entry, Has
<1>2. CASE ~Has(a.x, u)
  BY <1>2 DEF runner_end_entry, Others
<1>. QED
  BY <1>1, <1>2

PutsOutcome(a, u, outcome, b) == \E keep : b = runner_put_run(a, u, outcome, keep)

LEMMA MindsRun ==
  ASSUME NEW u \in Tasks, NEW a, Minds(a, u), NEW outcome, NEW b, PutsOutcome(a, u, outcome, b)
  PROVE  /\ Minds(b, u) /\ b.finishing = a.finishing /\ b.wrap = a.wrap /\ b.mail = a.mail
         /\ b.x.entry = a.x.entry /\ b.x.outcome[u] = outcome /\ b.x.tasks = a.x.tasks
         /\ b.x.lease = a.x.lease /\ (outcome \notin Final => u \in b.runs)
<1>0. PICK keep : b = runner_put_run(a, u, outcome, keep)
  BY DEF PutsOutcome
<1>1. PICK y : y = [a.x EXCEPT !.outcome[u] = outcome]
  OBVIOUS
<1>2. Frame(a.x) /\ Rows(a.x)
  BY DEF Minds, Near
<1>3. /\ Frame(y) /\ y.entry = a.x.entry /\ y.lease = a.x.lease /\ y.tasks = a.x.tasks
      /\ y.outcome = [a.x.outcome EXCEPT ![u] = outcome]
  BY <1>1, <1>2 DEF Frame
<1>4. y.outcome[u] = outcome /\ \A t \in Tasks : t # u => y.outcome[t] = a.x.outcome[t]
  BY <1>2, <1>3 DEF Rows
<1>5. Rows(y) /\ (\A t \in Tasks \ {u} : Akin(a.x, y, t))
  BY <1>2, <1>3, <1>4 DEF Rows, Has, Akin
<1>6. PICK c : c = Save(a, y)
  OBVIOUS
<1>7. Minds(c, u) /\ c.x = y /\ Others(a, c) /\ c.mail = a.mail
  BY <1>3, <1>5, <1>6, MindsSave DEF Save, Minds
<1>8. PICK r : r = IF outcome \in Final /\ ~keep THEN c.runs \ {u} ELSE c.runs \cup {u}
  OBVIOUS
<1>10. b = [c EXCEPT !.runs = r]
  BY <1>0, <1>1, <1>6, <1>8 DEF runner_put_run
<1>11. /\ Fields(b) /\ b.x = c.x /\ b.w = c.w /\ b.runs = r
       /\ b.finishing = c.finishing /\ b.wrap = c.wrap /\ b.mail = c.mail
  BY <1>7, <1>10 DEF Minds, Fields
<1>12. \A t \in Tasks \ {u} : t \in r <=> t \in c.runs
  BY <1>8
<1>13. Minds(b, u)
  BY <1>7, <1>11, <1>12 DEF Minds, Fields
<1>14. outcome \notin Final => u \in b.runs
  BY <1>8, <1>11
<1>. QED
  BY <1>3, <1>4, <1>7, <1>11, <1>13, <1>14 DEF Others

LEMMA MindsRedispatch ==
  ASSUME NEW u, NEW a, Minds(a, u)
  PROVE  LET b == Redispatch(a) IN Minds(b, u) /\ Others(a, b) /\ b.x = a.x /\ b.w = a.w
<1>1. PICK b : b = Redispatch(a)
  OBVIOUS
<1>2. Fields(b) /\ Others(a, b) /\ b.x = a.x /\ b.w = a.w
  BY <1>1 DEF Redispatch, Minds, Fields, Others
<1>. QED
  BY <1>1, <1>2, MindsNotes

(* A wrap-up with nothing to deliver, or none. *)
Silent(w) == WrapOK(w) /\ w.at \in {"none", "flush"} /\ ~w.deliver

LEMMA MindsDiscard ==
  ASSUME NEW u \in Tasks, NEW a, Minds(a, u)
  PROVE  LET b == runner_discard_queued(a, u) IN
         /\ Minds(b, u) /\ b.wrap = a.wrap /\ b.finishing = a.finishing
         /\ b.x.entry[u] = "left"
<1>1. PICK c : c = runner_put_entry(a, u, "left")
  OBVIOUS
<1>2. Minds(c, u) /\ Others(a, c) /\ c.x.entry[u] = "left"
  BY <1>1, MindsEntry
<1>3. PICK b : b = runner_discard_queued(a, u)
  OBVIOUS
<1>4. b = [c EXCEPT !.mail.delete = @ \cup {u}]
  BY <1>1, <1>3 DEF runner_discard_queued
<1>5. /\ Fields(b) /\ b.x = c.x /\ b.w = c.w /\ b.runs = c.runs
      /\ b.finishing = c.finishing /\ b.wrap = c.wrap /\ b.mail.delete = c.mail.delete \cup {u}
  BY <1>2, <1>4 DEF Minds, Fields
<1>6. Minds(b, u)
  BY <1>2, <1>5 DEF Minds, Fields
<1>. QED
  BY <1>2, <1>3, <1>5, <1>6 DEF Others

(* The end of a pipeline delivers only what was a success. *)
LEMMA MindsFinished ==
  ASSUME Good, NEW u \in Tasks, NEW a, Minds(a, u), NEW outcome
  PROVE  LET b == runner_pipeline_finished(a, u, outcome) IN
         /\ Minds(b, u) /\ b.mail.delete = a.mail.delete
         /\ a.x.entry[u] # "running" => b = a
         /\ outcome # "success" => b.wrap[u] = a.wrap[u] \/ Silent(b.wrap[u])
<1>1. CASE a.x.entry[u] # "running"
  BY <1>1 DEF runner_pipeline_finished
<1>2. CASE a.x.entry[u] = "running"
  <2>0. u \in a.x.tasks
    BY <1>2 DEF Minds, Near, Rows, Has
  <2>1. PICK delivers : delivers = (DeliversAfter(outcome) /\ Delivers(u) /\ Isolated(a.x, u))
    OBVIOUS
  <2>2. PICK b : b = runner_put_entry(a, u, IF delivers THEN "delivering" ELSE "left")
    OBVIOUS
  <2>30. PICK o : o = IF delivers THEN "delivering" ELSE AttemptEnds(u, outcome)
    OBVIOUS
  <2>3. PICK c : c = runner_put_run(b, u, o, TRUE)
    OBVIOUS
  <2>4. PICK w : w = [NoWrap EXCEPT !.at = "flush", !.deliver = delivers, !.wait = Behind(c)]
    OBVIOUS
  <2>5. PICK d : d = [c EXCEPT !.finishing = @ \cup {u}, !.wrap[u] = w]
    OBVIOUS
  <2>6. Minds(b, u) /\ Others(a, b)
    BY <2>0, <2>2, MindsEntry
  <2>7. Minds(c, u) /\ c.finishing = b.finishing /\ c.wrap = b.wrap /\ c.mail = b.mail
    <3>1. PutsOutcome(b, u, o, c)
      BY <2>3 DEF PutsOutcome
    <3>. QED
      BY <2>6, <3>1, MindsRun
  <2>8. /\ Fields(d) /\ d.x = c.x /\ d.w = c.w /\ d.runs = c.runs /\ d.mail = c.mail
        /\ d.finishing = c.finishing \cup {u} /\ d.wrap = [c.wrap EXCEPT ![u] = w]
    BY <2>5, <2>7 DEF Minds, Fields
  <2>9. DOMAIN d.wrap = Tasks /\ d.wrap[u] = w /\ \A t \in Tasks \ {u} : d.wrap[t] = c.wrap[t]
    BY <2>7, <2>8 DEF Minds
  <2>10. Minds(d, u)
    BY <2>7, <2>8, <2>9 DEF Minds, Fields
  <2>11. PICK e : e = Redispatch(IF u \in a.runs THEN d ELSE b)
    OBVIOUS
  <2>12. runner_pipeline_finished(a, u, outcome) = e
    BY <1>2, <2>1, <2>2, <2>30, <2>3, <2>4, <2>5, <2>11 DEF runner_pipeline_finished
  <2>13. Minds(e, u) /\ (Others(d, e) \/ Others(b, e))
    BY <2>6, <2>10, <2>11, MindsRedispatch
  <2>14. e.mail.delete = a.mail.delete
    BY <2>6, <2>7, <2>8, <2>13 DEF Others
  <2>15. outcome # "success" => Silent(w)
    <3>1. SUFFICES ASSUME outcome # "success" PROVE Silent(w)
      OBVIOUS
    <3>2. delivers = FALSE
      BY <2>1, <3>1 DEF DeliversAfter
    <3>3. Behind(c) \in Nat
      <4>1. Len(log) \in Nat /\ Len(log) >= 1 /\ Len(c.w) \in Nat
        BY <2>7, LenProperties DEF Good, Stands, Minds, IsSeq
      <4>. QED
        BY <4>1 DEF Behind
    <3>4. /\ {"at", "deliver", "result", "wait"} \subseteq DOMAIN w /\ w.at = "flush"
          /\ w.result = "none" /\ w.wait = Behind(c) /\ ~w.deliver
      BY <2>4, <3>2 DEF NoWrap
    <3>. QED
      BY <3>3, <3>4 DEF Silent, WrapOK, AtWork
  <2>16. outcome # "success" => e.wrap[u] = a.wrap[u] \/ Silent(e.wrap[u])
    BY <2>6, <2>9, <2>13, <2>15 DEF Others
  <2>. QED
    BY <1>2, <2>12, <2>13, <2>14, <2>16
<1>. QED
  BY <1>1, <1>2

LEMMA MindsDeleted ==
  ASSUME NEW u \in Tasks, NEW a, Minds(a, u)
  PROVE  LET b == runner_task_deleted(a, u) IN
         /\ Minds(b, u) /\ b.wrap = a.wrap /\ b.finishing = a.finishing
         /\ b.mail.delete = a.mail.delete
         /\ b.x.tasks = a.x.tasks /\ ~Has(b.x, u)
         /\ b.x.entry[u] \in {a.x.entry[u], "left"}
<1>1. PICK b : b = IF u \in a.runs /\ a.x.outcome[u] \notin Final
                   THEN runner_put_run(a, u, "deleted", u \in a.finishing) ELSE a
  OBVIOUS
<1>2. /\ Minds(b, u) /\ b.wrap = a.wrap /\ b.finishing = a.finishing /\ b.mail = a.mail
      /\ b.x.tasks = a.x.tasks /\ b.x.entry = a.x.entry
  <2>1. b = a \/ PutsOutcome(a, u, "deleted", b)
    BY <1>1 DEF PutsOutcome
  <2>. QED
    BY <2>1, MindsRun
<1>3. PICK c, d : c = runner_put_entry(a, u, "left") /\ d = runner_end_entry(b, u)
  OBVIOUS
<1>4. /\ Minds(c, u) /\ c.wrap = a.wrap /\ c.finishing = a.finishing /\ c.x.tasks = a.x.tasks
      /\ c.mail.delete = a.mail.delete /\ ~Has(c.x, u) /\ c.x.entry[u] = "left"
  BY <1>3, MindsEntry DEF Has, Others
<1>5. /\ Minds(d, u) /\ d.wrap = a.wrap /\ d.finishing = a.finishing /\ d.x.tasks = a.x.tasks
      /\ d.mail.delete = a.mail.delete /\ ~Has(d.x, u) /\ d.x.entry[u] \in {a.x.entry[u], "left"}
  BY <1>2, <1>3, MindsEnd DEF Others
<1>6. \/ runner_task_deleted(a, u) = a /\ ~Has(a.x, u)
      \/ runner_task_deleted(a, u) = Redispatch(c)
      \/ runner_task_deleted(a, u) = Redispatch(d)
  BY <1>1, <1>3 DEF runner_task_deleted
<1>. QED
  BY <1>4, <1>5, <1>6, MindsRedispatch DEF Others

LEMMA PipeNear ==
  ASSUME NEW x, Frame(x), Rows(x), NEW u, NEW pipe, NEW y, y = [x EXCEPT !.pipe[u] = pipe]
  PROVE  /\ Frame(y) /\ Rows(y) /\ y.lease = x.lease /\ y.entry = x.entry
         /\ \A t \in Tasks : Akin(x, y, t) /\ SameRow(x, y, t)
<1>1. /\ Frame(y) /\ y.lease = x.lease /\ y.entry = x.entry /\ y.outcome = x.outcome
      /\ y.tasks = x.tasks
  BY DEF Frame
<1>. QED
  BY <1>1 DEF Rows, Has, Akin, SameRow

LEMMA MindsPipe ==
  ASSUME NEW v, NEW a, Minds(a, v), NEW u, NEW pipe
  PROVE  LET b == Save(a, [a.x EXCEPT !.pipe[u] = pipe]) IN
         /\ Minds(b, v) /\ Others(a, b) /\ b.x.entry = a.x.entry
         /\ \A t \in Tasks : SameRow(a.x, b.x, t)
<1>1. PICK y : y = [a.x EXCEPT !.pipe[u] = pipe]
  OBVIOUS
<1>2. Frame(a.x) /\ Rows(a.x)
  BY DEF Minds, Near
<1>3. /\ Frame(y) /\ Rows(y) /\ y.lease = a.x.lease /\ y.entry = a.x.entry
      /\ \A t \in Tasks : Akin(a.x, y, t) /\ SameRow(a.x, y, t)
  BY <1>1, <1>2, PipeNear
<1>4. PICK b : b = Save(a, y)
  OBVIOUS
<1>5. Minds(b, v) /\ b.x = y /\ Others(a, b)
  BY <1>3, <1>4, MindsSave
<1>. QED
  BY <1>1, <1>3, <1>4, <1>5

LEMMA MindsStart ==
  ASSUME NEW u \in Tasks, NEW a, Minds(a, u), a.x.entry[u] = "queued", NEW created
  PROVE  LET b == runner_start(a, u, created) IN
         Minds(b, u) /\ b.finishing = a.finishing /\ b.wrap = a.wrap
         /\ b.mail.delete = a.mail.delete
<1>0. Frame(a.x) /\ Rows(a.x) /\ u \in a.x.tasks
  BY DEF Minds, Near, Rows, Has
<1>1. CASE created = "refused"
  <2>1. PICK b : b = runner_put_entry(a, u, "left")
    OBVIOUS
  <2>2. Minds(b, u) /\ Others(a, b)
    BY <2>1, MindsEntry
  <2>3. PICK c : c = runner_put_run(b, u, "failed", FALSE)
    OBVIOUS
  <2>4. Minds(c, u) /\ c.finishing = b.finishing /\ c.wrap = b.wrap /\ c.mail = b.mail
    <3>1. PutsOutcome(b, u, "failed", c)
      BY <2>3 DEF PutsOutcome
    <3>. QED
      BY <2>2, <3>1, MindsRun
  <2>5. runner_start(a, u, created) = c
    BY <1>1, <2>1, <2>3 DEF runner_start
  <2>. QED
    BY <2>2, <2>4, <2>5 DEF Others
<1>2. CASE created # "refused"
  <2>1. PICK begun : begun = [a.x EXCEPT !.pipe[u] = created]
    OBVIOUS
  <2>2. PICK b : b = IF created = "checkout" THEN [a EXCEPT !.x = begun] ELSE Save(a, begun)
    OBVIOUS
  <2>3. /\ Frame(begun) /\ Rows(begun) /\ \A t \in Tasks : Akin(a.x, begun, t) /\ SameRow(a.x, begun, t)
    BY <1>0, <2>1, PipeNear
  <2>4. Minds(b, u) /\ Others(a, b) /\ b.x = begun
    <3>1. CASE created = "checkout"
      <4>1. Fields(b) /\ Others(a, b) /\ b.x = begun /\ b.w = a.w
        BY <2>2, <3>1 DEF Minds, Fields, Others
      <4>2. Near(begun, u)
        BY <2>3, NearStep DEF Minds
      <4>. QED
        BY <4>1, <4>2 DEF Minds, Fields, Others
    <3>2. CASE created # "checkout"
      BY <2>2, <2>3, <3>2, MindsSave
    <3>. QED
      BY <3>1, <3>2
  <2>5. PICK c : c = runner_put_entry(b, u, "running")
    OBVIOUS
  <2>6. u \in b.x.tasks
    BY <1>0, <2>3, <2>4 DEF SameRow
  <2>7. Minds(c, u) /\ Others(b, c)
    BY <2>4, <2>5, <2>6, MindsEntry
  <2>8. PICK d : d = runner_put_run(c, u, "running", FALSE)
    OBVIOUS
  <2>9. Minds(d, u) /\ d.finishing = c.finishing /\ d.wrap = c.wrap /\ d.mail = c.mail
    <3>1. PutsOutcome(c, u, "running", d)
      BY <2>8 DEF PutsOutcome
    <3>. QED
      BY <2>7, <3>1, MindsRun
  <2>10. runner_start(a, u, created) = d
    BY <1>2, <2>1, <2>2, <2>5, <2>8 DEF runner_start
  <2>. QED
    BY <2>4, <2>7, <2>9, <2>10 DEF Others
<1>. QED
  BY <1>1, <1>2

LEMMA MindsTryStart ==
  ASSUME NEW u \in Tasks, NEW a, Minds(a, u), a.x.entry[u] = "queued", NEW created,
         Leased(u) => a.x.lease.task = NoTask
  PROVE  LET b == runner_try_start(a, u, created) IN
         Minds(b, u) /\ b.finishing = a.finishing /\ b.wrap = a.wrap
         /\ b.mail.delete = a.mail.delete
<1>1. CASE Leased(u)
  <2>1. PICK y : y = [a.x EXCEPT !.lease = [task |-> u, state |-> "preparing", back |-> "none"]]
    OBVIOUS
  <2>2. Frame(a.x) /\ Rows(a.x)
    BY DEF Minds, Near
  <2>3. Frame(y) /\ y.entry = a.x.entry /\ y.outcome = a.x.outcome /\ y.tasks = a.x.tasks
    BY <2>1, <2>2 DEF Frame
  <2>4. Rows(y) /\ \A t \in Tasks \ {u} : Akin(a.x, y, t)
    BY <1>1, <2>2, <2>3, FactoryAssumption DEF Rows, Has, Akin, FactoryAssumption
  <2>5. PICK c : c = Save(a, y)
    OBVIOUS
  <2>6. Minds(c, u) /\ Others(a, c)
    BY <2>3, <2>4, <2>5, MindsSave
  <2>7. PICK b : b = runner_checkout_begin(a, u)
    OBVIOUS
  <2>8. Fields(b) /\ Others(c, b) /\ b.x = c.x /\ b.w = c.w
    BY <2>1, <2>5, <2>6, <2>7 DEF runner_checkout_begin, Minds, Fields, Others
  <2>9. Minds(b, u)
    BY <2>6, <2>8, MindsNotes
  <2>. QED
    BY <1>1, <2>6, <2>7, <2>8, <2>9 DEF runner_try_start, Others
<1>2. CASE ~Leased(u)
  BY <1>2, MindsStart DEF runner_try_start
<1>. QED
  BY <1>1, <1>2

LEMMA MindsRefused ==
  ASSUME NEW v, NEW a, Minds(a, v), NEW t,
         a.x.lease.task \in Tasks => a.x.entry[a.x.lease.task] # "delivering"
  PROVE  LET b == runner_checkout_refused(a, t) IN Minds(b, v) /\ Others(a, b)
<1>1. PICK c : c = runner_drop_lease(a)
  OBVIOUS
<1>2. Minds(c, v) /\ Others(a, c)
  BY <1>1, MindsDrop
<1>3. PICK b : b = runner_checkout_refused(a, t)
  OBVIOUS
<1>4. Fields(b) /\ Others(c, b) /\ b.x = c.x /\ b.w = c.w
  BY <1>1, <1>2, <1>3 DEF runner_checkout_refused, Minds, Fields, Others
<1>. QED
  BY <1>2, <1>3, <1>4, MindsNotes DEF Others

(* A delivery that is to be run again starts from its run. *)
LEMMA MindsSweep ==
  ASSUME Good, NEW u \in Tasks, NEW a, Minds(a, u)
  PROVE  LET b == runner_sweep(a, u) IN Minds(b, u) /\ b.mail.delete = a.mail.delete
<1>1. PICK b : b = [a EXCEPT !.x.entry[u] = "running"]
  OBVIOUS
<1>2. a.x.entry[u] = "delivering" => Minds(b, u) /\ b.mail.delete = a.mail.delete
  <2>1. SUFFICES ASSUME a.x.entry[u] = "delivering"
                 PROVE  Minds(b, u) /\ b.mail.delete = a.mail.delete
    OBVIOUS
  <2>2. PICK y : y = [a.x EXCEPT !.entry[u] = "running"]
    OBVIOUS
  <2>3. Fields(b) /\ Others(a, b) /\ b.x = y /\ b.w = a.w
    BY <1>1, <2>2 DEF Minds, Fields, Others
  <2>4. Frame(a.x) /\ Rows(a.x)
    BY DEF Minds, Near
  <2>5. /\ Frame(y) /\ y.entry = [a.x.entry EXCEPT ![u] = "running"] /\ y.lease = a.x.lease
        /\ y.outcome = a.x.outcome /\ y.tasks = a.x.tasks
    BY <2>2, <2>4 DEF Frame
  <2>6. \A t \in Tasks : t # u => y.entry[t] = a.x.entry[t]
    BY <2>4, <2>5 DEF Frame
  <2>7. Rows(y) /\ (\A t \in Tasks \ {u} : Akin(a.x, y, t))
    BY <2>1, <2>4, <2>5, <2>6 DEF Rows, Has, Akin
  <2>8. Near(y, u)
    BY <2>5, <2>7, NearStep DEF Minds
  <2>. QED
    BY <2>3, <2>8 DEF Minds, Fields, Others
<1>3. PICK c, d, e : /\ c = runner_task_deleted(a, u)
                     /\ d = runner_pipeline_finished(a, u, a.x.pipe[u])
                     /\ e = runner_pipeline_finished(b, u, "success")
  OBVIOUS
<1>4. Minds(c, u) /\ c.mail.delete = a.mail.delete /\ Minds(d, u) /\ d.mail.delete = a.mail.delete
  BY <1>3, MindsDeleted, MindsFinished
<1>5. a.x.entry[u] = "delivering" => Minds(e, u) /\ e.mail.delete = a.mail.delete
  BY <1>2, <1>3, MindsFinished
<1>. QED
  BY <1>1, <1>3, <1>4, <1>5 DEF runner_sweep

-----------------------------------------------------------------------------
(* After a handler *)

Calm(a, u) ==
  /\ a.wrap[u] = wrap[u] \/ Silent(a.wrap[u])
  /\ u \in a.mail.delete => u \in mail.delete \/ a.x.entry[u] = "left"
(* What no handler does. *)
Outside ==
  /\ UNCHANGED <<pulls, commits>> /\ {"lost", "strayed"} \subseteq DOMAIN hist'
  /\ hist.lost \subseteq hist'.lost /\ hist.strayed \subseteq hist'.strayed

LEMMA AkinTracked ==
  ASSUME NEW t, NEW k, NEW x, Tracked(x, t, k), NEW y, Akin(x, y, t)
  PROVE  Tracked(y, t, k)
  BY DEF Tracked, Lent, Akin

LEMMA Written ==
  ASSUME Good, Watching, NEW u, NEW a, Minds(a, u), Becomes(a)
  PROVE  /\ m' = a.x /\ runs' = a.runs /\ finishing' = a.finishing /\ wrap' = a.wrap /\ mail' = a.mail
         /\ Near(m', u) /\ Len(log) \in Nat /\ Len(a.w) \in Nat /\ Len(log') = Len(log) + Len(a.w)
         /\ \A i \in 1..Len(log') :
              /\ Rows(log'[i])
              /\ \/ i \in 1..Len(log) /\ log'[i] = log[i]
                 \/ /\ i > Len(log) /\ i - Len(log) \in 1..Len(a.w)
                    /\ log'[i] = a.w[i - Len(log)] /\ Near(log'[i], u)
<1>1. /\ m' = a.x /\ runs' = a.runs /\ finishing' = a.finishing /\ wrap' = a.wrap /\ mail' = a.mail
      /\ log' = log \o a.w
  BY DEF Becomes, Holds
<1>2. PICK l, w : l = log' /\ w = a.w
  OBVIOUS
<1>3. IsSeq(w) /\ Near(a.x, u) /\ \A i \in 1..Len(w) : Near(w[i], u)
  BY <1>2 DEF Minds
<1>4. /\ Len(log) \in Nat /\ Len(w) \in Nat /\ Len(l) = Len(log) + Len(w)
      /\ \A i \in 1..Len(l) : \/ i \in 1..Len(log) /\ l[i] = log[i]
                              \/ /\ i > Len(log) /\ i - Len(log) \in 1..Len(w)
                                 /\ l[i] = w[i - Len(log)]
  BY <1>1, <1>2, <1>3, Joined
<1>5. \A i \in 1..Len(log) : Rows(log[i])
  BY DEF Watching
<1>6. \A i \in 1..Len(l) :
        /\ Rows(l[i])
        /\ \/ i \in 1..Len(log) /\ l[i] = log[i]
           \/ i > Len(log) /\ i - Len(log) \in 1..Len(w) /\ l[i] = w[i - Len(log)] /\ Near(l[i], u)
  BY <1>3, <1>4, <1>5 DEF Near
<1>. QED
  BY <1>1, <1>2, <1>3, <1>4, <1>6

LEMMA OthersWatch ==
  ASSUME Good, Watching, NEW u, NEW a, Minds(a, u), Becomes(a), Outside,
         NEW t \in Tasks \ {u}, kind'[t] = kind[t]
  PROVE  Watch(t)'
<1>1. /\ m' = a.x /\ runs' = a.runs /\ finishing' = a.finishing /\ wrap' = a.wrap /\ mail' = a.mail
      /\ Near(m', u) /\ Len(log) \in Nat
      /\ \A i \in 1..Len(log') :
           \/ i \in 1..Len(log) /\ log'[i] = log[i]
           \/ i > Len(log) /\ Near(log'[i], u)
  BY Written
<1>2. PICK k, w, x, l : k = kind[t] /\ w = wrap[t] /\ x = m' /\ l = log'
  OBVIOUS
<1>3. /\ kind'[t] = k /\ wrap'[t] = w /\ (t \in runs' <=> t \in runs)
      /\ (t \in finishing' <=> t \in finishing) /\ (t \in mail'.delete <=> t \in mail.delete)
  BY <1>1, <1>2 DEF Minds
<1>4. /\ Akin(m, x, t)
      /\ \A i \in 1..Len(l) : \/ i \in 1..Len(log) /\ l[i] = log[i]
                              \/ i > Len(log) /\ Akin(m, l[i], t)
  BY <1>1, <1>2 DEF Near
<1>5. OpenPull(t)' => OpenPull(t)
  BY DEF OpenPull, Outside
<1>6. Watch(t)
  BY DEF Watching
<1>7. WrapOK(w)
  BY <1>2, <1>6 DEF Watch
<1>8. OpenPull(t)' \/ AtWork(w) \/ AsksFlush(w) =>
        k.deliver /\ Tracked(m, t, k) /\ Tracked(x, t, k) /\ Mirrored(m, runs, t)
  BY <1>2, <1>4, <1>5, <1>6, AkinTracked DEF Watch
<1>9. Mirrored(m, runs, t) => Mirrored(x, runs', t)
  BY <1>3, <1>4 DEF Mirrored, Has, Akin
<1>10. OpenPull(t)' \/ AtWork(w) => \A i \in 1..Len(l) : Tracked(l[i], t, k)
  BY <1>2, <1>4, <1>5, <1>6, <1>8, AkinTracked DEF Watch
<1>11. AsksFlush(w) => \A i \in 1..Len(l) : i > w.wait => Tracked(l[i], t, k)
  BY <1>2, <1>4, <1>6, <1>8, AkinTracked DEF Watch
<1>12. InFlight(w) =>
         /\ t \in finishing' /\ x.entry[t] \in {"delivering", "left"}
         /\ \/ k.folder => x.entry[t] = "delivering" /\ x.lease.task = t
            \/ t \notin x.tasks
  BY <1>2, <1>3, <1>4, <1>6 DEF Watch, Akin
<1>13. OpenPull(t)' => t \in commits' /\ (FoundNothing(w) => t \notin x.tasks)
  BY <1>2, <1>4, <1>5, <1>6 DEF Watch, Outside, Akin
<1>14. t \in mail'.delete => x.entry[t] = "left"
  BY <1>3, <1>4, <1>6 DEF Watch, Akin
<1>. QED
  BY <1>2, <1>3, <1>7, <1>8, <1>9, <1>10, <1>11, <1>12, <1>13, <1>14 DEF Watch

(* A task that has not come to a delivery, or is past one. *)
LEMMA CalmWatch ==
  ASSUME Good, Watching, NEW u \in Tasks, NEW a, Minds(a, u), Becomes(a), Outside, Calm(a, u),
         m.entry[u] \notin {"delivering", "delivered", "left"}
  PROVE  Watch(u)'
<1>1. m' = a.x /\ wrap' = a.wrap /\ mail' = a.mail
  BY Written
<1>2. Watch(u)
  BY DEF Watching
<1>3. PICK w : w = wrap'[u]
  OBVIOUS
<1>4. ~OpenPull(u) /\ ~InFlight(wrap[u]) /\ WrapOK(wrap[u]) /\ u \notin mail.delete
  BY <1>2 DEF Watch, Tracked
<1>5. ~OpenPull(u)'
  BY <1>4 DEF OpenPull, Outside
<1>6. WrapOK(w) /\ ~InFlight(w)
  BY <1>1, <1>3, <1>4 DEF Calm, Silent, InFlight
<1>7. ~AtWork(w) /\ ~AsksFlush(w)
  BY <1>6 DEF WrapOK, InFlight, AtWork, AsksFlush
<1>8. u \in mail'.delete => m'.entry[u] = "left"
  BY <1>1, <1>4 DEF Calm
<1>. QED
  BY <1>3, <1>5, <1>6, <1>7, <1>8 DEF Watch

LEMMA Handled ==
  ASSUME Good, Watching, NEW u, NEW a, Minds(a, u), Becomes(a), Outside,
         \A t \in Tasks \ {u} : kind'[t] = kind[t], u \in Tasks => Watch(u)'
  PROVE  Watching'
<1>1. /\ wrap' = a.wrap /\ mail' = a.mail /\ Near(m', u) /\ \A i \in 1..Len(log') : Rows(log'[i])
  BY Written
<1>2. DOMAIN wrap' = Tasks /\ "delete" \in DOMAIN mail' /\ Rows(m')
  BY <1>1 DEF Minds, Near
<1>3. DOMAIN pulls' = Tasks \cup UserBranches /\ {"lost", "strayed"} \subseteq DOMAIN hist'
  BY DEF Watching, Outside
<1>4. ASSUME NEW t \in Tasks
      PROVE  Watch(t)'
  BY <1>4, OthersWatch
<1>. QED
  BY <1>1, <1>2, <1>3, <1>4 DEF Watching, Rows, Has

LEMMA HereMinds ==
  ASSUME Good, Watching, NEW u
  PROVE  Minds(Here, u) /\ Here.x = m /\ Here.w = <<>> /\ Here.runs = runs
         /\ Here.finishing = finishing /\ Here.wrap = wrap /\ Here.mail = mail
<1>1. /\ {"x", "w", "runs", "finishing", "mail", "wrap"} \subseteq DOMAIN Here
      /\ Here.x = m /\ Here.w = <<>> /\ Here.runs = runs
      /\ Here.finishing = finishing /\ Here.wrap = wrap /\ Here.mail = mail
  BY DEF Here
<1>2. IsSeq(<<>>) /\ Len(<<>>) = 0
  BY DEF IsSeq
<1>3. Near(m, u)
  BY DEF Good, Stands, Image, Watching, Near, Akin
<1>. QED
  BY <1>1, <1>2, <1>3 DEF Minds, Watching

(* A handler with nothing of its own to a task. *)
LEMMA NobodyWatch ==
  ASSUME Good, Watching, NEW a, Minds(a, NoTask), Becomes(a), Outside, kind' = kind
  PROVE  Watching'
  BY Handled, FactoryAssumption DEF FactoryAssumption

LEMMA PeersWatch ==
  ASSUME Good, Watching, NEW u \in Tasks, NEW a, Minds(a, u), Becomes(a), Outside, Calm(a, u),
         m.entry[u] \notin {"delivering", "delivered", "left"}, kind' = kind
  PROVE  Watching'
  BY CalmWatch, Handled

LEMMA StartWatch ==
  ASSUME Good, Watching, NEW u \in Tasks,
         \/ DispatchStarts(u) \/ DispatchDiscards(u) \/ runner_start_now(u) \/ runner_dequeue(u)
  PROVE  Watching'
<1>0. /\ Minds(Here, u) /\ Minds(Here, NoTask) /\ Here.x = m
      /\ Here.wrap = wrap /\ Here.mail = mail
  BY HereMinds
<1>1. ASSUME NEW a, Minds(a, u), a.x = m, a.wrap = wrap, a.mail = mail, MayStart(a, u),
             NEW created, Becomes(runner_try_start(a, u, created)), Outside, kind' = kind
      PROVE  Watching'
  <2>1. m.entry[u] = "queued"
    BY <1>1 DEF MayStart
  <2>2. Leased(u) => m.lease.task = NoTask
    BY <1>1 DEF Leased, MayStart, runner_checkout_refusal, Good, Stands, Image, LeaseOK
  <2>3. PICK b : b = runner_try_start(a, u, created)
    OBVIOUS
  <2>4. Minds(b, u) /\ b.wrap = a.wrap /\ b.mail.delete = a.mail.delete
    BY <1>1, <2>1, <2>2, <2>3, MindsTryStart
  <2>5. Calm(b, u)
    BY <1>1, <2>4 DEF Calm
  <2>. QED
    BY <1>1, <2>1, <2>3, <2>4, <2>5, PeersWatch
<1>2. ASSUME m.entry[u] = "queued", Becomes(runner_discard_queued(Here, u)), Outside, kind' = kind
      PROVE  Watching'
  <2>1. PICK b : b = runner_discard_queued(Here, u)
    OBVIOUS
  <2>2. Minds(b, u) /\ b.wrap = wrap /\ b.x.entry[u] = "left"
    BY <1>0, <2>1, MindsDiscard
  <2>3. Calm(b, u)
    BY <2>2 DEF Calm
  <2>. QED
    BY <1>2, <2>1, <2>2, <2>3, PeersWatch
<1>3. Outside /\ kind' = kind
  BY DEF DispatchStarts, DispatchDiscards, runner_start_now, runner_dequeue, Apart, Quietly,
         folder, Outside, Watching
<1>4. CASE DispatchStarts(u)
  BY <1>0, <1>1, <1>3, <1>4 DEF DispatchStarts
<1>5. CASE DispatchDiscards(u) \/ runner_dequeue(u)
  BY <1>2, <1>3, <1>5 DEF DispatchDiscards, runner_dequeue
<1>6. CASE runner_start_now(u)
  <2>1. PICK a : a = [Here EXCEPT !.block = FALSE]
    OBVIOUS
  <2>2. PICK b : b = IF Leased(u) THEN [a EXCEPT !.forced = @ \cup {u}] ELSE a
    OBVIOUS
  <2>3. \/ MayStart(a, u) /\ \E created : Becomes(runner_try_start(b, u, created))
        \/ Becomes(a)
    BY <1>6, <2>1, <2>2 DEF runner_start_now
  <2>4. Fields(a) /\ Others(Here, a) /\ a.x = m /\ a.w = Here.w /\ a.mail = mail
    BY <1>0, <2>1 DEF Minds, Fields, Others
  <2>5. Fields(b) /\ Others(Here, b) /\ b.x = m /\ b.w = Here.w /\ b.mail = mail
    BY <2>2, <2>4 DEF Fields, Others
  <2>6. Minds(a, NoTask) /\ Minds(b, u)
    BY <1>0, <2>4, <2>5, MindsNotes
  <2>7. MayStart(a, u) => MayStart(b, u)
    <3>1. a.block = b.block
      BY <2>2, <2>4, <2>1
    <3>. QED
      BY <2>4, <2>5, <3>1 DEF MayStart, runner_checkout_refusal
  <2>. QED
    BY <1>0, <1>1, <1>3, <2>3, <2>4, <2>5, <2>6, <2>7, NobodyWatch DEF Others
<1>. QED
  BY <1>4, <1>5, <1>6

(* The end of a pipeline that delivers nothing. *)
LEMMA FinalizeWatch ==
  ASSUME Good, Watching, NEW u \in Tasks, NEW outcome, outcome # "success",
         Becomes(workflow_finalize(Here, u, outcome)), Outside, kind' = kind
  PROVE  Watching'
<1>1. PICK b, e : /\ b = Save(Here, [Here.x EXCEPT !.pipe[u] = outcome])
                  /\ e = runner_pipeline_finished(b, u, outcome)
  OBVIOUS
<1>2. Becomes(e)
  <2>1. Here.x = m
    BY HereMinds
  <2>. QED
    BY <1>1, <2>1 DEF workflow_finalize
<1>3. /\ Minds(b, u) /\ Minds(b, NoTask) /\ b.wrap = wrap /\ b.mail.delete = mail.delete
      /\ b.x.entry = m.entry
  <2>1. /\ Minds(Here, u) /\ Minds(Here, NoTask) /\ Here.x = m
        /\ Here.wrap = wrap /\ Here.mail = mail
    BY HereMinds
  <2>2. Minds(b, u) /\ Others(Here, b) /\ b.x.entry = m.entry
    BY <1>1, <2>1, MindsPipe
  <2>3. Minds(b, NoTask)
    BY <1>1, <2>1, MindsPipe
  <2>. QED
    BY <2>1, <2>2, <2>3 DEF Others
<1>4. /\ Minds(e, u) /\ e.mail.delete = mail.delete
      /\ m.entry[u] # "running" => e = b
      /\ e.wrap[u] = wrap[u] \/ Silent(e.wrap[u])
  BY <1>1, <1>3, MindsFinished
<1>5. CASE m.entry[u] # "running"
  BY <1>2, <1>3, <1>4, <1>5, NobodyWatch
<1>6. CASE m.entry[u] = "running"
  <2>1. Calm(e, u)
    BY <1>4 DEF Calm
  <2>. QED
    BY <1>2, <1>4, <1>6, <2>1, PeersWatch
<1>. QED
  BY <1>5, <1>6

LEMMA StopWatch ==
  ASSUME Good, Watching, NEW u \in Tasks,
         \/ StopsOne(u) \/ CheckoutLands(u)
         \/ \E outcome \in {"limit", "failed"} : PipelineEnds(u, outcome)
  PROVE  Watching'
<1>0. Minds(Here, u) /\ Minds(Here, NoTask) /\ Here.x = m /\ Here.wrap = wrap /\ Here.mail = mail
  BY HereMinds
<1>1. Outside /\ kind' = kind
  BY DEF StopsOne, CheckoutLands, PipelineEnds, Apart, Quietly, folder, Outside, Watching
<1>2. CASE StopsOne(u)
  <2>1. \/ Becomes(Here) \/ Becomes(workflow_finalize(Here, u, "stopped"))
        \/ m.entry[u] = "queued" /\ Becomes(runner_discard_queued(Here, u))
    BY <1>2 DEF StopsOne
  <2>2. PICK b : b = runner_discard_queued(Here, u)
    OBVIOUS
  <2>3. Minds(b, u) /\ b.wrap = wrap /\ b.x.entry[u] = "left"
    BY <1>0, <2>2, MindsDiscard
  <2>4. Calm(b, u)
    BY <2>3 DEF Calm
  <2>. QED
    BY <1>0, <1>1, <2>1, <2>2, <2>3, <2>4, NobodyWatch, FinalizeWatch, PeersWatch
<1>3. CASE CheckoutLands(u)
  <2>1. \/ Becomes(workflow_finalize(Here, u, "failed"))
        \/ Becomes(Save(Here, [Here.x EXCEPT !.pipe[u] = "active"]))
    BY <1>0, <1>3 DEF CheckoutLands
  <2>2. Minds(Save(Here, [Here.x EXCEPT !.pipe[u] = "active"]), NoTask)
    BY <1>0, MindsPipe
  <2>. QED
    BY <1>1, <2>1, <2>2, NobodyWatch, FinalizeWatch
<1>4. CASE \E outcome \in {"limit", "failed"} : PipelineEnds(u, outcome)
  BY <1>1, <1>4, FinalizeWatch DEF PipelineEnds
<1>. QED
  BY <1>2, <1>3, <1>4

LEMMA OwnWatch ==
  ASSUME Good, Watching, OwnCommands \/ runner_stop \/ runner_checkout_retry
  PROVE  Watching'
<1>0. Minds(Here, NoTask) /\ Here.x = m /\ Here.wrap = wrap /\ Here.mail = mail
  BY HereMinds
<1>1. Outside /\ kind' = kind
  BY DEF OwnCommands, HandleDispatch, DispatchEnds, NothingToStop, RowIsGone, Tick,
         runner_checkout_returned, runner_stop, runner_checkout_retry,
         Apart, Quietly, folder, Outside, Watching
<1>2. PICK a, b, c : /\ a = [Here EXCEPT !.mail.dispatch = FALSE] /\ b = [Here EXCEPT !.block = FALSE]
                     /\ c = [Here EXCEPT !.job = NoJob]
  OBVIOUS
<1>3. Minds(a, NoTask)
  <2>1. Fields(a) /\ Others(Here, a) /\ a.x = Here.x /\ a.w = Here.w
    BY <1>0, <1>2 DEF Minds, Fields, Others
  <2>. QED
    BY <1>0, <2>1, MindsNotes
<1>4. Minds(b, NoTask)
  <2>1. Fields(b) /\ Others(Here, b) /\ b.x = Here.x /\ b.w = Here.w
    BY <1>0, <1>2 DEF Minds, Fields, Others
  <2>. QED
    BY <1>0, <2>1, MindsNotes
<1>5. Minds(c, NoTask) /\ c.x = m
  <2>1. Fields(c) /\ Others(Here, c) /\ c.x = Here.x /\ c.w = Here.w
    BY <1>0, <1>2 DEF Minds, Fields, Others
  <2>. QED
    BY <1>0, <2>1, MindsNotes
<1>6. CASE runner_checkout_returned
  <2>1. \/ Becomes(runner_drop_lease(c)) \/ Becomes(runner_put_lease(c, "held"))
    BY <1>2, <1>6 DEF runner_checkout_returned
  <2>2. ~InRun(m.entry[m.lease.task])
    BY <1>6 DEF runner_checkout_returned, Good, Stands, Image, LeaseOK
  <2>3. Minds(runner_drop_lease(c), NoTask) /\ Minds(runner_put_lease(c, "held"), NoTask)
    BY <1>5, <2>2, MindsDrop, MindsLease DEF InRun
  <2>. QED
    BY <1>1, <2>1, <2>3, NobodyWatch
<1>7. CASE ~runner_checkout_returned
  <2>1. Becomes(a) \/ Becomes(b) \/ Becomes(Here) \/ Becomes(runner_give_back(b))
    BY <1>2, <1>7 DEF OwnCommands, HandleDispatch, DispatchEnds, NothingToStop, RowIsGone, Tick,
                      runner_stop, runner_checkout_retry
  <2>2. Minds(runner_give_back(b), NoTask)
    BY <1>4, MindsGiveBack
  <2>. QED
    BY <1>0, <1>1, <1>3, <1>4, <2>1, <2>2, NobodyWatch
<1>. QED
  BY <1>6, <1>7

LEMMA InspectedWatch ==
  ASSUME Good, Watching, NEW t \in Tasks, runner_checkout_inspected(t)
  PROVE  Watching'
<1>0. Minds(Here, NoTask) /\ Here.x = m
  BY HereMinds
<1>1. Outside /\ kind' = kind
  BY DEF runner_checkout_inspected, Apart, Quietly, folder, Outside, Watching
<1>2. ~InRun(m.entry[m.lease.task])
  BY DEF runner_checkout_inspected, Preparing, Good, Stands, Settled
<1>3. PICK b : b = [runner_drop_lease(Here) EXCEPT !.job = NoJob]
  OBVIOUS
<1>4. PICK y : y = [m EXCEPT !.lease.back = job.point]
  OBVIOUS
<1>5. PICK a : a = Save(Here, y)
  OBVIOUS
<1>6. PICK d : d = [a EXCEPT !.job.at = "flush", !.job.wait = Behind(a)]
  OBVIOUS
<1>7. Becomes(runner_checkout_refused(Here, t)) \/ Becomes(b) \/ Becomes(d)
  BY <1>3, <1>4, <1>5, <1>6 DEF runner_checkout_inspected
<1>8. Minds(runner_checkout_refused(Here, t), NoTask)
  BY <1>0, <1>2, MindsRefused DEF InRun
<1>9. Minds(b, NoTask)
  <2>1. PICK c : c = runner_drop_lease(Here)
    OBVIOUS
  <2>2. Minds(c, NoTask)
    BY <1>0, <1>2, <2>1, MindsDrop DEF InRun
  <2>3. Fields(b) /\ Others(c, b) /\ b.x = c.x /\ b.w = c.w
    BY <1>3, <2>1, <2>2 DEF Minds, Fields, Others
  <2>. QED
    BY <2>2, <2>3, MindsNotes
<1>10. Minds(d, NoTask)
  <2>1. Frame(m) /\ Rows(m)
    BY <1>0 DEF Minds, Near
  <2>2. /\ Frame(y) /\ y.entry = m.entry /\ y.outcome = m.outcome /\ y.tasks = m.tasks
        /\ y.lease.task = m.lease.task
    BY <1>4, <2>1 DEF Frame
  <2>3. Rows(y) /\ \A u \in Tasks : Akin(m, y, u)
    BY <2>1, <2>2 DEF Rows, Has, Akin
  <2>4. Minds(a, NoTask)
    BY <1>0, <1>5, <2>2, <2>3, MindsSave
  <2>5. Fields(d) /\ Others(a, d) /\ d.x = a.x /\ d.w = a.w
    BY <1>6, <2>4 DEF Minds, Fields, Others
  <2>. QED
    BY <2>4, <2>5, MindsNotes
<1>. QED
  BY <1>1, <1>7, <1>8, <1>9, <1>10, NobodyWatch

LEMMA SwitchedWatch ==
  ASSUME Good, Watching, NEW t \in Tasks, runner_checkout_switched(t)
  PROVE  Watching'
<1>0. Minds(Here, t) /\ Minds(Here, NoTask) /\ Here.x = m /\ Here.wrap = wrap /\ Here.mail = mail
  BY HereMinds
<1>1. Outside /\ kind' = kind
  BY DEF runner_checkout_switched, Apart, Quietly, folder, Outside, Watching
<1>2. ~InRun(m.entry[m.lease.task])
  BY DEF runner_checkout_switched, Preparing, Good, Stands, Settled
<1>3. PICK a : a = [Here EXCEPT !.forced = @ \ {t}, !.job = NoJob]
  OBVIOUS
<1>4. Minds(a, t) /\ Minds(a, NoTask) /\ a.x = m /\ a.wrap = wrap /\ a.mail = mail
  <2>1. Fields(a) /\ Others(Here, a) /\ a.x = m /\ a.w = Here.w /\ a.mail = mail
    BY <1>0, <1>3 DEF Minds, Fields, Others
  <2>. QED
    BY <1>0, <2>1, MindsNotes DEF Others
<1>5. PICK b : /\ Becomes(b)
               /\ \/ b = runner_checkout_refused(a, t) \/ b = runner_give_back(a)
                  \/ m.entry[t] = "queued" /\ b = runner_give_back(runner_discard_queued(a, t))
                  \/ m.entry[t] = "queued" /\ \E created : LET c == runner_start(a, t, created) IN
                       b = runner_put_lease(c, "running") \/ b = runner_give_back(c)
  BY <1>3 DEF runner_checkout_switched
<1>6. CASE b = runner_checkout_refused(a, t) \/ b = runner_give_back(a)
  <2>1. Minds(b, NoTask)
    BY <1>2, <1>4, <1>6, MindsRefused, MindsGiveBack DEF InRun
  <2>. QED
    BY <1>1, <1>5, <2>1, NobodyWatch
<1>7. CASE m.entry[t] = "queued" /\ b = runner_give_back(runner_discard_queued(a, t))
  <2>1. PICK c : c = runner_discard_queued(a, t)
    OBVIOUS
  <2>2. Minds(c, t) /\ c.wrap = wrap /\ c.x.entry[t] = "left"
    BY <1>4, <2>1, MindsDiscard
  <2>3. Minds(b, t) /\ b.wrap = wrap /\ b.x.entry[t] = "left"
    BY <1>7, <2>1, <2>2, MindsGiveBack DEF Others, SameRow
  <2>4. Calm(b, t)
    BY <2>3 DEF Calm
  <2>. QED
    BY <1>1, <1>5, <1>7, <2>3, <2>4, PeersWatch
<1>8. ASSUME m.entry[t] = "queued", NEW created,
             \/ b = runner_put_lease(runner_start(a, t, created), "running")
             \/ b = runner_give_back(runner_start(a, t, created))
      PROVE  Watching'
  <2>1. PICK c : c = runner_start(a, t, created)
    OBVIOUS
  <2>2. Minds(c, t) /\ c.wrap = wrap /\ c.mail.delete = mail.delete
    BY <1>4, <1>8, <2>1, MindsStart
  <2>3. Minds(b, t) /\ b.wrap = wrap /\ b.mail.delete = mail.delete
    BY <1>8, <2>1, <2>2, MindsGiveBack, MindsLease DEF Others
  <2>4. Calm(b, t)
    BY <2>3 DEF Calm
  <2>. QED
    BY <1>1, <1>5, <1>8, <2>3, <2>4, PeersWatch
<1>. QED
  BY <1>5, <1>6, <1>7, <1>8

LEMMA EnqueueWatch ==
  ASSUME Good, Watching, NEW u \in Tasks, Enqueue(u)
  PROVE  Watching'
<1>0. Minds(Here, u) /\ Here.x = m /\ Here.wrap = wrap /\ Here.mail = mail
  BY HereMinds
<1>1. PICK y : y = [m EXCEPT !.tasks = @ \cup {u}]
  OBVIOUS
<1>2. PICK a : a = Save(Here, y)
  OBVIOUS
<1>3. Frame(m) /\ Rows(m)
  BY <1>0 DEF Minds, Near
<1>4. /\ Frame(y) /\ y.entry = m.entry /\ y.outcome = m.outcome /\ y.lease = m.lease
      /\ y.tasks = m.tasks \cup {u}
  BY <1>1, <1>3 DEF Frame
<1>5. Rows(y) /\ \A t \in Tasks \ {u} : Akin(m, y, t)
  BY <1>3, <1>4 DEF Rows, Has, Akin
<1>6. Minds(a, u) /\ a.x = y /\ Others(Here, a)
  BY <1>0, <1>2, <1>4, <1>5, MindsSave
<1>7. PICK c : c = runner_put_entry(a, u, "queued")
  OBVIOUS
<1>8. Minds(c, u) /\ Others(a, c)
  <2>1. u \in a.x.tasks
    BY <1>4, <1>6
  <2>. QED
    BY <1>6, <1>7, <2>1, MindsEntry
<1>9. PICK b : b = [c EXCEPT !.block = FALSE]
  OBVIOUS
<1>10. Fields(b) /\ Others(c, b) /\ b.x = c.x /\ b.w = c.w
  BY <1>8, <1>9 DEF Minds, Fields, Others
<1>11. Minds(b, u) /\ b.wrap = wrap /\ b.mail.delete = mail.delete
  BY <1>0, <1>6, <1>8, <1>10, MindsNotes DEF Others
<1>12. Becomes(b) /\ m.entry[u] = "none"
  BY <1>1, <1>2, <1>7, <1>9 DEF Enqueue
<1>13. Outside /\ \A t \in Tasks \ {u} : kind'[t] = kind[t]
  BY DEF Enqueue, Quietly, folder, Outside, Watching, Good
<1>14. Calm(b, u)
  BY <1>11 DEF Calm
<1>. QED
  BY <1>11, <1>12, <1>13, <1>14, CalmWatch, Handled

-----------------------------------------------------------------------------
(* The task a handler is at work on *)

(* Whatever is written, a restart from it keeps track of u. *)
Safe(a, u, k) == \A i \in 1..Len(a.w) : Tracked(a.w[i], u, k)

LEMMA WriteSafe ==
  ASSUME NEW a, IsSeq(a.w), NEW u, NEW k, Safe(a, u, k), NEW x, Tracked(x, u, k),
         NEW b, b.w = Append(a.w, x)
  PROVE  Safe(b, u, k)
<1>1. /\ IsSeq(b.w) /\ Len(a.w) \in Nat /\ Len(b.w) = Len(a.w) + 1
      /\ \A i \in 1..Len(a.w) : b.w[i] = a.w[i]
      /\ b.w[Len(a.w) + 1] = x
  BY AppendAny
<1>2. ASSUME NEW i \in 1..Len(b.w)
      PROVE  Tracked(b.w[i], u, k)
  <2>1. i \in 1..Len(a.w) \/ i = Len(a.w) + 1
    BY <1>1
  <2>. QED
    BY <1>1, <2>1 DEF Safe
<1>. QED
  BY <1>1, <1>2 DEF Safe

LEMMA NobodySafe ==
  ASSUME NEW u \in Tasks, NEW k, NEW a, Minds(a, NoTask), Tracked(m, u, k)
  PROVE  Tracked(a.x, u, k) /\ Safe(a, u, k)
<1>1. u \in Tasks \ {NoTask}
  BY FactoryAssumption DEF FactoryAssumption
<1>. QED
  BY <1>1, AkinTracked DEF Minds, Near, Safe

(* An attempt's outcome is a write of its own. *)
LEMMA RunWrites ==
  ASSUME NEW u \in Tasks, NEW a, Minds(a, u), NEW outcome, NEW b, PutsOutcome(a, u, outcome, b)
  PROVE  b.w = Append(a.w, b.x)
<1>1. PICK keep : b = runner_put_run(a, u, outcome, keep)
  BY DEF PutsOutcome
<1>2. PICK y : y = [a.x EXCEPT !.outcome[u] = outcome]
  OBVIOUS
<1>3. PICK c : c = Save(a, y)
  OBVIOUS
<1>4. c.x = y /\ c.w = Append(a.w, y) /\ {"x", "w", "runs"} \subseteq DOMAIN c
  BY <1>3 DEF Save, Minds
<1>5. b.x = c.x /\ b.w = c.w
  BY <1>1, <1>2, <1>3, <1>4 DEF runner_put_run
<1>. QED
  BY <1>4, <1>5

LEMMA RunLast ==
  ASSUME NEW u \in Tasks, NEW a, Minds(a, u), NEW outcome, NEW b, PutsOutcome(a, u, outcome, b)
  PROVE  Len(b.w) >= 1 /\ b.w[Len(b.w)] = b.x
<1>1. b.w = Append(a.w, b.x) /\ IsSeq(a.w)
  BY RunWrites DEF Minds
<1>. QED
  BY <1>1, AppendAny

LEMMA RunSafe ==
  ASSUME NEW u \in Tasks, NEW k, NEW a, Minds(a, u), Safe(a, u, k), NEW outcome,
         NEW b, PutsOutcome(a, u, outcome, b), Tracked(b.x, u, k)
  PROVE  Safe(b, u, k)
  BY RunWrites, WriteSafe DEF Minds

(* An entry that leaves a delivery, or begins one. *)
LEMMA EntrySafe ==
  ASSUME NEW u \in Tasks, NEW k, NEW a, Minds(a, u), Safe(a, u, k),
         NEW e \in {"left", "delivered", "delivering"}, e = "left" \/ u \in a.x.tasks,
         \A y : /\ y.entry[u] = e /\ y.outcome[u] = a.x.outcome[u] /\ y.tasks = a.x.tasks
                /\ e = "delivering" => y.lease.task = a.x.lease.task
                => Tracked(y, u, k)
  PROVE  LET b == runner_put_entry(a, u, e) IN
         /\ Tracked(b.x, u, k) /\ Safe(b, u, k)
         /\ e = "delivering" => b.x.lease.task = a.x.lease.task
<1>1. PICK y : y = [a.x EXCEPT !.entry[u] = e]
  OBVIOUS
<1>2. Frame(a.x)
  BY DEF Minds, Near
<1>3. /\ y.entry[u] = e /\ y.lease = a.x.lease /\ y.outcome = a.x.outcome /\ y.tasks = a.x.tasks
      /\ Frame(y)
  BY <1>1, <1>2 DEF Frame
<1>4. Tracked(y, u, k)
  BY <1>3
<1>5. PICK c : c = Save(a, y)
  OBVIOUS
<1>6. c.x = y /\ c.w = Append(a.w, y) /\ {"x", "w", "job"} \cap DOMAIN a \subseteq DOMAIN c
  BY <1>5 DEF Save, Minds
<1>7. Safe(c, u, k) /\ IsSeq(c.w)
  BY <1>4, <1>6, WriteSafe, AppendAny DEF Minds
<1>8. PICK z : z = [y EXCEPT !.lease.state = "returning"]
  OBVIOUS
<1>9. z.entry = y.entry /\ z.outcome = y.outcome /\ z.tasks = y.tasks /\ z.lease.task = y.lease.task
  BY <1>3, <1>8 DEF Frame
<1>10. Tracked(z, u, k)
  BY <1>3, <1>9
<1>11. PICK d : d = Save(c, z)
  OBVIOUS
<1>12. d.x = z /\ d.w = Append(c.w, z) /\ {"x", "w"} \subseteq DOMAIN d
  BY <1>6, <1>11 DEF Save, Minds
<1>13. Safe(d, u, k)
  BY <1>7, <1>10, <1>12, WriteSafe
<1>14. PICK g : g = runner_give_back(c)
  OBVIOUS
<1>15. g.x = z /\ g.w = d.w
  BY <1>6, <1>8, <1>11, <1>12, <1>14 DEF runner_give_back, runner_put_lease
<1>16. PICK b : b = runner_put_entry(a, u, e)
  OBVIOUS
<1>17. b = c \/ b = g
  BY <1>1, <1>5, <1>14, <1>16 DEF runner_put_entry, runner_checkout_entry_left
<1>. QED
  BY <1>3, <1>4, <1>6, <1>7, <1>9, <1>10, <1>13, <1>15, <1>16, <1>17 DEF Safe

LEMMA DeletedSafe ==
  ASSUME NEW u \in Tasks, NEW k, NEW a, Minds(a, u), Tracked(a.x, u, k), Safe(a, u, k),
         Mirrored(a.x, a.runs, u)
  PROVE  LET b == runner_task_deleted(a, u) IN Tracked(b.x, u, k) /\ Safe(b, u, k)
<1>1. CASE ~Has(a.x, u)
  BY <1>1 DEF runner_task_deleted
<1>2. CASE Has(a.x, u)
  <2>1. PICK b : b = IF u \in a.runs /\ a.x.outcome[u] \notin Final
                     THEN runner_put_run(a, u, "deleted", u \in a.finishing) ELSE a
    OBVIOUS
  <2>2. PICK c : c = runner_put_entry(b, u, "left")
    OBVIOUS
  <2>3. /\ Minds(b, u) /\ Tracked(b.x, u, k) /\ Safe(b, u, k) /\ b.x.entry = a.x.entry
        /\ b.x.outcome[u] = "deleted" \/ u \notin b.x.tasks
    <3>1. CASE u \in a.runs /\ a.x.outcome[u] \notin Final
      <4>1. PutsOutcome(a, u, "deleted", b)
        BY <2>1, <3>1 DEF PutsOutcome
      <4>2. /\ Minds(b, u) /\ b.x.entry = a.x.entry /\ b.x.outcome[u] = "deleted"
            /\ b.x.tasks = a.x.tasks /\ b.x.lease = a.x.lease
        BY <4>1, MindsRun
      <4>3. Tracked(b.x, u, k)
        BY <4>2 DEF Tracked, Lent
      <4>. QED
        BY <4>1, <4>2, <4>3, RunSafe
    <3>2. CASE ~(u \in a.runs /\ a.x.outcome[u] \notin Final)
      <4>1. b = a
        BY <2>1, <3>2
      <4>2. a.x.outcome[u] = "deleted" \/ u \notin a.x.tasks
        BY <1>2, <3>2 DEF Tracked, Mirrored, Final
      <4>. QED
        BY <4>1, <4>2
    <3>. QED
      BY <3>1, <3>2
  <2>4. \A y : /\ y.entry[u] = "left" /\ y.outcome[u] = b.x.outcome[u] /\ y.tasks = b.x.tasks
               /\ "left" = "delivering" => y.lease.task = b.x.lease.task
               => Tracked(y, u, k)
    BY <2>3 DEF Tracked, Lent
  <2>5. Tracked(c.x, u, k) /\ Safe(c, u, k) /\ Minds(c, u)
    BY <2>2, <2>3, <2>4, EntrySafe, MindsEntry
  <2>6. runner_task_deleted(a, u) = Redispatch(c)
    <3>1. a.x.entry[u] # "queued" /\ Has(b.x, u)
      BY <1>2, <2>3 DEF Tracked, Has
    <3>. QED
      BY <1>2, <2>1, <2>2, <3>1 DEF runner_task_deleted, runner_end_entry
  <2>7. Redispatch(c).x = c.x /\ Redispatch(c).w = c.w
    BY <2>5, MindsRedispatch
  <2>. QED
    BY <2>5, <2>6, <2>7 DEF Safe
<1>. QED
  BY <1>1, <1>2

(* All of a watched task's writes are safe, and its wrap-up goes on, is    *)
(* told or has nothing to deliver.                                         *)
LEMMA KeptWatch ==
  ASSUME Good, Watching, NEW u \in Tasks, NEW a, Minds(a, u), Becomes(a), Outside, kind' = kind,
         a.wrap[u] = wrap[u] \/ Silent(a.wrap[u]),
         u \in a.mail.delete => a.x.entry[u] = "left",
         OpenPull(u)' \/ AtWork(wrap[u]) \/ AsksFlush(wrap[u]) =>
           Tracked(a.x, u, kind[u]) /\ Safe(a, u, kind[u]) /\ Mirrored(a.x, a.runs, u),
         InFlight(wrap[u]) /\ a.wrap[u] = wrap[u] =>
           /\ u \in a.finishing /\ a.x.entry[u] \in {"delivering", "left"}
           /\ u \notin a.x.tasks
  PROVE  Watch(u)'
<1>1. /\ m' = a.x /\ runs' = a.runs /\ finishing' = a.finishing /\ wrap' = a.wrap /\ mail' = a.mail
      /\ Len(log) \in Nat
      /\ \A i \in 1..Len(log') :
           \/ i \in 1..Len(log) /\ log'[i] = log[i]
           \/ i > Len(log) /\ i - Len(log) \in 1..Len(a.w) /\ log'[i] = a.w[i - Len(log)]
  BY Written
<1>2. PICK k, w, v, x, l : k = kind[u] /\ w = wrap[u] /\ v = a.wrap[u] /\ x = m' /\ l = log'
  OBVIOUS
<1>3. Watch(u)
  BY DEF Watching
<1>4. OpenPull(u)' => OpenPull(u)
  BY DEF OpenPull, Outside
<1>5. WrapOK(v) /\ (v = w \/ (~AtWork(v) /\ ~AsksFlush(v) /\ ~InFlight(v) /\ v.at # "told"))
  BY <1>2, <1>3 DEF Watch, Silent, AtWork, AsksFlush, InFlight
<1>6. OpenPull(u)' \/ AtWork(v) \/ AsksFlush(v) => k.deliver /\ Tracked(x, u, k) /\ Mirrored(x, runs', u)
  BY <1>1, <1>2, <1>3, <1>4, <1>5 DEF Watch
<1>7. OpenPull(u)' \/ AtWork(v) => \A i \in 1..Len(l) : Tracked(l[i], u, k)
  BY <1>1, <1>2, <1>3, <1>4, <1>5 DEF Watch, Safe
<1>8. AsksFlush(v) => \A i \in 1..Len(l) : i > v.wait => Tracked(l[i], u, k)
  BY <1>1, <1>2, <1>3, <1>4, <1>5 DEF Watch, Safe
<1>9. InFlight(v) =>
        u \in finishing' /\ x.entry[u] \in {"delivering", "left"} /\ u \notin x.tasks
  BY <1>1, <1>2, <1>5
<1>10. OpenPull(u)' => u \in commits' /\ (FoundNothing(v) => u \notin x.tasks)
  <2>1. FoundNothing(v) => v = w /\ InFlight(v)
    BY <1>5 DEF FoundNothing, WrapOK, InFlight
  <2>. QED
    BY <1>3, <1>4, <1>9, <2>1 DEF Watch, Outside
<1>. QED
  BY <1>1, <1>2, <1>5, <1>6, <1>7, <1>8, <1>9, <1>10 DEF Watch

LEMMA DeleteWatch ==
  ASSUME Good, Watching, NEW u \in Tasks, DeleteTask(u)
  PROVE  Watching'
<1>0. /\ Minds(Here, u) /\ Minds(Here, NoTask) /\ Here.x = m /\ Here.runs = runs
      /\ Here.finishing = finishing /\ Here.wrap = wrap /\ Here.mail = mail
  BY HereMinds
<1>1. Outside /\ kind' = kind
  BY DEF DeleteTask, Apart, folder, Outside, Watching
<1>2. PICK z : z = Save(Here, [Here.x EXCEPT !.pipe[u] = "stopped"])
  OBVIOUS
<1>3. PICK a : a = IF Running(m, u) THEN workflow_finalize(Here, u, "stopped") ELSE Here
  OBVIOUS
<1>4. PICK b : b = IF m.pipe[u] = "none" THEN a ELSE Save(a, [a.x EXCEPT !.pipe[u] = "none"])
  OBVIOUS
<1>5. PICK c : c = runner_task_deleted(b, u)
  OBVIOUS
<1>6. PICK y : y = [c.x EXCEPT !.tasks = @ \ {u}]
  OBVIOUS
<1>7. PICK d : d = Save(c, y)
  OBVIOUS
<1>8. PICK e : e = [d EXCEPT !.mail.delete = @ \ {u}]
  OBVIOUS
<1>9. Becomes(e)
  BY <1>3, <1>4, <1>5, <1>6, <1>7, <1>8 DEF DeleteTask
<1>10. /\ Minds(z, u) /\ Minds(z, NoTask) /\ Others(Here, z) /\ z.x.entry = m.entry
  BY <1>0, <1>2, MindsPipe
<1>11. a = Here \/ a = runner_pipeline_finished(z, u, "stopped")
  BY <1>0, <1>2, <1>3 DEF workflow_finalize
<1>12. Minds(a, u) /\ (a.wrap[u] = wrap[u] \/ Silent(a.wrap[u]))
       /\ (m.entry[u] # "running" => a = Here \/ a = z)
  BY <1>0, <1>10, <1>11, MindsFinished DEF Others
<1>13. Minds(b, u) /\ Others(a, b)
  <2>1. PICK f : f = Save(a, [a.x EXCEPT !.pipe[u] = "none"])
    OBVIOUS
  <2>2. Minds(f, u) /\ Others(a, f)
    BY <1>12, <2>1, MindsPipe
  <2>. QED
    BY <1>4, <1>12, <2>1, <2>2 DEF Others
<1>14. /\ Minds(c, u) /\ c.wrap = a.wrap /\ c.finishing = a.finishing
       /\ ~Has(c.x, u) /\ c.x.entry[u] \in {b.x.entry[u], "left"}
  BY <1>5, <1>13, MindsDeleted DEF Others
<1>15. /\ Frame(y) /\ y.entry = c.x.entry /\ y.outcome = c.x.outcome /\ y.lease = c.x.lease
       /\ y.tasks = c.x.tasks \ {u}
  BY <1>6, <1>14 DEF Minds, Near, Frame
<1>16. Rows(y) /\ \A t \in Tasks \ {u} : Akin(c.x, y, t)
  BY <1>14, <1>15 DEF Minds, Near, Rows, Has, Akin
<1>17. Minds(d, u) /\ d.x = y /\ Others(c, d)
  BY <1>7, <1>14, <1>15, <1>16, MindsSave
<1>18. /\ Fields(e) /\ e.x = d.x /\ e.w = d.w /\ e.runs = d.runs /\ e.finishing = d.finishing
       /\ e.wrap = d.wrap /\ e.mail.delete = d.mail.delete \ {u}
  BY <1>8, <1>17 DEF Minds, Fields
<1>19. Minds(e, u)
  BY <1>17, <1>18 DEF Minds, Fields
<1>20. e.x = y /\ e.wrap = a.wrap /\ e.finishing = a.finishing /\ u \notin e.mail.delete
  BY <1>14, <1>17, <1>18 DEF Others
<1>21. CASE m.entry[u] = "running"
  <2>1. Calm(e, u)
    BY <1>12, <1>20 DEF Calm
  <2>. QED
    BY <1>1, <1>9, <1>19, <1>21, <2>1, PeersWatch
<1>22. CASE m.entry[u] # "running"
  <2>1. Minds(a, NoTask) /\ Others(Here, a)
    BY <1>0, <1>10, <1>12, <1>22 DEF Others
  <2>2. Minds(b, NoTask) /\ Others(Here, b)
    <3>1. PICK f : f = Save(a, [a.x EXCEPT !.pipe[u] = "none"])
      OBVIOUS
    <3>2. Minds(f, NoTask) /\ Others(a, f)
      BY <2>1, <3>1, MindsPipe
    <3>. QED
      BY <1>4, <2>1, <3>1, <3>2 DEF Others
  <2>3. Akin(m, b.x, u)
    BY <2>2, FactoryAssumption DEF FactoryAssumption, Minds, Near
  <2>4. Watch(u)
    BY DEF Watching
  <2>5. PICK k : k = kind[u]
    OBVIOUS
  <2>6. OpenPull(u)' => OpenPull(u)
    BY <1>1 DEF OpenPull, Outside
  <2>7. ASSUME OpenPull(u)' \/ AtWork(wrap[u]) \/ AsksFlush(wrap[u])
        PROVE  Tracked(e.x, u, k) /\ Safe(e, u, k) /\ Mirrored(e.x, e.runs, u)
    <3>1. Tracked(m, u, k) /\ Mirrored(m, runs, u)
      BY <2>4, <2>5, <2>6, <2>7 DEF Watch
    <3>2. Tracked(b.x, u, k) /\ Safe(b, u, k)
      BY <2>2, <3>1, NobodySafe
    <3>3. Mirrored(b.x, b.runs, u)
      BY <1>0, <2>2, <2>3, <3>1 DEF Mirrored, Has, Akin, Others
    <3>4. Tracked(c.x, u, k) /\ Safe(c, u, k)
      BY <1>5, <1>13, <3>2, <3>3, DeletedSafe
    <3>5. Tracked(y, u, k)
      BY <1>15, <3>4 DEF Tracked, Lent
    <3>6. d.w = Append(c.w, y)
      BY <1>7, <1>14 DEF Save, Minds
    <3>7. Safe(d, u, k)
      BY <1>14, <3>4, <3>5, <3>6, WriteSafe DEF Minds
    <3>8. Safe(e, u, k)
      BY <1>18, <3>7 DEF Safe
    <3>9. ~Has(e.x, u)
      BY <1>14, <1>15, <1>20 DEF Has
    <3>. QED
      BY <1>20, <3>5, <3>8, <3>9 DEF Mirrored
  <2>8. ASSUME InFlight(wrap[u])
        PROVE  u \in e.finishing /\ e.x.entry[u] \in {"delivering", "left"} /\ u \notin e.x.tasks
    <3>1. u \in finishing /\ m.entry[u] \in {"delivering", "left"}
      BY <2>4, <2>8 DEF Watch
    <3>2. u \in e.finishing
      BY <1>0, <1>20, <2>1, <3>1 DEF Others
    <3>3. e.x.entry[u] \in {"delivering", "left"}
      BY <1>14, <1>15, <1>20, <2>3, <3>1 DEF Akin
    <3>4. u \notin e.x.tasks
      BY <1>15, <1>20
    <3>. QED
      BY <3>2, <3>3, <3>4
  <2>9. Watch(u)'
    BY <1>1, <1>9, <1>12, <1>19, <1>20, <2>5, <2>7, <2>8, KeptWatch
  <2>. QED
    BY <1>1, <1>9, <1>19, <2>9, Handled
<1>. QED
  BY <1>21, <1>22

LEMMA WrapWatch ==
  ASSUME Good, Watching, NEW u \in Tasks, runner_finished(u)
  PROVE  Watching'
<1>0. /\ Minds(Here, u) /\ Here.x = m /\ Here.w = <<>> /\ Here.runs = runs
      /\ Here.finishing = finishing /\ Here.wrap = wrap /\ Here.mail = mail
  BY HereMinds
<1>1. Watch(u) /\ wrap[u].at = "told" /\ kind' = kind
  BY DEF Watching, runner_finished, Apart
<1>2. Outside /\ (wrap[u].result = "failed" => ~OpenPull(u)')
  BY DEF runner_finished, Apart, folder, Outside, Watching, OpenPull
<1>3. OpenPull(u)' => OpenPull(u)
  BY <1>2 DEF OpenPull, Outside
<1>4. ~AtWork(wrap[u]) /\ ~AsksFlush(wrap[u])
  BY <1>1 DEF AtWork, AsksFlush
<1>5. PICK k : k = kind[u]
  OBVIOUS
<1>6. OpenPull(u)' => /\ Tracked(m, u, k) /\ Mirrored(m, runs, u)
                      /\ wrap[u].result # "failed"
                      /\ wrap[u].result = "noChanges" => u \notin m.tasks
  BY <1>1, <1>2, <1>3, <1>5 DEF Watch, FoundNothing
<1>7. Silent(NoWrap) /\ NoWrap # wrap[u]
  BY <1>1 DEF Silent, NoWrap, WrapOK, AtWork
<1>8. PICK a : a = [Here EXCEPT !.finishing = @ \ {u}, !.wrap[u] = NoWrap]
  OBVIOUS
<1>9. /\ Fields(a) /\ a.x = m /\ a.w = Here.w /\ a.runs = runs /\ a.mail = mail
      /\ a.finishing = finishing \ {u} /\ a.wrap = [wrap EXCEPT ![u] = NoWrap]
  BY <1>0, <1>8 DEF Minds, Fields
<1>10. a.wrap[u] = NoWrap /\ DOMAIN a.wrap = Tasks /\ \A t \in Tasks \ {u} : a.wrap[t] = wrap[t]
  BY <1>9 DEF Watching
<1>11. Minds(a, u) /\ Safe(a, u, k)
  <2>1. Minds(a, u)
    BY <1>0, <1>9, <1>10 DEF Minds, Fields
  <2>2. Safe(a, u, k)
    BY <1>0, <1>9 DEF Safe
  <2>. QED
    BY <2>1, <2>2
<1>12. ASSUME NEW b, Minds(b, u), b.wrap = a.wrap, b.mail.delete = mail.delete, Becomes(b),
              b.x.entry[u] = m.entry[u] \/ b.x.entry[u] = "left" \/ Has(m, u),
              OpenPull(u)' => Tracked(b.x, u, k) /\ Safe(b, u, k) /\ Mirrored(b.x, b.runs, u)
       PROVE  Watching'
  <2>1. u \in b.mail.delete => b.x.entry[u] = "left"
    BY <1>1, <1>12 DEF Watch, Has
  <2>2. b.wrap[u] = NoWrap
    BY <1>10, <1>12
  <2>3. Watch(u)'
    BY <1>1, <1>2, <1>4, <1>5, <1>7, <1>12, <2>1, <2>2, KeptWatch
  <2>. QED
    BY <1>1, <1>2, <1>12, <2>3, Handled
<1>13. CASE u \notin runs
  <2>1. Becomes(a)
    BY <1>8, <1>13 DEF runner_finished
  <2>. QED
    BY <1>6, <1>9, <1>11, <1>12, <2>1
<1>14. CASE u \in runs
  <2>1. PICK delivered, left : /\ delivered = runner_put_entry(a, u, "delivered")
                               /\ left = runner_end_entry(a, u)
    OBVIOUS
  <2>2. PICK b : b = CASE wrap[u].result = "none" -> runner_put_run(a, u, m.outcome[u], FALSE)
                       [] wrap[u].result = "opened" /\ Has(m, u) ->
                            runner_put_run(delivered, u, "delivered", FALSE)
                       [] wrap[u].result = "opened" /\ ~Has(m, u) ->
                            runner_put_run(a, u, "deleted", FALSE)
                       [] wrap[u].result = "noChanges" -> runner_put_run(left, u, "noChanges", FALSE)
                       [] OTHER -> runner_put_run(left, u, "deliveryFailed", FALSE)
    OBVIOUS
  <2>3. Becomes(b)
    BY <1>8, <1>14, <2>1, <2>2 DEF runner_finished
  <2>4. wrap[u].result \in {"none", "opened", "noChanges", "failed"}
    BY <1>1 DEF Watch, WrapOK
  <2>5. CASE wrap[u].result = "none"
    <3>1. PutsOutcome(a, u, m.outcome[u], b)
      BY <2>2, <2>5 DEF PutsOutcome
    <3>2. /\ Minds(b, u) /\ b.wrap = a.wrap /\ b.mail = a.mail /\ b.x.entry = m.entry
          /\ b.x.outcome[u] = m.outcome[u] /\ b.x.tasks = m.tasks /\ b.x.lease = m.lease
          /\ m.outcome[u] \notin Final => u \in b.runs
      BY <1>9, <1>11, <3>1, MindsRun
    <3>3. OpenPull(u)' => Tracked(b.x, u, k) /\ Mirrored(b.x, b.runs, u)
      BY <1>6, <3>2 DEF Tracked, Lent, Mirrored, Has, Final
    <3>4. OpenPull(u)' => Safe(b, u, k)
      BY <1>11, <3>1, <3>3, RunSafe
    <3>. QED
      BY <1>9, <1>12, <2>3, <3>2, <3>3, <3>4
  <2>6. CASE wrap[u].result = "opened" /\ Has(m, u)
    <3>1. PutsOutcome(delivered, u, "delivered", b)
      BY <2>2, <2>6 DEF PutsOutcome
    <3>2. u \in a.x.tasks
      BY <1>9, <1>11, <2>6 DEF Minds, Near, Rows
    <3>3. /\ Minds(delivered, u) /\ Others(a, delivered)
          /\ delivered.x.entry[u] = "delivered" /\ delivered.x.outcome[u] = m.outcome[u]
          /\ delivered.x.tasks = m.tasks
      BY <1>9, <1>11, <2>1, <3>2, MindsEntry
    <3>4. /\ Minds(b, u) /\ b.wrap = delivered.wrap /\ b.mail = delivered.mail
          /\ b.x.entry = delivered.x.entry /\ b.x.outcome[u] = "delivered"
          /\ "delivered" \notin Final => u \in b.runs
      BY <3>1, <3>3, MindsRun
    <3>5. OpenPull(u)' => Safe(delivered, u, k)
      <4>1. OpenPull(u)' => m.outcome[u] \in {"deleted", "delivering", "delivered"} \/ u \notin m.tasks
        BY <1>6 DEF Tracked
      <4>2. OpenPull(u)' => \A y : /\ y.entry[u] = "delivered" /\ y.outcome[u] = a.x.outcome[u]
                                   /\ y.tasks = a.x.tasks
                                   /\ "delivered" = "delivering" => y.lease.task = a.x.lease.task
                                   => Tracked(y, u, k)
        BY <1>9, <4>1 DEF Tracked, Lent
      <4>. QED
        BY <1>11, <2>1, <3>2, <4>2, EntrySafe
    <3>6. Tracked(b.x, u, k) /\ Mirrored(b.x, b.runs, u)
      BY <3>3, <3>4 DEF Tracked, Lent, Mirrored, Final
    <3>7. OpenPull(u)' => Safe(b, u, k)
      BY <3>1, <3>3, <3>5, <3>6, RunSafe
    <3>. QED
      BY <1>9, <1>12, <2>3, <2>6, <3>3, <3>4, <3>6, <3>7 DEF Others
  <2>7. CASE wrap[u].result = "opened" /\ ~Has(m, u)
    <3>1. PutsOutcome(a, u, "deleted", b)
      BY <2>2, <2>7 DEF PutsOutcome
    <3>2. /\ Minds(b, u) /\ b.wrap = a.wrap /\ b.mail = a.mail /\ b.x.entry = m.entry
          /\ b.x.outcome[u] = "deleted"
      BY <1>9, <1>11, <3>1, MindsRun
    <3>3. OpenPull(u)' => Tracked(b.x, u, k) /\ Mirrored(b.x, b.runs, u)
      BY <1>6, <2>7, <3>2 DEF Tracked, Lent, Mirrored, Has
    <3>4. OpenPull(u)' => Safe(b, u, k)
      BY <1>11, <3>1, <3>3, RunSafe
    <3>. QED
      BY <1>9, <1>12, <2>3, <3>2, <3>3, <3>4
  <2>8. CASE wrap[u].result \in {"noChanges", "failed"}
    <3>1. OpenPull(u)' => u \notin m.tasks /\ ~Has(m, u)
      BY <1>0, <1>6, <2>8 DEF Minds, Near, Rows
    <3>2. PICK o : PutsOutcome(left, u, o, b)
      BY <2>2, <2>8 DEF PutsOutcome
    <3>3. /\ Minds(left, u) /\ Others(a, left)
          /\ left.x.entry[u] = m.entry[u] \/ left.x.entry[u] = "left"
          /\ OpenPull(u)' => left = a
      BY <1>9, <1>11, <2>1, <3>1, MindsEnd DEF runner_end_entry
    <3>4. /\ Minds(b, u) /\ b.wrap = left.wrap /\ b.mail = left.mail /\ b.x.entry = left.x.entry
          /\ b.x.tasks = left.x.tasks
      BY <3>2, <3>3, MindsRun
    <3>5. OpenPull(u)' => Tracked(b.x, u, k) /\ Mirrored(b.x, b.runs, u)
      BY <1>6, <1>9, <3>1, <3>3, <3>4 DEF Tracked, Lent, Mirrored, Has
    <3>6. OpenPull(u)' => Safe(b, u, k)
      BY <1>11, <3>2, <3>3, <3>5, RunSafe
    <3>. QED
      BY <1>9, <1>12, <2>3, <3>3, <3>4, <3>5, <3>6 DEF Others
  <2>. QED
    BY <2>4, <2>5, <2>6, <2>7, <2>8
<1>. QED
  BY <1>13, <1>14

LEMMA SettledWatch ==
  ASSUME Good, Watching, NEW u \in Tasks, runner_pull_settled(u)
  PROVE  Watching'
<1>0. /\ Minds(Here, u) /\ Here.x = m /\ Here.w = <<>> /\ Here.runs = runs
      /\ Here.finishing = finishing /\ Here.wrap = wrap /\ Here.mail = mail
  BY HereMinds
<1>1. Watch(u) /\ m.entry[u] = "delivered" /\ pulls[u] # "open" /\ kind' = kind /\ Outside
  BY DEF Watching, runner_pull_settled, Apart, Quietly, folder, Outside
<1>2. ~OpenPull(u)' /\ ~InFlight(wrap[u]) /\ WrapOK(wrap[u])
  BY <1>1 DEF OpenPull, Outside, Watch
<1>3. ~AtWork(wrap[u]) /\ ~AsksFlush(wrap[u])
  BY <1>2 DEF WrapOK, InFlight, AtWork, AsksFlush
<1>4. PICK a, outcome : /\ a = IF u \in runs THEN runner_put_run(Here, u, outcome, FALSE) ELSE Here
                        /\ Becomes(runner_put_entry(a, u, "left"))
  BY DEF runner_pull_settled
<1>5. a = Here \/ PutsOutcome(Here, u, outcome, a)
  BY <1>4 DEF PutsOutcome
<1>6. Minds(a, u) /\ a.wrap = wrap
  BY <1>0, <1>5, MindsRun
<1>7. PICK b : b = runner_put_entry(a, u, "left")
  OBVIOUS
<1>8. Minds(b, u) /\ b.wrap = wrap /\ b.x.entry[u] = "left"
  BY <1>6, <1>7, MindsEntry DEF Others
<1>9. Watch(u)'
  BY <1>1, <1>2, <1>3, <1>4, <1>7, <1>8, KeptWatch
<1>. QED
  BY <1>1, <1>4, <1>7, <1>8, <1>9, Handled

(* A success: the wrap-up waits until the last of these writes is on disk, *)
(* the first that says what it is for.                                     *)
LEMMA SuccessWatch ==
  ASSUME Good, Watching, NEW u \in Tasks, NEW a, Minds(a, u), a.x.entry[u] = "running",
         Others(Here, a), ~InFlight(wrap[u]), u \notin mail.delete,
         OpenPull(u) => /\ kind[u].deliver /\ Isolated(a.x, u) /\ Safe(a, u, kind[u])
                        /\ Tracked(m, u, kind[u]) /\ Mirrored(m, runs, u)
                        /\ m.entry[u] = "delivering" /\ SameRow(m, [a.x EXCEPT !.entry[u] = "delivering"], u),
         Becomes(runner_pipeline_finished(a, u, "success")), Outside, kind' = kind
  PROVE  Watching'
<1>0. /\ Here.x = m /\ Here.runs = runs
      /\ Here.finishing = finishing /\ Here.wrap = wrap /\ Here.mail = mail
  BY HereMinds
<1>1. Watch(u) /\ u \in a.x.tasks /\ Frame(a.x)
  BY DEF Watching, Minds, Near, Rows, Has
<1>2. a.wrap = wrap /\ a.runs = runs /\ a.finishing = finishing /\ a.mail.delete = mail.delete
  BY <1>0 DEF Others
<1>3. ~AtWork(wrap[u]) /\ ~AsksFlush(wrap[u]) /\ WrapOK(wrap[u])
  BY <1>1 DEF Watch, WrapOK, InFlight, AtWork, AsksFlush
<1>4. OpenPull(u)' => OpenPull(u)
  BY DEF OpenPull, Outside
<1>5. PICK k : k = kind[u]
  OBVIOUS
<1>6. PICK delivers : delivers = (DeliversAfter("success") /\ Delivers(u) /\ Isolated(a.x, u))
  OBVIOUS
<1>7. PICK b : b = runner_put_entry(a, u, IF delivers THEN "delivering" ELSE "left")
  OBVIOUS
<1>8. PICK o : o = IF delivers THEN "delivering" ELSE AttemptEnds(u, "success")
  OBVIOUS
<1>9. PICK c : c = runner_put_run(b, u, o, TRUE)
  OBVIOUS
<1>10. PICK w : w = [NoWrap EXCEPT !.at = "flush", !.deliver = delivers, !.wait = Behind(c)]
  OBVIOUS
<1>11. PICK d : d = [c EXCEPT !.finishing = @ \cup {u}, !.wrap[u] = w]
  OBVIOUS
<1>12. PICK e : e = Redispatch(IF u \in a.runs THEN d ELSE b)
  OBVIOUS
<1>13. Becomes(e)
  BY <1>6, <1>7, <1>8, <1>9, <1>10, <1>11, <1>12 DEF runner_pipeline_finished
<1>14. /\ Minds(b, u) /\ Others(a, b) /\ b.x.outcome[u] = a.x.outcome[u] /\ b.x.tasks = a.x.tasks
       /\ b.x.entry[u] = IF delivers THEN "delivering" ELSE "left"
  BY <1>1, <1>7, MindsEntry
<1>15. PutsOutcome(b, u, o, c)
  BY <1>9 DEF PutsOutcome
<1>16. /\ Minds(c, u) /\ c.finishing = b.finishing /\ c.wrap = b.wrap /\ c.mail = b.mail
       /\ c.x.entry = b.x.entry /\ c.x.outcome[u] = o /\ c.x.tasks = b.x.tasks
       /\ c.x.lease = b.x.lease /\ (o \notin Final => u \in c.runs)
  BY <1>14, <1>15, MindsRun
<1>17. /\ Fields(d) /\ d.x = c.x /\ d.w = c.w /\ d.runs = c.runs /\ d.mail = c.mail
       /\ d.finishing = c.finishing \cup {u} /\ d.wrap = [c.wrap EXCEPT ![u] = w]
  BY <1>11, <1>16 DEF Minds, Fields
<1>18. DOMAIN d.wrap = Tasks /\ d.wrap[u] = w /\ \A t \in Tasks \ {u} : d.wrap[t] = c.wrap[t]
  BY <1>16, <1>17 DEF Minds
<1>19. Minds(d, u)
  BY <1>16, <1>17, <1>18 DEF Minds, Fields
<1>20. Behind(c) \in Nat /\ Behind(c) = Len(log) + Len(c.w) - 1
  <2>1. Len(log) \in Nat /\ Len(log) >= 1 /\ Len(c.w) \in Nat
    BY <1>16, LenProperties DEF Good, Stands, Minds, IsSeq
  <2>. QED
    BY <2>1 DEF Behind
<1>21. /\ {"at", "deliver", "result", "wait"} \subseteq DOMAIN w /\ w.at = "flush"
       /\ w.result = "none" /\ w.wait = Behind(c) /\ w.deliver = delivers
  BY <1>10 DEF NoWrap
<1>22. PICK f : f = IF u \in a.runs THEN d ELSE b
  OBVIOUS
<1>23. Minds(f, u)
  BY <1>14, <1>19, <1>22
<1>24. Minds(e, u) /\ Others(f, e) /\ e.x = f.x /\ e.w = f.w
  BY <1>12, <1>22, <1>23, MindsRedispatch
<1>25. u \notin e.mail.delete
  BY <1>2, <1>14, <1>16, <1>17, <1>22, <1>24 DEF Others
<1>26. CASE ~delivers
  <2>1. ~OpenPull(u)
    BY <1>6, <1>26 DEF DeliversAfter, Delivers
  <2>2. Silent(w)
    BY <1>20, <1>21, <1>26 DEF Silent, WrapOK, AtWork
  <2>3. e.wrap[u] = wrap[u] \/ Silent(e.wrap[u])
    BY <1>2, <1>14, <1>18, <1>22, <1>24, <2>2 DEF Others
  <2>4. Watch(u)'
    BY <1>3, <1>4, <1>13, <1>24, <1>25, <2>1, <2>3, KeptWatch
  <2>. QED
    BY <1>13, <1>24, <2>4, Handled
<1>27. CASE delivers
  <2>0. k.deliver /\ (k.folder => a.x.lease.task = u)
    BY <1>5, <1>6, <1>27 DEF Delivers, Isolated, InFolder
  <2>1. PICK y : y = [a.x EXCEPT !.entry[u] = "delivering"]
    OBVIOUS
  <2>2. b = Save(a, y)
    BY <1>7, <1>27, <2>1 DEF runner_put_entry, InRun
  <2>3. b.x = y /\ b.w = Append(a.w, y) /\ y.lease = a.x.lease /\ y.entry[u] = "delivering"
    <3>1. b.x = y /\ b.w = Append(a.w, y)
      BY <2>2 DEF Save, Minds
    <3>. QED
      BY <1>1, <2>1, <3>1 DEF Frame
  <2>4. Tracked(c.x, u, k) /\ c.x.outcome[u] = "delivering"
    BY <1>8, <1>16, <1>27, <2>0, <2>3 DEF Tracked, Lent
  <2>5. OpenPull(u) => Tracked(y, u, k)
    BY <1>5, <2>0, <2>1, <2>3 DEF Tracked, Lent, SameRow
  <2>6. OpenPull(u) => Safe(b, u, k)
    BY <1>5, <2>3, <2>5, WriteSafe DEF Minds
  <2>7. OpenPull(u) => Safe(c, u, k)
    BY <1>14, <1>15, <2>4, <2>6, RunSafe
  <2>8. CASE u \notin runs
    <3>1. f = b /\ e.wrap = wrap
      BY <1>2, <1>14, <1>22, <1>24, <2>8 DEF Others
    <3>2. OpenPull(u) => Tracked(e.x, u, k) /\ Safe(e, u, k)
      BY <1>24, <2>3, <2>5, <2>6, <3>1 DEF Safe
    <3>3. OpenPull(u) => Mirrored(e.x, e.runs, u)
      BY <1>24, <2>1, <2>3, <2>8, <3>1 DEF Mirrored, Has, SameRow
    <3>4. Watch(u)'
      BY <1>3, <1>4, <1>5, <1>13, <1>24, <1>25, <3>1, <3>2, <3>3, KeptWatch
    <3>. QED
      BY <1>13, <1>24, <3>4, Handled
  <2>9. CASE u \in runs
    <3>1. f = d /\ e.wrap[u] = w /\ e.finishing = c.finishing \cup {u} /\ e.runs = c.runs
          /\ e.x = c.x /\ e.w = c.w
      BY <1>2, <1>17, <1>18, <1>22, <1>24, <2>9 DEF Others
    <3>2. /\ m' = e.x /\ runs' = e.runs /\ finishing' = e.finishing /\ wrap' = e.wrap /\ mail' = e.mail
          /\ Len(log) \in Nat /\ Len(e.w) \in Nat /\ Len(log') = Len(log) + Len(e.w)
          /\ \A i \in 1..Len(log') :
               \/ i \in 1..Len(log) /\ log'[i] = log[i]
               \/ i > Len(log) /\ i - Len(log) \in 1..Len(e.w) /\ log'[i] = e.w[i - Len(log)]
      BY <1>13, <1>24, Written
    <3>3. e.w[Len(e.w)] = e.x /\ Len(e.w) >= 1
      <4>1. c.w[Len(c.w)] = c.x /\ Len(c.w) >= 1
        BY <1>14, <1>15, <2>4, RunLast
      <4>. QED
        BY <3>1, <4>1
    <3>4. WrapOK(w)
      BY <1>20, <1>21, <1>27 DEF WrapOK, AtWork
    <3>5. k.deliver /\ Tracked(m', u, k) /\ Mirrored(m', runs', u)
      BY <1>8, <1>16, <1>27, <2>0, <2>4, <3>1, <3>2 DEF Mirrored, Final
    <3>6. OpenPull(u)' => \A i \in 1..Len(log') : Tracked(log'[i], u, k)
      BY <1>1, <1>4, <1>5, <2>7, <3>1, <3>2 DEF Watch, Safe
    <3>7. \A i \in 1..Len(log') : i > w.wait => Tracked(log'[i], u, k)
      <4>1. SUFFICES ASSUME NEW i \in 1..Len(log'), i > w.wait
                     PROVE  Tracked(log'[i], u, k)
        OBVIOUS
      <4>2. i = Len(log) + Len(e.w)
        <5>1. PICK n, q : n = Len(log) /\ q = Len(e.w)
          OBVIOUS
        <5>2. n \in Nat /\ q \in Nat /\ i \in 1..(n + q)
          BY <3>2, <5>1
        <5>3. i > n + q - 1
          BY <1>20, <1>21, <3>1, <4>1, <5>1
        <5>. QED
          BY <5>1, <5>2, <5>3
      <4>3. log'[i] = e.w[Len(e.w)]
        BY <3>2, <3>3, <4>1, <4>2
      <4>. QED
        BY <2>4, <3>1, <3>3, <4>3
    <3>8. u \in finishing' /\ m'.entry[u] = "delivering" /\ (k.folder => m'.lease.task = u)
      BY <1>14, <1>16, <1>27, <2>0, <2>3, <3>1, <3>2
    <3>9. OpenPull(u)' => u \in commits'
      BY <1>1, <1>4 DEF Watch, Outside
    <3>10. Watch(u)'
      <4>1. /\ wrap'[u] = w /\ ~AtWork(w) /\ ~FoundNothing(w)
            /\ kind'[u] = k /\ u \notin mail'.delete
        BY <1>5, <1>21, <1>25, <3>1, <3>2 DEF AtWork, FoundNothing
      <4>. QED
        BY <3>4, <3>5, <3>6, <3>7, <3>8, <3>9, <4>1 DEF Watch
    <3>. QED
      BY <1>13, <1>24, <3>10, Handled
  <2>. QED
    BY <2>8, <2>9
<1>. QED
  BY <1>26, <1>27

LEMMA DeliverWatch ==
  ASSUME Good, Watching, NEW u \in Tasks, PipelineEnds(u, "success") \/ SweepsOne(u)
  PROVE  Watching'
<1>0. /\ Minds(Here, u) /\ Minds(Here, NoTask) /\ Here.x = m /\ Here.w = <<>> /\ Here.runs = runs
      /\ Here.finishing = finishing /\ Here.wrap = wrap /\ Here.mail = mail
  BY HereMinds
<1>1. Outside /\ kind' = kind
  BY DEF PipelineEnds, SweepsOne, Apart, Quietly, folder, Outside, Watching
<1>2. Watch(u) /\ Frame(m) /\ Rows(m)
  BY DEF Watching, Good, Stands, Image
<1>3. ASSUME NEW a, Minds(a, u), Minds(a, NoTask), Others(Here, a), a.x.entry = m.entry,
             NEW outcome, Becomes(runner_pipeline_finished(a, u, outcome))
      PROVE  Watching'
  <2>1. CASE m.entry[u] # "running"
    BY <1>1, <1>3, <2>1, NobodyWatch DEF runner_pipeline_finished
  <2>2. CASE m.entry[u] = "running"
    <3>1. ~OpenPull(u) /\ ~InFlight(wrap[u]) /\ u \notin mail.delete
      BY <1>2, <2>2 DEF Watch, Tracked
    <3>2. CASE outcome = "success"
      BY <1>1, <1>3, <2>2, <3>1, <3>2, SuccessWatch
    <3>3. CASE outcome # "success"
      <4>1. PICK e : e = runner_pipeline_finished(a, u, outcome)
        OBVIOUS
      <4>2. Minds(e, u) /\ Calm(e, u)
        BY <1>0, <1>3, <3>3, <4>1, MindsFinished DEF Calm, Others
      <4>. QED
        BY <1>1, <1>3, <2>2, <4>1, <4>2, PeersWatch
    <3>. QED
      BY <3>2, <3>3
  <2>. QED
    BY <2>1, <2>2
<1>4. CASE PipelineEnds(u, "success")
  <2>1. PICK b : b = Save(Here, [Here.x EXCEPT !.pipe[u] = "success"])
    OBVIOUS
  <2>2. Minds(b, u) /\ Minds(b, NoTask) /\ Others(Here, b) /\ b.x.entry = m.entry
    BY <1>0, <2>1, MindsPipe
  <2>3. Becomes(runner_pipeline_finished(b, u, "success"))
    BY <1>0, <1>4, <2>1 DEF PipelineEnds, workflow_finalize
  <2>. QED
    BY <1>3, <2>2, <2>3
<1>5. CASE SweepsOne(u)
  <2>1. Others(Here, Here)
    BY DEF Others
  <2>2. CASE u \notin m.tasks
    <3>1. ~Has(m, u)
      BY <1>2, <2>2 DEF Rows
    <3>2. Becomes(Here)
      BY <1>0, <1>5, <2>2, <3>1 DEF SweepsOne, runner_sweep, runner_task_deleted
    <3>. QED
      BY <1>0, <1>1, <3>2, NobodyWatch
  <2>3. CASE u \in m.tasks
    <3>1. PICK a : a = [Here EXCEPT !.x.entry[u] = "running"]
      OBVIOUS
    <3>2. \/ Becomes(Here) \/ Becomes(runner_pipeline_finished(Here, u, m.pipe[u]))
          \/ /\ m.entry[u] = "delivering" /\ u \notin finishing
             /\ Becomes(runner_pipeline_finished(a, u, "success"))
      BY <1>0, <1>5, <2>3, <3>1 DEF SweepsOne, runner_sweep
    <3>3. ASSUME m.entry[u] = "delivering", u \notin finishing,
                 Becomes(runner_pipeline_finished(a, u, "success"))
          PROVE  Watching'
      <4>1. PICK y : y = [m EXCEPT !.entry[u] = "running"]
        OBVIOUS
      <4>2. Fields(a) /\ Others(Here, a) /\ a.x = y /\ a.w = <<>>
        BY <1>0, <3>1, <4>1 DEF Minds, Fields, Others
      <4>3. /\ Frame(y) /\ y.entry = [m.entry EXCEPT ![u] = "running"] /\ y.lease = m.lease
            /\ y.outcome = m.outcome /\ y.tasks = m.tasks
        BY <1>2, <4>1 DEF Frame
      <4>4. y.entry[u] = "running" /\ \A t \in Tasks : t # u => y.entry[t] = m.entry[t]
        BY <1>2, <4>3 DEF Frame
      <4>5. Rows(y) /\ (\A t \in Tasks \ {u} : Akin(m, y, t))
        BY <1>2, <2>3, <4>3, <4>4 DEF Rows, Has, Akin
      <4>6. Minds(a, u)
        BY <1>0, <4>2, <4>3, <4>5 DEF Minds, Near, Fields, Others
      <4>7. ~InFlight(wrap[u]) /\ u \notin mail.delete
        BY <1>2, <3>3 DEF Watch
      <4>8. Safe(a, u, kind[u])
        BY <4>2 DEF Safe
      <4>9. OpenPull(u) => /\ kind[u].deliver /\ Tracked(m, u, kind[u]) /\ Mirrored(m, runs, u)
                           /\ Isolated(a.x, u)
        BY <1>2, <3>3, <4>2, <4>3 DEF Watch, Tracked, Lent, Isolated, InFolder
      <4>10. SameRow(m, [a.x EXCEPT !.entry[u] = "delivering"], u)
        <5>1. PICK z : z = [y EXCEPT !.entry[u] = "delivering"]
          OBVIOUS
        <5>2. z.entry[u] = "delivering" /\ z.outcome = m.outcome /\ z.tasks = m.tasks
          BY <4>3, <5>1 DEF Frame
        <5>. QED
          BY <3>3, <4>2, <5>1, <5>2 DEF SameRow
      <4>. QED
        BY <1>1, <3>3, <4>2, <4>4, <4>6, <4>7, <4>8, <4>9, <4>10, SuccessWatch
    <3>. QED
      BY <1>0, <1>1, <1>3, <2>1, <3>2, <3>3, NobodyWatch
  <2>. QED
    BY <2>2, <2>3
<1>. QED
  BY <1>4, <1>5

-----------------------------------------------------------------------------
(* Git, gh, the writer and a restart *)

(* A step that leaves what is saved alone, and the watched tasks watched. *)
LEMMA RestWatch ==
  ASSUME Watching, UNCHANGED <<kind, m, log, runs, finishing, mail, wrap>>,
         commits \subseteq commits', hist' = hist, DOMAIN pulls' = DOMAIN pulls,
         \A t \in Tasks : pulls'[t] = "open" => pulls[t] = "open"
  PROVE  Watching'
<1>1. ASSUME NEW t \in Tasks
      PROVE  Watch(t)'
  <2>1. Watch(t) /\ (OpenPull(t)' => OpenPull(t))
    BY DEF Watching, OpenPull
  <2>. QED
    BY <2>1 DEF Watch
<1>. QED
  BY <1>1 DEF Watching, Rows, Has

(* What a wrap-up delivers is on the branch of its task, or on none, unless *)
(* the task was deleted meanwhile.                                          *)
LEMMA BranchIsOwn ==
  ASSUME Watching, Known, NEW t \in Tasks, InFlight(wrap[t]), Branch(t) \in Tasks
  PROVE  Branch(t) = t \/ t \notin m.tasks
<1>1. Watch(t)
  BY DEF Watching
<1>2. CASE InFolder(t)
  <2>1. m.lease.task = t \/ t \notin m.tasks
    BY <1>1, <1>2 DEF Watch, InFolder
  <2>2. head \in Tasks => m.lease.task = head
    BY DEF Known, Returnable, At
  <2>. QED
    BY <1>2, <2>1, <2>2 DEF Branch
<1>3. CASE ~InFolder(t)
  BY <1>3 DEF Branch
<1>. QED
  BY <1>2, <1>3

(* A step of the wrap-up of t, but for its pull request. *)
LEMMA WrapGoesOn ==
  ASSUME Watching, NEW t \in Tasks,
         UNCHANGED <<kind, m, log, runs, finishing, mail>>, commits \subseteq commits',
         DOMAIN hist' = DOMAIN hist, DOMAIN pulls' = DOMAIN pulls,
         \A u \in Tasks : u # t => (OpenPull(u)' => OpenPull(u)),
         NEW w, wrap' = [wrap EXCEPT ![t] = w], WrapOK(w), ~AsksFlush(w),
         InFlight(w) => InFlight(wrap[t]),
         AtWork(w) => AtWork(wrap[t]) \/ (AsksFlush(wrap[t]) /\ wrap[t].wait = 0),
         OpenPull(t)' => /\ OpenPull(t) \/ AtWork(wrap[t])
                         /\ t \in commits' /\ (FoundNothing(w) => t \notin m.tasks)
  PROVE  Watching'
<1>1. DOMAIN wrap' = Tasks /\ wrap'[t] = w /\ \A u \in Tasks : u # t => wrap'[u] = wrap[u]
  BY DEF Watching
<1>2. ASSUME NEW u \in Tasks, u # t
      PROVE  Watch(u)'
  <2>1. Watch(u) /\ (OpenPull(u)' => OpenPull(u)) /\ wrap'[u] = wrap[u]
    BY <1>1, <1>2 DEF Watching
  <2>. QED
    BY <2>1 DEF Watch
<1>3. Watch(t)'
  <2>1. Watch(t)
    BY DEF Watching
  <2>2. PICK k : k = kind[t]
    OBVIOUS
  <2>3. AtWork(w) \/ OpenPull(t)' => OpenPull(t) \/ AtWork(wrap[t]) \/ (AsksFlush(wrap[t]) /\ wrap[t].wait = 0)
    OBVIOUS
  <2>4. AtWork(w) \/ OpenPull(t)' => k.deliver /\ Tracked(m, t, k) /\ Mirrored(m, runs, t)
    BY <2>1, <2>2, <2>3 DEF Watch
  <2>5. AtWork(w) \/ OpenPull(t)' => \A i \in 1..Len(log) : Tracked(log[i], t, k)
    <3>1. \A i \in 1..Len(log) : i > 0
      OBVIOUS
    <3>. QED
      BY <2>1, <2>2, <2>3, <3>1 DEF Watch
  <2>6. InFlight(w) => /\ t \in finishing /\ m.entry[t] \in {"delivering", "left"}
                       /\ \/ k.folder => m.entry[t] = "delivering" /\ m.lease.task = t
                          \/ t \notin m.tasks
    BY <2>1, <2>2 DEF Watch
  <2>7. t \in mail.delete => m.entry[t] = "left"
    BY <2>1 DEF Watch
  <2>. QED
    BY <1>1, <2>2, <2>4, <2>5, <2>6, <2>7 DEF Watch
<1>. QED
  BY <1>1, <1>2, <1>3 DEF Watching, Rows, Has

LEMMA DeliveryWatch ==
  ASSUME Watching, Known, NEW t \in Tasks, WrapsUp(t)
  PROVE  Watching'
<1>1. Watch(t) /\ WrapOK(wrap[t]) /\ DOMAIN wrap = Tasks
      /\ UNCHANGED <<kind, m, log, runs, finishing, mail>>
  BY DEF Watching, Watch, WrapsUp, CostRead, Commits, Pushes, OpensPull, WrapStep, mirror
<1>2. ASSUME NEW to \in {"commit", "push", "open"}
      PROVE  LET w == [wrap[t] EXCEPT !.at = to] IN
             /\ wrap[t].deliver => WrapOK(w) /\ ~AsksFlush(w) /\ AtWork(w)
             /\ w.at = to /\ w.deliver = wrap[t].deliver
             /\ WrapGoes(t, to) => wrap' = [wrap EXCEPT ![t] = w]
  BY <1>1 DEF WrapOK, AsksFlush, AtWork, WrapGoes
<1>3. ASSUME NEW result \in {"none", "noChanges", "failed", "opened"}
      PROVE  LET w == [wrap[t] EXCEPT !.at = "told", !.result = result] IN
             /\ wrap[t].deliver \/ result = "none" => WrapOK(w)
             /\ ~AsksFlush(w) /\ ~AtWork(w)
             /\ w.at = "told" /\ w.result = result /\ w.deliver = wrap[t].deliver
             /\ WrapTells(t, result) => wrap' = [wrap EXCEPT ![t] = w]
  BY <1>1 DEF WrapOK, AsksFlush, AtWork, WrapTells
<1>4. ASSUME NEW w, wrap' = [wrap EXCEPT ![t] = w], WrapOK(w), ~AsksFlush(w),
             InFlight(w) => InFlight(wrap[t]),
             AtWork(w) => AtWork(wrap[t]) \/ (AsksFlush(wrap[t]) /\ wrap[t].wait = 0),
             UNCHANGED pulls, hist' = hist, commits \subseteq commits',
             OpenPull(t) /\ FoundNothing(w) => t \notin m.tasks
      PROVE  Watching'
  <2>1. \A u \in Tasks : OpenPull(u)' => OpenPull(u)
    BY <1>4 DEF OpenPull
  <2>2. OpenPull(t) => t \in commits
    BY <1>1 DEF Watch
  <2>. QED
    BY <1>1, <1>4, <2>1, <2>2, WrapGoesOn
<1>5. AtWork(wrap[t]) => InFlight(wrap[t]) /\ wrap[t].deliver
  BY <1>1 DEF AtWork, InFlight, WrapOK
<1>6. CASE CostRead(t)
  <2>1. wrap[t].at = "flush" /\ wrap[t].wait = 0 /\ UNCHANGED <<commits, pulls, hist>>
    BY <1>6 DEF CostRead, WrapStep
  <2>2. CASE wrap[t].deliver
    <3>1. PICK w : w = [wrap[t] EXCEPT !.at = "commit"]
      OBVIOUS
    <3>2. WrapOK(w) /\ ~AsksFlush(w) /\ w.at = "commit" /\ wrap' = [wrap EXCEPT ![t] = w]
      BY <1>2, <1>6, <2>2, <3>1 DEF CostRead
    <3>. QED
      BY <1>4, <2>1, <2>2, <3>2 DEF InFlight, AsksFlush, FoundNothing
  <2>3. CASE ~wrap[t].deliver
    <3>1. PICK w : w = [wrap[t] EXCEPT !.at = "told", !.result = "none"]
      OBVIOUS
    <3>2. /\ WrapOK(w) /\ ~AsksFlush(w) /\ ~AtWork(w) /\ w.result = "none"
          /\ w.deliver = wrap[t].deliver /\ wrap' = [wrap EXCEPT ![t] = w]
      BY <1>3, <1>6, <2>3, <3>1 DEF CostRead
    <3>. QED
      BY <1>4, <2>1, <2>3, <3>2 DEF InFlight, FoundNothing
  <2>. QED
    BY <2>2, <2>3
<1>7. ASSUME AtWork(wrap[t]), NEW to \in {"commit", "push", "open"}, WrapGoes(t, to),
             UNCHANGED <<pulls, hist>>, commits \subseteq commits'
      PROVE  Watching'
  <2>1. PICK w : w = [wrap[t] EXCEPT !.at = to]
    OBVIOUS
  <2>2. WrapOK(w) /\ ~AsksFlush(w) /\ w.at = to /\ wrap' = [wrap EXCEPT ![t] = w]
    BY <1>2, <1>5, <1>7, <2>1
  <2>. QED
    BY <1>4, <1>5, <1>7, <2>2 DEF FoundNothing
<1>8. ASSUME AtWork(wrap[t]), NEW result \in {"noChanges", "failed"}, WrapTells(t, result),
             UNCHANGED <<pulls, hist, commits>>,
             OpenPull(t) /\ result = "noChanges" => t \notin m.tasks
      PROVE  Watching'
  <2>1. PICK w : w = [wrap[t] EXCEPT !.at = "told", !.result = result]
    OBVIOUS
  <2>2. WrapOK(w) /\ ~AsksFlush(w) /\ ~AtWork(w) /\ w.result = result /\ wrap' = [wrap EXCEPT ![t] = w]
    BY <1>3, <1>5, <1>8, <2>1
  <2>. QED
    BY <1>4, <1>5, <1>8, <2>2 DEF FoundNothing
<1>9. CASE Commits(t)
  <2>1. AtWork(wrap[t]) /\ UNCHANGED <<pulls, hist>>
    BY <1>9 DEF Commits, WrapStep, AtWork
  <2>2. \/ WrapTells(t, "failed") /\ UNCHANGED commits
        \/ WrapTells(t, "noChanges") /\ UNCHANGED commits /\ Branch(t) \in Tasks /\ Branch(t) \notin commits
        \/ WrapGoes(t, "push") /\ commits \subseteq commits'
    BY <1>9 DEF Commits, HasNone
  <2>3. Branch(t) \in Tasks /\ Branch(t) \notin commits => ~OpenPull(t) \/ t \notin m.tasks
    BY <1>1, <1>5, <2>1, BranchIsOwn DEF Watch
  <2>. QED
    BY <1>7, <1>8, <2>1, <2>2, <2>3
<1>10. CASE Pushes(t)
  <2>1. AtWork(wrap[t]) /\ UNCHANGED <<pulls, hist, commits>>
    BY <1>10 DEF Pushes, WrapStep, AtWork
  <2>2. WrapTells(t, "failed") \/ WrapGoes(t, "open")
    BY <1>10 DEF Pushes
  <2>. QED
    BY <1>7, <1>8, <2>1, <2>2
<1>11. CASE OpensPull(t)
  <2>1. AtWork(wrap[t]) /\ UNCHANGED commits
    BY <1>11 DEF OpensPull, WrapStep, AtWork
  <2>2. PICK S : S = Strays(t)
    OBVIOUS
  <2>3. \/ WrapTells(t, "failed") /\ UNCHANGED <<pulls, hist>>
        \/ /\ WrapTells(t, "opened") /\ pulls' = [pulls EXCEPT ![Branch(t)] = "open"]
           /\ hist' = [hist EXCEPT !.strayed = S] /\ Branch(t) \in commits \cup UserBranches
    BY <1>11, <2>2 DEF OpensPull
  <2>4. ASSUME WrapTells(t, "opened"), pulls' = [pulls EXCEPT ![Branch(t)] = "open"],
               hist' = [hist EXCEPT !.strayed = S], Branch(t) \in commits \cup UserBranches
        PROVE  Watching'
    <3>1. PICK w : w = [wrap[t] EXCEPT !.at = "told", !.result = "opened"]
      OBVIOUS
    <3>2. WrapOK(w) /\ ~AsksFlush(w) /\ ~AtWork(w) /\ w.result = "opened" /\ wrap' = [wrap EXCEPT ![t] = w]
      BY <1>3, <1>5, <2>1, <2>4, <3>1
    <3>3. /\ DOMAIN hist' = DOMAIN hist /\ hist'.lost = hist.lost /\ hist'.strayed = S
          /\ DOMAIN pulls' = DOMAIN pulls
          /\ \A u \in Tasks : pulls'[u] = "open" => pulls[u] = "open" \/ u = Branch(t)
      BY <2>4 DEF Watching
    <3>4. CASE Branch(t) = t
      <4>1. S = hist.strayed \ {t}
        BY <2>2, <3>4 DEF Strays
      <4>2. \A u \in Tasks : u # t => (OpenPull(u)' => OpenPull(u))
        BY <3>3, <3>4, <4>1 DEF OpenPull
      <4>3. t \in commits
        BY <2>4, <3>4, FactoryAssumption DEF FactoryAssumption
      <4>. QED
        BY <1>1, <1>5, <2>1, <3>2, <3>3, <4>2, <4>3, WrapGoesOn DEF FoundNothing
    <3>5. CASE Branch(t) # t
      <4>1. Branch(t) \in Tasks => Branch(t) \in S
        BY <1>5, <2>1, <2>2, <3>5, BranchIsOwn DEF Strays
      <4>2. hist.strayed \subseteq S
        BY <2>2, <3>5 DEF Strays
      <4>3. \A u \in Tasks : OpenPull(u)' => OpenPull(u)
        BY <3>3, <4>1, <4>2 DEF OpenPull
      <4>4. OpenPull(t) => t \in commits
        BY <1>1 DEF Watch
      <4>. QED
        BY <1>1, <1>5, <2>1, <3>2, <3>3, <4>3, <4>4, WrapGoesOn DEF FoundNothing
    <3>. QED
      BY <3>4, <3>5
  <2>. QED
    BY <1>8, <2>1, <2>3, <2>4
<1>. QED
  BY <1>6, <1>9, <1>10, <1>11 DEF WrapsUp

LEMMA WriterWatch ==
  ASSUME Good, Watching, WriterApplies
  PROVE  Watching'
<1>1. /\ UNCHANGED <<kind, m, runs, finishing, mail, commits, pulls, hist>>
      /\ log' = Tail(log) /\ IsSeq(log) /\ Len(log) > 1
      /\ wrap' = [t \in Tasks |-> [wrap[t] EXCEPT !.wait = Less(@)]]
  BY DEF WriterApplies, Good, Stands, mirror, folder
<1>2. PICK l : l = log'
  OBVIOUS
<1>3. /\ Len(log) \in Nat /\ Len(l) = Len(log) - 1
      /\ \A i \in 1..Len(l) : i + 1 \in 1..Len(log) /\ l[i] = log[i + 1]
  <2>1. /\ Len(log) \in Nat /\ Len(l) = Len(log) - 1
        /\ \A i \in 1..Len(l) : l[i] = log[i + 1]
    BY <1>1, <1>2, TailAny
  <2>. QED
    BY <2>1
<1>4. ASSUME NEW t \in Tasks
      PROVE  Watch(t)'
  <2>1. Watch(t)
    BY DEF Watching
  <2>2. PICK k, v, w : k = kind[t] /\ v = wrap[t] /\ w = [v EXCEPT !.wait = Less(@)]
    OBVIOUS
  <2>3. wrap'[t] = w /\ WrapOK(v)
    BY <1>1, <2>1, <2>2 DEF Watch
  <2>4. /\ {"at", "deliver", "result", "wait"} \subseteq DOMAIN w /\ w.at = v.at /\ w.deliver = v.deliver
        /\ w.result = v.result /\ w.wait = Less(v.wait) /\ v.wait \in Nat
    BY <2>2, <2>3 DEF WrapOK
  <2>5. w.wait \in Nat /\ \A i \in Nat : i > w.wait => i + 1 > v.wait
    BY <2>4 DEF Less
  <2>6. WrapOK(w) /\ (AtWork(w) <=> AtWork(v)) /\ (AsksFlush(w) <=> AsksFlush(v))
        /\ (InFlight(w) <=> InFlight(v)) /\ (FoundNothing(w) <=> FoundNothing(v))
    BY <2>3, <2>4, <2>5 DEF WrapOK, AtWork, AsksFlush, InFlight, FoundNothing
  <2>7. OpenPull(t)' <=> OpenPull(t)
    BY <1>1 DEF OpenPull
  <2>8. OpenPull(t) \/ AtWork(v) => \A i \in 1..Len(l) : Tracked(l[i], t, k)
    BY <1>3, <2>1, <2>2 DEF Watch
  <2>9. AsksFlush(v) => \A i \in 1..Len(l) : i > w.wait => Tracked(l[i], t, k)
    <3>1. SUFFICES ASSUME AsksFlush(v), NEW i \in 1..Len(l), i > w.wait
                   PROVE  Tracked(l[i], t, k)
      OBVIOUS
    <3>2. i + 1 \in 1..Len(log) /\ i + 1 > v.wait
      BY <1>3, <2>5, <3>1
    <3>. QED
      BY <1>3, <2>1, <2>2, <3>1, <3>2 DEF Watch
  <2>. QED
    BY <1>1, <1>2, <2>1, <2>2, <2>3, <2>4, <2>6, <2>7, <2>8, <2>9 DEF Watch
<1>5. ASSUME NEW i \in 1..Len(log')
      PROVE  Rows(log'[i])
  BY <1>2, <1>3 DEF Watching
<1>. QED
  BY <1>1, <1>4, <1>5 DEF Watching, Rows, Has

(* What a restart saves differs from what it read in the lease's state. *)
Twin(x, y) ==
  /\ y.entry = x.entry /\ y.outcome = x.outcome /\ y.tasks = x.tasks
  /\ y.lease.task = x.lease.task

LEMMA TwinHolds ==
  ASSUME NEW x, NEW y, Twin(x, y)
  PROVE  /\ Rows(x) => Rows(y)
         /\ \A t, k : Tracked(x, t, k) => Tracked(y, t, k)
         /\ \A t : Has(x, t) <=> Has(y, t)
  BY DEF Twin, Rows, Has, Tracked, Lent

LEMMA TwinRestored ==
  ASSUME NEW x, Frame(x), NEW a, {"x", "w", "job"} \subseteq DOMAIN a, a.x = x, a.w = <<>>,
         NEW b, b = runner_checkout_restore(a)
  PROVE  /\ Twin(x, b.x) /\ IsSeq(b.w) /\ \A i \in 1..Len(b.w) : Twin(x, b.w[i])
         /\ b.runs = a.runs /\ b.finishing = a.finishing /\ b.wrap = a.wrap /\ b.mail = a.mail
<1>1. ASSUME NEW s, NEW c, c = runner_put_lease(a, s)
      PROVE  /\ Twin(x, c.x) /\ IsSeq(c.w) /\ \A i \in 1..Len(c.w) : Twin(x, c.w[i])
             /\ c.runs = a.runs /\ c.finishing = a.finishing /\ c.wrap = a.wrap /\ c.mail = a.mail
             /\ {"x", "w", "job"} \subseteq DOMAIN c
  <2>1. PICK y : y = [x EXCEPT !.lease.state = s]
    OBVIOUS
  <2>2. Twin(x, y)
    BY <2>1 DEF Frame, Twin
  <2>3. /\ c.x = y /\ c.w = Append(<<>>, y)
        /\ c.runs = a.runs /\ c.finishing = a.finishing /\ c.wrap = a.wrap /\ c.mail = a.mail
        /\ {"x", "w", "job"} \subseteq DOMAIN c
    BY <1>1, <2>1 DEF runner_put_lease, Save
  <2>4. PICK none : none = <<>>
    OBVIOUS
  <2>5. IsSeq(none) /\ Len(none) = 0
    BY <2>4 DEF IsSeq
  <2>6. c.w = Append(none, y)
    BY <2>3, <2>4
  <2>7. IsSeq(c.w) /\ Len(c.w) = 1 /\ c.w[1] = y
    <3>1. PICK n : n = Append(none, y)
      OBVIOUS
    <3>2. IsSeq(n) /\ Len(n) = Len(none) + 1 /\ n[Len(none) + 1] = y
      BY <2>5, <3>1, AppendAny
    <3>3. Len(n) = 1 /\ n[1] = y
      BY <2>5, <3>2
    <3>. QED
      BY <2>6, <3>1, <3>2, <3>3
  <2>. QED
    BY <2>2, <2>3, <2>7
<1>2. ASSUME NEW c, c = runner_give_back(a)
      PROVE  /\ Twin(x, c.x) /\ IsSeq(c.w) /\ \A i \in 1..Len(c.w) : Twin(x, c.w[i])
             /\ c.runs = a.runs /\ c.finishing = a.finishing /\ c.wrap = a.wrap /\ c.mail = a.mail
  <2>1. PICK d : d = runner_put_lease(a, "returning")
    OBVIOUS
  <2>2. /\ c.x = d.x /\ c.w = d.w
        /\ c.runs = d.runs /\ c.finishing = d.finishing /\ c.wrap = d.wrap /\ c.mail = d.mail
    BY <1>1, <1>2, <2>1 DEF runner_give_back
  <2>. QED
    BY <1>1, <2>1, <2>2
<1>3. Twin(x, x) /\ IsSeq(<<>>) /\ Len(<<>>) = 0
  BY DEF Twin, IsSeq
<1>4. b = a \/ b = runner_give_back(a) \/ b = runner_put_lease(a, "running")
  BY DEF runner_checkout_restore
<1>. QED
  BY <1>1, <1>2, <1>3, <1>4

LEMMA RestartWatch ==
  ASSUME Good, Watching, Restart
  PROVE  Watching'
<1>1. /\ Head(log) = log[1] /\ 1 \in 1..Len(log) /\ Frame(log[1]) /\ Rows(log[1])
      /\ kind' = kind /\ pulls' = pulls /\ commits' = commits /\ hist' = hist
  BY DEF Restart, Apart, folder, Good, Stands, Image, Watching
<1>2. PICK x : x = Loaded(Head(log))
  OBVIOUS
<1>3. Frame(x) /\ Twin(log[1], x)
  BY <1>1, <1>2 DEF Loaded, Frame, Twin
<1>4. PICK a : a = [x |-> x, w |-> <<>>, finishing |-> {}, forced |-> {}, block |-> FALSE,
                    runs |-> {t \in Tasks : Has(x, t) /\ x.outcome[t] \notin Final \cup {"none"}},
                    mail |-> [dispatch |-> FALSE, delete |-> {}],
                    job |-> NoJob, wrap |-> [t \in Tasks |-> NoWrap]]
  OBVIOUS
<1>5. PICK b : b = runner_checkout_restore(a)
  OBVIOUS
<1>6. Holds(b) /\ log' = <<x>> \o b.w
  BY <1>2, <1>4, <1>5 DEF Restart
<1>7. /\ Twin(x, b.x) /\ IsSeq(b.w) /\ \A i \in 1..Len(b.w) : Twin(x, b.w[i])
      /\ b.runs = a.runs /\ b.finishing = a.finishing /\ b.wrap = a.wrap /\ b.mail = a.mail
  <2>1. a.x = x /\ a.w = <<>> /\ {"x", "w", "job"} \subseteq DOMAIN a
    BY <1>4
  <2>. QED
    BY <1>3, <1>5, <2>1, TwinRestored
<1>8. PICK l, w, s : l = log' /\ w = b.w /\ s = <<x>>
  OBVIOUS
<1>9. IsSeq(s) /\ Len(s) = 1 /\ s[1] = x
  BY <1>8, <<x>> \in Seq({x}) DEF IsSeq
<1>10. \A i \in 1..Len(l) : \/ i \in 1..Len(s) /\ l[i] = s[i]
                            \/ i - Len(s) \in 1..Len(w) /\ l[i] = w[i - Len(s)]
  <2>1. l = s \o w /\ IsSeq(w)
    BY <1>6, <1>7, <1>8
  <2>. QED
    BY <1>9, <2>1, ConcatAny
<1>11. ASSUME NEW i \in 1..Len(l)
       PROVE  Twin(log[1], l[i])
  <2>1. Twin(x, l[i])
    <3>1. CASE i \in 1..Len(s) /\ l[i] = s[i]
      <4>1. i = 1
        BY <1>9, <3>1
      <4>. QED
        BY <1>9, <3>1, <4>1 DEF Twin
    <3>2. CASE i - Len(s) \in 1..Len(w) /\ l[i] = w[i - Len(s)]
      BY <1>7, <1>8, <3>2
    <3>. QED
      BY <1>10, <3>1, <3>2
  <2>. QED
    BY <1>3, <2>1 DEF Twin
<1>12. Twin(log[1], m') /\ Twin(x, m')
  BY <1>3, <1>6, <1>7 DEF Holds, Twin
<1>13. Rows(m') /\ (\A i \in 1..Len(log') : Rows(log'[i]))
  BY <1>1, <1>8, <1>11, <1>12, TwinHolds
<1>14. /\ wrap' = [t \in Tasks |-> NoWrap] /\ "delete" \in DOMAIN mail' /\ mail'.delete = {}
       /\ runs' = {t \in Tasks : Has(x, t) /\ x.outcome[t] \notin Final \cup {"none"}}
  BY <1>4, <1>6, <1>7 DEF Holds
<1>15. ASSUME NEW t \in Tasks
       PROVE  Watch(t)'
  <2>1. wrap'[t] = NoWrap
    BY <1>14
  <2>2. /\ WrapOK(wrap'[t]) /\ ~AtWork(wrap'[t]) /\ ~AsksFlush(wrap'[t]) /\ ~InFlight(wrap'[t])
        /\ ~FoundNothing(wrap'[t])
    BY <2>1 DEF NoWrap, WrapOK, AtWork, AsksFlush, InFlight, FoundNothing
  <2>3. CASE OpenPull(t)
    <3>1. kind[t].deliver /\ Tracked(log[1], t, kind[t]) /\ t \in commits
      BY <1>1, <2>3 DEF Watching, Watch
    <3>2. Tracked(m', t, kind[t]) /\ \A i \in 1..Len(log') : Tracked(log'[i], t, kind[t])
      BY <1>8, <1>11, <1>12, <3>1, TwinHolds
    <3>3. Mirrored(m', runs', t)
      BY <1>12, <1>14, TwinHolds DEF Mirrored, Final, Twin
    <3>. QED
      BY <1>1, <1>14, <2>2, <3>1, <3>2, <3>3 DEF Watch
  <2>4. CASE ~OpenPull(t)
    <3>1. ~OpenPull(t)'
      BY <1>1, <2>4 DEF OpenPull
    <3>. QED
      BY <1>14, <2>2, <3>1 DEF Watch
  <2>. QED
    BY <2>3, <2>4
<1>. QED
  BY <1>1, <1>13, <1>14, <1>15 DEF Watching

LEMMA InitWatch == Init => Watching
<1>. SUFFICES ASSUME Init
              PROVE  Watching
  OBVIOUS
<1>1. /\ \A t \in Tasks : wrap[t] = NoWrap /\ m.entry[t] = "none" /\ pulls[t] = "none"
      /\ DOMAIN wrap = Tasks /\ DOMAIN pulls = Tasks \cup UserBranches /\ mail.delete = {}
      /\ "delete" \in DOMAIN mail /\ {"lost", "strayed"} \subseteq DOMAIN hist
      /\ DOMAIN m.outcome = Tasks
  BY DEF Init
<1>2. Rows(m)
  BY <1>1 DEF Rows, Has
<1>3. Len(log) = 1 /\ log[1] = m
  BY DEF Init
<1>4. \A i \in 1..Len(log) : Rows(log[i])
  BY <1>2, <1>3
<1>5. ASSUME NEW t \in Tasks
      PROVE  Watch(t)
  <2>1. /\ WrapOK(wrap[t]) /\ ~AtWork(wrap[t]) /\ ~AsksFlush(wrap[t]) /\ ~InFlight(wrap[t])
        /\ ~FoundNothing(wrap[t])
    BY <1>1 DEF NoWrap, WrapOK, AtWork, AsksFlush, InFlight, FoundNothing
  <2>. QED
    BY <1>1, <2>1 DEF Watch, OpenPull
<1>. QED
  BY <1>1, <1>2, <1>4, <1>5 DEF Watching

LEMMA WatchNext ==
  ASSUME Good, Known, Watching, [Next]_vars
  PROVE  Watching'
<1>1. CASE UNCHANGED vars
  BY <1>1, RestWatch DEF vars, mirror, folder
<1>2. ASSUME NEW t \in Tasks, Commands(t)
      PROVE  Watching'
  BY <1>2, StartWatch, StopWatch, DeliverWatch, InspectedWatch, SwitchedWatch, WrapWatch,
     SettledWatch DEF Commands
<1>3. ASSUME NEW t \in Tasks, Asked(t)
      PROVE  Watching'
  <2>1. ASSUME NEW outcome \in {"success", "limit", "failed"}, PipelineEnds(t, outcome)
        PROVE  Watching'
    BY <2>1, StopWatch, DeliverWatch
  <2>. QED
    BY <1>3, <2>1, EnqueueWatch, StartWatch, DeleteWatch DEF Asked
<1>4. ASSUME NEW t \in Tasks, WrapsUp(t)
      PROVE  Watching'
  BY <1>4, DeliveryWatch
<1>5. ASSUME NEW t \in Tasks, Edits(t)
      PROVE  Watching'
  BY <1>5, RestWatch DEF Edits, mirror
<1>6. CASE LeaseJob \/ UsesFolder
  BY <1>6, RestWatch DEF LeaseJob, Inspects, Looks, Switches, GivesBack, UsesFolder, mirror, folder
<1>7. CASE OwnCommands \/ runner_stop \/ runner_checkout_retry
  BY <1>7, OwnWatch
<1>8. CASE WriterApplies \/ Restart
  BY <1>8, WriterWatch, RestartWatch
<1>9. ASSUME NEW b \in Tasks \cup UserBranches, PullCloses(b)
      PROVE  Watching'
  <2>1. PICK to \in {"merged", "closed"} : pulls' = [pulls EXCEPT ![b] = to]
    BY <1>9 DEF PullCloses
  <2>2. DOMAIN pulls' = DOMAIN pulls /\ \A t \in Tasks : pulls'[t] = "open" => pulls[t] = "open"
    BY <2>1 DEF Watching
  <2>. QED
    BY <1>9, <2>2, RestWatch DEF PullCloses, mirror, folder
<1>. QED
  BY <1>1, <1>2, <1>3, <1>4, <1>5, <1>6, <1>7, <1>8, <1>9 DEF Next

(* An open pull request of a task branch is never forgotten, however many  *)
(* tasks there are and whenever the daemon stops: its entry and attempt    *)
(* say delivering or delivered, or the task is gone, or a second delivery  *)
(* of it failed (runner_pipeline_finished, deliver::spawn, runner_sweep),  *)
(* or it was opened under it by the delivery of a task that was deleted    *)
(* while it was delivered from the project folder.                         *)
THEOREM PullsAreKnown == Spec => []OpenPullIsKnown
<1>1. Init => Good /\ Known /\ Watching
  BY InitGood, InitKnown, InitWatch
<1>2. Good /\ Known /\ Watching /\ [Next]_vars => (Good /\ Known /\ Watching)'
  BY NextGood, NextKnown, WatchNext
<1>3. Watching => OpenPullIsKnown
  BY DEF Watching, Watch, OpenPull, Tracked, OpenPullIsKnown
<1>. QED
  BY <1>1, <1>2, <1>3, PTL DEF Spec

-----------------------------------------------------------------------------
(* Types *)

(* A handler under way, and one whose every change is saved. *)
Mails == [dispatch : BOOLEAN, delete : SUBSET Tasks]
Actors == [x : Images, w : Seq(Images), runs : SUBSET Tasks, finishing : SUBSET Tasks,
           forced : SUBSET Tasks, block : BOOLEAN, mail : Mails, job : Jobs,
           wrap : [Tasks -> Wraps]]
Saved(a) == a.x = IF Len(a.w) = 0 THEN m ELSE a.w[Len(a.w)]
Typed(a) == a \in Actors /\ Saved(a)

LEMMA TypedNotes ==
  ASSUME NEW a, Typed(a), NEW b, b \in Actors, b.x = a.x, b.w = a.w
  PROVE  Typed(b)
  BY DEF Typed, Saved

LEMMA TypedSave ==
  ASSUME NEW a, a \in Actors, NEW x \in Images
  PROVE  Typed(Save(a, x)) /\ Save(a, x).x = x /\ Len(Save(a, x).w) # 0
<1>1. PICK w, b : w = Append(a.w, x) /\ b = Save(a, x)
  OBVIOUS
<1>2. a.w \in Seq(Images)
  BY DEF Actors
<1>3. w \in Seq(Images) /\ Len(w) = Len(a.w) + 1 /\ w[Len(w)] = x /\ Len(w) # 0
  BY <1>1, <1>2
<1>4. b = [a EXCEPT !.x = x, !.w = w]
  BY <1>1 DEF Save
<1>5. b \in Actors /\ b.x = x /\ b.w = w
  BY <1>3, <1>4 DEF Actors
<1>. QED
  BY <1>1, <1>3, <1>5 DEF Typed, Saved

LEMMA TypedLease ==
  ASSUME NEW a, a \in Actors, NEW s \in LeaseStates
  PROVE  Typed(runner_put_lease(a, s)) /\ Len(runner_put_lease(a, s).w) # 0
<1>1. a.x \in Images
  BY DEF Actors
<1>2. [a.x EXCEPT !.lease.state = s] \in Images
  BY <1>1 DEF Images, Leases
<1>. QED
  BY <1>2, TypedSave DEF runner_put_lease

LEMMA TypedDrop ==
  ASSUME NEW a, a \in Actors
  PROVE  Typed(runner_drop_lease(a))
<1>1. a.x \in Images /\ NoLease \in Leases
  BY DEF Actors, NoLease, Leases, LeaseStates
<1>2. [a.x EXCEPT !.lease = NoLease] \in Images
  BY <1>1 DEF Images
<1>. QED
  BY <1>2, TypedSave DEF runner_drop_lease

LEMMA WaitingJob ==
  ASSUME NEW at \in {"inspect", "return"}
  PROVE  Waiting(at) \in Jobs /\ NoJob \in Jobs
  BY DEF Waiting, NoJob, Jobs

LEMMA TypedGiveBack ==
  ASSUME NEW a, a \in Actors
  PROVE  Typed(runner_give_back(a)) /\ Len(runner_give_back(a).w) # 0
<1>1. PICK c : c = runner_put_lease(a, "returning")
  OBVIOUS
<1>2. Typed(c) /\ Len(c.w) # 0
  BY <1>1, TypedLease DEF LeaseStates
<1>3. PICK j : j = Waiting("return")
  OBVIOUS
<1>4. j \in Jobs
  BY <1>3, WaitingJob
<1>5. PICK b : b = [c EXCEPT !.job = j]
  OBVIOUS
<1>6. b \in Actors /\ b.x = c.x /\ b.w = c.w
  BY <1>2, <1>4, <1>5 DEF Typed, Actors
<1>. QED
  BY <1>1, <1>2, <1>3, <1>5, <1>6, TypedNotes DEF runner_give_back

LEMMA TypedEntry ==
  ASSUME NEW a, a \in Actors, NEW t \in Tasks, NEW e \in Entries
  PROVE  Typed(runner_put_entry(a, t, e))
<1>1. a.x \in Images
  BY DEF Actors
<1>2. PICK y : y = [a.x EXCEPT !.entry[t] = e]
  OBVIOUS
<1>3. y \in Images
  BY <1>1, <1>2 DEF Images
<1>4. PICK b : b = Save(a, y)
  OBVIOUS
<1>5. Typed(b)
  BY <1>3, <1>4, TypedSave
<1>6. Typed(runner_checkout_entry_left(b, t))
  BY <1>5, TypedGiveBack DEF runner_checkout_entry_left, Typed
<1>. QED
  BY <1>2, <1>4, <1>5, <1>6 DEF runner_put_entry

LEMMA TypedEnd ==
  ASSUME NEW a, Typed(a), NEW t \in Tasks
  PROVE  Typed(runner_end_entry(a, t))
  BY TypedEntry DEF runner_end_entry, Typed, Entries

LEMMA TypedRun ==
  ASSUME NEW a, a \in Actors, NEW t \in Tasks, NEW outcome \in Outcomes, NEW b,
         PutsOutcome(a, t, outcome, b)
  PROVE  Typed(b)
<1>0. PICK keep : b = runner_put_run(a, t, outcome, keep)
  BY DEF PutsOutcome
<1>1. a.x \in Images
  BY DEF Actors
<1>2. PICK y : y = [a.x EXCEPT !.outcome[t] = outcome]
  OBVIOUS
<1>3. y \in Images
  BY <1>1, <1>2 DEF Images
<1>4. PICK c : c = Save(a, y)
  OBVIOUS
<1>5. Typed(c)
  BY <1>3, <1>4, TypedSave
<1>6. PICK r : r = IF outcome \in Final /\ ~keep THEN c.runs \ {t} ELSE c.runs \cup {t}
  OBVIOUS
<1>7. r \in SUBSET Tasks
  BY <1>5, <1>6 DEF Typed, Actors
<1>8. b = [c EXCEPT !.runs = r]
  BY <1>0, <1>2, <1>4, <1>6 DEF runner_put_run
<1>9. b \in Actors /\ b.x = c.x /\ b.w = c.w
  BY <1>5, <1>7, <1>8 DEF Typed, Actors
<1>. QED
  BY <1>5, <1>9, TypedNotes

LEMMA TypedRedispatch ==
  ASSUME NEW a, Typed(a)
  PROVE  Typed(Redispatch(a))
<1>1. PICK b : b = [a EXCEPT !.mail.dispatch = TRUE]
  OBVIOUS
<1>2. b \in Actors /\ b.x = a.x /\ b.w = a.w
  BY <1>1 DEF Typed, Actors, Mails
<1>. QED
  BY <1>1, <1>2, TypedNotes DEF Redispatch

LEMMA TypedDiscard ==
  ASSUME NEW a, Typed(a), NEW t \in Tasks
  PROVE  Typed(runner_discard_queued(a, t))
<1>1. PICK c : c = runner_put_entry(a, t, "left")
  OBVIOUS
<1>2. Typed(c)
  BY <1>1, TypedEntry DEF Typed, Entries
<1>3. PICK b : b = [c EXCEPT !.mail.delete = @ \cup {t}]
  OBVIOUS
<1>4. b \in Actors /\ b.x = c.x /\ b.w = c.w
  BY <1>2, <1>3 DEF Typed, Actors, Mails
<1>. QED
  BY <1>1, <1>2, <1>3, <1>4, TypedNotes DEF runner_discard_queued

LEMMA AttemptEndsWell ==
  ASSUME NEW t, NEW outcome \in Ended
  PROVE  AttemptEnds(t, outcome) \in Outcomes
  BY DEF AttemptEnds, Ended, Outcomes, Final

LEMMA TypedFinished ==
  ASSUME Good, NEW a, a \in Actors, NEW t \in Tasks, NEW outcome \in Ended,
         Typed(a) \/ a.x.entry[t] = "running"
  PROVE  Typed(runner_pipeline_finished(a, t, outcome))
<1>1. CASE a.x.entry[t] # "running"
  BY <1>1 DEF runner_pipeline_finished
<1>2. CASE a.x.entry[t] = "running"
  <2>1. PICK delivers : delivers = (DeliversAfter(outcome) /\ Delivers(t) /\ Isolated(a.x, t))
    OBVIOUS
  <2>2. PICK e, o : /\ e = (IF delivers THEN "delivering" ELSE "left")
                    /\ o = (IF delivers THEN "delivering" ELSE AttemptEnds(t, outcome))
    OBVIOUS
  <2>3. e \in Entries /\ o \in Outcomes
    BY <2>2, AttemptEndsWell DEF Entries, Outcomes
  <2>4. PICK b, c : b = runner_put_entry(a, t, e) /\ c = runner_put_run(b, t, o, TRUE)
    OBVIOUS
  <2>5. Typed(b)
    BY <2>3, <2>4, TypedEntry
  <2>6. PutsOutcome(b, t, o, c)
    BY <2>4 DEF PutsOutcome
  <2>7. Typed(c)
    BY <2>3, <2>5, <2>6, TypedRun DEF Typed
  <2>8. PICK v : v = [NoWrap EXCEPT !.at = "flush", !.deliver = delivers, !.wait = Behind(c)]
    OBVIOUS
  <2>9. Behind(c) \in Nat
    <3>1. Len(log) \in Nat /\ Len(log) >= 1
      BY LenProperties DEF Good, Stands, IsSeq
    <3>2. c.w \in Seq(Images)
      BY <2>7 DEF Typed, Actors
    <3>3. Len(c.w) \in Nat
      BY <3>2
    <3>. QED
      BY <3>1, <3>3 DEF Behind
  <2>10. v \in Wraps
    <3>1. delivers \in BOOLEAN
      BY <2>1
    <3>2. NoWrap \in Wraps
      BY DEF NoWrap, Wraps
    <3>. QED
      BY <2>8, <2>9, <3>1, <3>2 DEF Wraps
  <2>11. PICK d : d = [c EXCEPT !.finishing = @ \cup {t}, !.wrap[t] = v]
    OBVIOUS
  <2>12. d \in Actors /\ d.x = c.x /\ d.w = c.w
    BY <2>7, <2>10, <2>11 DEF Typed, Actors
  <2>13. Typed(d)
    BY <2>7, <2>12, TypedNotes
  <2>14. runner_pipeline_finished(a, t, outcome) = Redispatch(IF t \in a.runs THEN d ELSE b)
    BY <1>2, <2>1, <2>2, <2>4, <2>8, <2>11 DEF runner_pipeline_finished
  <2>. QED
    BY <2>5, <2>13, <2>14, TypedRedispatch
<1>. QED
  BY <1>1, <1>2

LEMMA TypedDeleted ==
  ASSUME NEW a, Typed(a), NEW t \in Tasks
  PROVE  Typed(runner_task_deleted(a, t))
<1>1. PICK b : b = IF t \in a.runs /\ a.x.outcome[t] \notin Final
                   THEN runner_put_run(a, t, "deleted", t \in a.finishing) ELSE a
  OBVIOUS
<1>2. Typed(b)
  <2>1. b = a \/ PutsOutcome(a, t, "deleted", b)
    BY <1>1 DEF PutsOutcome
  <2>. QED
    BY <2>1, TypedRun DEF Typed, Outcomes, Final
<1>3. Typed(runner_put_entry(a, t, "left"))
  BY TypedEntry DEF Typed, Entries
<1>4. Typed(runner_end_entry(b, t))
  BY <1>2, TypedEnd
<1>5. runner_task_deleted(a, t) \in {a, Redispatch(runner_put_entry(a, t, "left")),
                                     Redispatch(runner_end_entry(b, t))}
  BY <1>1 DEF runner_task_deleted
<1>. QED
  BY <1>3, <1>4, <1>5, TypedRedispatch

LEMMA TypedPipe ==
  ASSUME NEW a, a \in Actors, NEW t \in Tasks, NEW pipe \in Pipes
  PROVE  [a.x EXCEPT !.pipe[t] = pipe] \in Images
<1>1. a.x \in Images
  BY DEF Actors
<1>. QED
  BY <1>1 DEF Images

LEMMA TypedFinalize ==
  ASSUME Good, NEW a, a \in Actors, NEW t \in Tasks, NEW outcome \in Ended
  PROVE  Typed(workflow_finalize(a, t, outcome))
<1>1. PICK b : b = Save(a, [a.x EXCEPT !.pipe[t] = outcome])
  OBVIOUS
<1>2. Typed(b)
  BY <1>1, TypedPipe, TypedSave DEF Pipes
<1>. QED
  BY <1>1, <1>2, TypedFinished DEF workflow_finalize, Typed

LEMMA TypedStart ==
  ASSUME NEW a, Typed(a), NEW t \in Tasks, NEW created \in Creations(t)
  PROVE  Typed(runner_start(a, t, created)) /\ Typed(runner_try_start(a, t, created))
<1>1. ASSUME created = "refused"
      PROVE  Typed(runner_start(a, t, created))
  <2>1. PICK b, c : b = runner_put_entry(a, t, "left") /\ c = runner_put_run(b, t, "failed", FALSE)
    OBVIOUS
  <2>2. Typed(b)
    BY <2>1, TypedEntry DEF Typed, Entries
  <2>3. PutsOutcome(b, t, "failed", c)
    BY <2>1 DEF PutsOutcome
  <2>4. Typed(c)
    BY <2>2, <2>3, TypedRun DEF Typed, Outcomes, Final
  <2>. QED
    BY <1>1, <2>1, <2>4 DEF runner_start
<1>2. ASSUME created # "refused"
      PROVE  Typed(runner_start(a, t, created))
  <2>1. created \in Pipes
    BY <1>2 DEF Creations, Pipes, Ended
  <2>2. PICK y : y = [a.x EXCEPT !.pipe[t] = created]
    OBVIOUS
  <2>3. y \in Images
    BY <2>1, <2>2, TypedPipe DEF Typed
  <2>4. PICK s : s = [a EXCEPT !.x = y]
    OBVIOUS
  <2>5. s \in Actors
    BY <2>3, <2>4 DEF Typed, Actors
  <2>6. PICK b : b = IF created = "checkout" THEN s ELSE Save(a, y)
    OBVIOUS
  <2>7. b \in Actors
    BY <2>3, <2>5, <2>6, TypedSave DEF Typed
  <2>8. PICK c, d : c = runner_put_entry(b, t, "running") /\ d = runner_put_run(c, t, "running", FALSE)
    OBVIOUS
  <2>9. Typed(c)
    BY <2>7, <2>8, TypedEntry DEF Entries
  <2>10. PutsOutcome(c, t, "running", d)
    BY <2>8 DEF PutsOutcome
  <2>11. Typed(d)
    BY <2>9, <2>10, TypedRun DEF Typed, Outcomes
  <2>. QED
    BY <1>2, <2>2, <2>4, <2>6, <2>8, <2>11 DEF runner_start
<1>3. Typed(runner_checkout_begin(a, t))
  <2>1. PICK y, j : /\ y = [a.x EXCEPT !.lease = [task |-> t, state |-> "preparing", back |-> "none"]]
                    /\ j = Waiting("inspect")
    OBVIOUS
  <2>2. a.x \in Images /\ [task |-> t, state |-> "preparing", back |-> "none"] \in Leases
    BY DEF Typed, Actors, Leases, LeaseStates
  <2>3. y \in Images /\ j \in Jobs
    BY <2>1, <2>2, WaitingJob DEF Images
  <2>4. PICK b, c : b = Save(a, y) /\ c = [b EXCEPT !.job = j]
    OBVIOUS
  <2>5. Typed(b)
    BY <2>3, <2>4, TypedSave DEF Typed
  <2>6. c \in Actors /\ c.x = b.x /\ c.w = b.w
    BY <2>3, <2>4, <2>5 DEF Typed, Actors
  <2>. QED
    BY <2>1, <2>4, <2>5, <2>6, TypedNotes DEF runner_checkout_begin
<1>. QED
  BY <1>1, <1>2, <1>3 DEF runner_try_start

LEMMA TypedSweep ==
  ASSUME Good, NEW a, Typed(a), NEW t \in Tasks
  PROVE  Typed(runner_sweep(a, t))
<1>1. PICK c : c = [a EXCEPT !.x.entry[t] = "running"]
  OBVIOUS
<1>2. c \in Actors /\ c.x.entry[t] = "running"
  <2>1. a.x \in Images
    BY DEF Typed, Actors
  <2>2. PICK y : y = [a.x EXCEPT !.entry[t] = "running"]
    OBVIOUS
  <2>3. y \in Images /\ y.entry[t] = "running"
    BY <2>1, <2>2 DEF Images, Entries
  <2>4. c = [a EXCEPT !.x = y]
    BY <1>1, <2>2
  <2>. QED
    BY <2>3, <2>4 DEF Typed, Actors
<1>3. Typed(runner_pipeline_finished(c, t, "success"))
  BY <1>2, TypedFinished DEF Ended
<1>4. ASSUME a.x.pipe[t] \in Ended
      PROVE  Typed(runner_pipeline_finished(a, t, a.x.pipe[t]))
  BY <1>4, TypedFinished DEF Typed
<1>. QED
  BY <1>1, <1>3, <1>4, TypedDeleted DEF runner_sweep

(* What TypeOK says of the actor's own state, and of the rest. *)
ActorTypes ==
  /\ m \in Images /\ log \in Seq(Images) /\ Last(log) = m
  /\ runs \subseteq Tasks /\ finishing \subseteq Tasks /\ forced \subseteq Tasks
  /\ block \in BOOLEAN /\ mail \in Mails /\ job \in Jobs /\ wrap \in [Tasks -> Wraps]
Pcs == [at : {"idle", "sweep", "stop", "dispatch", "ask"}, left : SUBSET Tasks,
        then : {"idle", "dispatch"}]
FolderTypes ==
  /\ kind \in [Tasks -> [folder : BOOLEAN, deliver : BOOLEAN]]
  /\ head \in UserBranches \cup Tasks /\ dirty \in BOOLEAN /\ commits \subseteq Tasks
  /\ pulls \in [Tasks \cup UserBranches -> {"none", "open", "merged", "closed"}]
  /\ pushed \subseteq Tasks \cup UserBranches
Histories == [byHand : SUBSET Tasks, lost : SUBSET Tasks, strayed : SUBSET (Tasks \cup UserBranches)]
OtherTypes ==
  /\ pc \in Pcs /\ used \in 0..MaxEvents
  /\ hist \in Histories

LEMMA TypesSplit == TypeOK <=> ActorTypes /\ FolderTypes /\ OtherTypes
  BY DEF TypeOK, ActorTypes, FolderTypes, OtherTypes, Mails, Pcs, Histories

LEMMA TypesSplitNext == TypeOK' <=> ActorTypes' /\ FolderTypes' /\ OtherTypes'
  BY DEF TypeOK, ActorTypes, FolderTypes, OtherTypes, Mails, Pcs, Histories

LEMMA HereTyped ==
  ASSUME TypeOK
  PROVE  Typed(Here) /\ Here.x = m /\ Here.w = <<>>
<1>1. PICK a : a = Here
  OBVIOUS
<1>2. <<>> \in Seq(Images) /\ Len(<<>>) = 0
  OBVIOUS
<1>3. a \in Actors /\ a.x = m /\ a.w = <<>>
  BY <1>1, <1>2 DEF TypeOK, Here, Actors, Mails
<1>. QED
  BY <1>1, <1>2, <1>3 DEF Typed, Saved

LEMMA LastJoined ==
  ASSUME NEW S, NEW l \in Seq(S), Len(l) >= 1, NEW w \in Seq(S)
  PROVE  l \o w \in Seq(S)
         /\ Last(l \o w) = IF Len(w) = 0 THEN Last(l) ELSE w[Len(w)]
<1>1. PICK n : n = l \o w
  OBVIOUS
<1>2. /\ n \in Seq(S) /\ Len(n) = Len(l) + Len(w) /\ Len(l) \in Nat /\ Len(w) \in Nat
      /\ \A i \in 1..Len(n) : n[i] = IF i <= Len(l) THEN l[i] ELSE w[i - Len(l)]
  BY <1>1, ConcatProperties
<1>3. Len(n) \in 1..Len(n)
  BY <1>2
<1>4. Last(n) = IF Len(w) = 0 THEN Last(l) ELSE w[Len(w)]
  BY <1>2, <1>3 DEF Last
<1>. QED
  BY <1>1, <1>2, <1>4

LEMMA BecomesTyped ==
  ASSUME Good, TypeOK, NEW a, Typed(a), Becomes(a)
  PROVE  ActorTypes'
<1>1. /\ log \in Seq(Images) /\ a.w \in Seq(Images) /\ Last(log) = m /\ Len(log) >= 1
      /\ log' = log \o a.w /\ m' = a.x /\ a.x \in Images
  BY DEF TypeOK, Typed, Actors, Becomes, Holds, Good, Stands
<1>2. log' \in Seq(Images) /\ Last(log') = m'
  BY <1>1, LastJoined DEF Typed, Saved
<1>. QED
  BY <1>1, <1>2 DEF Typed, Actors, ActorTypes, Becomes, Holds

(* A handler that leaves the folder and GitHub alone. *)
LEMMA ApartTyped ==
  ASSUME Good, TypeOK, NEW a, Typed(a), Becomes(a), Apart, pc' \in Pcs,
         used' = used \/ Person, hist' = hist \/ \E t \in Tasks : hist' = [hist EXCEPT !.byHand = @ \cup {t}]
  PROVE  TypeOK'
<1>1. ActorTypes' /\ FolderTypes'
  BY BecomesTyped DEF Apart, folder, TypeOK, FolderTypes
<1>2. used' \in 0..MaxEvents
  BY FactoryAssumption DEF TypeOK, Person, FactoryAssumption
<1>3. hist' \in Histories
  BY DEF TypeOK, Histories
<1>. QED
  BY <1>1, <1>2, <1>3, TypesSplitNext DEF OtherTypes

LEMMA DoesTyped ==
  ASSUME NEW left \in SUBSET Tasks
  PROVE  /\ \A s \in {"idle", "sweep", "stop", "dispatch", "ask"}, n \in {"idle", "dispatch"} :
              Does(s, left, n) => pc' \in Pcs
         /\ TypeOK /\ pc' = pc => pc' \in Pcs
         /\ TypeOK /\ Dispatches => pc' \in Pcs
  BY DEF Does, Dispatches, Pcs, TypeOK

LEMMA HandlerTypes ==
  ASSUME Good, TypeOK, NEW t \in Tasks,
         \/ DispatchStarts(t) \/ DispatchDiscards(t) \/ StopsOne(t) \/ SweepsOne(t)
         \/ CheckoutLands(t) \/ runner_dequeue(t)
         \/ \E outcome \in {"success", "limit", "failed"} : PipelineEnds(t, outcome)
  PROVE  TypeOK'
<1>1. Typed(Here) /\ Here \in Actors /\ Here.x = m
  BY HereTyped DEF Typed
<1>2. CASE DispatchStarts(t)
  BY <1>1, <1>2, TypedStart, ApartTyped DEF DispatchStarts, Quietly, Pcs, TypeOK
<1>3. CASE DispatchDiscards(t)
  BY <1>1, <1>3, TypedDiscard, ApartTyped DEF DispatchDiscards, Quietly, Pcs, TypeOK
<1>4. CASE StopsOne(t)
  <2>1. pc' \in Pcs
    <3>1. pc \in Pcs
      BY DEF Pcs, TypeOK
    <3>. QED
      BY <1>4, <3>1 DEF StopsOne, Pcs
  <2>2. Typed(runner_discard_queued(Here, t)) /\ Typed(workflow_finalize(Here, t, "stopped"))
    BY <1>1, TypedDiscard, TypedFinalize DEF Ended
  <2>. QED
    BY <1>1, <1>4, <2>1, <2>2, ApartTyped DEF StopsOne, Quietly
<1>5. CASE SweepsOne(t)
  <2>1. pc' \in Pcs
    <3>1. pc \in Pcs
      BY DEF Pcs, TypeOK
    <3>2. pc.then \in {"idle", "dispatch"}
      BY <3>1 DEF Pcs
    <3>. QED
      BY <1>5, <3>1, <3>2 DEF SweepsOne, Pcs
  <2>. QED
    BY <1>1, <1>5, <2>1, TypedSweep, ApartTyped DEF SweepsOne, Quietly
<1>6. CASE CheckoutLands(t)
  <2>1. Typed(Save(Here, [m EXCEPT !.pipe[t] = "active"]))
    BY <1>1, TypedPipe, TypedSave DEF Pipes
  <2>2. Typed(workflow_finalize(Here, t, "failed"))
    BY <1>1, TypedFinalize DEF Ended
  <2>. QED
    BY <1>6, <2>1, <2>2, ApartTyped DEF CheckoutLands, Quietly, Pcs, TypeOK
<1>7. CASE runner_dequeue(t)
  BY <1>1, <1>7, TypedDiscard, ApartTyped DEF runner_dequeue, Pcs, TypeOK
<1>8. ASSUME NEW outcome \in {"success", "limit", "failed"}, PipelineEnds(t, outcome)
      PROVE  TypeOK'
  <2>1. Typed(workflow_finalize(Here, t, outcome))
    BY <1>1, TypedFinalize DEF Ended
  <2>. QED
    BY <1>8, <2>1, ApartTyped DEF PipelineEnds, Quietly, Pcs, TypeOK
<1>. QED
  BY <1>2, <1>3, <1>4, <1>5, <1>6, <1>7, <1>8

LEMMA StartNowTypes ==
  ASSUME Good, TypeOK, NEW t \in Tasks, runner_start_now(t)
  PROVE  TypeOK'
<1>1. Typed(Here) /\ Here \in Actors /\ Here.x = m
  BY HereTyped DEF Typed
<1>2. PICK a, b : /\ a = [Here EXCEPT !.block = FALSE]
                  /\ b = IF Leased(t) THEN [a EXCEPT !.forced = @ \cup {t}] ELSE a
  OBVIOUS
<1>3. Typed(a) /\ Typed(b)
  <2>1. a \in Actors /\ a.x = Here.x /\ a.w = Here.w
    BY <1>1, <1>2 DEF Actors
  <2>2. b \in Actors /\ b.x = Here.x /\ b.w = Here.w
    BY <1>2, <2>1 DEF Actors
  <2>. QED
    BY <1>1, <2>1, <2>2, TypedNotes
<1>4. pc' \in Pcs
  BY DEF runner_start_now, Dispatches, Does, Pcs
<1>5. Person /\ Apart
  BY DEF runner_start_now
<1>6. \/ \E created \in Creations(t) :
           Becomes(runner_try_start(b, t, created)) /\ hist' = [hist EXCEPT !.byHand = @ \cup {t}]
      \/ Becomes(a) /\ hist' = hist
  BY <1>2 DEF runner_start_now
<1>. QED
  BY <1>3, <1>4, <1>5, <1>6, TypedStart, ApartTyped

LEMMA OwnTypes ==
  ASSUME Good, TypeOK, OwnCommands \/ runner_stop \/ runner_checkout_retry
  PROVE  TypeOK'
<1>1. Typed(Here) /\ Here \in Actors /\ Here.x = m
  BY HereTyped DEF Typed
<1>2. pc \in Pcs
  BY DEF Pcs, TypeOK
<1>3. PICK u, f, n : /\ u = [Here EXCEPT !.mail.dispatch = FALSE] /\ f = [Here EXCEPT !.block = FALSE]
                     /\ n = [Here EXCEPT !.job = NoJob]
  OBVIOUS
<1>4. Typed(u) /\ Typed(f) /\ Typed(n)
  <2>1. /\ u \in Actors /\ u.x = Here.x /\ u.w = Here.w
        /\ f \in Actors /\ f.x = Here.x /\ f.w = Here.w
    BY <1>1, <1>3 DEF Actors, Mails
  <2>2. n \in Actors /\ n.x = Here.x /\ n.w = Here.w
    BY <1>1, <1>3, WaitingJob DEF Actors
  <2>. QED
    BY <1>1, <2>1, <2>2, TypedNotes
<1>5. CASE HandleDispatch
  BY <1>3, <1>4, <1>5, ApartTyped DEF HandleDispatch, Dispatches, Does, Pcs, Quietly
<1>6. CASE DispatchEnds \/ RowIsGone
  BY <1>1, <1>6, ApartTyped DEF DispatchEnds, RowIsGone, Does, Pcs, Quietly
<1>7. CASE NothingToStop
  <2>1. pc' \in Pcs
    BY <1>2, <1>7 DEF NothingToStop, Pcs
  <2>. QED
    BY <1>1, <1>7, <2>1, ApartTyped DEF NothingToStop, Quietly
<1>8. CASE Tick
  <2>1. pc' \in Pcs
    BY <1>8 DEF Tick, Does, Pcs
  <2>. QED
    BY <1>3, <1>4, <1>8, <2>1, ApartTyped DEF Tick, Quietly
<1>9. CASE runner_checkout_returned
  <2>1. pc' \in Pcs
    BY <1>2, <1>9 DEF runner_checkout_returned, Dispatches, Does, Pcs
  <2>2. Typed(runner_drop_lease(n)) /\ Typed(runner_put_lease(n, "held"))
    BY <1>4, TypedDrop, TypedLease DEF Typed, LeaseStates
  <2>. QED
    BY <1>3, <1>9, <2>1, <2>2, ApartTyped DEF runner_checkout_returned, Quietly
<1>10. CASE runner_stop
  <2>1. pc' \in Pcs
    BY <1>10 DEF runner_stop, Does, Pcs
  <2>. QED
    BY <1>1, <1>10, <2>1, ApartTyped DEF runner_stop
<1>11. CASE runner_checkout_retry
  <2>1. Typed(runner_give_back(f))
    BY <1>4, TypedGiveBack DEF Typed
  <2>. QED
    BY <1>2, <1>3, <1>4, <1>11, <2>1, ApartTyped DEF runner_checkout_retry, Quietly
<1>. QED
  BY <1>5, <1>6, <1>7, <1>8, <1>9, <1>10, <1>11 DEF OwnCommands

LEMMA EnqueueTypes ==
  ASSUME Good, TypeOK, NEW t \in Tasks, Enqueue(t)
  PROVE  TypeOK'
<1>1. Typed(Here) /\ Here \in Actors /\ m \in Images
  BY HereTyped DEF Typed, TypeOK
<1>2. PICK a, b, c : /\ a = Save(Here, [m EXCEPT !.tasks = @ \cup {t}])
                     /\ b = runner_put_entry(a, t, "queued") /\ c = [b EXCEPT !.block = FALSE]
  OBVIOUS
<1>3. Typed(a)
  <2>1. [m EXCEPT !.tasks = @ \cup {t}] \in Images
    BY <1>1 DEF Images
  <2>. QED
    BY <1>1, <1>2, <2>1, TypedSave
<1>4. Typed(b)
  BY <1>2, <1>3, TypedEntry DEF Typed, Entries
<1>5. Typed(c)
  <2>1. c \in Actors /\ c.x = b.x /\ c.w = b.w
    BY <1>2, <1>4 DEF Typed, Actors
  <2>. QED
    BY <1>4, <2>1, TypedNotes
<1>6. ActorTypes'
  BY <1>2, <1>5, BecomesTyped DEF Enqueue
<1>7. PICK k \in Kinds : kind' = [kind EXCEPT ![t] = k]
  BY DEF Enqueue
<1>8. FolderTypes' /\ OtherTypes'
  <2>1. kind' \in [Tasks -> [folder : BOOLEAN, deliver : BOOLEAN]]
    BY <1>7, FactoryAssumption DEF TypeOK, FactoryAssumption
  <2>2. pc' \in Pcs
    BY DEF Enqueue, Dispatches, Does, Pcs
  <2>. QED
    BY <2>1, <2>2 DEF Enqueue, Quietly, folder, TypeOK, FolderTypes, OtherTypes, Histories
<1>. QED
  BY <1>6, <1>8, TypesSplitNext

LEMMA DeleteTypes ==
  ASSUME Good, TypeOK, NEW t \in Tasks, DeleteTask(t)
  PROVE  TypeOK'
<1>1. Typed(Here) /\ Here \in Actors
  BY HereTyped DEF Typed
<1>2. PICK a : a = IF Running(m, t) THEN workflow_finalize(Here, t, "stopped") ELSE Here
  OBVIOUS
<1>3. Typed(a)
  BY <1>1, <1>2, TypedFinalize DEF Ended
<1>4. PICK b : b = IF m.pipe[t] = "none" THEN a ELSE Save(a, [a.x EXCEPT !.pipe[t] = "none"])
  OBVIOUS
<1>5. Typed(b)
  BY <1>3, <1>4, TypedPipe, TypedSave DEF Typed, Pipes
<1>6. PICK c : c = runner_task_deleted(b, t)
  OBVIOUS
<1>7. Typed(c)
  BY <1>5, <1>6, TypedDeleted
<1>8. PICK d, e : /\ d = Save(c, [c.x EXCEPT !.tasks = @ \ {t}])
                  /\ e = [d EXCEPT !.mail.delete = @ \ {t}]
  OBVIOUS
<1>9. Typed(d)
  <2>1. c.x \in Images
    BY <1>7 DEF Typed, Actors
  <2>2. [c.x EXCEPT !.tasks = @ \ {t}] \in Images
    BY <2>1 DEF Images
  <2>. QED
    BY <1>7, <1>8, <2>2, TypedSave DEF Typed
<1>10. Typed(e)
  <2>1. e \in Actors /\ e.x = d.x /\ e.w = d.w
    BY <1>8, <1>9 DEF Typed, Actors, Mails
  <2>. QED
    BY <1>9, <2>1, TypedNotes
<1>11. Becomes(e) /\ Apart /\ hist' = hist
  BY <1>2, <1>4, <1>6, <1>8 DEF DeleteTask
<1>12. pc' \in Pcs /\ (used' = used \/ Person)
  BY DEF DeleteTask, Does, Pcs
<1>. QED
  BY <1>10, <1>11, <1>12, ApartTyped

(* The reports of the lease's git task. *)
LEMMA LeaseTypes ==
  ASSUME Good, TypeOK, NEW t \in Tasks,
         runner_checkout_inspected(t) \/ runner_checkout_switched(t)
  PROVE  TypeOK'
<1>1. Typed(Here) /\ Here \in Actors /\ Here.x = m /\ m \in Images /\ job \in Jobs /\ pc \in Pcs
  BY HereTyped DEF Typed, TypeOK, Pcs
<1>2. ASSUME NEW a, a \in Actors
      PROVE  Typed(runner_checkout_refused(a, t))
  <2>1. PICK b, c : /\ b = runner_drop_lease(a)
                    /\ c = [b EXCEPT !.forced = @ \ {t}, !.block = TRUE, !.job = NoJob]
    OBVIOUS
  <2>2. Typed(b)
    BY <1>2, <2>1, TypedDrop
  <2>3. c \in Actors /\ c.x = b.x /\ c.w = b.w
    BY <2>1, <2>2, WaitingJob DEF Typed, Actors
  <2>. QED
    BY <2>1, <2>2, <2>3, TypedNotes DEF runner_checkout_refused
<1>3. CASE runner_checkout_inspected(t)
  <2>1. pc' \in Pcs /\ Apart /\ Quietly
    BY <1>1, <1>3 DEF runner_checkout_inspected, Dispatches, Does, Pcs
  <2>2. PICK d, e : d = runner_drop_lease(Here) /\ e = [d EXCEPT !.job = NoJob]
    OBVIOUS
  <2>3. Typed(e)
    <3>1. Typed(d)
      BY <1>1, <2>2, TypedDrop
    <3>2. e \in Actors /\ e.x = d.x /\ e.w = d.w
      BY <2>2, <3>1, WaitingJob DEF Typed, Actors
    <3>. QED
      BY <3>1, <3>2, TypedNotes
  <2>4. PICK y, a, b : /\ y = [m EXCEPT !.lease.back = job.point] /\ a = Save(Here, y)
                       /\ b = [a EXCEPT !.job.at = "flush", !.job.wait = Behind(a)]
    OBVIOUS
  <2>5. Typed(b)
    <3>1. y \in Images
      BY <1>1, <2>4 DEF Images, Leases, Jobs
    <3>2. Typed(a)
      BY <1>1, <2>4, <3>1, TypedSave
    <3>3. Behind(a) \in Nat
      <4>1. Len(log) \in Nat /\ Len(log) >= 1
        BY LenProperties DEF Good, Stands, IsSeq
      <4>2. a.w \in Seq(Images)
        BY <3>2 DEF Typed, Actors
      <4>3. Len(a.w) \in Nat
        BY <4>2
      <4>. QED
        BY <4>1, <4>3 DEF Behind
    <3>4. a.job \in Jobs
      BY <3>2 DEF Typed, Actors
    <3>5. PICK j : j = [a.job EXCEPT !.at = "flush", !.wait = Behind(a)]
      OBVIOUS
    <3>6. j \in Jobs /\ b = [a EXCEPT !.job = j]
      BY <2>4, <3>2, <3>3, <3>4, <3>5 DEF Jobs, Typed, Actors
    <3>7. b \in Actors /\ b.x = a.x /\ b.w = a.w
      BY <3>2, <3>6 DEF Typed, Actors
    <3>. QED
      BY <3>2, <3>7, TypedNotes
  <2>6. Becomes(runner_checkout_refused(Here, t)) \/ Becomes(e) \/ Becomes(b)
    BY <1>3, <2>2, <2>4 DEF runner_checkout_inspected
  <2>. QED
    BY <1>1, <1>2, <2>1, <2>3, <2>5, <2>6, ApartTyped DEF Quietly
<1>4. CASE runner_checkout_switched(t)
  <2>1. pc' \in Pcs /\ Apart /\ Quietly
    BY <1>4 DEF runner_checkout_switched, Dispatches, Does, Pcs
  <2>2. PICK a : a = [Here EXCEPT !.forced = @ \ {t}, !.job = NoJob]
    OBVIOUS
  <2>3. Typed(a) /\ a \in Actors
    <3>1. a \in Actors /\ a.x = Here.x /\ a.w = Here.w
      BY <1>1, <2>2, WaitingJob DEF Actors
    <3>. QED
      BY <1>1, <3>1, TypedNotes
  <2>4. ASSUME NEW created \in Creations(t), NEW b, b = runner_start(a, t, created)
        PROVE  Typed(IF b.x.entry[t] = "running" THEN runner_put_lease(b, "running")
                     ELSE runner_give_back(b))
    <3>1. b \in Actors
      BY <2>3, <2>4, TypedStart DEF Typed
    <3>. QED
      BY <3>1, TypedLease, TypedGiveBack DEF LeaseStates
  <2>5. Typed(runner_give_back(a)) /\ Typed(runner_give_back(runner_discard_queued(a, t)))
    BY <2>3, TypedDiscard, TypedGiveBack DEF Typed
  <2>6. \/ Becomes(runner_checkout_refused(a, t))
        \/ \E created \in Creations(t) :
             LET b == runner_start(a, t, created)
             IN Becomes(IF b.x.entry[t] = "running" THEN runner_put_lease(b, "running")
                        ELSE runner_give_back(b))
        \/ Becomes(runner_give_back(a)) \/ Becomes(runner_give_back(runner_discard_queued(a, t)))
    BY <1>4, <2>2 DEF runner_checkout_switched
  <2>7. PICK e : Becomes(e) /\ Typed(e)
    BY <1>2, <2>3, <2>4, <2>5, <2>6
  <2>. QED
    BY <2>1, <2>7, ApartTyped DEF Quietly
<1>. QED
  BY <1>3, <1>4

(* Git's own steps, the agents' and the person's: a lease whose folder is  *)
(* switched has a task.                                                    *)
LEMMA GitTypes ==
  ASSUME Good, Known, TypeOK,
         LeaseJob \/ UsesFolder \/ \E t \in Tasks : Edits(t)
  PROVE  TypeOK'
<1>1. /\ job \in Jobs /\ m \in Images /\ head \in UserBranches \cup Tasks /\ dirty \in BOOLEAN
      /\ used \in 0..MaxEvents
  BY DEF TypeOK
<1>2. UNCHANGED <<kind, m, log, runs, finishing, forced, block, mail, pc, wrap, pushed, pulls, hist>>
  BY DEF LeaseJob, Inspects, Looks, Switches, GivesBack, UsesFolder, Edits, mirror, folder
<1>3. /\ job' \in Jobs /\ head' \in UserBranches \cup Tasks /\ dirty' \in BOOLEAN
      /\ commits' = commits /\ used' \in 0..MaxEvents
  <2>1. CASE Inspects
    BY <1>1, <2>1 DEF Inspects, Jobs, folder
  <2>2. CASE Looks
    BY <1>1, <2>2 DEF Looks, Jobs, folder
  <2>3. CASE Switches
    <3>1. m.lease.state = "preparing"
      BY <2>3 DEF Switches, Known, Returnable, InStep, Prep
    <3>2. m.lease.task \in Tasks
      BY <1>1, <3>1 DEF Good, Stands, Settled, Image, LeaseOK, Images, Leases
    <3>. QED
      BY <1>1, <2>3, <3>2 DEF Switches, Jobs
  <2>4. CASE GivesBack
    BY <1>1, <2>4 DEF GivesBack, Jobs, Images, Leases
  <2>5. CASE UsesFolder
    <3>1. used' \in 0..MaxEvents
      BY <1>1, <2>5, FactoryAssumption DEF UsesFolder, Person, FactoryAssumption
    <3>2. job' = job /\ commits' = commits
      BY <2>5 DEF UsesFolder
    <3>3. (head' \in UserBranches /\ dirty' = dirty) \/ (dirty' = ~dirty /\ head' = head)
      BY <2>5 DEF UsesFolder
    <3>. QED
      BY <1>1, <3>1, <3>2, <3>3
  <2>6. CASE \E t \in Tasks : Edits(t)
    BY <1>1, <2>6 DEF Edits
  <2>. QED
    BY <2>1, <2>2, <2>3, <2>4, <2>5, <2>6 DEF LeaseJob
<1>. QED
  BY <1>2, <1>3 DEF TypeOK

LEMMA WrapTypes ==
  ASSUME TypeOK, NEW t \in Tasks, WrapsUp(t)
  PROVE  TypeOK'
<1>1. /\ wrap \in [Tasks -> Wraps] /\ dirty \in BOOLEAN /\ commits \subseteq Tasks
      /\ pulls \in [Tasks \cup UserBranches -> {"none", "open", "merged", "closed"}]
      /\ pushed \subseteq Tasks \cup UserBranches
      /\ Branch(t) \in Tasks \cup UserBranches /\ hist \in Histories
  BY DEF TypeOK, Branch, Histories
<1>2. UNCHANGED <<kind, m, log, runs, finishing, forced, block, mail, pc, job, head, used>>
  BY DEF WrapsUp, CostRead, Commits, Pushes, OpensPull, WrapStep, mirror
<1>3. wrap' \in [Tasks -> Wraps]
  <2>1. \/ \E to \in {"commit", "push", "open"} : WrapGoes(t, to)
        \/ \E result \in {"none", "opened", "noChanges", "failed"} : WrapTells(t, result)
    BY DEF WrapsUp, CostRead, Commits, Pushes, OpensPull
  <2>. QED
    BY <1>1, <2>1 DEF WrapGoes, WrapTells, Wraps
<1>4. /\ dirty' \in BOOLEAN /\ commits' \subseteq Tasks
      /\ pulls' \in [Tasks \cup UserBranches -> {"none", "open", "merged", "closed"}]
      /\ pushed' \subseteq Tasks \cup UserBranches
  <2>1. CASE CostRead(t)
    BY <1>1, <2>1 DEF CostRead
  <2>2. CASE Commits(t)
    BY <1>1, <2>2 DEF Commits
  <2>3. CASE Pushes(t)
    BY <1>1, <2>3 DEF Pushes
  <2>4. CASE OpensPull(t)
    BY <1>1, <2>4 DEF OpensPull
  <2>. QED
    BY <2>1, <2>2, <2>3, <2>4 DEF WrapsUp
<1>5. hist' \in Histories
  <2>1. Strays(t) \in SUBSET (Tasks \cup UserBranches)
    BY <1>1 DEF Strays, Histories
  <2>2. hist' = hist \/ hist' = [hist EXCEPT !.strayed = Strays(t)]
    BY DEF WrapsUp, CostRead, Commits, Pushes, OpensPull
  <2>. QED
    BY <1>1, <2>1, <2>2 DEF Histories
<1>. QED
  BY <1>2, <1>3, <1>4, <1>5 DEF TypeOK, Histories

LEMMA FinishTypes ==
  ASSUME Good, TypeOK, NEW t \in Tasks, runner_finished(t)
  PROVE  TypeOK'
<1>1. Typed(Here) /\ Here \in Actors /\ Here.x = m /\ m \in Images /\ pc \in Pcs
  BY HereTyped DEF Typed, TypeOK, Pcs
<1>2. PICK a : a = [Here EXCEPT !.finishing = @ \ {t}, !.wrap[t] = NoWrap]
  OBVIOUS
<1>3. Typed(a) /\ a \in Actors
  <2>1. NoWrap \in Wraps
    BY DEF NoWrap, Wraps
  <2>2. a \in Actors /\ a.x = Here.x /\ a.w = Here.w
    BY <1>1, <1>2, <2>1 DEF Actors
  <2>. QED
    BY <1>1, <2>2, TypedNotes
<1>4. ASSUME NEW b, Typed(b), NEW outcome \in Outcomes
      PROVE  Typed(runner_put_run(b, t, outcome, FALSE))
  <2>1. PICK c : c = runner_put_run(b, t, outcome, FALSE)
    OBVIOUS
  <2>2. PutsOutcome(b, t, outcome, c)
    BY <2>1 DEF PutsOutcome
  <2>. QED
    BY <1>4, <2>1, <2>2, TypedRun DEF Typed
<1>5. Typed(runner_put_entry(a, t, "delivered")) /\ Typed(runner_end_entry(a, t))
  BY <1>3, TypedEntry, TypedEnd DEF Entries
<1>6. m.outcome[t] \in Outcomes /\ {"delivered", "deleted", "noChanges", "deliveryFailed"} \subseteq Outcomes
  BY <1>1 DEF Images, Outcomes, Final
<1>7. PICK e : Becomes(e) /\ Typed(e)
  BY <1>2, <1>3, <1>4, <1>5, <1>6 DEF runner_finished
<1>8. ActorTypes' /\ FolderTypes'
  BY <1>7, BecomesTyped DEF runner_finished, Apart, folder, TypeOK, FolderTypes
<1>9. OtherTypes'
  <2>1. pc' \in Pcs /\ used' = used
    <3>1. pc' = pc \/ Dispatches
      BY DEF runner_finished
    <3>. QED
      BY <1>1, <3>1 DEF runner_finished, Dispatches, Does, Pcs
  <2>2. hist' = hist \/ hist' = [hist EXCEPT !.lost = @ \cup {t}]
    BY DEF runner_finished
  <2>. QED
    BY <2>1, <2>2 DEF OtherTypes, TypeOK, Histories
<1>. QED
  BY <1>8, <1>9, TypesSplitNext

LEMMA SettledTypes ==
  ASSUME Good, TypeOK, NEW t \in Tasks, runner_pull_settled(t)
  PROVE  TypeOK'
<1>1. Typed(Here) /\ Here \in Actors
  BY HereTyped DEF Typed
<1>2. PICK o, a : /\ o = (IF pulls[t] = "merged" THEN "merged" ELSE "rejected")
                  /\ a = IF t \in runs THEN runner_put_run(Here, t, o, FALSE) ELSE Here
  OBVIOUS
<1>3. Typed(a)
  <2>1. o \in Outcomes
    BY <1>2 DEF Outcomes, Final
  <2>2. a = Here \/ PutsOutcome(Here, t, o, a)
    BY <1>2 DEF PutsOutcome
  <2>. QED
    BY <1>1, <2>1, <2>2, TypedRun
<1>4. Typed(runner_put_entry(a, t, "left"))
  BY <1>3, TypedEntry DEF Typed, Entries
<1>5. Becomes(runner_put_entry(a, t, "left"))
  BY <1>2 DEF runner_pull_settled
<1>6. pc' \in Pcs
  BY DEF runner_pull_settled, Dispatches, Does, Pcs
<1>. QED
  BY <1>4, <1>5, <1>6, ApartTyped DEF runner_pull_settled, Quietly

LEMMA LessTyped ==
  ASSUME NEW n \in Nat
  PROVE  Less(n) \in Nat
  BY DEF Less

LEMMA WriterTypes ==
  ASSUME TypeOK, WriterApplies
  PROVE  TypeOK'
<1>1. log \in Seq(Images) /\ Last(log) = m /\ job \in Jobs /\ wrap \in [Tasks -> Wraps]
  BY DEF TypeOK
<1>2. PICK l : l = Tail(log)
  OBVIOUS
<1>3. l \in Seq(Images) /\ Last(l) = m
  <2>1. /\ l \in Seq(Images) /\ Len(l) = Len(log) - 1 /\ Len(log) > 1 /\ Len(log) \in Nat
        /\ \A i \in 1..Len(l) : l[i] = log[i + 1]
    BY <1>1, <1>2 DEF WriterApplies
  <2>2. l[Len(l)] = log[Len(log)]
    BY <2>1
  <2>. QED
    BY <1>1, <2>1, <2>2 DEF Last
<1>4. job' \in Jobs
  BY <1>1, LessTyped DEF WriterApplies, Jobs
<1>5. wrap' \in [Tasks -> Wraps]
  BY <1>1, LessTyped DEF WriterApplies, Wraps
<1>. QED
  BY <1>2, <1>3, <1>4, <1>5 DEF WriterApplies, TypeOK, mirror, folder

LEMMA RestartTypes ==
  ASSUME Good, TypeOK, Restart
  PROVE  TypeOK'
<1>1. Head(log) \in Images
  BY DEF TypeOK, Good, Stands
<1>2. PICK x : x = Loaded(Head(log))
  OBVIOUS
<1>3. x \in Images
  <2>1. PICK h : h = Head(log)
    OBVIOUS
  <2>2. h \in Images
    BY <1>1, <2>1
  <2>3. PICK p : p = [t \in Tasks |-> IF h.pipe[t] = "checkout" THEN "none" ELSE h.pipe[t]]
    OBVIOUS
  <2>4. p \in [Tasks -> Pipes]
    BY <2>2, <2>3 DEF Images, Pipes
  <2>5. x = [h EXCEPT !.pipe = p]
    BY <1>2, <2>1, <2>3 DEF Loaded
  <2>. QED
    BY <2>2, <2>4, <2>5 DEF Images
<1>4. PICK a : a = [x |-> x, w |-> <<>>, finishing |-> {}, forced |-> {}, block |-> FALSE,
                    runs |-> {t \in Tasks : Has(x, t) /\ x.outcome[t] \notin Final \cup {"none"}},
                    mail |-> [dispatch |-> FALSE, delete |-> {}],
                    job |-> NoJob, wrap |-> [t \in Tasks |-> NoWrap]]
  OBVIOUS
<1>5. a \in Actors /\ a.x = x /\ a.w = <<>>
  <2>1. /\ NoWrap \in Wraps /\ NoJob \in Jobs
        /\ [dispatch |-> FALSE, delete |-> {}] \in Mails
    BY WaitingJob DEF NoWrap, Wraps, Mails
  <2>. QED
    BY <1>3, <1>4, <2>1 DEF Actors
<1>6. PICK b : b = runner_checkout_restore(a)
  OBVIOUS
<1>7. b = a \/ (Typed(b) /\ Len(b.w) # 0)
  BY <1>5, <1>6, TypedGiveBack, TypedLease DEF runner_checkout_restore, LeaseStates
<1>8. Holds(b) /\ log' = <<x>> \o b.w /\ b \in Actors
  BY <1>2, <1>4, <1>5, <1>6, <1>7 DEF Restart, Typed
<1>9. b.w \in Seq(Images) /\ b.x = IF Len(b.w) = 0 THEN x ELSE b.w[Len(b.w)]
  BY <1>5, <1>7, <1>8 DEF Typed, Saved, Actors
<1>10. log' \in Seq(Images) /\ Last(log') = m'
  <2>1. PICK s : s = <<x>>
    OBVIOUS
  <2>2. s \in Seq(Images) /\ Len(s) = 1 /\ s[1] = x
    BY <1>3, <2>1
  <2>3. Last(s) = x
    BY <2>2 DEF Last
  <2>. QED
    <3>1. Len(s) >= 1
      BY <2>2
    <3>2. /\ s \o b.w \in Seq(Images)
          /\ Last(s \o b.w) = IF Len(b.w) = 0 THEN Last(s) ELSE b.w[Len(b.w)]
      BY <1>9, <2>2, <3>1, LastJoined
    <3>. QED
      BY <1>8, <1>9, <2>1, <2>3, <3>2 DEF Holds
<1>11. ActorTypes'
  BY <1>8, <1>10 DEF Actors, ActorTypes, Holds
<1>12. FolderTypes'
  BY DEF Restart, Apart, folder, TypeOK, FolderTypes
<1>13. OtherTypes'
  BY FactoryAssumption DEF Restart, Person, Does, Pcs, OtherTypes, TypeOK, FactoryAssumption, Histories
<1>. QED
  BY <1>11, <1>12, <1>13, TypesSplitNext

LEMMA InitTypes == Init => TypeOK
<1>. SUFFICES ASSUME Init
              PROVE  TypeOK
  OBVIOUS
<1>1. NoLease \in Leases /\ NoJob \in Jobs /\ NoWrap \in Wraps /\ Idle \in Pcs
  BY WaitingJob DEF NoLease, Leases, LeaseStates, NoWrap, Wraps, Idle, Pcs
<1>2. m \in Images
  BY <1>1 DEF Init, Images, Entries, Outcomes, Pipes
<1>3. log \in Seq(Images) /\ Last(log) = m
  <2>1. log = <<m>> /\ Len(log) = 1 /\ log[1] = m
    BY DEF Init
  <2>. QED
    BY <1>2, <2>1 DEF Last
<1>4. ActorTypes
  BY <1>1, <1>2, <1>3 DEF Init, ActorTypes, Mails
<1>5. FolderTypes
  BY DEF Init, FolderTypes, UserBranches
<1>6. OtherTypes
  BY <1>1, FactoryAssumption DEF Init, OtherTypes, FactoryAssumption, Histories
<1>. QED
  BY <1>4, <1>5, <1>6, TypesSplit

LEMMA TypesNext ==
  ASSUME Good, Known, TypeOK, [Next]_vars
  PROVE  TypeOK'
<1>1. CASE UNCHANGED vars
  BY <1>1 DEF vars, mirror, folder, TypeOK
<1>2. ASSUME NEW t \in Tasks, Commands(t) \/ Asked(t)
      PROVE  TypeOK'
  BY <1>2, HandlerTypes, LeaseTypes, FinishTypes, SettledTypes, EnqueueTypes, StartNowTypes,
     DeleteTypes DEF Commands, Asked
<1>3. ASSUME NEW t \in Tasks, WrapsUp(t)
      PROVE  TypeOK'
  BY <1>3, WrapTypes
<1>4. CASE LeaseJob \/ UsesFolder \/ \E t \in Tasks : Edits(t)
  BY <1>4, GitTypes
<1>5. CASE OwnCommands \/ runner_stop \/ runner_checkout_retry
  BY <1>5, OwnTypes
<1>6. CASE WriterApplies \/ Restart
  BY <1>6, WriterTypes, RestartTypes
<1>7. ASSUME NEW b \in Tasks \cup UserBranches, PullCloses(b)
      PROVE  TypeOK'
  BY <1>7 DEF PullCloses, TypeOK, mirror, folder
<1>. QED
  BY <1>1, <1>2, <1>3, <1>4, <1>5, <1>6, <1>7 DEF Next

(* Every variable keeps its type, and what the actor holds is always the   *)
(* last of its writes: no handler leaves a change unsaved, not even that   *)
(* of a pipeline it does not save itself (runner_start, runner_sweep).     *)
THEOREM FactoryTypes == Spec => []TypeOK
<1>1. Init => Good /\ Known /\ TypeOK
  BY InitGood, InitKnown, InitTypes
<1>2. Good /\ Known /\ TypeOK /\ [Next]_vars => (Good /\ Known /\ TypeOK)'
  BY NextGood, NextKnown, TypesNext
<1>. QED
  BY <1>1, <1>2, PTL DEF Spec

==============================================================================
