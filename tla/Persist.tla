------------------------------ MODULE Persist ------------------------------
(***************************************************************************)
(* Write-behind persistence (src/src/daemon/runtime/persist.rs and         *)
(* write_batch in src/src/daemon/store/mod.rs).  The actor hands writes to *)
(* a channel; one thread drains it into transactions and then answers the  *)
(* callers that wait: an ask, whose outcome the actor needs, and a flush.  *)
(*                                                                         *)
(* Messages are numbered in channel order.  Those up to `taken` left the   *)
(* channel; first..taken are the batch the thread works on.  A message is  *)
(* one statement or several without a savepoint (five in delete_task), and *)
(* stops at the first that fails.  SQLite is external: a statement may be  *)
(* rejected, or make SQLite roll the transaction back, after which the     *)
(* batch's other statements commit one by one; BEGIN and COMMIT may fail,  *)
(* COMMIT with the transaction left open or rolled back.                   *)
(***************************************************************************)
EXTENDS Integers

CONSTANTS MaxMsgs,     \* bound: messages ever sent
          MaxBatch,    \* MAX_BATCH
          Faults       \* bound: what may go wrong

Msgs == 1..MaxMsgs
Kinds == {"write", "ask", "flush"}
Answers == {"ok", "error", "dropped", "done"}

ASSUME PersistAssumption ==
  /\ MaxMsgs \in Nat /\ MaxBatch \in Nat \ {0}
  /\ Faults \subseteq {"reject", "rollback", "begin", "commit", "crash"}

VARIABLES
  sent,      \* messages handed to the channel
  kind,      \* what each is
  first, taken, at,  \* the batch, and the message of it that is applied next
  pc,        \* where the thread is
  txn,       \* a transaction is open
  pending,   \* messages with a statement in it
  rows,      \* messages with a statement on disk
  whole,     \* messages whose every statement was accepted
  told,      \* what the caller of each ask and flush heard
  refused,   \* history: messages one of whose statements failed
  failed,    \* history: messages that went with a transaction or a batch
  lost       \* history: what a crash kept from being settled

channel == <<sent, kind>>
thread == <<first, taken, at, pc>>
database == <<txn, pending, rows>>
history == <<refused, failed, lost>>
vars == <<channel, thread, database, whole, told, history>>

TypeOK ==
  /\ sent \in 0..MaxMsgs /\ kind \in [Msgs -> Kinds]
  /\ first \in Nat \ {0} /\ taken \in Nat /\ at \in Nat \ {0}
  /\ pc \in {"recv", "more", "begin", "apply", "commit", "reply"}
  /\ txn \in BOOLEAN /\ pending \subseteq Msgs /\ rows \subseteq Msgs
  /\ whole \subseteq Msgs
  /\ told \in [Msgs -> Answers \cup {"none", "gone"}]
  /\ refused \subseteq Msgs /\ failed \subseteq Msgs /\ lost \subseteq Msgs

Init ==
  /\ sent = 0 /\ kind = [n \in Msgs |-> "write"]
  /\ first = 1 /\ taken = 0 /\ at = 1 /\ pc = "recv"
  /\ txn = FALSE /\ pending = {} /\ rows = {}
  /\ whole = {} /\ told = [n \in Msgs |-> "none"]
  /\ refused = {} /\ failed = {} /\ lost = {}

Batch == first..taken
(* Every statement of it is on disk: one transaction, or none, held them.  *)
Durable == rows \cap whole

-----------------------------------------------------------------------------
(* The callers.  The actor waits for an ask; a flush is waited for by a    *)
(* task of its own, or by the shutdown.                                    *)
ActorWaits == \E n \in 1..sent : kind[n] = "ask" /\ told[n] = "none"

Send(k) ==
  /\ sent < MaxMsgs /\ (k = "flush" \/ ~ActorWaits)
  /\ sent' = sent + 1 /\ kind' = [kind EXCEPT ![sent + 1] = k]
  /\ UNCHANGED <<thread, database, whole, told, history>>

-----------------------------------------------------------------------------
(* The thread *)

(* Mutation: the message that woke the thread is left out of its batch. *)
TakesAllButFirst ==
  /\ pc = "recv" /\ taken < sent
  /\ first' = taken + 2 /\ taken' = taken + 1 /\ pc' = "more"
  /\ UNCHANGED <<channel, at, database, whole, told, history>>
TakeFirst ==
  /\ pc = "recv" /\ taken < sent
  /\ first' = taken + 1 /\ taken' = taken + 1 /\ pc' = "more"
  /\ UNCHANGED <<channel, at, database, whole, told, history>>

TakeMore ==
  /\ pc = "more" /\ taken < sent /\ taken + 1 - first < MaxBatch
  /\ taken' = taken + 1
  /\ UNCHANGED <<channel, first, at, pc, database, whole, told, history>>

BatchIsFull ==
  /\ pc = "more" /\ (taken = sent \/ taken + 1 - first >= MaxBatch)
  /\ pc' = "begin"
  /\ UNCHANGED <<channel, first, taken, at, database, whole, told, history>>

(* Mutation: the loop forgets where its batch begins. *)
BeginsAtTaken ==
  /\ pc = "begin" /\ ~txn
  /\ txn' = TRUE /\ pending' = {} /\ at' = first - 1 /\ pc' = "apply"
  /\ UNCHANGED <<channel, first, taken, rows, whole, told, history>>
Begin ==
  /\ pc = "begin" /\ ~txn
  /\ txn' = TRUE /\ pending' = {} /\ at' = first /\ pc' = "apply"
  /\ UNCHANGED <<channel, first, taken, rows, whole, told, history>>

(* Mutation: the batch stays with its callers when BEGIN fails. *)
KeepsCallers ==
  /\ pc = "begin" /\ (txn \/ "begin" \in Faults)
  /\ failed' = failed \cup {n \in Batch : kind[n] # "flush"} /\ pc' = "recv"
  /\ UNCHANGED <<channel, first, taken, at, database, whole, told, refused, lost>>
(* The batch is dropped, with the reply channels in it. *)
BeginFails ==
  /\ pc = "begin" /\ (txn \/ "begin" \in Faults)
  /\ failed' = failed \cup {n \in Batch : kind[n] # "flush"}
  /\ told' = [n \in Msgs |-> IF n \in Batch /\ kind[n] # "write" THEN "dropped" ELSE told[n]]
  /\ pc' = "recv"
  /\ UNCHANGED <<channel, first, taken, at, database, whole, refused, lost>>

GoesOn == at' = at + 1 /\ pc' = IF at = taken THEN "commit" ELSE "apply"
Applying == pc = "apply" /\ UNCHANGED <<channel, first, taken, told, lost>>

SkipsFlush ==
  /\ Applying /\ kind[at] = "flush" /\ GoesOn
  /\ UNCHANGED <<database, whole, refused, failed>>

(* Mutation: the statement runs outside the batch's transaction. *)
AppliesAtOnce ==
  /\ Applying /\ kind[at] # "flush" /\ GoesOn
  /\ rows' = rows \cup {at} /\ UNCHANGED pending
  /\ whole' = whole \cup {at}
  /\ UNCHANGED <<txn, refused, failed>>
Executes ==
  /\ Applying /\ kind[at] # "flush"
  /\ IF txn THEN pending' = pending \cup {at} /\ UNCHANGED rows
            ELSE rows' = rows \cup {at} /\ UNCHANGED pending
  /\ UNCHANGED <<txn, refused, failed>>
(* a statement of the message that is not its last *)
AppliesPart == Executes /\ UNCHANGED <<at, pc, whole>>
Applies == Executes /\ GoesOn /\ whole' = whole \cup {at}

(* What the message has executed so far stays where it is.                 *)
IsRejected ==
  /\ "reject" \in Faults /\ Applying /\ kind[at] # "flush" /\ GoesOn
  /\ refused' = refused \cup {at}
  /\ UNCHANGED <<database, whole, failed>>

RollsBack ==
  /\ "rollback" \in Faults /\ Applying /\ kind[at] # "flush" /\ txn /\ GoesOn
  /\ refused' = refused \cup {at} /\ failed' = failed \cup pending
  /\ txn' = FALSE /\ pending' = {}
  /\ UNCHANGED <<rows, whole>>

Ends == pc = "commit" /\ pc' = "reply"
        /\ UNCHANGED <<channel, first, taken, at, whole, told, refused, lost>>
Commit ==
  /\ Ends /\ txn
  /\ rows' = rows \cup pending /\ pending' = {} /\ txn' = FALSE /\ UNCHANGED failed
CommitFails ==
  /\ Ends
  /\ \/ ~txn /\ UNCHANGED <<database, failed>>
     \/ /\ "commit" \in Faults /\ txn /\ failed' = failed \cup pending
        /\ pending' = {} /\ UNCHANGED rows
        /\ txn' \in BOOLEAN

(* Mutation: an ask is answered for the batch, not for itself. *)
AnswersForBatch(n) == IF kind[n] = "ask" THEN "ok" ELSE "done"
Answer(n) == IF kind[n] = "flush" THEN "done" ELSE IF n \in whole THEN "ok" ELSE "error"

(* Mutation: callers are answered before the commit. *)
RepliesBeforeCommit ==
  /\ pc \in {"commit", "reply"}
  /\ told' = [n \in Msgs |-> IF n \in Batch /\ kind[n] # "write" THEN Answer(n) ELSE told[n]]
  /\ pc' = IF pc = "reply" THEN "recv" ELSE pc
  /\ UNCHANGED <<channel, first, taken, at, database, whole, history>>
Reply ==
  /\ pc = "reply"
  /\ told' = [n \in Msgs |-> IF n \in Batch /\ kind[n] # "write" THEN Answer(n) ELSE told[n]]
  /\ pc' = "recv"
  /\ UNCHANGED <<channel, first, taken, at, database, whole, history>>

(* The daemon dies: what is not on disk is gone, with every caller. *)
Crash ==
  /\ "crash" \in Faults
  /\ taken' = sent /\ pc' = "recv" /\ txn' = FALSE /\ pending' = {}
  /\ told' = [n \in Msgs |-> IF n <= sent /\ told[n] = "none" THEN "gone" ELSE told[n]]
  /\ lost' = lost \cup (1..sent \ (Durable \cup refused \cup failed))
  /\ UNCHANGED <<channel, first, at, rows, whole, refused, failed>>

Thread ==
  \/ TakeFirst \/ TakeMore \/ BatchIsFull \/ Begin \/ BeginFails
  \/ SkipsFlush \/ AppliesPart \/ Applies \/ IsRejected \/ RollsBack
  \/ Commit \/ CommitFails \/ Reply
Next == (\E k \in Kinds : Send(k)) \/ Thread \/ Crash

Spec == Init /\ [][Next]_vars
(* The operating system runs the thread. *)
FairSpec == Spec /\ WF_vars(Thread)

-----------------------------------------------------------------------------
Settled ==
  CASE pc \in {"recv", "reply"} -> taken
    [] pc = "commit" -> IF txn THEN first - 1 ELSE taken
    [] pc = "apply" -> IF txn THEN first - 1 ELSE at - 1
    [] OTHER -> first - 1

WB == INSTANCE WriteBehind WITH accepted <- sent, settled <- Settled, rows <- rows

(* Rows reach the disk once, in the order they were handed over, whatever  *)
(* batches they fall into and whatever fails in between ("Rows keep their  *)
(* exact identity and order", persist.rs:11).                              *)
WritesSettleInOrder == WB!Spec

(* What is on disk of a message leaves none behind: each earlier write is  *)
(* durable to its last statement, or one of its statements failed, or its  *)
(* batch did, or a crash took it.                                          *)
NothingOvertaken ==
  \A n \in rows, w \in Msgs :
    w < n /\ kind[w] # "flush" => w \in Durable \cup refused \cup failed \cup lost

(* Who was told a flush is done finds on disk everything handed over       *)
(* before it, save what the database refused or rolled back (Persist::     *)
(* flush: "Wait until everything queued so far has been committed").       *)
FlushIsBarrier ==
  \A n \in 1..sent : kind[n] = "flush" /\ told[n] = "done" =>
    \A w \in 1..n : kind[w] # "flush" => w \in Durable \cup refused \cup failed \cup lost

(* An ask is answered for itself, not for its batch: an ok means that all  *)
(* its statements are on disk, or went with a transaction that failed      *)
(* afterwards; an error that one of its own failed and it is not there as  *)
(* a whole; a dropped reply that nothing of it is (persist.rs, `run`).     *)
AskIsAnswered ==
  \A n \in 1..sent : kind[n] = "ask" =>
    /\ told[n] = "ok" => n \in Durable \cup failed
    /\ told[n] = "error" => n \in refused \ Durable
    /\ told[n] = "dropped" => n \notin rows

(* Nobody waits for ever: the actor, which awaits its ask, and whoever     *)
(* awaits a flush are answered, even when the batch is dropped.            *)
CallersResume ==
  \A n \in Msgs : (n <= sent /\ kind[n] # "write") ~> told[n] # "none"
=============================================================================
