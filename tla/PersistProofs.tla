--------------------------- MODULE PersistProofs ---------------------------
(* Proofs about Persist, for every number of messages, batch size and fault. *)
EXTENDS Persist, TLAPS

(* The messages the thread is through with *)
Handled ==
  IF pc \in {"more", "begin"} THEN first - 1 ELSE IF pc = "apply" THEN at - 1 ELSE taken
(* The messages whose callers may have heard *)
Heard == IF pc = "recv" THEN taken ELSE first - 1

(* The messages it has begun with *)
Reached == IF pc = "apply" THEN at ELSE Handled

Gone == Durable \cup refused \cup failed \cup lost
Accounted == ((rows \cup pending) \cap whole) \cup refused \cup failed \cup lost

BatchInv ==
  /\ taken <= sent /\ first <= taken + 1
  /\ pc # "recv" => first <= taken
  /\ pc = "apply" => first <= at /\ at <= taken
TxnInv ==
  /\ ~txn \/ pc \notin {"apply", "commit"} => pending = {}
  /\ \A n \in pending : first <= n
  /\ txn /\ pc \in {"apply", "commit"} => \A n \in rows : n < first
HandledInv ==
  /\ \A n \in rows \cup pending : n <= Reached /\ kind[n] # "flush"
  /\ \A n \in refused \cup failed \cup lost \cup whole : n <= Handled
  /\ \A n \in Msgs : n <= Handled /\ kind[n] # "flush" => n \in Accounted
LostInv == pc # "recv" => \A n \in lost : n < first
WholeInv ==
  /\ whole \subseteq rows \cup failed \cup pending \cup lost
  /\ whole \cap refused = {}
  /\ \A n \in pending : n \in whole \cup refused \/ (pc = "apply" /\ n = at)
  /\ pc # "recv" => \A n \in failed : n < first \/ n \in whole \cup refused
HeardInv == \A n \in Msgs : n > Heard => told[n] = "none"

IInv ==
  /\ TypeOK /\ BatchInv /\ TxnInv /\ HandledInv /\ LostInv /\ WholeInv /\ HeardInv
  /\ FlushIsBarrier /\ AskIsAnswered

-----------------------------------------------------------------------------
(* What each step preserves *)

(* Every variable keeps its type. *)
LEMMA TypeStep ==
  ASSUME PersistAssumption, TypeOK, BatchInv, [Next]_vars
  PROVE  TypeOK'
<1>. USE DEF PersistAssumption, TypeOK, BatchInv, vars, channel, thread, database, history, Msgs, Kinds, Answers
<1>1. ASSUME NEW k \in Kinds, Send(k) PROVE TypeOK'
  BY <1>1 DEF Send
<1>2. CASE TakeFirst
  BY <1>2 DEF TakeFirst
<1>3. CASE TakeMore
  BY <1>3 DEF TakeMore
<1>4. CASE BatchIsFull
  BY <1>4 DEF BatchIsFull
<1>5. CASE Begin
  BY <1>5 DEF Begin
<1>6. CASE BeginFails
  <2>1. failed' \subseteq Msgs
    <3>1. \A n \in Batch : n \in Msgs
      BY <1>6 DEF BeginFails, Batch
    <3>2. failed' \subseteq failed \cup Batch
      BY <1>6 DEF BeginFails
    <3>. QED
      BY <3>1, <3>2
  <2>2. told' \in [Msgs -> Answers \cup {"none", "gone"}]
    BY <1>6 DEF BeginFails, Batch
  <2>. QED
    BY <1>6, <2>1, <2>2 DEF BeginFails, Batch
<1>7. CASE SkipsFlush
  BY <1>7 DEF SkipsFlush, Applying, GoesOn
<1>8. CASE Applies
  <2>1. at \in Msgs
    BY <1>8 DEF Applies, Executes, Applying, GoesOn
  <2>2. pending' \subseteq Msgs /\ rows' \subseteq Msgs
    BY <1>8, <2>1 DEF Applies, Executes, Applying, GoesOn
  <2>3. whole' \subseteq Msgs
    BY <1>8, <2>1 DEF Applies, Executes, Applying, GoesOn
  <2>. QED
    BY <1>8, <2>1, <2>2, <2>3 DEF Applies, Executes, Applying, GoesOn
<1>9. CASE IsRejected
  BY <1>9 DEF IsRejected, Applying, GoesOn
<1>10. CASE RollsBack
  <2>1. at \in Msgs
    BY <1>10 DEF RollsBack, Applying, GoesOn
  <2>2. refused' \subseteq Msgs /\ failed' \subseteq Msgs
    BY <1>10, <2>1 DEF RollsBack, Applying
  <2>3. UNCHANGED <<channel, first, taken, told, lost, rows, whole>>
    BY <1>10 DEF RollsBack, Applying
  <2>4. txn' \in BOOLEAN /\ pending' = {} /\ at' = at + 1
        /\ pc' \in {"apply", "commit"}
    BY <1>10 DEF RollsBack, GoesOn
  <2>. QED
    BY <2>2, <2>3, <2>4
<1>11. CASE Commit
  BY <1>11 DEF Commit, Ends
<1>12. CASE CommitFails
  BY <1>12 DEF CommitFails, Ends
<1>13. CASE Reply
  BY <1>13 DEF Reply, Answer, Batch
<1>14. CASE Crash
  <2>1. lost' \subseteq Msgs
    <3>1. lost' \subseteq lost \cup 1..sent /\ 1..sent \subseteq Msgs
      BY <1>14 DEF Crash
    <3>. QED
      BY <3>1
  <2>2. told' \in [Msgs -> Answers \cup {"none", "gone"}]
    BY <1>14 DEF Crash
  <2>3. UNCHANGED <<channel, first, at, rows, whole, refused, failed>>
        /\ taken' = sent /\ pc' = "recv" /\ txn' = FALSE /\ pending' = {}
    BY <1>14 DEF Crash
  <2>4. sent' \in 0..MaxMsgs /\ kind' \in [Msgs -> Kinds] /\ first' \in Nat \ {0}
        /\ taken' \in Nat /\ at' \in Nat \ {0}
    BY <2>3
  <2>5. rows' \subseteq Msgs /\ whole' \subseteq Msgs /\ refused' \subseteq Msgs
        /\ failed' \subseteq Msgs
    BY <2>3
  <2>. QED
    BY <2>1, <2>2, <2>3, <2>4, <2>5
<1>15. CASE UNCHANGED vars
  BY <1>15
<1>16. CASE AppliesPart
  <2>1. at \in Msgs
    BY <1>16 DEF AppliesPart, Executes, Applying
  <2>2. pending' \subseteq Msgs /\ rows' \subseteq Msgs
    BY <1>16, <2>1 DEF AppliesPart, Executes, Applying
  <2>. QED
    BY <1>16, <2>2 DEF AppliesPart, Executes, Applying
<1>. QED
  BY <1>1, <1>2, <1>3, <1>4, <1>5, <1>6, <1>7, <1>8, <1>9, <1>10, <1>11, <1>12, <1>13, <1>14, <1>15, <1>16 DEF Next, Thread

(* The batch is a stretch of what was sent. *)
LEMMA BatchStep ==
  ASSUME PersistAssumption, TypeOK, BatchInv, [Next]_vars
  PROVE  BatchInv'
<1>. USE DEF TypeOK, BatchInv, vars, channel, thread, database, history, Msgs, Kinds, Answers
<1>1. ASSUME NEW k \in Kinds, Send(k) PROVE BatchInv'
  BY <1>1 DEF Send
<1>2. CASE TakeFirst
  BY <1>2 DEF TakeFirst
<1>3. CASE TakeMore
  BY <1>3 DEF TakeMore
<1>4. CASE BatchIsFull
  BY <1>4 DEF BatchIsFull
<1>5. CASE Begin
  BY <1>5 DEF Begin
<1>6. CASE BeginFails
  BY <1>6 DEF BeginFails, Batch
<1>7. CASE SkipsFlush
  BY <1>7 DEF SkipsFlush, Applying, GoesOn
<1>8. CASE Applies
  BY <1>8 DEF Applies, Executes, Applying, GoesOn
<1>9. CASE IsRejected
  BY <1>9 DEF IsRejected, Applying, GoesOn
<1>10. CASE RollsBack
  BY <1>10 DEF RollsBack, Applying, GoesOn
<1>11. CASE Commit
  BY <1>11 DEF Commit, Ends
<1>12. CASE CommitFails
  BY <1>12 DEF CommitFails, Ends
<1>13. CASE Reply
  BY <1>13 DEF Reply, Answer, Batch
<1>14. CASE Crash
  BY <1>14 DEF Crash
<1>15. CASE UNCHANGED vars
  BY <1>15
<1>16. CASE AppliesPart
  BY <1>16 DEF AppliesPart, Executes, Applying
<1>. QED
  BY <1>1, <1>2, <1>3, <1>4, <1>5, <1>6, <1>7, <1>8, <1>9, <1>10, <1>11, <1>12, <1>13, <1>14, <1>15, <1>16 DEF Next, Thread

(* What a transaction holds comes after every durable row. *)
LEMMA TxnStep ==
  ASSUME PersistAssumption, TypeOK, BatchInv, TxnInv, HandledInv, [Next]_vars
  PROVE  TxnInv'
<1>. USE DEF TypeOK, BatchInv, TxnInv, HandledInv, Handled, Reached, Accounted, Durable, Gone, vars, channel, thread, database, history, Msgs, Kinds, Answers
<1>1. ASSUME NEW k \in Kinds, Send(k) PROVE TxnInv'
  BY <1>1 DEF Send
<1>2. CASE TakeFirst
  BY <1>2 DEF TakeFirst
<1>3. CASE TakeMore
  BY <1>3 DEF TakeMore
<1>4. CASE BatchIsFull
  BY <1>4 DEF BatchIsFull
<1>5. CASE Begin
  BY <1>5 DEF Begin
<1>6. CASE BeginFails
  BY <1>6 DEF BeginFails, Batch
<1>7. CASE SkipsFlush
  BY <1>7 DEF SkipsFlush, Applying, GoesOn
<1>8. CASE Applies
  BY <1>8 DEF Applies, Executes, Applying, GoesOn
<1>9. CASE IsRejected
  BY <1>9 DEF IsRejected, Applying, GoesOn
<1>10. CASE RollsBack
  BY <1>10 DEF RollsBack, Applying, GoesOn
<1>11. CASE Commit
  BY <1>11 DEF Commit, Ends
<1>12. CASE CommitFails
  BY <1>12 DEF CommitFails, Ends
<1>13. CASE Reply
  BY <1>13 DEF Reply, Answer, Batch
<1>14. CASE Crash
  BY <1>14 DEF Crash
<1>15. CASE UNCHANGED vars
  BY <1>15
<1>16. CASE AppliesPart
  BY <1>16 DEF AppliesPart, Executes, Applying
<1>. QED
  BY <1>1, <1>2, <1>3, <1>4, <1>5, <1>6, <1>7, <1>8, <1>9, <1>10, <1>11, <1>12, <1>13, <1>14, <1>15, <1>16 DEF Next, Thread

(* Nothing is executed beyond the message the thread is at, and each it is *)
(* past is accounted for.                                                  *)
LEMMA HandledStep ==
  ASSUME PersistAssumption, TypeOK, BatchInv, TxnInv, HandledInv, [Next]_vars
  PROVE  HandledInv'
<1>. USE DEF TypeOK, BatchInv, TxnInv, HandledInv, Handled, Reached, Accounted, Durable, Gone, vars, channel, thread, database, history, Msgs, Kinds, Answers
<1>1. ASSUME NEW k \in Kinds, Send(k) PROVE HandledInv'
  BY <1>1 DEF Send
<1>2. CASE TakeFirst
  BY <1>2 DEF TakeFirst
<1>3. CASE TakeMore
  BY <1>3 DEF TakeMore
<1>4. CASE BatchIsFull
  BY <1>4 DEF BatchIsFull
<1>5. CASE Begin
  BY <1>5 DEF Begin
<1>6. CASE BeginFails
  BY <1>6 DEF BeginFails, Batch
<1>7. CASE SkipsFlush
  BY <1>7 DEF SkipsFlush, Applying, GoesOn
<1>8. CASE Applies
  <2>. DEFINE settled == refused \cup failed \cup lost \cup whole
  <2>1. /\ Handled = at - 1 /\ Reached = at /\ Handled' = at /\ Reached' \in {at, at + 1} /\ at \in Msgs
        /\ kind' = kind /\ kind[at] # "flush"
    BY <1>8 DEF Applies, Executes, Applying, GoesOn, PersistAssumption
  <2>2. /\ rows' \cup pending' = (rows \cup pending) \cup {at}
        /\ settled' = settled \cup {at}
        /\ Accounted \cup {at} \subseteq Accounted'
    BY <1>8 DEF Applies, Executes, Applying
  <2>3. \A n \in rows' \cup pending' : n <= Reached' /\ kind'[n] # "flush"
    <3>1. \A n \in rows \cup pending : n \in Nat /\ n <= at /\ kind[n] # "flush"
      BY <2>1
    <3>2. at <= Reached' /\ at \in Nat
      BY <2>1
    <3>. HIDE DEF TypeOK, HandledInv, Handled, Reached, BatchInv, TxnInv, Accounted, Gone
    <3>3. \A n \in (rows \cup pending) \cup {at} : n \in Nat /\ n <= at /\ kind[n] # "flush"
      BY <2>1, <3>1, <3>2
    <3>4. Reached' \in Nat
      BY <2>1, <3>2
    <3>. QED
      BY <2>1, <2>2, <3>2, <3>3, <3>4
  <2>4. \A n \in settled' : n <= Handled'
    <3>1. \A n \in settled : n \in Nat /\ n <= at - 1
      BY <2>1
    <3>. HIDE DEF settled, Handled
    <3>2. \A n \in settled \cup {at} : n <= at
      BY <2>1, <3>1
    <3>. QED
      BY <2>1, <2>2, <3>2
  <2>5. \A n \in Msgs : n <= at => n <= at - 1 \/ n = at
    BY <2>1
  <2>6. \A n \in Msgs : n <= at - 1 /\ kind[n] # "flush" => n \in Accounted
    BY <2>1
  <2>7. \A n \in Msgs : n <= Handled' /\ kind'[n] # "flush" => n \in Accounted'
    <3>. HIDE DEF Accounted, Handled
    <3>. QED
      BY <2>1, <2>2, <2>5, <2>6
  <2>. HIDE DEF Handled, Reached, Accounted
  <2>. QED
    BY <2>3, <2>4, <2>7
<1>9. CASE IsRejected
  BY <1>9 DEF IsRejected, Applying, GoesOn
<1>10. CASE RollsBack
  BY <1>10 DEF RollsBack, Applying, GoesOn
<1>11. CASE Commit
  BY <1>11 DEF Commit, Ends
<1>12. CASE CommitFails
  BY <1>12 DEF CommitFails, Ends
<1>13. CASE Reply
  BY <1>13 DEF Reply, Answer, Batch
<1>14. CASE Crash
  BY <1>14 DEF Crash
<1>15. CASE UNCHANGED vars
  BY <1>15
<1>16. CASE AppliesPart
  <2>. DEFINE settled == refused \cup failed \cup lost \cup whole
  <2>1. /\ Handled' = Handled /\ Reached = at /\ Reached' = at /\ at \in Msgs
        /\ kind' = kind /\ kind[at] # "flush" /\ settled' = settled
    BY <1>16 DEF AppliesPart, Executes, Applying
  <2>2. /\ rows' \cup pending' = (rows \cup pending) \cup {at}
        /\ Accounted \subseteq Accounted'
    BY <1>16 DEF AppliesPart, Executes, Applying
  <2>3. \A n \in rows' \cup pending' : n <= Reached' /\ kind'[n] # "flush"
    <3>1. \A n \in rows \cup pending : n \in Nat /\ n <= at /\ kind[n] # "flush"
      BY <2>1
    <3>2. at <= Reached' /\ at \in Nat
      BY <2>1
    <3>. HIDE DEF TypeOK, HandledInv, Handled, Reached, BatchInv, TxnInv, Accounted, Gone
    <3>3. \A n \in (rows \cup pending) \cup {at} : n \in Nat /\ n <= at /\ kind[n] # "flush"
      BY <2>1, <3>1, <3>2
    <3>4. Reached' \in Nat
      BY <2>1, <3>2
    <3>. QED
      BY <2>1, <2>2, <3>2, <3>3, <3>4
  <2>. HIDE DEF Handled, Reached, Accounted
  <2>. QED
    BY <2>1, <2>2, <2>3
<1>. QED
  BY <1>1, <1>2, <1>3, <1>4, <1>5, <1>6, <1>7, <1>8, <1>9, <1>10, <1>11, <1>12, <1>13, <1>14, <1>15, <1>16 DEF Next, Thread

(* A crash takes nothing of a batch begun after it. *)
LEMMA LostStep ==
  ASSUME PersistAssumption, TypeOK, BatchInv, HandledInv, LostInv, [Next]_vars
  PROVE  LostInv'
<1>. USE DEF TypeOK, BatchInv, HandledInv, Handled, Reached, Accounted, Durable, Gone, LostInv, vars, channel, thread, database, history, Msgs, Kinds, Answers
<1>1. ASSUME NEW k \in Kinds, Send(k) PROVE LostInv'
  BY <1>1 DEF Send
<1>2. CASE TakeFirst
  BY <1>2 DEF TakeFirst
<1>3. CASE TakeMore
  BY <1>3 DEF TakeMore
<1>4. CASE BatchIsFull
  BY <1>4 DEF BatchIsFull
<1>5. CASE Begin
  BY <1>5 DEF Begin
<1>6. CASE BeginFails
  BY <1>6 DEF BeginFails, Batch
<1>7. CASE SkipsFlush
  BY <1>7 DEF SkipsFlush, Applying, GoesOn
<1>8. CASE Applies
  BY <1>8 DEF Applies, Executes, Applying, GoesOn
<1>9. CASE IsRejected
  BY <1>9 DEF IsRejected, Applying, GoesOn
<1>10. CASE RollsBack
  BY <1>10 DEF RollsBack, Applying, GoesOn
<1>11. CASE Commit
  BY <1>11 DEF Commit, Ends
<1>12. CASE CommitFails
  BY <1>12 DEF CommitFails, Ends
<1>13. CASE Reply
  BY <1>13 DEF Reply, Answer, Batch
<1>14. CASE Crash
  BY <1>14 DEF Crash
<1>15. CASE UNCHANGED vars
  BY <1>15
<1>16. CASE AppliesPart
  BY <1>16 DEF AppliesPart, Executes, Applying
<1>. QED
  BY <1>1, <1>2, <1>3, <1>4, <1>5, <1>6, <1>7, <1>8, <1>9, <1>10, <1>11, <1>12, <1>13, <1>14, <1>15, <1>16 DEF Next, Thread

(* A message accepted to its last statement is on disk, on its way there   *)
(* or was taken back; in the transaction only the one at work is unsettled. *)
LEMMA WholeStep ==
  ASSUME PersistAssumption, TypeOK, BatchInv, TxnInv, HandledInv, WholeInv, [Next]_vars
  PROVE  WholeInv'
<1>. USE DEF TypeOK, BatchInv, TxnInv, HandledInv, Handled, Reached, Accounted, Durable, Gone, WholeInv, vars, channel, thread, database, history, Msgs, Kinds, Answers
<1>1. ASSUME NEW k \in Kinds, Send(k) PROVE WholeInv'
  BY <1>1 DEF Send
<1>2. CASE TakeFirst
  BY <1>2 DEF TakeFirst
<1>3. CASE TakeMore
  BY <1>3 DEF TakeMore
<1>4. CASE BatchIsFull
  BY <1>4 DEF BatchIsFull
<1>5. CASE Begin
  BY <1>5 DEF Begin
<1>6. CASE BeginFails
  BY <1>6 DEF BeginFails, Batch
<1>7. CASE SkipsFlush
  <2>1. at \notin pending
    BY <1>7 DEF SkipsFlush, Applying
  <2>. QED
    BY <1>7, <2>1 DEF SkipsFlush, Applying, GoesOn
<1>8. CASE Applies
  <2>1. at \notin refused
    BY <1>8 DEF Applies, Executes, Applying
  <2>2. whole' \cap refused' = {}
    BY <1>8, <2>1 DEF Applies, Executes, Applying
  <2>3. whole' \subseteq rows' \cup failed' \cup pending' \cup lost'
    BY <1>8 DEF Applies, Executes, Applying
  <2>4. \A n \in pending' : n \in whole' \cup refused'
    BY <1>8 DEF Applies, Executes, Applying
  <2>5. \A n \in failed' : n < first' \/ n \in whole' \cup refused'
    BY <1>8 DEF Applies, Executes, Applying
  <2>. QED
    BY <2>2, <2>3, <2>4, <2>5
<1>9. CASE IsRejected
  <2>1. at \notin whole
    BY <1>9 DEF IsRejected, Applying
  <2>2. whole' \cap refused' = {}
    BY <1>9, <2>1 DEF IsRejected, Applying
  <2>3. whole' \subseteq rows' \cup failed' \cup pending' \cup lost'
    BY <1>9 DEF IsRejected, Applying
  <2>4. \A n \in pending' : n \in whole' \cup refused'
    BY <1>9 DEF IsRejected, Applying
  <2>5. \A n \in failed' : n < first' \/ n \in whole' \cup refused'
    BY <1>9 DEF IsRejected, Applying
  <2>. QED
    BY <2>2, <2>3, <2>4, <2>5
<1>10. CASE RollsBack
  BY <1>10 DEF RollsBack, Applying, GoesOn
<1>11. CASE Commit
  BY <1>11 DEF Commit, Ends
<1>12. CASE CommitFails
  BY <1>12 DEF CommitFails, Ends
<1>13. CASE Reply
  BY <1>13 DEF Reply, Answer, Batch
<1>14. CASE Crash
  <2>1. Handled <= sent
    BY DEF PersistAssumption
  <2>2. \A n \in whole : n \in 1..sent
    BY <2>1 DEF PersistAssumption
  <2>3. whole \subseteq rows \cup failed \cup lost'
    BY <1>14, <2>2 DEF Crash
  <2>. QED
    BY <1>14, <2>3 DEF Crash
<1>15. CASE UNCHANGED vars
  BY <1>15
<1>16. CASE AppliesPart
  <2>1. UNCHANGED <<whole, refused, failed, lost, at, pc, first>> /\ pc = "apply"
    BY <1>16 DEF AppliesPart, Executes, Applying
  <2>2. rows \subseteq rows' /\ pending \subseteq pending' /\ pending' \subseteq pending \cup {at}
    BY <1>16 DEF AppliesPart, Executes, Applying
  <2>. QED
    BY <2>1, <2>2
<1>. QED
  BY <1>1, <1>2, <1>3, <1>4, <1>5, <1>6, <1>7, <1>8, <1>9, <1>10, <1>11, <1>12, <1>13, <1>14, <1>15, <1>16 DEF Next, Thread

(* Nobody hears before the batch is over. *)
LEMMA HeardStep ==
  ASSUME PersistAssumption, TypeOK, BatchInv, HeardInv, [Next]_vars
  PROVE  HeardInv'
<1>. USE DEF TypeOK, BatchInv, HeardInv, Heard, vars, channel, thread, database, history, Msgs, Kinds, Answers
<1>1. ASSUME NEW k \in Kinds, Send(k) PROVE HeardInv'
  BY <1>1 DEF Send
<1>2. CASE TakeFirst
  BY <1>2 DEF TakeFirst
<1>3. CASE TakeMore
  BY <1>3 DEF TakeMore
<1>4. CASE BatchIsFull
  BY <1>4 DEF BatchIsFull
<1>5. CASE Begin
  BY <1>5 DEF Begin
<1>6. CASE BeginFails
  BY <1>6 DEF BeginFails, Batch
<1>7. CASE SkipsFlush
  BY <1>7 DEF SkipsFlush, Applying, GoesOn
<1>8. CASE Applies
  BY <1>8 DEF Applies, Executes, Applying, GoesOn
<1>9. CASE IsRejected
  BY <1>9 DEF IsRejected, Applying, GoesOn
<1>10. CASE RollsBack
  BY <1>10 DEF RollsBack, Applying, GoesOn
<1>11. CASE Commit
  BY <1>11 DEF Commit, Ends
<1>12. CASE CommitFails
  BY <1>12 DEF CommitFails, Ends
<1>13. CASE Reply
  BY <1>13 DEF Reply, Answer, Batch
<1>14. CASE Crash
  BY <1>14 DEF Crash
<1>15. CASE UNCHANGED vars
  BY <1>15
<1>16. CASE AppliesPart
  BY <1>16 DEF AppliesPart, Executes, Applying
<1>. QED
  BY <1>1, <1>2, <1>3, <1>4, <1>5, <1>6, <1>7, <1>8, <1>9, <1>10, <1>11, <1>12, <1>13, <1>14, <1>15, <1>16 DEF Next, Thread

(* The barrier stands. *)
LEMMA FlushStep ==
  ASSUME PersistAssumption, TypeOK, BatchInv, TxnInv, HandledInv, HeardInv, FlushIsBarrier, [Next]_vars
  PROVE  FlushIsBarrier'
<1>. USE DEF TypeOK, BatchInv, TxnInv, HandledInv, Handled, Reached, Accounted, Durable, Gone, HeardInv, Heard, FlushIsBarrier, vars, channel, thread, database, history, Msgs, Kinds, Answers
<1>1. ASSUME NEW k \in Kinds, Send(k) PROVE FlushIsBarrier'
  BY <1>1 DEF Send
<1>2. CASE TakeFirst
  BY <1>2 DEF TakeFirst
<1>3. CASE TakeMore
  BY <1>3 DEF TakeMore
<1>4. CASE BatchIsFull
  BY <1>4 DEF BatchIsFull
<1>5. CASE Begin
  BY <1>5 DEF Begin
<1>6. CASE BeginFails
  BY <1>6 DEF BeginFails, Batch
<1>7. CASE SkipsFlush
  BY <1>7 DEF SkipsFlush, Applying, GoesOn
<1>8. CASE Applies
  BY <1>8 DEF Applies, Executes, Applying, GoesOn
<1>9. CASE IsRejected
  BY <1>9 DEF IsRejected, Applying, GoesOn
<1>10. CASE RollsBack
  BY <1>10 DEF RollsBack, Applying, GoesOn
<1>11. CASE Commit
  BY <1>11 DEF Commit, Ends
<1>12. CASE CommitFails
  BY <1>12 DEF CommitFails, Ends
<1>13. CASE Reply
  BY <1>13 DEF Reply, Answer, Batch
<1>14. CASE Crash
  BY <1>14 DEF Crash
<1>15. CASE UNCHANGED vars
  BY <1>15
<1>16. CASE AppliesPart
  BY <1>16 DEF AppliesPart, Executes, Applying
<1>. QED
  BY <1>1, <1>2, <1>3, <1>4, <1>5, <1>6, <1>7, <1>8, <1>9, <1>10, <1>11, <1>12, <1>13, <1>14, <1>15, <1>16 DEF Next, Thread

(* An answer stays true. *)
LEMMA AnswerStep ==
  ASSUME PersistAssumption, TypeOK, BatchInv, TxnInv, HandledInv, LostInv, WholeInv, HeardInv, AskIsAnswered, [Next]_vars
  PROVE  AskIsAnswered'
<1>. USE DEF TypeOK, BatchInv, TxnInv, HandledInv, Handled, Reached, Accounted, Durable, Gone, LostInv, WholeInv, HeardInv, Heard, AskIsAnswered, vars, channel, thread, database, history, Msgs, Kinds, Answers
<1>1. ASSUME NEW k \in Kinds, Send(k) PROVE AskIsAnswered'
  BY <1>1 DEF Send
<1>2. CASE TakeFirst
  BY <1>2 DEF TakeFirst
<1>3. CASE TakeMore
  BY <1>3 DEF TakeMore
<1>4. CASE BatchIsFull
  BY <1>4 DEF BatchIsFull
<1>5. CASE Begin
  BY <1>5 DEF Begin
<1>6. CASE BeginFails
  BY <1>6 DEF BeginFails, Batch
<1>7. CASE SkipsFlush
  BY <1>7 DEF SkipsFlush, Applying, GoesOn
<1>8. CASE Applies
  BY <1>8 DEF Applies, Executes, Applying, GoesOn
<1>9. CASE IsRejected
  BY <1>9 DEF IsRejected, Applying, GoesOn
<1>10. CASE RollsBack
  BY <1>10 DEF RollsBack, Applying, GoesOn
<1>11. CASE Commit
  BY <1>11 DEF Commit, Ends
<1>12. CASE CommitFails
  BY <1>12 DEF CommitFails, Ends
<1>13. CASE Reply
  BY <1>13 DEF Reply, Answer, Batch
<1>14. CASE Crash
  BY <1>14 DEF Crash
<1>15. CASE UNCHANGED vars
  BY <1>15
<1>16. CASE AppliesPart
  BY <1>16 DEF AppliesPart, Executes, Applying
<1>. QED
  BY <1>1, <1>2, <1>3, <1>4, <1>5, <1>6, <1>7, <1>8, <1>9, <1>10, <1>11, <1>12, <1>13, <1>14, <1>15, <1>16 DEF Next, Thread

(* What is handled in order is never overtaken. *)
LEMMA OvertakesNone ==
  ASSUME PersistAssumption, TypeOK, BatchInv, TxnInv, HandledInv
  PROVE  NothingOvertaken
<1>. SUFFICES ASSUME NEW n \in rows, NEW w \in Msgs, w < n, kind[w] # "flush"
              PROVE  w \in Gone
  BY DEF NothingOvertaken, Gone
<1>1. n \in Msgs /\ n <= Reached /\ (n <= Handled \/ (pc = "apply" /\ n <= Handled + 1))
  BY DEF TypeOK, BatchInv, HandledInv, Handled, Reached
<1>2. w \in Accounted
  BY <1>1 DEF TypeOK, BatchInv, HandledInv, Handled, Msgs
<1>3. w \notin pending
  <2>. SUFFICES ASSUME w \in pending PROVE FALSE
    OBVIOUS
  <2>1. first <= w /\ n < first
    BY DEF TxnInv, TypeOK
  <2>. QED
    BY <1>1, <2>1 DEF TypeOK, Msgs
<1>. QED
  BY <1>2, <1>3 DEF Accounted, Durable, Gone

-----------------------------------------------------------------------------
(* Theorems *)

(* At every moment the thread has accounted for each message it is past,   *)
(* and for none that it is not.                                            *)
LEMMA Inductive == Spec => []IInv
<1>1. Init => IInv
  <2>. SUFFICES ASSUME Init PROVE IInv
    OBVIOUS
  <2>1. TypeOK
    <3>1. kind \in [Msgs -> Kinds] /\ told \in [Msgs -> Answers \cup {"none", "gone"}]
      BY DEF Init, Kinds
    <3>2. sent \in 0..MaxMsgs /\ first \in Nat \ {0} /\ taken \in Nat /\ at \in Nat \ {0}
      BY PersistAssumption DEF Init
    <3>3. pc = "recv" /\ txn = FALSE /\ pending = {} /\ rows = {} /\ whole = {}
          /\ refused = {} /\ failed = {} /\ lost = {}
      BY DEF Init
    <3>. QED
      BY <3>1, <3>2, <3>3 DEF TypeOK
  <2>2. BatchInv /\ TxnInv /\ LostInv
    BY DEF Init, BatchInv, TxnInv, LostInv
  <2>3. HandledInv /\ WholeInv /\ HeardInv
    BY PersistAssumption DEF Init, HandledInv, Reached, Accounted, Gone, Handled, WholeInv, HeardInv, Msgs
  <2>4. FlushIsBarrier /\ AskIsAnswered
    BY DEF Init, FlushIsBarrier, AskIsAnswered
  <2>. QED
    BY <2>1, <2>2, <2>3, <2>4 DEF IInv
<1>2. IInv /\ [Next]_vars => IInv'
  <2>. SUFFICES ASSUME IInv, [Next]_vars PROVE IInv'
    OBVIOUS
  <2>1. TypeOK' /\ BatchInv' /\ TxnInv' /\ HandledInv'
    BY PersistAssumption, TypeStep, BatchStep, TxnStep, HandledStep DEF IInv
  <2>2. LostInv' /\ WholeInv' /\ HeardInv'
    BY PersistAssumption, LostStep, WholeStep, HeardStep DEF IInv
  <2>3. FlushIsBarrier' /\ AskIsAnswered'
    BY PersistAssumption, FlushStep, AnswerStep DEF IInv
  <2>. QED
    BY <2>1, <2>2, <2>3 DEF IInv
<1>. QED
  BY <1>1, <1>2, PTL DEF Spec

(* Every variable of the write-behind thread keeps its type. *)
THEOREM TypeCorrect == Spec => []TypeOK
<1>1. IInv => TypeOK
  BY DEF IInv
<1>. QED
  BY <1>1, Inductive, PTL

(* No row becomes durable while an earlier write is still under way, for   *)
(* every batch size and every failure of the database.                     *)
THEOREM NoneOvertaken == Spec => []NothingOvertaken
<1>1. IInv => NothingOvertaken
  BY PersistAssumption, OvertakesNone DEF IInv
<1>. QED
  BY <1>1, Inductive, PTL

(* A flush that is answered found everything before it settled. *)
THEOREM FlushHolds == Spec => []FlushIsBarrier
<1>1. IInv => FlushIsBarrier
  BY DEF IInv
<1>. QED
  BY <1>1, Inductive, PTL

(* An ask of any number of statements that hears ok has them all on disk,  *)
(* save where the transaction failed afterwards; one that hears an error   *)
(* had a statement fail and is not there as a whole; one whose reply was   *)
(* dropped left nothing (persist.rs, `run`).                               *)
THEOREM AskHolds == Spec => []AskIsAnswered
<1>1. IInv => AskIsAnswered
  BY DEF IInv
<1>. QED
  BY <1>1, Inductive, PTL

-----------------------------------------------------------------------------
(* Persist implements WriteBehind *)

LEMMA SettledRange ==
  ASSUME PersistAssumption, TypeOK, BatchInv
  PROVE  Settled \in Nat /\ Settled <= sent
  BY DEF TypeOK, BatchInv, Settled

LEMMA StepSettles ==
  ASSUME PersistAssumption, TypeOK, BatchInv, TypeOK', BatchInv', TxnInv, HandledInv, [Next]_vars
  PROVE  [WB!Next]_<<sent, Settled, rows>>
<1>. USE DEF PersistAssumption, TypeOK, BatchInv, TxnInv, Settled, channel, thread, database, history
<1>1. ASSUME NEW k \in Kinds, Send(k) PROVE WB!Accept
  BY <1>1 DEF Send, WB!Accept
<1>2. CASE TakeFirst \/ TakeMore \/ BatchIsFull \/ Begin \/ UNCHANGED vars
  <2>1. UNCHANGED <<sent, Settled, rows>>
    BY <1>2 DEF TakeFirst, TakeMore, BatchIsFull, Begin, vars
  <2>. QED
    BY <2>1
<1>3. CASE BeginFails
  BY <1>3 DEF BeginFails, WB!Next, WB!Settle
<1>4. CASE SkipsFlush
  BY <1>4 DEF SkipsFlush, Applying, GoesOn, WB!Next, WB!Settle
<1>5. CASE Applies
  BY <1>5 DEF Applies, Executes, Applying, GoesOn, WB!Next, WB!Settle
<1>6. CASE IsRejected
  BY <1>6 DEF IsRejected, Applying, GoesOn, WB!Next, WB!Settle
<1>7. CASE RollsBack
  BY <1>7 DEF RollsBack, Applying, GoesOn, WB!Next, WB!Settle
<1>8. CASE Commit
  <2>1. \A n \in pending : n \in first..taken
    BY <1>8 DEF Commit, Ends, HandledInv, Handled, Reached, Msgs
  <2>. QED
    BY <1>8, <2>1 DEF Commit, Ends, WB!Next, WB!Settle
<1>9. CASE CommitFails
  BY <1>9 DEF CommitFails, Ends, WB!Next, WB!Settle
<1>10. CASE Reply
  BY <1>10 DEF Reply
<1>11. CASE Crash
  BY <1>11, SettledRange DEF Crash, WB!Next, WB!Settle
<1>12. CASE AppliesPart
  <2>1. CASE txn
    BY <1>12, <2>1 DEF AppliesPart, Executes, Applying
  <2>2. CASE ~txn
    <3>1. Settled = at - 1 /\ Settled' = Settled /\ Settled + 1 = at
      BY <1>12, <2>2 DEF AppliesPart, Executes, Applying
    <3>2. sent' = sent /\ rows' = rows \cup {at} /\ Settled < sent
      BY <1>12, <2>2 DEF AppliesPart, Executes, Applying
    <3>. HIDE DEF Settled
    <3>. QED
      BY <3>1, <3>2 DEF WB!Land, WB!Next
  <2>. QED
    BY <2>1, <2>2
<1>. QED
  BY <1>1, <1>2, <1>3, <1>4, <1>5, <1>6, <1>7, <1>8, <1>9, <1>10, <1>11, <1>12
  DEF Next, Thread, WB!Next

(* The thread, with its batches, transactions and failures, keeps the      *)
(* promise of WriteBehind: rows reach the disk once and in order.          *)
THEOREM Implements == Spec => WritesSettleInOrder
<1>1. Init => WB!Init
  BY DEF Init, WB!Init, Settled
<1>2. IInv /\ IInv' /\ [Next]_vars => [WB!Next]_<<sent, Settled, rows>>
  BY PersistAssumption, StepSettles DEF IInv
<1>. QED
  BY <1>1, <1>2, Inductive, PTL DEF Spec, WritesSettleInOrder, WB!Spec
=============================================================================
