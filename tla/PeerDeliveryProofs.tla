------------------------ MODULE PeerDeliveryProofs ------------------------
(* Proofs about PeerDelivery, for every number of messages, runs and       *)
(* events, every size of digest and every fault.                           *)
EXTENDS PeerDelivery, SequenceTheorems, WellFoundedInduction, TLAPS

(* What RecordsAgree rests on: a record that was not written yet is in     *)
(* neither place, so writing it cannot put it in two.                      *)
Known ==
  /\ last \in 0..MaxIds /\ in_flight \subseteq 1..last /\ held \subseteq 1..last
  /\ status \in [Ids -> Statuses]
  /\ slot \in BOOLEAN

IInv == Known /\ RecordsAgree

LEMMA Untouched ==
  ASSUME IInv, UNCHANGED records
  PROVE  IInv'
  BY DEF IInv, Known, RecordsAgree, records

(* drop_session moves all that is in flight to what is held. *)
LEMMA DropHolds ==
  ASSUME IInv, drop_session, last' = last
  PROVE  IInv'
<1>. USE PeerAssumption DEF Ids, Statuses, IInv, Known, RecordsAgree, drop_session, Holding
<1>1. Known'
  OBVIOUS
<1>2. slot' = FALSE
  OBVIOUS
<1>3. \A i \in Ids : (status'[i] = "queued" <=> i \in in_flight') /\ (status'[i] = "held" <=> i \in held')
  OBVIOUS
<1>. QED
  BY <1>1, <1>2, <1>3

LEMMA StartDelivers ==
  ASSUME IInv, NEW p, peers_turn_started(p), last' = last
  PROVE  IInv'
<1>. USE PeerAssumption DEF Ids, Statuses, IInv, Known, RecordsAgree, peers_turn_started
<1>1. Known'
  OBVIOUS
<1>2. slot' => in_flight' # {}
  <2>. SUFFICES ASSUME slot' PROVE in_flight' # {}
    OBVIOUS
  <2>1. slot /\ in_flight # {}
    OBVIOUS
  <2>2. PICK i \in in_flight : TRUE
    BY <2>1
  <2>3. i \in Ids /\ i \notin held
    BY <2>2
  <2>. QED
    BY <2>2, <2>3
<1>3. \A i \in Ids : (status'[i] = "queued" <=> i \in in_flight') /\ (status'[i] = "held" <=> i \in held')
  OBVIOUS
<1>. QED
  BY <1>1, <1>2, <1>3

LEMMA ChangeSettles ==
  ASSUME IInv, NEW gone, peers_queue_changed(gone), last' = last
  PROVE  IInv'
<1>. USE PeerAssumption DEF Ids, Statuses, IInv, Known, RecordsAgree, peers_queue_changed
<1>1. Known'
  OBVIOUS
<1>2. slot' => in_flight' # {}
  <2>. SUFFICES ASSUME slot' PROVE in_flight' # {}
    OBVIOUS
  <2>1. slot /\ in_flight # {}
    OBVIOUS
  <2>2. PICK i \in in_flight : TRUE
    BY <2>1
  <2>3. i \in Ids /\ i \notin held
    BY <2>2
  <2>. QED
    BY <2>2, <2>3
<1>3. \A i \in Ids : (status'[i] = "queued" <=> i \in in_flight') /\ (status'[i] = "held" <=> i \in held')
  OBVIOUS
<1>. QED
  BY <1>1, <1>2, <1>3

LEMMA AgreeInit ==
  ASSUME Init
  PROVE  IInv
<1>1. Known
  <2>1. last \in 0..MaxIds /\ in_flight = {} /\ held = {} /\ slot = FALSE
    BY PeerAssumption DEF Init
  <2>2. status \in [Ids -> Statuses]
    BY DEF Init, Statuses
  <2>. QED
    BY <2>1, <2>2 DEF Known
<1>2. RecordsAgree
  BY DEF Init, RecordsAgree
<1>. QED
  BY <1>1, <1>2 DEF IInv

LEMMA AgreeStep ==
  ASSUME IInv, [Next]_vars
  PROVE  IInv'
<1>1. CASE UserPrompt
  <2>1. CASE UNCHANGED records
    BY <2>1, Untouched
  <2>2. CASE drop_session /\ last' = last
    BY <2>2, DropHolds
  <2>. QED
    BY <1>1, <2>1, <2>2 DEF UserPrompt
<1>2. CASE ResumeReplayReady
  BY <1>2, Untouched DEF ResumeReplayReady
<1>3. CASE CancelTask
  BY <1>3, DropHolds DEF CancelTask
<1>4. CASE SlotLapses
  BY <1>4 DEF SlotLapses, IInv, Known, RecordsAgree
<1>5. CASE peers_post
  <2>. USE PeerAssumption DEF peers_post, NewRecord, IInv, Known, RecordsAgree, Ids, Statuses
  <2>1. Known'
    BY <1>5
  <2>2. slot' => in_flight' # {}
    BY <1>5
  <2>3. \A i \in Ids : (status'[i] = "queued" <=> i \in in_flight')
                      /\ (status'[i] = "held" <=> i \in held')
    BY <1>5
  <2>. QED
    BY <2>1, <2>2, <2>3
<1>6. CASE DirectHeld
  <2>. USE PeerAssumption DEF DirectHeld, NewRecord, IInv, Known, RecordsAgree, Ids, Statuses
  <2>1. Known'
    BY <1>6
  <2>2. slot' => in_flight' # {}
    BY <1>6
  <2>3. \A i \in Ids : (status'[i] = "queued" <=> i \in in_flight')
                      /\ (status'[i] = "held" <=> i \in held')
    BY <1>6
  <2>. QED
    BY <2>1, <2>2, <2>3
<1>7. CASE DirectQueued
  <2>. USE PeerAssumption DEF DirectQueued, NewRecord, IInv, Known, RecordsAgree, Ids, Statuses
  <2>1. Known'
    BY <1>7
  <2>2. slot' => in_flight' # {}
    BY <1>7
  <2>3. \A i \in Ids : (status'[i] = "queued" <=> i \in in_flight')
                      /\ (status'[i] = "held" <=> i \in held')
    BY <1>7
  <2>. QED
    BY <2>1, <2>2, <2>3
<1>8. CASE DirectFindsStale
  <2>. USE PeerAssumption DEF DirectFindsStale, IInv, Known, RecordsAgree, Ids, Statuses
  <2>1. Known'
    <3>1. last' \in 0..MaxIds /\ slot' \in BOOLEAN
      <4>1. last < MaxIds /\ last' = last + 1 /\ slot' = FALSE
        BY <1>8
      <4>2. last \in Int /\ 0 <= last
        OBVIOUS
      <4>3. last + 1 \in 0..MaxIds
        BY <4>1, <4>2
      <4>. HIDE DEF DirectFindsStale, IInv, Known, RecordsAgree
      <4>. QED
        BY <4>1, <4>3
    <3>2. status' \in [Ids -> Statuses]
      BY <1>8
    <3>3. in_flight' \subseteq 1..last'
      BY <1>8
    <3>4. held' \subseteq 1..last'
      <4>1. \A i \in in_flight \cup held \cup {last + 1} : i \in 1..last + 1
        OBVIOUS
      <4>2. held' = in_flight \cup held \cup {last + 1} /\ last' = last + 1
        BY <1>8
      <4>. QED
        BY <4>1, <4>2
    <3>. QED
      BY <3>1, <3>2, <3>3, <3>4
  <2>2. slot' => in_flight' # {}
    BY <1>8
  <2>3. \A i \in Ids : (status'[i] = "queued" <=> i \in in_flight')
                      /\ (status'[i] = "held" <=> i \in held')
    BY <1>8
  <2>. QED
    BY <2>1, <2>2, <2>3
<1>9. CASE \E i \in DOMAIN queued : peers_removing(i)
  BY <1>9, Untouched DEF peers_removing
<1>10. CASE HearTurnStarted
  <2>1. CASE UNCHANGED records
    BY <2>1, Untouched
  <2>2. CASE peers_turn_started(Head(updates).prompt) /\ last' = last
    BY <2>2, StartDelivers
  <2>. QED
    BY <1>10, <2>1, <2>2 DEF HearTurnStarted, Ignored
<1>11. CASE HearQueueChanged
  <2>1. CASE UNCHANGED records
    BY <2>1, Untouched
  <2>2. CASE /\ peers_queue_changed(DirectsOf(queued) \ DirectsOf(Head(updates).queued))
             /\ last' = last
    BY <2>2, ChangeSettles
  <2>. QED
    BY <1>11, <2>1, <2>2 DEF HearQueueChanged, Ignored
<1>12. CASE HearTurnEnded
  BY <1>12, Untouched DEF HearTurnEnded
<1>13. CASE HearError
  <2>1. CASE UNCHANGED records
    BY <2>1, Untouched
  <2>2. CASE drop_session /\ last' = last
    BY <2>2, DropHolds
  <2>. QED
    BY <1>13, <2>1, <2>2 DEF HearError, Ignored
<1>14. CASE Restart
  <2>. USE PeerAssumption DEF Restart, IInv, Known, RecordsAgree, Ids, Statuses
  <2>1. Known'
    BY <1>14
  <2>2. slot' => in_flight' # {}
    BY <1>14
  <2>3. \A i \in Ids : (status'[i] = "queued" <=> i \in in_flight')
                      /\ (status'[i] = "held" <=> i \in held')
    BY <1>14
  <2>. QED
    BY <2>1, <2>2, <2>3
<1>15. ASSUME NEW r \in Runs, Driver(r) \/ AgentAnswers(r) \/ ChildExits(r)
       PROVE  IInv'
  <2>1. UNCHANGED records
    BY <1>15 DEF Driver, Handshake, TakesPrompt, RemovesQueued, FreesSlot, SendGivesUp,
                 MonitorReports, DriverStops, AgentAnswers, ChildExits, IsOn, ActorIdle
  <2>. QED
    BY <2>1, Untouched
<1>16. CASE UNCHANGED vars
  BY <1>16, Untouched DEF vars
<1>. QED
  BY <1>1, <1>2, <1>3, <1>4, <1>5, <1>6, <1>7, <1>8, <1>9, <1>10, <1>11, <1>12, <1>13,
     <1>14, <1>15, <1>16 DEF Next, Actor, HearsUpdate

(* The feed and the actor agree about every message, and no slot is lost,  *)
(* for every number of messages and in every order of the updates.         *)
THEOREM RecordsAlwaysAgree == Spec => []RecordsAgree
<1>1. Init => IInv
  BY AgreeInit
<1>2. IInv /\ [Next]_vars => IInv'
  BY AgreeStep
<1>3. IInv => RecordsAgree
  BY DEF IInv
<1>. QED
  BY <1>1, <1>2, <1>3, PTL DEF Spec

-----------------------------------------------------------------------------
(* Sequences and numbers *)

IsSeq(s) == \E S : s \in Seq(S)
(* n is s and e after it. *)
Continues(n, s, e) ==
  /\ Len(s) \in Nat /\ Len(n) = Len(s) + 1
  /\ \A i \in 1..Len(s) : n[i] = s[i]
  /\ n[Len(s) + 1] = e

LEMMA AppendAny ==
  ASSUME NEW s, IsSeq(s), NEW e
  PROVE  LET n == Append(s, e) IN
         IsSeq(n) /\ Continues(n, s, e) /\ s \o <<>> = s /\ s \o <<e>> = n
<1>1. PICK S : s \in Seq(S)
  BY DEF IsSeq
<1>. DEFINE T == S \cup {e}
<1>2. s \in Seq(T) /\ e \in T
  BY <1>1, SeqMonotonic
<1>. HIDE DEF T
<1>. QED
  BY <1>2, AppendProperties, LenProperties, ConcatEmptySeq, AppendIsConcat DEF IsSeq, Continues

LEMMA TailAny ==
  ASSUME NEW s, IsSeq(s), s # <<>>
  PROVE  /\ IsSeq(Tail(s)) /\ Len(s) \in Nat \ {0} /\ Len(Tail(s)) = Len(s) - 1
         /\ Head(s) = s[1] /\ \A i \in 1..Len(Tail(s)) : Tail(s)[i] = s[i + 1]
<1>1. PICK S : s \in Seq(S)
  BY DEF IsSeq
<1>2. Len(s) \in Nat \ {0}
  BY <1>1, EmptySeq
<1>. QED
  BY <1>1, <1>2, HeadTailProperties DEF IsSeq

LEMMA Least ==
  ASSUME NEW S, S \subseteq Nat, S # {}
  PROVE  \E i \in S : \A j \in S : i <= j
<1>1. PICK i \in S : \A j \in S : ~ (<<j, i>> \in OpToRel(<, Nat))
  BY NatLessThanWellFounded, WFMin
<1>2. \A j \in S : ~(j < i)
  BY <1>1 DEF OpToRel
<1>. QED
  BY <1>2

LEMMA Greatest ==
  ASSUME NEW n \in Nat, NEW S, S \subseteq 1..n, S # {}
  PROVE  \E i \in S : \A j \in S : j <= i
<1>. DEFINE T == {n - i : i \in S}
<1>1. T \subseteq Nat /\ T # {}
  <2>1. \A i \in S : n - i \in Nat
    OBVIOUS
  <2>. QED
    BY <2>1
<1>2. PICK k \in T : \A j \in T : k <= j
  BY <1>1, Least
<1>3. PICK i \in S : k = n - i
  BY <1>2
<1>4. \A j \in S : n - i <= n - j
  BY <1>2, <1>3
<1>. QED
  BY <1>4

(* The cursor of a digest is one of its posts. *)
LEMMA UptoPost ==
  ASSUME NEW p, NEW n \in Nat, p.posts \subseteq 1..n
  PROVE  Upto(p) \in 0..n
<1>1. CASE p.posts = {}
  BY <1>1 DEF Upto
<1>2. CASE p.posts # {}
  <2>1. \E i \in p.posts : \A j \in p.posts : j <= i
    BY <1>2, Greatest
  <2>2. Upto(p) \in p.posts
    BY <1>2, <2>1 DEF Upto
  <2>. QED
    BY <2>2
<1>. QED
  BY <1>1, <1>2

(* take_queued gives back the line, or the line less one of its entries.   *)
LessOne(w, n) ==
  \E i \in 1..Len(w) :
    Len(n) = Len(w) - 1 /\ \A j \in 1..Len(n) : n[j] = w[IF j < i THEN j ELSE j + 1]

LEMMA TakeQueued ==
  ASSUME NEW S, NEW w \in Seq(S), NEW q
  PROVE  /\ take_queued(w, q) \in Seq(S)
         /\ take_queued(w, q) = w \/ LessOne(w, take_queued(w, q))
<1>. DEFINE index == {i \in DOMAIN w : w[i].q = q}
<1>1. Len(w) \in Nat /\ DOMAIN w = 1..Len(w)
  BY LenProperties
<1>2. CASE index = {}
  BY <1>2 DEF take_queued
<1>3. CASE index # {}
  <2>0. index \subseteq Nat
    BY <1>1
  <2>1. \E i \in index : \A j \in index : i <= j
    BY <1>3, <2>0, Least
  <2>2. PICK i \in 1..Len(w) : take_queued(w, q) = SubSeq(w, 1, i - 1) \o SubSeq(w, i + 1, Len(w))
    BY <1>1, <1>3, <2>1 DEF take_queued, RemoveAt
  <2>. HIDE DEF index
  <2>3. PICK a, b : a = SubSeq(w, 1, i - 1) /\ b = SubSeq(w, i + 1, Len(w))
    OBVIOUS
  <2>4. PICK n : n = take_queued(w, q)
    OBVIOUS
  <2>5. \A k \in 1..Len(w) : w[k] \in S
    BY ElementOfSeq
  <2>6. /\ a \in Seq(S) /\ Len(a) = i - 1
        /\ \A k \in 1..i - 1 : a[k] = w[k]
    BY <1>1, <2>3, <2>5, SubSeqProperties
  <2>7. /\ b \in Seq(S) /\ Len(b) = Len(w) - i
        /\ \A k \in 1..Len(w) - i : b[k] = w[i + k]
    <3>1. i + 1 \in Int /\ Len(w) \in Int /\ \A k \in i + 1..Len(w) : w[k] \in S
      BY <1>1, <2>5
    <3>2. /\ b \in Seq(S) /\ Len(b) = IF i + 1 <= Len(w) THEN Len(w) - (i + 1) + 1 ELSE 0
          /\ \A k \in 1..Len(w) - (i + 1) + 1 : b[k] = w[i + 1 + k - 1]
      BY <2>3, <3>1, SubSeqProperties
    <3>3. PICK l \in Nat : l = Len(w)
      BY <1>1
    <3>4. Len(b) = l - i
      BY <3>2, <3>3
    <3>5. \A k \in 1..l - i : k \in 1..l - (i + 1) + 1 /\ i + 1 + k - 1 = i + k
      BY <3>3
    <3>. QED
      BY <3>2, <3>3, <3>4, <3>5
  <2>8. /\ n \in Seq(S) /\ Len(n) = Len(w) - 1
        /\ \A k \in 1..Len(w) - 1 : n[k] = IF k <= i - 1 THEN a[k] ELSE b[k - (i - 1)]
    <3>1. n = a \o b
      BY <2>2, <2>3, <2>4
    <3>2. /\ a \o b \in Seq(S) /\ Len(a \o b) = Len(a) + Len(b)
          /\ \A k \in 1..Len(a) + Len(b) : (a \o b)[k] = IF k <= Len(a) THEN a[k] ELSE b[k - Len(a)]
      BY <2>6, <2>7, ConcatProperties
    <3>. QED
      BY <1>1, <2>6, <2>7, <3>1, <3>2
  <2>9. \A j \in 1..Len(n) : n[j] = w[IF j < i THEN j ELSE j + 1]
    BY <1>1, <2>6, <2>7, <2>8
  <2>. QED
    BY <2>8, <2>9, <2>4 DEF LessOne
<1>. QED
  BY <1>2, <1>3

-----------------------------------------------------------------------------
(* The lists of a queue: what the mirror q shows, and what the updates us  *)
(* of run r will make of it                                                *)

IsList(us, r, k) == k \in 1..Len(us) /\ us[k].type = "QueueChanged" /\ us[k].run = r
Shows(us, r, i, k) == IsList(us, r, k) /\ i \in DirectsOf(us[k].queued)
(* The message i is, or will be, on the mirror. *)
Listed(q, us, r, i) == i \in DirectsOf(q) \/ \E k \in 1..Len(us) : Shows(us, r, i, k)
(* The update k takes it off again. *)
Drops(q, us, r, i, k) ==
  /\ IsList(us, r, k) /\ i \notin DirectsOf(us[k].queued)
  /\ i \in DirectsOf(q) \/ \E j \in 1..Len(us) : j < k /\ Shows(us, r, i, j)
Stays(q, us, r, i, n) == \A k \in 1..n : ~Drops(q, us, r, i, k)
(* The last list is the one its driver announced. *)
Mirrors(q, us, r, list) ==
  /\ \A k \in 1..Len(us) : IsList(us, r, k) =>
       us[k].queued = list \/ \E j \in 1..Len(us) : k < j /\ IsList(us, r, j)
  /\ (\E k \in 1..Len(us) : IsList(us, r, k)) \/ q = list \/ list = <<>>

LEMMA UnlistedStays ==
  ASSUME NEW q, NEW us, NEW r, NEW i, ~Listed(q, us, r, i)
  PROVE  Stays(q, us, r, i, Len(us))
  BY DEF Listed, Drops, Stays

(* An update more, of whatever kind. *)
Keeps(q, us, n, r, i) ==
  \A k \in 1..Len(us) : /\ n[k] = us[k]
                        /\ IsList(n, r, k) <=> IsList(us, r, k)
                        /\ Shows(n, r, i, k) <=> Shows(us, r, i, k)
                        /\ Drops(q, n, r, i, k) <=> Drops(q, us, r, i, k)

LEMMA MoreDrops ==
  ASSUME NEW q, NEW us, NEW r, NEW i, NEW u, NEW n, Continues(n, us, u)
  PROVE  Keeps(q, us, n, r, i)
<1>1. ASSUME NEW k \in 1..Len(us)
      PROVE  /\ n[k] = us[k]
             /\ IsList(n, r, k) <=> IsList(us, r, k)
             /\ Shows(n, r, i, k) <=> Shows(us, r, i, k)
  BY <1>1 DEF IsList, Shows, Continues
<1>2. ASSUME NEW k \in 1..Len(us)
      PROVE  Drops(q, n, r, i, k) <=> Drops(q, us, r, i, k)
  <2>1. \A j \in 1..Len(n) : j < k => j \in 1..Len(us)
    BY DEF Continues
  <2>2. \A j \in 1..Len(us) : j \in 1..Len(n)
    BY DEF Continues
  <2>. QED
    BY <1>1, <2>1, <2>2 DEF Drops
<1>. QED
  BY <1>1, <1>2 DEF Keeps

LEMMA MoreStays ==
  ASSUME NEW q, NEW us, NEW r, NEW i, NEW u, NEW n, Continues(n, us, u)
  PROVE  /\ \A m \in 0..Len(us) : Stays(q, us, r, i, m) => Stays(q, n, r, i, m)
         /\ Listed(q, us, r, i) => Listed(q, n, r, i)
         /\ /\ Stays(q, us, r, i, Len(us))
            /\ u.type = "QueueChanged" /\ u.run = r => i \in DirectsOf(u.queued)
            => Stays(q, n, r, i, Len(n))
         /\ /\ ~Listed(q, us, r, i)
            /\ u.type = "QueueChanged" /\ u.run = r => i \notin DirectsOf(u.queued)
            => ~Listed(q, n, r, i)
         /\ /\ Listed(q, us, r, i)
            /\ u.type = "QueueChanged" /\ u.run = r /\ i \notin DirectsOf(u.queued)
            => \E k \in 1..Len(n) : Drops(q, n, r, i, k)
<1>1. /\ Len(us) \in Nat /\ Len(n) = Len(us) + 1 /\ n[Len(us) + 1] = u
      /\ \A k \in 1..Len(us) : /\ n[k] = us[k]
                               /\ IsList(n, r, k) <=> IsList(us, r, k)
                               /\ Shows(n, r, i, k) <=> Shows(us, r, i, k)
                               /\ Drops(q, n, r, i, k) <=> Drops(q, us, r, i, k)
  BY MoreDrops DEF Continues, Keeps
<1>2. \A k \in 1..Len(n) : k \in 1..Len(us) \/ k = Len(us) + 1
  BY <1>1
<1>3. \A m \in 0..Len(us) : Stays(q, us, r, i, m) => Stays(q, n, r, i, m)
  <2>1. \A m \in 0..Len(us) : 1..m \subseteq 1..Len(us)
    BY <1>1
  <2>. QED
    BY <1>1, <2>1 DEF Stays
<1>4. ASSUME Stays(q, us, r, i, Len(us)), u.type = "QueueChanged" /\ u.run = r => i \in DirectsOf(u.queued)
      PROVE  Stays(q, n, r, i, Len(n))
  BY <1>1, <1>2, <1>4 DEF Stays, Drops, IsList
<1>5. ASSUME ~Listed(q, us, r, i), u.type = "QueueChanged" /\ u.run = r => i \notin DirectsOf(u.queued)
      PROVE  ~Listed(q, n, r, i)
  BY <1>1, <1>2, <1>5 DEF Listed, Shows, IsList
<1>6. ASSUME Listed(q, us, r, i), u.type = "QueueChanged", u.run = r, i \notin DirectsOf(u.queued)
      PROVE  Drops(q, n, r, i, Len(n))
  <2>1. \A j \in 1..Len(us) : j \in 1..Len(n) /\ j < Len(n)
    BY <1>1
  <2>2. IsList(n, r, Len(n))
    BY <1>1, <1>6 DEF IsList
  <2>. QED
    BY <1>1, <1>6, <2>1, <2>2 DEF Drops, Listed
<1>7. Len(n) \in 1..Len(n)
  BY <1>1
<1>8. Listed(q, us, r, i) => Listed(q, n, r, i)
  <2>1. \A j \in 1..Len(us) : j \in 1..Len(n)
    BY <1>1
  <2>. QED
    BY <1>1, <2>1 DEF Listed
<1>. QED
  BY <1>3, <1>4, <1>5, <1>6, <1>7, <1>8

LEMMA MoreMirrors ==
  ASSUME NEW q, NEW us, NEW r, NEW list, NEW u, NEW n, Continues(n, us, u)
  PROVE  /\ Mirrors(q, us, r, list) /\ ~(u.type = "QueueChanged" /\ u.run = r)
            => Mirrors(q, n, r, list)
         /\ u.type = "QueueChanged" /\ u.run = r => Mirrors(q, n, r, u.queued)
<1>1. /\ Len(us) \in Nat /\ Len(n) = Len(us) + 1 /\ n[Len(us) + 1] = u
      /\ \A k \in 1..Len(us) : n[k] = us[k] /\ (IsList(n, r, k) <=> IsList(us, r, k))
  BY DEF Continues, IsList
<1>2. \A k \in 1..Len(n) : k \in 1..Len(us) \/ k = Len(us) + 1
  BY <1>1
<1>3. \A k \in 1..Len(us) : k \in 1..Len(n) /\ k < Len(n)
  BY <1>1
<1>4. ASSUME Mirrors(q, us, r, list), ~(u.type = "QueueChanged" /\ u.run = r)
      PROVE  Mirrors(q, n, r, list)
  <2>1. ~IsList(n, r, Len(us) + 1)
    BY <1>1, <1>4 DEF IsList
  <2>. QED
    BY <1>1, <1>2, <1>3, <1>4, <2>1 DEF Mirrors
<1>5. ASSUME u.type = "QueueChanged", u.run = r
      PROVE  Mirrors(q, n, r, u.queued)
  <2>1. IsList(n, r, Len(n)) /\ Len(n) \in 1..Len(n)
    BY <1>1, <1>5 DEF IsList
  <2>. QED
    BY <1>1, <1>2, <1>3, <1>5, <2>1 DEF Mirrors
<1>. QED
  BY <1>4, <1>5

(* The oldest update is heard; q2 is the mirror then. *)
HeardBy(q, us, r, q2) == IF IsList(us, r, 1) THEN q2 = us[1].queued ELSE q2 = q

LEMMA HeardDrops ==
  ASSUME NEW q, NEW us, IsSeq(us), us # <<>>, NEW r, NEW i, NEW q2, HeardBy(q, us, r, q2),
         ~Drops(q, us, r, i, 1)
  PROVE  LET n == Tail(us) IN
         /\ \A k \in 1..Len(n) : Drops(q2, n, r, i, k) <=> Drops(q, us, r, i, k + 1)
         /\ Listed(q2, n, r, i) <=> Listed(q, us, r, i)
<1>. DEFINE n == Tail(us)
<1>1. /\ Len(us) \in Nat \ {0} /\ Len(n) = Len(us) - 1
      /\ \A k \in 1..Len(n) : n[k] = us[k + 1]
  BY TailAny
<1>. HIDE DEF n
<1>2. \A k \in 1..Len(us) : k = 1 \/ \E j \in 1..Len(n) : k = j + 1
  <2>. SUFFICES ASSUME NEW k \in 1..Len(us), k # 1
                PROVE  k - 1 \in 1..Len(n) /\ k = k - 1 + 1
    OBVIOUS
  <2>. QED
    BY <1>1
<1>3. \A k \in 1..Len(n) : k + 1 \in 1..Len(us) /\ k + 1 # 1
  BY <1>1
<1>4. \A k \in 1..Len(n) : /\ IsList(n, r, k) <=> IsList(us, r, k + 1)
                           /\ Shows(n, r, i, k) <=> Shows(us, r, i, k + 1)
  BY <1>1, <1>3 DEF IsList, Shows
<1>5. i \in DirectsOf(q2) => i \in DirectsOf(q) \/ Shows(us, r, i, 1)
  BY DEF HeardBy, Shows
<1>6. Shows(us, r, i, 1) => i \in DirectsOf(q2)
  BY DEF HeardBy, Shows
<1>7. i \in DirectsOf(q) => i \in DirectsOf(q2)
  BY DEF HeardBy, Drops
<1>8. 1 \in 1..Len(us)
  BY <1>1
<1>9. ASSUME NEW k \in 1..Len(n)
      PROVE  Drops(q2, n, r, i, k) <=> Drops(q, us, r, i, k + 1)
  <2>1. n[k] = us[k + 1] /\ (IsList(n, r, k) <=> IsList(us, r, k + 1))
    BY <1>1, <1>4
  <2>2. ASSUME \E j \in 1..Len(n) : j < k /\ Shows(n, r, i, j)
        PROVE  \E j \in 1..Len(us) : j < k + 1 /\ Shows(us, r, i, j)
    <3>1. PICK j \in 1..Len(n) : j < k /\ Shows(n, r, i, j)
      BY <2>2
    <3>2. j + 1 \in 1..Len(us) /\ j + 1 < k + 1 /\ Shows(us, r, i, j + 1)
      BY <1>1, <1>3, <1>4, <3>1
    <3>. QED
      BY <3>2
  <2>3. ASSUME NEW j \in 1..Len(us), j < k + 1, Shows(us, r, i, j)
        PROVE  i \in DirectsOf(q2) \/ \E l \in 1..Len(n) : l < k /\ Shows(n, r, i, l)
    <3>1. CASE j = 1
      BY <1>6, <2>3, <3>1
    <3>2. ASSUME NEW l \in 1..Len(n), j = l + 1
          PROVE  l < k /\ Shows(n, r, i, l)
      BY <1>1, <1>4, <2>3, <3>2
    <3>. QED
      BY <1>2, <3>1, <3>2
  <2>4. 1 < k + 1
    BY <1>1
  <2>. QED
    BY <1>5, <1>7, <1>8, <2>1, <2>2, <2>3, <2>4 DEF Drops
<1>10. Listed(q2, n, r, i) <=> Listed(q, us, r, i)
  BY <1>2, <1>3, <1>4, <1>5, <1>6, <1>7, <1>8 DEF Listed
<1>. QED
  BY <1>9, <1>10 DEF n

LEMMA HeardStays ==
  ASSUME NEW q, NEW us, IsSeq(us), us # <<>>, NEW r, NEW i, NEW q2, HeardBy(q, us, r, q2)
  PROVE  LET n == Tail(us) IN
         \A k \in 1..Len(us) : Stays(q, us, r, i, k) => Stays(q2, n, r, i, k - 1)
<1>. DEFINE n == Tail(us)
<1>1. /\ Len(us) \in Nat \ {0} /\ Len(n) = Len(us) - 1
  BY TailAny
<1>. HIDE DEF n
<1>. SUFFICES ASSUME NEW k \in 1..Len(us), Stays(q, us, r, i, k), NEW j \in 1..k - 1
              PROVE  ~Drops(q2, n, r, i, j)
  BY DEF Stays, n
<1>2. 1 \in 1..k /\ j \in 1..Len(n) /\ j + 1 \in 1..k
  BY <1>1
<1>. QED
  BY <1>2, HeardDrops DEF Stays, n

LEMMA HeardMirrors ==
  ASSUME NEW q, NEW us, IsSeq(us), us # <<>>, NEW r, NEW list, NEW q2, HeardBy(q, us, r, q2),
         Mirrors(q, us, r, list)
  PROVE  Mirrors(q2, Tail(us), r, list)
<1>. DEFINE n == Tail(us)
<1>1. /\ Len(us) \in Nat \ {0} /\ Len(n) = Len(us) - 1
      /\ \A k \in 1..Len(n) : n[k] = us[k + 1]
  BY TailAny
<1>. HIDE DEF n
<1>2. \A k \in 1..Len(us) : k = 1 \/ \E j \in 1..Len(n) : k = j + 1
  <2>. SUFFICES ASSUME NEW k \in 1..Len(us), k # 1
                PROVE  k - 1 \in 1..Len(n) /\ k = k - 1 + 1
    OBVIOUS
  <2>. QED
    BY <1>1
<1>3. \A k \in 1..Len(n) : k + 1 \in 1..Len(us)
  BY <1>1
<1>4. \A k \in 1..Len(n) : IsList(n, r, k) <=> IsList(us, r, k + 1)
  BY <1>1, <1>3 DEF IsList
<1>5. ASSUME NEW k \in 1..Len(n), IsList(n, r, k), n[k].queued # list
      PROVE  \E j \in 1..Len(n) : k < j /\ IsList(n, r, j)
  <2>1. PICK j \in 1..Len(us) : k + 1 < j /\ IsList(us, r, j)
    BY <1>1, <1>3, <1>4, <1>5 DEF Mirrors
  <2>2. PICK l \in 1..Len(n) : j = l + 1
    BY <1>1, <1>2, <2>1
  <2>3. k < l
    BY <1>1, <2>1, <2>2
  <2>. QED
    BY <1>4, <2>1, <2>2, <2>3
<1>6. ASSUME \A k \in 1..Len(n) : ~IsList(n, r, k)
      PROVE  q2 = list \/ list = <<>>
  <2>1. \A k \in 1..Len(us) : IsList(us, r, k) => k = 1
    BY <1>2, <1>4, <1>6
  <2>2. CASE IsList(us, r, 1)
    <3>1. 1 \in 1..Len(us) /\ \A j \in 1..Len(us) : 1 < j => j # 1
      BY <1>1
    <3>. QED
      BY <2>1, <2>2, <3>1 DEF Mirrors, HeardBy
  <2>3. CASE ~IsList(us, r, 1)
    BY <2>1, <2>3 DEF Mirrors, HeardBy
  <2>. QED
    BY <2>2, <2>3
<1>. QED
  BY <1>5, <1>6 DEF Mirrors, n

-----------------------------------------------------------------------------
(* Drivers *)

(* A prompt carries ids of the n messages and posts there are. *)
Written(p, n) == p \in Prompt /\ Content(p) \subseteq 1..n
InBox(d, i) == \E j \in 1..Len(d.inbox) : d.inbox[j].direct = i
InLine(d, i) == \E j \in 1..Len(d.waiting) : d.waiting[j].prompt.direct = i
(* A message is the direct one of one prompt at most. *)
Once(d) ==
  /\ \A j, k \in 1..Len(d.inbox) :
       d.inbox[j].direct = d.inbox[k].direct => j = k \/ d.inbox[j].direct = 0
  /\ \A j, k \in 1..Len(d.waiting) :
       d.waiting[j].prompt.direct = d.waiting[k].prompt.direct
         => j = k \/ d.waiting[j].prompt.direct = 0
  /\ \A j \in 1..Len(d.inbox) : d.inbox[j].direct # 0 => ~InLine(d, d.inbox[j].direct)
Sound(d, n) ==
  /\ d \in Drivers
  /\ \A j \in 1..Len(d.inbox) : Written(d.inbox[j], n)
  /\ \A j \in 1..Len(d.waiting) : Written(d.waiting[j].prompt, n)
  /\ DirectsOf(d.announced) \subseteq 1..n
  /\ Once(d)
Unborn == [pc |-> "none", exited |-> FALSE, reported |-> FALSE, inbox |-> <<>>,
           waiting |-> <<>>, turn |-> "none", announced |-> <<>>, next_q |-> 0]
(* Between two turns of its loop the driver has announced what waits. *)
Orderly(d) ==
  /\ d.pc = "none" => d = Unborn
  /\ d.pc = "off" => /\ d.exited /\ d.turn = "none"
                     /\ d.inbox = <<>> /\ d.waiting = <<>> /\ d.announced = <<>>
  /\ d.pc = "starting" => d.announced = <<>> /\ d.turn = "none"
  /\ d.pc = "on" => d.announced = Entries(d.waiting)

LEMMA SoundGrows ==
  ASSUME NEW n \in Nat, NEW m \in Nat, n <= m
  PROVE  /\ 1..n \subseteq 1..m
         /\ \A p : Written(p, n) => Written(p, m)
         /\ \A d : Sound(d, n) => Sound(d, m)
<1>1. 1..n \subseteq 1..m
  OBVIOUS
<1>. QED
  BY <1>1 DEF Sound, Written

LEMMA EntriesOf ==
  ASSUME NEW w, w \in Seq([q : Nat, prompt : Prompt])
  PROVE  /\ Entries(w) \in Seq(Entry) /\ Len(w) \in Nat
         /\ DirectsOf(Entries(w)) = {w[j].prompt.direct : j \in 1..Len(w)} \ {0}
<1>1. Len(w) \in Nat /\ DOMAIN w = 1..Len(w) /\ \A j \in 1..Len(w) : w[j] \in [q : Nat, prompt : Prompt]
  BY LenProperties, ElementOfSeq
<1>2. \A j \in 1..Len(w) : [q |-> w[j].q, direct |-> w[j].prompt.direct] \in Entry
  BY <1>1 DEF Entry, Prompt
<1>3. Entries(w) \in [1..Len(w) -> Entry]
  BY <1>1, <1>2 DEF Entries
<1>4. Entries(w) \in Seq(Entry)
  BY <1>1, <1>3, SeqDef
<1>5. DirectsOf(Entries(w)) = {w[j].prompt.direct : j \in 1..Len(w)} \ {0}
  BY <1>1 DEF DirectsOf, Entries
<1>. QED
  BY <1>1, <1>4, <1>5

(* What the loop top makes of a driver: x, and of the updates. *)
TopMakes(r, d, x, mid) ==
  /\ x \in Drivers /\ driver' = [driver EXCEPT ![r] = x]
  /\ x.pc = d.pc /\ x.exited = d.exited /\ x.reported = d.reported /\ x.inbox = d.inbox
  /\ x.announced = Entries(x.waiting)
  /\ \/ x.waiting = d.waiting /\ x.turn = d.turn /\ told' = told /\ mid = updates
     \/ /\ d.waiting # <<>> /\ d.turn = "none" /\ x.waiting = Tail(d.waiting)
        /\ \/ /\ x.turn = "running" /\ told' = told \cup Content(d.waiting[1].prompt)
              /\ mid = Append(updates, [type |-> "TurnStarted", run |-> r,
                                        prompt |-> d.waiting[1].prompt])
           \/ x.turn = "unsent" /\ told' = told /\ mid = updates
  /\ updates' = IF x.announced = d.announced THEN mid
                ELSE Append(mid, [type |-> "QueueChanged", run |-> r, queued |-> x.announced])

LEMMA TopTakes ==
  ASSUME NEW r \in Runs, NEW d \in Drivers, IsSeq(updates), LoopTop(r, d)
  PROVE  \E x, mid : TopMakes(r, d, x, mid)
<1>1. PICK starts : starts = (d.turn = "none" /\ d.waiting # <<>>)
  OBVIOUS
<1>2. PICK rest : rest = IF starts THEN Tail(d.waiting) ELSE d.waiting
  OBVIOUS
<1>3. PICK list : list = Entries(rest)
  OBVIOUS
<1>4. PICK sent \in {starts} \cup (IF "stdin" \in Faults THEN {FALSE} ELSE {}) :
       /\ driver' = [driver EXCEPT ![r] =
              [d EXCEPT !.waiting = rest, !.announced = list,
                        !.turn = IF sent THEN "running" ELSE IF starts THEN "unsent" ELSE @]]
       /\ updates' = updates \o (IF sent THEN Sent(r, d.waiting[1].prompt) ELSE <<>>)
                              \o Changed(r, d, list)
       /\ told' = told \cup IF sent THEN Content(d.waiting[1].prompt) ELSE {}
  BY <1>1, <1>2, <1>3 DEF LoopTop
<1>5. PICK x : x = [d EXCEPT !.waiting = rest, !.announced = list,
                             !.turn = IF sent THEN "running" ELSE IF starts THEN "unsent" ELSE @]
  OBVIOUS
<1>6. PICK mid : mid = updates \o (IF sent THEN Sent(r, d.waiting[1].prompt) ELSE <<>>)
  OBVIOUS
<1>7. d.waiting \in Seq([q : Nat, prompt : Prompt])
  BY DEF Drivers
<1>8. rest \in Seq([q : Nat, prompt : Prompt])
  BY <1>1, <1>2, <1>7, HeadTailProperties
<1>9. list \in Seq(Entry)
  BY <1>3, <1>8, EntriesOf
<1>10. /\ x \in Drivers /\ x.pc = d.pc /\ x.exited = d.exited /\ x.reported = d.reported
       /\ x.inbox = d.inbox /\ x.waiting = rest /\ x.announced = list
       /\ x.turn = IF sent THEN "running" ELSE IF starts THEN "unsent" ELSE d.turn
  BY <1>5, <1>8, <1>9 DEF Drivers
<1>11. /\ IsSeq(mid)
       /\ mid = IF sent THEN Append(updates, [type |-> "TurnStarted", run |-> r,
                                              prompt |-> d.waiting[1].prompt])
                ELSE updates
  BY <1>6, AppendAny DEF Sent
<1>12. updates' = IF list = d.announced THEN mid
                  ELSE Append(mid, [type |-> "QueueChanged", run |-> r, queued |-> list])
  BY <1>4, <1>6, <1>11, AppendAny DEF Changed
<1>13. sent => starts
  BY <1>4
<1>14. \/ x.waiting = d.waiting /\ x.turn = d.turn /\ told' = told /\ mid = updates
       \/ /\ d.waiting # <<>> /\ d.turn = "none" /\ x.waiting = Tail(d.waiting)
          /\ \/ /\ x.turn = "running" /\ told' = told \cup Content(d.waiting[1].prompt)
                /\ mid = Append(updates, [type |-> "TurnStarted", run |-> r,
                                          prompt |-> d.waiting[1].prompt])
             \/ x.turn = "unsent" /\ told' = told /\ mid = updates
  <2>1. CASE sent
    <3>1. starts /\ x.turn = "running" /\ x.waiting = Tail(d.waiting)
      BY <1>2, <1>10, <1>13, <2>1
    <3>2. told' = told \cup Content(d.waiting[1].prompt)
      BY <1>4, <2>1
    <3>. QED
      BY <1>1, <1>11, <2>1, <3>1, <3>2
  <2>2. CASE ~sent /\ starts
    <3>1. x.turn = "unsent" /\ x.waiting = Tail(d.waiting)
      BY <1>2, <1>10, <2>2
    <3>2. told' = told
      BY <1>4, <2>2
    <3>. QED
      BY <1>1, <1>11, <2>2, <3>1, <3>2
  <2>3. CASE ~sent /\ ~starts
    <3>1. x.turn = d.turn /\ x.waiting = d.waiting
      BY <1>2, <1>10, <2>3
    <3>2. told' = told
      BY <1>4, <2>3
    <3>. QED
      BY <1>11, <2>3, <3>1, <3>2
  <2>. QED
    BY <2>1, <2>2, <2>3
<1>15. driver' = [driver EXCEPT ![r] = x]
  BY <1>4, <1>5
<1>. QED
  BY <1>3, <1>10, <1>12, <1>14, <1>15 DEF TopMakes

(* The line of x is that of d, or what follows its first prompt. *)
LEMMA LineShrinks ==
  ASSUME NEW r \in Runs, NEW d, NEW n \in Nat, Sound(d, n), NEW x, NEW mid, TopMakes(r, d, x, mid)
  PROVE  /\ Sound(x, n)
         /\ \A j \in 1..Len(x.waiting) : \E k \in 1..Len(d.waiting) : x.waiting[j] = d.waiting[k]
         /\ d.waiting # <<>> => 1 \in 1..Len(d.waiting) /\ Written(d.waiting[1].prompt, n)
         /\ d.waiting # <<>> /\ x.waiting = Tail(d.waiting) =>
              \A i \in 1..n : /\ d.waiting[1].prompt.direct = i => ~InLine(x, i) /\ ~InBox(x, i)
                              /\ InLine(d, i) => d.waiting[1].prompt.direct = i \/ InLine(x, i)
         /\ x.announced \in Seq(Entry)
         /\ \A i \in 1..n : i \in DirectsOf(x.announced) <=> InLine(x, i)
<1>1. d \in Drivers /\ x \in Drivers /\ x.inbox = d.inbox
  BY DEF Sound, TopMakes
<1>2. /\ d.waiting \in Seq([q : Nat, prompt : Prompt]) /\ x.waiting \in Seq([q : Nat, prompt : Prompt])
      /\ Len(d.waiting) \in Nat
  BY <1>1, LenProperties DEF Drivers
<1>3. /\ x.announced \in Seq(Entry) /\ Len(x.waiting) \in Nat
      /\ DirectsOf(x.announced) = {x.waiting[j].prompt.direct : j \in 1..Len(x.waiting)} \ {0}
  BY <1>2, EntriesOf DEF TopMakes
<1>4. ASSUME d.waiting # <<>>, x.waiting = Tail(d.waiting)
      PROVE  /\ Len(x.waiting) = Len(d.waiting) - 1
             /\ \A j \in 1..Len(x.waiting) : j + 1 \in 1..Len(d.waiting) /\ x.waiting[j] = d.waiting[j + 1]
  <2>1. /\ Len(x.waiting) = Len(d.waiting) - 1
        /\ \A j \in 1..Len(x.waiting) : x.waiting[j] = d.waiting[j + 1]
    BY <1>2, <1>4, HeadTailProperties
  <2>. QED
    BY <1>2, <2>1
<1>5. d.waiting # <<>> => 1 \in 1..Len(d.waiting)
  BY <1>2, EmptySeq
<1>6. \A j \in 1..Len(x.waiting) : \E k \in 1..Len(d.waiting) : x.waiting[j] = d.waiting[k]
  BY <1>4 DEF TopMakes
<1>7. d.waiting # <<>> => Written(d.waiting[1].prompt, n)
  BY <1>5 DEF Sound
<1>8. \A i : InLine(x, i) => InLine(d, i)
  BY <1>6 DEF InLine
<1>9. Once(x)
  <2>1. \A j \in 1..Len(x.inbox) : x.inbox[j].direct # 0 => ~InLine(x, x.inbox[j].direct)
    BY <1>1, <1>8 DEF Sound, Once
  <2>2. \A j, k \in 1..Len(x.waiting) :
          x.waiting[j].prompt.direct = x.waiting[k].prompt.direct
            => j = k \/ x.waiting[j].prompt.direct = 0
    <3>1. CASE x.waiting = d.waiting
      BY <3>1 DEF Sound, Once
    <3>2. CASE d.waiting # <<>> /\ x.waiting = Tail(d.waiting)
      <4>. SUFFICES ASSUME NEW j \in 1..Len(x.waiting), NEW k \in 1..Len(x.waiting),
                           x.waiting[j].prompt.direct = x.waiting[k].prompt.direct
                    PROVE  j = k \/ x.waiting[j].prompt.direct = 0
        OBVIOUS
      <4>1. /\ j + 1 \in 1..Len(d.waiting) /\ x.waiting[j] = d.waiting[j + 1]
            /\ k + 1 \in 1..Len(d.waiting) /\ x.waiting[k] = d.waiting[k + 1]
        BY <1>4, <3>2
      <4>2. j + 1 = k + 1 \/ x.waiting[j].prompt.direct = 0
        BY <4>1 DEF Sound, Once
      <4>. QED
        BY <4>2
    <3>. QED
      BY <3>1, <3>2 DEF TopMakes
  <2>. QED
    BY <1>1, <2>1, <2>2 DEF Sound, Once
<1>10. Sound(x, n)
  <2>1. \A j \in 1..Len(x.waiting) : Written(x.waiting[j].prompt, n)
    BY <1>6 DEF Sound
  <2>2. DirectsOf(x.announced) \subseteq 1..n
    BY <1>3, <2>1 DEF Written, Content
  <2>. QED
    BY <1>1, <1>9, <2>1, <2>2 DEF Sound
<1>11. ASSUME d.waiting # <<>>, x.waiting = Tail(d.waiting), NEW i \in 1..n
       PROVE  /\ d.waiting[1].prompt.direct = i => ~InLine(x, i) /\ ~InBox(x, i)
              /\ InLine(d, i) => d.waiting[1].prompt.direct = i \/ InLine(x, i)
  <2>1. ASSUME d.waiting[1].prompt.direct = i
        PROVE  ~InLine(x, i) /\ ~InBox(x, i)
    <3>1. \A j \in 1..Len(x.waiting) : x.waiting[j].prompt.direct # i
      <4>. SUFFICES ASSUME NEW j \in 1..Len(x.waiting), x.waiting[j].prompt.direct = i PROVE FALSE
        OBVIOUS
      <4>1. j + 1 \in 1..Len(d.waiting) /\ d.waiting[j + 1].prompt.direct = i /\ 1 \in 1..Len(d.waiting)
        BY <1>4, <1>5, <1>11
      <4>2. j + 1 = 1 \/ i = 0
        BY <2>1, <4>1 DEF Sound, Once
      <4>. QED
        BY <4>2
    <3>2. \A j \in 1..Len(d.inbox) : d.inbox[j].direct # i
      BY <1>5, <1>11, <2>1 DEF Sound, Once, InLine
    <3>. QED
      BY <1>1, <3>1, <3>2 DEF InLine, InBox
  <2>2. ASSUME NEW j \in 1..Len(d.waiting), d.waiting[j].prompt.direct = i
        PROVE  d.waiting[1].prompt.direct = i \/ InLine(x, i)
    <3>1. CASE j = 1
      BY <2>2, <3>1
    <3>2. CASE j # 1
      <4>1. j - 1 \in 1..Len(x.waiting) /\ j - 1 + 1 = j
        BY <1>2, <1>4, <1>11, <3>2
      <4>2. x.waiting[j - 1] = d.waiting[j]
        BY <1>4, <1>11, <4>1
      <4>. QED
        BY <2>2, <4>1, <4>2 DEF InLine
    <3>. QED
      BY <3>1, <3>2
  <2>. QED
    BY <2>1, <2>2 DEF InLine
<1>12. \A i \in 1..n : i \in DirectsOf(x.announced) <=> InLine(x, i)
  BY <1>3 DEF InLine
<1>. QED
  BY <1>3, <1>5, <1>6, <1>7, <1>10, <1>11, <1>12

-----------------------------------------------------------------------------
(* The types of all there is, and what was told *)

TypedRecords ==
  /\ last \in 0..MaxIds /\ cursor \in 0..MaxIds /\ events \in 0..MaxEvents
  /\ status \in [Ids -> Statuses] /\ \A i \in Ids : i > last => status[i] = "none"
  /\ in_flight \subseteq 1..last /\ held \subseteq 1..last
  /\ reserved \subseteq 1..last /\ removing \subseteq 1..last
  /\ slot \in BOOLEAN /\ resuming \in BOOLEAN /\ blocked \in BOOLEAN

TypedSessions ==
  /\ started \in 0..MaxRuns /\ live \in 0..started
  /\ queued \in Seq(Entry) /\ DirectsOf(queued) \subseteq 1..last
  /\ driver \in [Runs -> Drivers]
  /\ \A r \in Runs : /\ driver[r].pc = "none" <=> r > started
                     /\ Sound(driver[r], last) /\ Orderly(driver[r])

News(u, n, s, t) ==
  /\ u.run \in 1..s
  /\ u.type = "TurnStarted" => Written(u.prompt, n) /\ Content(u.prompt) \subseteq t
  /\ u.type = "QueueChanged" => u.queued \in Seq(Entry) /\ DirectsOf(u.queued) \subseteq 1..n
TypedUpdates ==
  /\ told \subseteq 1..last
  /\ IsSeq(updates) /\ \A k \in 1..Len(updates) : News(updates[k], last, started, told)
  /\ \A i \in Ids : status[i] = "delivered" => i \in told

Typed == TypedRecords /\ TypedSessions /\ TypedUpdates

LEMMA TypedTypes ==
  ASSUME Typed
  PROVE  TypeOK
<1>1. \A S \in {in_flight, held, reserved, removing, told} : S \subseteq 1..last
  BY DEF Typed, TypedRecords, TypedUpdates
<1>2. {slot, resuming, blocked} \subseteq BOOLEAN
  BY DEF Typed, TypedRecords
<1>. QED
  BY <1>1, <1>2 DEF Typed, TypedRecords, TypedSessions, TypeOK

LEMMA Bounds ==
  ASSUME Typed
  PROVE  /\ last \in Nat /\ started \in Nat /\ live \in Nat /\ MaxIds \in Nat /\ MaxRuns \in Nat
         /\ last <= MaxIds /\ started <= MaxRuns /\ live <= started
         /\ live # 0 => live \in Runs
         /\ MaxEvents \in Nat /\ events \in Nat
  BY PeerAssumption DEF Typed, TypedRecords, TypedSessions, Runs

LEMMA SameSessions ==
  ASSUME Typed, UNCHANGED <<queued, started, driver>>, live' \in {0, live},
         last' \in Nat, last <= last'
  PROVE  TypedSessions'
<1>1. /\ last \in Nat /\ 1..last \subseteq 1..last'
      /\ \A r \in Runs : Sound(driver[r], last')
  BY Bounds, SoundGrows DEF Typed, TypedSessions
<1>. QED
  BY <1>1, Bounds DEF Typed, TypedSessions

LEMMA SameUpdates ==
  ASSUME Typed, UNCHANGED <<updates, told>>, started' \in Nat, started <= started',
         last' \in Nat, last <= last', \A i \in Ids : status'[i] = "delivered" => status[i] = "delivered"
  PROVE  TypedUpdates'
<1>1. last \in Nat /\ started \in Nat
  BY Bounds
<1>2. 1..last \subseteq 1..last' /\ 1..started \subseteq 1..started'
  BY <1>1
<1>3. \A k \in 1..Len(updates) : News(updates[k], last', started', told)
  <2>1. \A p : Written(p, last) => Written(p, last')
    BY <1>1, SoundGrows
  <2>. QED
    BY <1>2, <2>1 DEF Typed, TypedUpdates, News
<1>. QED
  BY <1>2, <1>3 DEF Typed, TypedUpdates

(* What peers_prepare gathers was written before, and is not under way. *)
LEMMA PreparedOf ==
  ASSUME Typed, NEW direct \in 0..MaxIds
  PROVE  LET p == Prepared(direct) IN
         /\ p \in Prompt /\ p.direct = direct
         /\ p.held \subseteq held /\ p.held \cup p.posts \subseteq 1..last
         /\ \A i \in p.posts : status[i] = "posted"
         /\ reserved \cup p.held \cup p.posts \subseteq 1..last
<1>1. OldestHeld \subseteq held
  BY DEF OldestHeld
<1>2. Unseen \subseteq 1..last /\ Unseen \subseteq Ids /\ \A i \in Unseen : status[i] = "posted"
  BY Bounds DEF Unseen, Ids, Typed, TypedRecords
<1>3. OldestHeld \subseteq 1..last /\ OldestHeld \subseteq Ids
  BY <1>1, Bounds DEF Ids, Typed, TypedRecords
<1>4. reserved \subseteq 1..last
  BY DEF Typed, TypedRecords
<1>5. \A S, T : [direct |-> direct, held |-> S, posts |-> T].held = S
  OBVIOUS
<1>. QED
  BY <1>1, <1>2, <1>3, <1>4 DEF Prepared, Prompt

(* A prompt is sent to the live session. *)
LEMMA BoxGrows ==
  ASSUME NEW n \in Nat, NEW m \in Nat, n <= m, NEW d, Sound(d, n), Orderly(d), d.pc \in {"starting", "on"},
         NEW p, Written(p, m), p.direct = 0 \/ p.direct > n,
         NEW e, e = [d EXCEPT !.inbox = Append(@, p)]
  PROVE  /\ Sound(e, m) /\ Orderly(e) /\ e.pc = d.pc /\ e.waiting = d.waiting /\ e.turn = d.turn
         /\ e.exited = d.exited /\ e.reported = d.reported /\ e.announced = d.announced
         /\ Len(d.inbox) \in Nat
         /\ \A j \in 1..Len(d.inbox) : j \in 1..Len(e.inbox) /\ e.inbox[j] = d.inbox[j]
         /\ \A j \in 1..Len(e.inbox) : \/ j \in 1..Len(d.inbox) /\ e.inbox[j] = d.inbox[j]
                                       \/ j = Len(d.inbox) + 1 /\ e.inbox[j] = p
         /\ Len(d.inbox) + 1 \in 1..Len(e.inbox)
<1>1. d \in Drivers /\ d.inbox \in Seq(Prompt) /\ Len(d.inbox) \in Nat /\ p \in Prompt
  BY LenProperties DEF Sound, Drivers, Written
<1>2. PICK b : b = Append(d.inbox, p)
  OBVIOUS
<1>3. /\ b \in Seq(Prompt) /\ Len(b) = Len(d.inbox) + 1
      /\ \A j \in 1..Len(d.inbox) : b[j] = d.inbox[j]
      /\ b[Len(d.inbox) + 1] = p
  BY <1>1, <1>2, AppendProperties
<1>4. /\ e \in Drivers /\ e.inbox = b /\ e.pc = d.pc /\ e.waiting = d.waiting /\ e.turn = d.turn
      /\ e.exited = d.exited /\ e.reported = d.reported /\ e.announced = d.announced
  BY <1>1, <1>2, <1>3 DEF Drivers
<1>5. /\ \A j \in 1..Len(d.inbox) : j \in 1..Len(b) /\ b[j] = d.inbox[j]
      /\ \A j \in 1..Len(b) : \/ j \in 1..Len(d.inbox) /\ b[j] = d.inbox[j]
                              \/ j = Len(d.inbox) + 1 /\ b[j] = p
      /\ Len(d.inbox) + 1 \in 1..Len(b)
  <2>1. PICK l \in Nat : l = Len(d.inbox) /\ Len(b) = l + 1
    BY <1>1, <1>3
  <2>2. \A j \in 1..l + 1 : j \in 1..l \/ j = l + 1
    OBVIOUS
  <2>. QED
    BY <1>3, <2>1, <2>2
<1>6. Sound(d, m)
  BY SoundGrows
<1>7. \A j \in 1..Len(b) : Written(b[j], m)
  BY <1>5, <1>6 DEF Sound
<1>8. /\ \A j \in 1..Len(d.inbox) : d.inbox[j].direct <= n /\ d.inbox[j].direct \in Nat
      /\ \A j \in 1..Len(d.waiting) : d.waiting[j].prompt.direct <= n /\ d.waiting[j].prompt.direct \in Nat
  <2>1. ASSUME NEW o, Written(o, n)
        PROVE  o.direct <= n /\ o.direct \in Nat
    <3>1. o.direct \in 0..MaxIds /\ MaxIds \in Nat
      BY <2>1, PeerAssumption DEF Written, Prompt
    <3>2. o.direct = 0 \/ o.direct \in 1..n
      BY <2>1 DEF Written, Content
    <3>. QED
      BY <3>1, <3>2
  <2>. QED
    BY <2>1 DEF Sound
<1>9. p.direct \in Nat
  BY <1>1, PeerAssumption DEF Prompt
<1>10. Once(e)
  <2>1. \A j, k \in 1..Len(b) : b[j].direct = b[k].direct => j = k \/ b[j].direct = 0
    <3>. SUFFICES ASSUME NEW j \in 1..Len(b), NEW k \in 1..Len(b), b[j].direct = b[k].direct
                  PROVE  j = k \/ b[j].direct = 0
      OBVIOUS
    <3>1. CASE j \in 1..Len(d.inbox) /\ b[j] = d.inbox[j] /\ k \in 1..Len(d.inbox) /\ b[k] = d.inbox[k]
      BY <3>1 DEF Sound, Once
    <3>2. \A l \in 1..Len(d.inbox) : d.inbox[l].direct = p.direct => p.direct = 0
      BY <1>8, <1>9
    <3>. QED
      BY <1>5, <3>1, <3>2
  <2>2. \A j \in 1..Len(b) : b[j].direct # 0 => ~InLine(d, b[j].direct)
    <3>1. p.direct # 0 => ~InLine(d, p.direct)
      BY <1>8, <1>9 DEF InLine
    <3>. QED
      BY <1>5, <3>1 DEF Sound, Once
  <2>3. \A i : InLine(e, i) <=> InLine(d, i)
    BY <1>4 DEF InLine
  <2>4. \A j \in 1..Len(b) : b[j].direct # 0 => ~InLine(e, b[j].direct)
    BY <2>2, <2>3
  <2>5. \A j, k \in 1..Len(d.waiting) :
          d.waiting[j].prompt.direct = d.waiting[k].prompt.direct
            => j = k \/ d.waiting[j].prompt.direct = 0
    BY DEF Sound, Once
  <2>6. \A j, k \in 1..Len(e.inbox) : e.inbox[j].direct = e.inbox[k].direct => j = k \/ e.inbox[j].direct = 0
    BY <1>4, <2>1
  <2>7. \A j, k \in 1..Len(e.waiting) :
          e.waiting[j].prompt.direct = e.waiting[k].prompt.direct
            => j = k \/ e.waiting[j].prompt.direct = 0
    BY <1>4, <2>5
  <2>8. \A j \in 1..Len(e.inbox) : e.inbox[j].direct # 0 => ~InLine(e, e.inbox[j].direct)
    BY <1>4, <2>4
  <2>. QED
    BY <2>6, <2>7, <2>8 DEF Once
<1>11. Sound(e, m)
  BY <1>4, <1>6, <1>7, <1>10 DEF Sound
<1>12. Orderly(e)
  BY <1>4 DEF Orderly
<1>. QED
  BY <1>1, <1>4, <1>5, <1>11, <1>12

LEMMA DropTyped ==
  ASSUME Typed, drop_session, UNCHANGED <<last, cursor>>, resuming' \in BOOLEAN, blocked' \in BOOLEAN,
         events' \in 0..MaxEvents
  PROVE  /\ TypedRecords' /\ live' = 0 /\ in_flight' = {}
         /\ \A i \in Ids : status'[i] = "delivered" => status[i] = "delivered"
<1>1. status' \in [Ids -> Statuses] /\ \A i \in Ids : i > last => status'[i] = "none"
  <2>1. \A i \in Ids : i \in in_flight => ~(i > last)
    BY Bounds DEF Typed, TypedRecords, Ids
  <2>. QED
    BY <2>1 DEF drop_session, Typed, TypedRecords, Statuses
<1>2. held' \subseteq 1..last /\ removing' \subseteq 1..last /\ in_flight' = {} /\ reserved' = {}
      /\ slot' \in BOOLEAN
  BY DEF drop_session, Holding, Typed, TypedRecords
<1>3. \A i \in Ids : status'[i] = "delivered" => status[i] = "delivered"
  BY DEF drop_session, Typed, TypedRecords
<1>. QED
  BY <1>1, <1>2, <1>3 DEF drop_session, Typed, TypedRecords

LEMMA DropKeepsTypes ==
  ASSUME Typed, drop_session, UNCHANGED <<last, cursor, queued, started, driver, updates, told>>,
         resuming' \in BOOLEAN, blocked' \in BOOLEAN, events' \in 0..MaxEvents
  PROVE  Typed'
<1>1. /\ TypedRecords' /\ live' = 0
      /\ \A i \in Ids : status'[i] = "delivered" => status[i] = "delivered"
  BY DropTyped
<1>2. TypedSessions' /\ TypedUpdates'
  BY <1>1, Bounds, SameSessions, SameUpdates
<1>. QED
  BY <1>1, <1>2 DEF Typed

LEMMA HappensTyped ==
  ASSUME Typed, Happens
  PROVE  events' \in 0..MaxEvents
  BY Bounds DEF Happens

(* A prompt for the live session, of message direct or of none. *)
LEMMA SubmitTyped ==
  ASSUME Typed, Listens(live), NEW direct \in 0..MaxIds, direct = 0 \/ direct = last + 1,
         last' \in Nat, last <= last', direct <= last',
         Submit(Prepared(direct)), UNCHANGED <<queued, started, live>>
  PROVE  TypedSessions'
<1>. DEFINE p == Prepared(direct)
            e == [driver[live] EXCEPT !.inbox = Append(@, p)]
<1>1. last \in Nat /\ live \in Runs /\ driver[live].pc \in {"starting", "on"}
  BY Bounds DEF Listens
<1>2. Sound(driver[live], last) /\ Orderly(driver[live]) /\ driver \in [Runs -> Drivers]
  BY <1>1 DEF Typed, TypedSessions
<1>3. p \in Prompt /\ p.direct = direct /\ p.held \cup p.posts \subseteq 1..last
  BY PreparedOf
<1>. HIDE DEF p
<1>4. Content(p) \subseteq 1..last'
  BY <1>1, <1>3 DEF Content
<1>5. Written(p, last')
  BY <1>3, <1>4 DEF Written
<1>6. p.direct = 0 \/ p.direct > last
  BY <1>1, <1>3
<1>7. Sound(e, last') /\ Orderly(e) /\ e.pc = driver[live].pc
  BY <1>1, <1>2, <1>5, <1>6, BoxGrows
<1>. HIDE DEF e
<1>8. driver' = [driver EXCEPT ![live] = e]
  BY DEF Submit, e, p
<1>9. e \in Drivers
  BY <1>7 DEF Sound
<1>10. \A r \in Runs : r # live => Sound(driver[r], last')
  BY <1>1, SoundGrows DEF Typed, TypedSessions
<1>11. 1..last \subseteq 1..last'
  BY <1>1
<1>12. \A r \in Runs : /\ driver'[r].pc = "none" <=> r > started
                       /\ Sound(driver'[r], last') /\ Orderly(driver'[r])
  BY <1>1, <1>2, <1>7, <1>8, <1>10 DEF Typed, TypedSessions
<1>. QED
  BY <1>1, <1>2, <1>8, <1>9, <1>11, <1>12 DEF Typed, TypedSessions

LEMMA UserPromptTyped ==
  ASSUME Typed, UserPrompt
  PROVE  Typed'
<1>1. events' \in 0..MaxEvents
  BY HappensTyped DEF UserPrompt
<1>2. CASE Listens(live)
  <2>1. reserved' \subseteq 1..last
    BY <1>2, Bounds, PreparedOf DEF UserPrompt, Reserves
  <2>2. UNCHANGED <<records, removing, live, resuming, blocked, queued, started, removals, told, updates>>
        /\ Submit(Prepared(0))
    BY <1>2 DEF UserPrompt
  <2>3. TypedRecords'
    BY <1>1, <2>1, <2>2 DEF Typed, TypedRecords, records
  <2>4. TypedSessions'
    BY <1>2, <2>2, Bounds, SubmitTyped DEF records
  <2>5. TypedUpdates'
    BY <2>2, Bounds, SameUpdates DEF records
  <2>. QED
    BY <2>3, <2>4, <2>5 DEF Typed
<1>3. CASE ~Listens(live)
  BY <1>1, <1>3, DropKeepsTypes DEF UserPrompt
<1>. QED
  BY <1>2, <1>3

LEMMA ResumeTyped ==
  ASSUME Typed, ResumeReplayReady
  PROVE  /\ Typed' /\ started + 1 \in Runs /\ driver[started + 1] = Unborn
         /\ driver'[started + 1] = [Unborn EXCEPT !.pc = "starting",
                                                  !.waiting = <<[q |-> 0, prompt |-> Prepared(0)]>>]
         /\ \A r \in Runs : r # started + 1 => driver'[r] = driver[r]
<1>. DEFINE s == started + 1
            p == Prepared(0)
            w == <<[q |-> 0, prompt |-> p]>>
            e == [Unborn EXCEPT !.pc = "starting", !.waiting = w]
<1>1. last \in Nat /\ started \in Nat /\ s \in Runs /\ s \in 0..MaxRuns /\ s > started
  BY Bounds DEF ResumeReplayReady, Runs
<1>2. driver[s].pc = "none" /\ driver[s] = Unborn /\ driver \in [Runs -> Drivers]
  BY <1>1 DEF Typed, TypedSessions, Orderly
<1>3. p \in Prompt /\ p.direct = 0 /\ p.held \cup p.posts \subseteq 1..last
      /\ reserved \cup p.held \cup p.posts \subseteq 1..last
  BY Bounds, PreparedOf
<1>4. Written(p, last)
  BY <1>3 DEF Written, Content
<1>. HIDE DEF s
<1>5. driver' = [driver EXCEPT ![s] = e]
  BY <1>2 DEF ResumeReplayReady, s
<1>. HIDE DEF p
<1>6. w \in Seq([q : Nat, prompt : Prompt]) /\ Len(w) = 1 /\ w[1] = [q |-> 0, prompt |-> p]
  BY <1>3
<1>7. \A j \in 1..Len(w) : w[j].prompt = p
  BY <1>6
<1>. HIDE DEF w
<1>8. /\ e \in Drivers /\ e.pc = "starting" /\ e.inbox = <<>> /\ e.waiting = w /\ e.announced = <<>>
      /\ e.turn = "none"
  <2>1. \A S : <<>> \in Seq(S)
    BY EmptySeq
  <2>2. Unborn \in Drivers
    BY <2>1 DEF Unborn, Drivers
  <2>3. Unborn.inbox = <<>> /\ Unborn.announced = <<>> /\ Unborn.turn = "none"
    BY DEF Unborn
  <2>. QED
    BY <1>6, <2>2, <2>3 DEF Drivers
<1>. HIDE DEF e
<1>9. Sound(e, last)
  <2>1. Len(e.inbox) = 0 /\ DirectsOf(e.announced) = {}
    BY <1>8, EmptySeq DEF DirectsOf
  <2>2. Once(e)
    BY <1>3, <1>7, <1>8, <2>1 DEF Once, InLine
  <2>. QED
    BY <1>4, <1>7, <1>8, <2>1, <2>2 DEF Sound
<1>10. Orderly(e)
  BY <1>8 DEF Orderly
<1>11. UNCHANGED <<records, removing, queued, blocked, removals, told, updates, events>>
       /\ started' = s /\ live' = s /\ resuming' = FALSE /\ reserved' = reserved \cup p.held \cup p.posts
  BY DEF ResumeReplayReady, Reserves, s, p
<1>12. TypedRecords'
  BY <1>3, <1>11 DEF Typed, TypedRecords, records
<1>13. TypedSessions'
  <2>1. \A r \in Runs : /\ driver'[r].pc = "none" <=> r > s
                        /\ Sound(driver'[r], last) /\ Orderly(driver'[r])
    <3>. SUFFICES ASSUME NEW r \in Runs
                  PROVE  /\ driver'[r].pc = "none" <=> r > s
                         /\ Sound(driver'[r], last) /\ Orderly(driver'[r])
      OBVIOUS
    <3>1. CASE r = s
      BY <1>1, <1>2, <1>5, <1>8, <1>9, <1>10, <3>1
    <3>2. CASE r # s
      <4>1. driver'[r] = driver[r] /\ (r > s <=> r > started)
        BY <1>1, <1>2, <1>5, <3>2, PeerAssumption DEF Runs, s
      <4>. QED
        BY <4>1 DEF Typed, TypedSessions
    <3>. QED
      BY <3>1, <3>2
  <2>2. driver' \in [Runs -> Drivers]
    BY <1>2, <1>5, <1>8
  <2>3. live' \in 0..started' /\ started' \in 0..MaxRuns
    BY <1>1, <1>11
  <2>. QED
    BY <1>11, <2>1, <2>2, <2>3 DEF Typed, TypedSessions, records
<1>14. TypedUpdates'
  <2>1. started' \in Nat /\ started <= started'
    BY <1>1, <1>11 DEF s
  <2>. QED
    BY <1>1, <1>11, <2>1, SameUpdates DEF records
<1>. QED
  BY <1>1, <1>2, <1>5, <1>12, <1>13, <1>14 DEF Typed, s, e, w, p

LEMMA CancelTyped ==
  ASSUME Typed, CancelTask
  PROVE  Typed'
<1>1. events' \in 0..MaxEvents
  BY HappensTyped DEF CancelTask
<1>2. /\ TypedRecords' /\ live' = 0
      /\ \A i \in Ids : status'[i] = "delivered" => status[i] = "delivered"
  BY <1>1, DropTyped DEF CancelTask
<1>3. TypedUpdates'
  BY <1>2, Bounds, SameUpdates DEF CancelTask
<1>4. CASE live = 0
  BY <1>2, <1>3, <1>4, Bounds, SameSessions DEF CancelTask, Typed
<1>5. CASE live # 0
  <2>. DEFINE d == driver[live]
              e == [d EXCEPT !.exited = TRUE, !.reported = TRUE]
  <2>1. live \in Runs /\ d \in Drivers /\ Sound(d, last) /\ Orderly(d) /\ d.pc # "none"
        /\ driver \in [Runs -> Drivers]
    BY <1>5, Bounds DEF Typed, TypedSessions
  <2>2. driver' = [driver EXCEPT ![live] = e]
    BY <1>5, <2>1 DEF CancelTask
  <2>3. /\ e \in Drivers /\ e.pc = d.pc /\ e.inbox = d.inbox /\ e.waiting = d.waiting
        /\ e.announced = d.announced /\ e.turn = d.turn /\ e.exited
    BY <2>1 DEF Drivers
  <2>. HIDE DEF e
  <2>4. Sound(e, last) /\ Orderly(e)
    BY <2>1, <2>3 DEF Sound, Orderly, Once, InLine
  <2>5. TypedSessions'
    <3>1. driver' \in [Runs -> Drivers]
      BY <2>1, <2>2, <2>3
    <3>2. \A r \in Runs : /\ driver'[r].pc = "none" <=> r > started
                          /\ Sound(driver'[r], last) /\ Orderly(driver'[r])
      BY <2>1, <2>2, <2>3, <2>4 DEF Typed, TypedSessions
    <3>3. UNCHANGED <<last, queued, started>> /\ live' \in 0..started
      BY <1>2, Bounds DEF CancelTask
    <3>. QED
      BY <3>1, <3>2, <3>3 DEF Typed, TypedSessions
  <2>. QED
    BY <1>2, <1>3, <2>5 DEF Typed
<1>. QED
  BY <1>4, <1>5

LEMMA MessagesTyped ==
  ASSUME Typed, \/ SlotLapses \/ peers_post \/ DirectHeld \/ DirectQueued \/ DirectFindsStale
                \/ \E i \in DOMAIN queued : peers_removing(i)
  PROVE  Typed'
<1>1. last \in Nat /\ MaxIds \in Nat
  BY Bounds
<1>2. ASSUME NEW s \in {"posted", "held", "queued"}, NewRecord(s)
      PROVE  /\ last' = last + 1 /\ last' \in 0..MaxIds /\ last' \in Nat /\ last <= last'
             /\ status' \in [Ids -> Statuses] /\ \A i \in Ids : i > last' => status'[i] = "none"
             /\ \A i \in Ids : status'[i] = "delivered" => status[i] = "delivered"
             /\ 1..last \subseteq 1..last' /\ last' \in 1..last'
  BY <1>1, <1>2 DEF NewRecord, Typed, TypedRecords, Statuses, Ids
<1>3. CASE SlotLapses
  <2>1. TypedRecords'
    BY <1>3 DEF SlotLapses, marks, Typed, TypedRecords, task
  <2>2. TypedSessions' /\ TypedUpdates'
    BY <1>3, Bounds, SameSessions, SameUpdates DEF SlotLapses, task, sessions
  <2>. QED
    BY <2>1, <2>2 DEF Typed
<1>4. CASE peers_post
  <2>1. NewRecord("posted")
    BY <1>4 DEF peers_post
  <2>2. TypedRecords'
    BY <1>2, <1>4, <2>1 DEF peers_post, marks, Typed, TypedRecords, task
  <2>3. TypedSessions' /\ TypedUpdates'
    BY <1>2, <1>4, <2>1, Bounds, SameSessions, SameUpdates DEF peers_post, task, sessions
  <2>. QED
    BY <2>2, <2>3 DEF Typed
<1>5. CASE DirectHeld
  <2>1. NewRecord("held")
    BY <1>5 DEF DirectHeld
  <2>2. TypedRecords'
    BY <1>2, <1>5, <2>1 DEF DirectHeld, marks, Typed, TypedRecords, task
  <2>3. TypedSessions' /\ TypedUpdates'
    BY <1>2, <1>5, <2>1, Bounds, SameSessions, SameUpdates DEF DirectHeld, task, sessions
  <2>. QED
    BY <2>2, <2>3 DEF Typed
<1>6. CASE DirectQueued
  <2>1. NewRecord("queued") /\ UNCHANGED <<held, cursor, removing, task, removals, told, updates, events>>
        /\ in_flight' = in_flight \cup {last + 1} /\ slot' = TRUE
        /\ Submit(Prepared(last + 1)) /\ Listens(live)
    BY <1>6 DEF DirectQueued
  <2>2. last + 1 \in 0..MaxIds
    BY <1>1, <2>1 DEF NewRecord
  <2>3. reserved' \subseteq 1..last
    BY <1>6, <2>2, PreparedOf DEF DirectQueued, Reserves
  <2>4. TypedRecords'
    BY <1>2, <2>1, <2>3 DEF Typed, TypedRecords, task
  <2>5. TypedSessions'
    BY <1>2, <2>1, <2>2, SubmitTyped DEF task
  <2>6. TypedUpdates'
    BY <1>2, <2>1, Bounds, SameUpdates DEF task
  <2>. QED
    BY <2>4, <2>5, <2>6 DEF Typed
<1>7. CASE DirectFindsStale
  <2>1. last' = last + 1 /\ last' \in 0..MaxIds /\ last' \in Nat /\ last <= last'
        /\ 1..last \subseteq 1..last' /\ last' \in 1..last'
    BY <1>1, <1>7 DEF DirectFindsStale
  <2>2. /\ status' \in [Ids -> Statuses] /\ \A i \in Ids : i > last' => status'[i] = "none"
        /\ \A i \in Ids : status'[i] = "delivered" => status[i] = "delivered"
    BY <1>1, <1>7, <2>1 DEF DirectFindsStale, Typed, TypedRecords, Statuses, Ids
  <2>3. TypedRecords'
    BY <1>7, <2>1, <2>2 DEF DirectFindsStale, Typed, TypedRecords
  <2>4. TypedSessions' /\ TypedUpdates'
    BY <1>7, <2>1, <2>2, Bounds, SameSessions, SameUpdates DEF DirectFindsStale, sessions
  <2>. QED
    BY <2>3, <2>4 DEF Typed
<1>8. ASSUME NEW i \in DOMAIN queued, peers_removing(i)
      PROVE  Typed'
  <2>1. events' \in 0..MaxEvents
    BY <1>8, HappensTyped DEF peers_removing
  <2>2. removing' \subseteq 1..last
    BY <1>8 DEF peers_removing, Typed, TypedSessions, TypedRecords, DirectsOf
  <2>3. TypedRecords'
    BY <1>8, <2>1, <2>2 DEF peers_removing, records, task, Typed, TypedRecords
  <2>4. TypedSessions' /\ TypedUpdates'
    BY <1>8, Bounds, SameSessions, SameUpdates DEF peers_removing, records, task
  <2>. QED
    BY <2>3, <2>4 DEF Typed
<1>. QED
  BY <1>3, <1>4, <1>5, <1>6, <1>7, <1>8

LEMMA HeardTyped ==
  ASSUME Typed, updates # <<>>, updates' = Tail(updates), UNCHANGED <<last, started, told>>,
         \A i \in Ids : status'[i] = "delivered" => i \in told
  PROVE  /\ TypedUpdates' /\ News(Head(updates), last, started, told)
         /\ Head(updates) = updates[1] /\ 1 \in 1..Len(updates)
<1>1. IsSeq(updates)
  BY DEF Typed, TypedUpdates
<1>2. /\ IsSeq(updates') /\ Len(updates) \in Nat \ {0} /\ Len(updates') = Len(updates) - 1
      /\ Head(updates) = updates[1] /\ \A k \in 1..Len(updates') : updates'[k] = updates[k + 1]
  BY <1>1, TailAny
<1>3. 1 \in 1..Len(updates) /\ \A k \in 1..Len(updates') : k + 1 \in 1..Len(updates)
  BY <1>2
<1>4. \A k \in 1..Len(updates') : News(updates'[k], last, started, told)
  BY <1>2, <1>3 DEF Typed, TypedUpdates
<1>. QED
  BY <1>2, <1>3, <1>4 DEF Typed, TypedUpdates

LEMMA HearTyped ==
  ASSUME Typed, HearsUpdate
  PROVE  /\ Typed' /\ updates # <<>> /\ updates' = Tail(updates)
         /\ News(Head(updates), last, started, told)
<1>1. /\ updates # <<>> /\ updates' = Tail(updates) /\ UNCHANGED <<last, started, told, driver, events>>
  BY DEF HearsUpdate, HearTurnStarted, HearQueueChanged, HearTurnEnded, HearError, Hears,
         sessions, Ignored, records, task
<1>. DEFINE u == Head(updates)
<1>2. News(u, last, started, told) /\ last \in Nat
  BY <1>1, HeardTyped, Bounds DEF Typed, TypedUpdates
<1>. SUFFICES Typed'
  BY <1>1, <1>2
<1>. HIDE DEF u
<1>3. ASSUME UNCHANGED records
      PROVE  \A i \in Ids : status'[i] = "delivered" => i \in told
  BY <1>3 DEF records, Typed, TypedUpdates
<1>4. ASSUME UNCHANGED <<records, task>>, removing' = removing, reserved' \subseteq reserved
      PROVE  Typed'
  <2>1. TypedRecords'
    BY <1>1, <1>4 DEF records, task, Typed, TypedRecords
  <2>2. TypedSessions' /\ TypedUpdates'
    BY <1>1, <1>3, <1>4, Bounds, SameSessions, HeardTyped DEF task, records
  <2>. QED
    BY <2>1, <2>2 DEF Typed
<1>5. CASE HearTurnStarted
  <2>1. CASE Ignored
    BY <1>4, <2>1 DEF Ignored, marks
  <2>2. CASE peers_turn_started(u.prompt) /\ blocked' = FALSE
             /\ UNCHANGED <<last, queued, live, resuming, started>>
    <3>. DEFINE p == u.prompt
                done == ({p.direct} \cap in_flight) \cup (p.held \cap held)
    <3>1. u.type = "TurnStarted"
      BY <1>5 DEF HearTurnStarted, Hears, u
    <3>2. Written(p, last) /\ Content(p) \subseteq told
      BY <1>2, <3>1 DEF News
    <3>3. in_flight \subseteq 1..last /\ held \subseteq 1..last
      BY DEF Typed, TypedRecords
    <3>4. done \subseteq told /\ done \subseteq 1..last
      <4>1. done \subseteq 1..last
        BY <3>3
      <4>2. \A i \in done : i # 0 /\ (i = p.direct \/ i \in p.held)
        BY <1>2, <4>1
      <4>. HIDE DEF done, p
      <4>3. done \subseteq Content(p)
        BY <4>2 DEF Content
      <4>. QED
        BY <3>2, <4>1, <4>3
    <3>. HIDE DEF p
    <3>5. /\ status' = [i \in Ids |-> IF i \in done THEN "delivered" ELSE status[i]]
          /\ in_flight' = in_flight \ done /\ held' = held \ done
          /\ removing' \subseteq removing /\ reserved' \subseteq reserved /\ slot' \in BOOLEAN
          /\ cursor' = IF Upto(p) > cursor THEN Upto(p) ELSE cursor
      BY <2>2 DEF peers_turn_started, Typed, TypedRecords, p
    <3>6. cursor' \in 0..MaxIds
      <4>1. p.posts \subseteq 1..MaxIds /\ MaxIds \in Nat
        BY <3>2, Bounds DEF Written, Prompt, Ids
      <4>2. Upto(p) \in 0..MaxIds
        BY <4>1, UptoPost
      <4>. QED
        BY <3>5, <4>2 DEF Typed, TypedRecords
    <3>. HIDE DEF done
    <3>7. /\ status' \in [Ids -> Statuses]
          /\ \A i \in Ids : i > last => status'[i] = "none"
          /\ \A i \in Ids : status'[i] = "delivered" => i \in told
      <4>1. \A i \in Ids : i > last => i \notin done
        BY <1>2, <3>4 DEF Ids
      <4>. QED
        BY <3>4, <3>5, <4>1 DEF Typed, TypedRecords, TypedUpdates, Statuses
    <3>8. TypedRecords'
      BY <1>1, <2>2, <3>5, <3>6, <3>7 DEF Typed, TypedRecords
    <3>9. TypedSessions' /\ TypedUpdates'
      BY <1>1, <1>2, <2>2, <3>7, SameSessions, HeardTyped
    <3>. QED
      BY <3>8, <3>9 DEF Typed
  <2>. QED
    BY <1>5, <2>1, <2>2 DEF HearTurnStarted, u
<1>6. CASE HearQueueChanged
  <2>1. CASE Ignored
    BY <1>4, <2>1 DEF Ignored, marks
  <2>2. CASE /\ peers_queue_changed(DirectsOf(queued) \ DirectsOf(u.queued))
             /\ queued' = u.queued
             /\ UNCHANGED <<last, cursor, reserved, live, resuming, blocked, started>>
    <3>1. u.queued \in Seq(Entry) /\ DirectsOf(u.queued) \subseteq 1..last
      BY <1>2, <1>6 DEF HearQueueChanged, Hears, News, u
    <3>2. /\ in_flight' \subseteq 1..last /\ removing' \subseteq removing /\ slot' \in BOOLEAN
          /\ held' \subseteq 1..last
      BY <2>2 DEF peers_queue_changed, Typed, TypedRecords
    <3>3. /\ status' \in [Ids -> Statuses]
          /\ \A i \in Ids : i > last => status'[i] = "none"
          /\ \A i \in Ids : status'[i] = "delivered" => i \in told
      <4>1. \A i \in Ids : i > last => i \notin in_flight
        BY <1>2 DEF Typed, TypedRecords, Ids
      <4>2. \A i \in Ids : i \notin in_flight => status'[i] = status[i]
        BY <2>2 DEF peers_queue_changed
      <4>3. \A i \in in_flight : i \in Ids => status'[i] \in {"removed", "held", status[i]}
        BY <2>2 DEF peers_queue_changed
      <4>4. status' = [i \in Ids |-> status'[i]]
        BY <2>2 DEF peers_queue_changed
      <4>. QED
        BY <4>1, <4>2, <4>3, <4>4 DEF Typed, TypedRecords, TypedUpdates, Statuses
    <3>4. TypedRecords'
      BY <1>1, <2>2, <3>2, <3>3 DEF Typed, TypedRecords
    <3>5. TypedSessions'
      BY <1>1, <2>2, <3>1 DEF Typed, TypedSessions
    <3>6. TypedUpdates'
      BY <1>1, <3>3, HeardTyped
    <3>. QED
      BY <3>4, <3>5, <3>6 DEF Typed
  <2>. QED
    BY <1>6, <2>1, <2>2 DEF HearQueueChanged, u
<1>7. CASE HearTurnEnded
  <2>1. UNCHANGED <<records, task>> /\ removing' = removing /\ reserved' \subseteq reserved
    BY <1>7 DEF HearTurnEnded
  <2>. QED
    BY <1>4, <2>1
<1>8. CASE HearError
  <2>1. CASE Ignored
    BY <1>4, <2>1 DEF Ignored, marks
  <2>2. CASE drop_session /\ blocked' = TRUE /\ UNCHANGED <<last, cursor, queued, resuming, started>>
    <3>1. /\ TypedRecords' /\ live' = 0
          /\ \A i \in Ids : status'[i] = "delivered" => status[i] = "delivered"
      BY <1>1, <2>2, DropTyped DEF Typed, TypedRecords
    <3>2. \A i \in Ids : status'[i] = "delivered" => i \in told
      BY <3>1 DEF Typed, TypedUpdates
    <3>3. TypedSessions' /\ TypedUpdates'
      BY <1>1, <1>2, <2>2, <3>1, <3>2, SameSessions, HeardTyped
    <3>. QED
      BY <3>1, <3>3 DEF Typed
  <2>. QED
    BY <1>8, <2>1, <2>2 DEF HearError
<1>. QED
  BY <1>5, <1>6, <1>7, <1>8 DEF HearsUpdate

LEMMA RestartTyped ==
  ASSUME Typed, Restart
  PROVE  Typed'
<1>1. events' \in 0..MaxEvents
  BY HappensTyped DEF Restart
<1>2. /\ status' \in [Ids -> Statuses] /\ \A i \in Ids : i > last => status'[i] = "none"
      /\ \A i \in Ids : status'[i] = "delivered" => status[i] = "delivered"
  BY DEF Restart, Typed, TypedRecords, Statuses
<1>3. TypedRecords'
  BY <1>1, <1>2 DEF Restart, Typed, TypedRecords
<1>. DEFINE over == [pc |-> "off", exited |-> TRUE, reported |-> TRUE, inbox |-> <<>>, waiting |-> <<>>,
                     turn |-> "none", announced |-> <<>>, next_q |-> 0]
<1>4. \A S : <<>> \in Seq(S) /\ Len(<<>>) = 0
  BY EmptySeq
<1>5. Sound(over, last) /\ Orderly(over) /\ over \in Drivers /\ over.pc = "off"
  <2>1. over \in Drivers
    BY <1>4 DEF Drivers
  <2>2. DirectsOf(over.announced) = {} /\ Once(over)
    BY <1>4 DEF DirectsOf, Once
  <2>. QED
    BY <1>4, <2>1, <2>2 DEF Sound, Orderly
<1>6. driver' = [r \in Runs |-> IF driver[r].pc = "none" THEN driver[r] ELSE over]
  BY DEF Restart
<1>. HIDE DEF over
<1>7. TypedSessions'
  <2>1. \A r \in Runs : /\ driver'[r].pc = "none" <=> r > started
                        /\ Sound(driver'[r], last) /\ Orderly(driver'[r]) /\ driver'[r] \in Drivers
    BY <1>5, <1>6 DEF Typed, TypedSessions
  <2>2. driver' \in [Runs -> Drivers]
    BY <1>6, <2>1
  <2>3. queued' = <<>> /\ DirectsOf(queued') = {} /\ queued' \in Seq(Entry)
    BY <1>4 DEF Restart, DirectsOf
  <2>4. live' \in 0..started /\ UNCHANGED <<last, started>>
    BY Bounds DEF Restart
  <2>. QED
    BY <2>1, <2>2, <2>3, <2>4 DEF Typed, TypedSessions
<1>8. TypedUpdates'
  <2>1. IsSeq(updates') /\ Len(updates') = 0 /\ UNCHANGED <<last, started, told>>
    BY <1>4 DEF Restart, IsSeq
  <2>. QED
    BY <1>2, <2>1 DEF Typed, TypedUpdates
<1>. QED
  BY <1>3, <1>7, <1>8 DEF Typed

-----------------------------------------------------------------------------
(* What a driver does before the top of its loop: c becomes d *)

SameTurn(c, d) ==
  /\ d \in Drivers /\ d.pc = c.pc /\ d.turn = c.turn
  /\ d.exited = c.exited /\ d.reported = c.reported /\ d.announced = c.announced

Passes(c, d) ==
  /\ c.pc \in {"starting", "on"} /\ d.pc = "on" /\ d.exited = c.exited /\ d.reported = c.reported
  /\ d.announced = c.announced /\ (c.turn = "unsent" => d.turn = "unsent")
  /\ \A j \in 1..Len(d.inbox) : \E k \in 1..Len(c.inbox) : d.inbox[j] = c.inbox[k]
  /\ \A j \in 1..Len(d.waiting) : \/ \E k \in 1..Len(c.inbox) : d.waiting[j].prompt = c.inbox[k]
                                  \/ \E k \in 1..Len(c.waiting) : d.waiting[j].prompt = c.waiting[k].prompt
  /\ \A i : InBox(c, i) => InBox(d, i) \/ InLine(d, i)
  /\ \A i : InLine(c, i) => InLine(d, i) \/ c.pc = "on"

LEMMA TakesPasses ==
  ASSUME NEW n \in Nat, NEW c, Sound(c, n), c.pc = "on", c.inbox # <<>>, NEW q \in Nat,
         NEW e, e = [q |-> q, prompt |-> Head(c.inbox)],
         NEW d, SameTurn(c, d), d.inbox = Tail(c.inbox), d.waiting = Append(c.waiting, e)
  PROVE  Sound(d, n) /\ Passes(c, d)
<1>1. /\ c \in Drivers /\ c.inbox \in Seq(Prompt) /\ c.waiting \in Seq([q : Nat, prompt : Prompt])
      /\ Len(c.inbox) \in Nat \ {0} /\ Len(c.waiting) \in Nat
  BY LenProperties, EmptySeq DEF Sound, Drivers
<1>2. PICK b : b = Tail(c.inbox)
  OBVIOUS
<1>3. PICK w : w = Append(c.waiting, e)
  OBVIOUS
<1>4. Head(c.inbox) = c.inbox[1] /\ 1 \in 1..Len(c.inbox) /\ c.inbox[1] \in Prompt
  BY <1>1, ElementOfSeq
<1>5. e \in [q : Nat, prompt : Prompt] /\ e.prompt = c.inbox[1]
  BY <1>4
<1>6. /\ b \in Seq(Prompt) /\ Len(b) = Len(c.inbox) - 1 /\ \A j \in 1..Len(b) : b[j] = c.inbox[j + 1]
  BY <1>1, <1>2, HeadTailProperties
<1>7. /\ w \in Seq([q : Nat, prompt : Prompt]) /\ Len(w) = Len(c.waiting) + 1
      /\ \A j \in 1..Len(c.waiting) : w[j] = c.waiting[j]
      /\ w[Len(c.waiting) + 1] = e
  BY <1>1, <1>3, <1>5, AppendProperties
<1>8. /\ d \in Drivers /\ d.inbox = b /\ d.waiting = w /\ d.pc = c.pc /\ d.turn = c.turn
      /\ d.exited = c.exited /\ d.reported = c.reported /\ d.announced = c.announced
  BY <1>2, <1>3 DEF SameTurn
<1>9. \A j \in 1..Len(b) : j + 1 \in 1..Len(c.inbox) /\ j + 1 # 1
  BY <1>1, <1>6
<1>10. /\ \A j \in 1..Len(w) : \/ j \in 1..Len(c.waiting) /\ w[j] = c.waiting[j]
                               \/ j = Len(c.waiting) + 1 /\ w[j] = e
       /\ \A j \in 1..Len(c.waiting) : j \in 1..Len(w)
       /\ Len(c.waiting) + 1 \in 1..Len(w)
  <2>1. PICK l \in Nat : l = Len(c.waiting) /\ Len(w) = l + 1
    BY <1>1, <1>7
  <2>2. \A j \in 1..l + 1 : j \in 1..l \/ j = l + 1
    OBVIOUS
  <2>. QED
    BY <1>7, <2>1, <2>2
<1>11. \A j \in 1..Len(d.inbox) : \E k \in 1..Len(c.inbox) : d.inbox[j] = c.inbox[k]
  BY <1>6, <1>8, <1>9
<1>12. \A j \in 1..Len(d.waiting) : \/ \E k \in 1..Len(c.inbox) : d.waiting[j].prompt = c.inbox[k]
                                    \/ \E k \in 1..Len(c.waiting) : d.waiting[j].prompt = c.waiting[k].prompt
  BY <1>4, <1>5, <1>8, <1>10
<1>13. ASSUME NEW i, InBox(c, i)
       PROVE  InBox(d, i) \/ InLine(d, i)
  <2>1. PICK k \in 1..Len(c.inbox) : c.inbox[k].direct = i
    BY <1>13 DEF InBox
  <2>2. CASE k = 1
    BY <1>5, <1>7, <1>8, <1>10, <2>1, <2>2 DEF InLine
  <2>3. CASE k # 1
    <3>1. k - 1 \in 1..Len(b) /\ k - 1 + 1 = k
      BY <1>1, <1>6, <2>3
    <3>2. b[k - 1].direct = i
      BY <1>6, <2>1, <3>1
    <3>. QED
      BY <1>8, <3>1, <3>2 DEF InBox
  <2>. QED
    BY <2>2, <2>3
<1>14. \A i : InLine(c, i) => InLine(d, i)
  BY <1>7, <1>8, <1>10 DEF InLine
<1>15. Passes(c, d)
  BY <1>8, <1>11, <1>12, <1>13, <1>14 DEF Passes
<1>16. Once(d)
  <2>1. \A j, k \in 1..Len(b) : b[j].direct = b[k].direct => j = k \/ b[j].direct = 0
    <3>. SUFFICES ASSUME NEW j \in 1..Len(b), NEW k \in 1..Len(b), b[j].direct = b[k].direct
                  PROVE  j = k \/ b[j].direct = 0
      OBVIOUS
    <3>1. j + 1 \in 1..Len(c.inbox) /\ k + 1 \in 1..Len(c.inbox)
          /\ b[j] = c.inbox[j + 1] /\ b[k] = c.inbox[k + 1]
      BY <1>6, <1>9
    <3>2. j + 1 = k + 1 \/ b[j].direct = 0
      BY <3>1 DEF Sound, Once
    <3>. QED
      BY <3>2
  <2>2. \A j, k \in 1..Len(w) : w[j].prompt.direct = w[k].prompt.direct => j = k \/ w[j].prompt.direct = 0
    <3>. SUFFICES ASSUME NEW j \in 1..Len(w), NEW k \in 1..Len(w), w[j].prompt.direct = w[k].prompt.direct
                  PROVE  j = k \/ w[j].prompt.direct = 0
      OBVIOUS
    <3>1. CASE j \in 1..Len(c.waiting) /\ k \in 1..Len(c.waiting)
      BY <1>7, <3>1 DEF Sound, Once
    <3>2. \A l \in 1..Len(c.waiting) : w[l].prompt.direct = e.prompt.direct => e.prompt.direct = 0
      <4>1. c.inbox[1].direct # 0 => ~InLine(c, c.inbox[1].direct)
        BY <1>4 DEF Sound, Once
      <4>2. \A l \in 1..Len(c.waiting) : w[l] = c.waiting[l]
        BY <1>7
      <4>. QED
        BY <1>5, <4>1, <4>2 DEF InLine
    <3>. QED
      BY <1>10, <3>1, <3>2
  <2>3. ASSUME NEW j \in 1..Len(b), b[j].direct # 0, NEW k \in 1..Len(w), w[k].prompt.direct = b[j].direct
        PROVE  FALSE
    <3>1. j + 1 \in 1..Len(c.inbox) /\ j + 1 # 1 /\ b[j] = c.inbox[j + 1]
      BY <1>6, <1>9
    <3>2. CASE k \in 1..Len(c.waiting) /\ w[k] = c.waiting[k]
      BY <2>3, <3>1, <3>2 DEF Sound, Once, InLine
    <3>3. CASE w[k] = e
      <4>1. c.inbox[j + 1].direct = c.inbox[1].direct
        BY <1>5, <2>3, <3>1, <3>3
      <4>. QED
        BY <1>4, <2>3, <3>1, <4>1 DEF Sound, Once
    <3>. QED
      BY <1>10, <3>2, <3>3
  <2>4. \A j \in 1..Len(d.inbox) : d.inbox[j].direct # 0 => ~InLine(d, d.inbox[j].direct)
    BY <1>8, <2>3 DEF InLine
  <2>5. \A j, k \in 1..Len(d.inbox) : d.inbox[j].direct = d.inbox[k].direct => j = k \/ d.inbox[j].direct = 0
    <3>1. d.inbox = b
      BY <1>8
    <3>. QED
      BY <2>1, <3>1, Zenon
  <2>6. \A j, k \in 1..Len(d.waiting) :
          d.waiting[j].prompt.direct = d.waiting[k].prompt.direct
            => j = k \/ d.waiting[j].prompt.direct = 0
    <3>1. d.waiting = w
      BY <1>8
    <3>. SUFFICES ASSUME NEW j \in 1..Len(w), NEW k \in 1..Len(w), w[j].prompt.direct = w[k].prompt.direct
                  PROVE  j = k \/ w[j].prompt.direct = 0
      BY <3>1
    <3>. QED
      BY <2>2
  <2>. QED
    BY <2>4, <2>5, <2>6 DEF Once
<1>17. Sound(d, n)
  <2>1. \A j \in 1..Len(d.inbox) : Written(d.inbox[j], n)
    BY <1>11 DEF Sound
  <2>2. \A j \in 1..Len(d.waiting) : Written(d.waiting[j].prompt, n)
    BY <1>12 DEF Sound
  <2>3. DirectsOf(d.announced) \subseteq 1..n
    BY <1>8 DEF Sound
  <2>. QED
    BY <1>8, <1>16, <2>1, <2>2, <2>3 DEF Sound
<1>. QED
  BY <1>15, <1>17

LEMMA RemovesPasses ==
  ASSUME NEW n \in Nat, NEW c, Sound(c, n), c.pc = "on", NEW q,
         NEW d, SameTurn(c, d), d.inbox = c.inbox, d.waiting = take_queued(c.waiting, q)
  PROVE  Sound(d, n) /\ Passes(c, d)
<1>1. /\ c \in Drivers /\ c.waiting \in Seq([q : Nat, prompt : Prompt]) /\ Len(c.waiting) \in Nat
  BY LenProperties DEF Sound, Drivers
<1>2. PICK w : w = take_queued(c.waiting, q)
  OBVIOUS
<1>3. /\ w \in Seq([q : Nat, prompt : Prompt])
      /\ \/ w = c.waiting
         \/ \E i \in 1..Len(c.waiting) :
              /\ Len(w) = Len(c.waiting) - 1
              /\ \A j \in 1..Len(w) : w[j] = c.waiting[IF j < i THEN j ELSE j + 1]
  <2>1. w \in Seq([q : Nat, prompt : Prompt]) /\ (w = c.waiting \/ LessOne(c.waiting, w))
    BY <1>1, <1>2, TakeQueued
  <2>. QED
    BY <2>1 DEF LessOne
<1>4. /\ d \in Drivers /\ d.waiting = w /\ d.inbox = c.inbox /\ d.pc = c.pc /\ d.turn = c.turn
      /\ d.exited = c.exited /\ d.reported = c.reported /\ d.announced = c.announced
  BY <1>2 DEF SameTurn
<1>5. \E f \in [1..Len(w) -> 1..Len(c.waiting)] :
        /\ \A j, k \in 1..Len(w) : f[j] = f[k] => j = k
        /\ \A j \in 1..Len(w) : w[j] = c.waiting[f[j]]
  <2>1. CASE w = c.waiting
    <3>1. [j \in 1..Len(w) |-> j] \in [1..Len(w) -> 1..Len(c.waiting)]
      BY <2>1
    <3>. QED
      BY <2>1, <3>1
  <2>2. ASSUME NEW i \in 1..Len(c.waiting), Len(w) = Len(c.waiting) - 1,
               \A j \in 1..Len(w) : w[j] = c.waiting[IF j < i THEN j ELSE j + 1]
        PROVE  \E f \in [1..Len(w) -> 1..Len(c.waiting)] :
                 /\ \A j, k \in 1..Len(w) : f[j] = f[k] => j = k
                 /\ \A j \in 1..Len(w) : w[j] = c.waiting[f[j]]
    <3>. DEFINE f == [j \in 1..Len(w) |-> IF j < i THEN j ELSE j + 1]
    <3>1. f \in [1..Len(w) -> 1..Len(c.waiting)]
      BY <1>1, <2>2
    <3>2. \A j, k \in 1..Len(w) : f[j] = f[k] => j = k
      BY <1>1, <2>2
    <3>3. \A j \in 1..Len(w) : w[j] = c.waiting[f[j]]
      BY <2>2
    <3>. QED
      BY <3>1, <3>2, <3>3
  <2>. QED
    BY <1>3, <2>1, <2>2
<1>6. PICK f \in [1..Len(w) -> 1..Len(c.waiting)] :
        /\ \A j, k \in 1..Len(w) : f[j] = f[k] => j = k
        /\ \A j \in 1..Len(w) : w[j] = c.waiting[f[j]]
  BY <1>5
<1>7. \A j \in 1..Len(d.waiting) : \E k \in 1..Len(c.waiting) : d.waiting[j] = c.waiting[k]
  BY <1>4, <1>6
<1>8. Passes(c, d)
  <2>1. \A i : InBox(c, i) => InBox(d, i)
    BY <1>4 DEF InBox
  <2>. QED
    BY <1>4, <1>7, <2>1 DEF Passes
<1>9. Once(d)
  <2>1. \A j, k \in 1..Len(w) : w[j].prompt.direct = w[k].prompt.direct => j = k \/ w[j].prompt.direct = 0
    BY <1>6 DEF Sound, Once
  <2>2. \A j \in 1..Len(d.inbox) : d.inbox[j].direct # 0 => ~InLine(d, d.inbox[j].direct)
    <3>1. \A i : InLine(d, i) => InLine(c, i)
      BY <1>7 DEF InLine
    <3>. QED
      BY <1>4, <3>1 DEF Sound, Once
  <2>. QED
    BY <1>4, <2>1, <2>2 DEF Sound, Once
<1>10. Sound(d, n)
  <2>1. \A j \in 1..Len(d.waiting) : Written(d.waiting[j].prompt, n)
    BY <1>7 DEF Sound
  <2>. QED
    BY <1>4, <1>9, <2>1 DEF Sound
<1>. QED
  BY <1>8, <1>10

(* The steps that come to the top of the loop. *)
Topping(r) == Handshake(r) \/ TakesPrompt(r) \/ RemovesQueued(r) \/ FreesSlot(r)
LEMMA ToppingPasses ==
  ASSUME Typed, NEW r \in Runs, Topping(r)
  PROVE  ActorIdle /\ \E d : Sound(d, last) /\ Passes(driver[r], d) /\ LoopTop(r, d)
<1>. DEFINE c == driver[r]
<1>1. last \in Nat /\ Sound(c, last) /\ c \in Drivers
  BY Bounds DEF Typed, TypedSessions
<1>2. ASSUME NEW d, d \in Drivers, d.inbox = c.inbox, d.waiting = c.waiting, d.announced = c.announced,
             d.pc = "on", c.pc \in {"starting", "on"}, d.exited = c.exited, d.reported = c.reported,
             c.turn # "unsent"
      PROVE  Sound(d, last) /\ Passes(c, d)
  <2>1. Once(d)
    BY <1>1, <1>2 DEF Sound, Once, InLine
  <2>. QED
    BY <1>1, <1>2, <2>1 DEF Sound, Passes, InBox, InLine
<1>3. CASE Handshake(r)
  <2>. DEFINE d == [c EXCEPT !.pc = "on"]
  <2>1. LoopTop(r, d) /\ ActorIdle /\ c.pc = "starting"
    BY <1>3 DEF Handshake
  <2>2. /\ d \in Drivers /\ d.inbox = c.inbox /\ d.waiting = c.waiting /\ d.announced = c.announced
        /\ d.pc = "on" /\ d.exited = c.exited /\ d.reported = c.reported
    BY <1>1 DEF Drivers
  <2>3. c.turn # "unsent"
    BY <2>1 DEF Typed, TypedSessions, Orderly
  <2>. HIDE DEF d
  <2>. QED
    BY <1>2, <2>1, <2>2, <2>3
<1>4. CASE FreesSlot(r)
  <2>. DEFINE d == [c EXCEPT !.turn = "none"]
  <2>1. LoopTop(r, d) /\ ActorIdle /\ c.pc = "on" /\ c.turn = "over"
    BY <1>4 DEF FreesSlot, IsOn
  <2>2. /\ d \in Drivers /\ d.inbox = c.inbox /\ d.waiting = c.waiting /\ d.announced = c.announced
        /\ d.pc = c.pc /\ d.exited = c.exited /\ d.reported = c.reported
    BY <1>1 DEF Drivers
  <2>. HIDE DEF d
  <2>. QED
    BY <1>2, <2>1, <2>2
<1>5. CASE TakesPrompt(r)
  <2>1. PICK q : q = IF c.turn = "none" THEN 0 ELSE c.next_q + 1
    OBVIOUS
  <2>2. PICK y : y = IF q = 0 THEN c.next_q ELSE q
    OBVIOUS
  <2>3. q \in Nat /\ y \in Nat
    BY <1>1, <2>1, <2>2 DEF Drivers
  <2>4. PICK d : d = [c EXCEPT !.inbox = Tail(@), !.next_q = y,
                               !.waiting = Append(@, [q |-> q, prompt |-> Head(c.inbox)])]
    OBVIOUS
  <2>5. c.pc = "on" /\ c.inbox # <<>> /\ ActorIdle /\ LoopTop(r, d)
    BY <1>5, <2>1, <2>2, <2>4 DEF TakesPrompt, IsOn
  <2>6. PICK e : e = [q |-> q, prompt |-> Head(c.inbox)]
    OBVIOUS
  <2>7. /\ c.inbox \in Seq(Prompt) /\ c.waiting \in Seq([q : Nat, prompt : Prompt])
        /\ Tail(c.inbox) \in Seq(Prompt) /\ e \in [q : Nat, prompt : Prompt]
        /\ Append(c.waiting, e) \in Seq([q : Nat, prompt : Prompt])
    BY <1>1, <2>3, <2>5, <2>6, HeadTailProperties, AppendProperties DEF Drivers
  <2>8. SameTurn(c, d) /\ d.inbox = Tail(c.inbox) /\ d.waiting = Append(c.waiting, e)
    BY <1>1, <2>3, <2>4, <2>6, <2>7 DEF SameTurn, Drivers
  <2>9. Sound(d, last) /\ Passes(c, d)
    BY <1>1, <2>3, <2>5, <2>6, <2>8, TakesPasses
  <2>. QED
    BY <2>5, <2>9
<1>6. CASE RemovesQueued(r)
  <2>1. PICK q : IsOn(r) /\ LoopTop(r, [c EXCEPT !.waiting = take_queued(@, q)])
    BY <1>6 DEF RemovesQueued
  <2>2. PICK d : d = [c EXCEPT !.waiting = take_queued(@, q)]
    OBVIOUS
  <2>3. c.pc = "on" /\ ActorIdle /\ LoopTop(r, d)
    BY <2>1, <2>2 DEF IsOn
  <2>4. c.waiting \in Seq([q : Nat, prompt : Prompt])
    BY <1>1 DEF Drivers
  <2>5. take_queued(c.waiting, q) \in Seq([q : Nat, prompt : Prompt])
    BY <2>4, TakeQueued
  <2>6. SameTurn(c, d) /\ d.inbox = c.inbox /\ d.waiting = take_queued(c.waiting, q)
    BY <1>1, <2>2, <2>5 DEF SameTurn, Drivers
  <2>7. Sound(d, last) /\ Passes(c, d)
    BY <1>1, <2>3, <2>6, RemovesPasses
  <2>. QED
    BY <2>3, <2>7
<1>. QED
  BY <1>3, <1>4, <1>5, <1>6 DEF Topping

AllNews(us, n, s, t) == IsSeq(us) /\ \A k \in 1..Len(us) : News(us[k], n, s, t)

LEMMA MoreNews ==
  ASSUME NEW us, NEW n, NEW s, NEW t, AllNews(us, n, s, t)
  PROVE  /\ \A u : News(u, n, s, t) => AllNews(Append(us, u), n, s, t)
         /\ \A v : t \subseteq v => AllNews(us, n, s, v)
<1>1. ASSUME NEW u, News(u, n, s, t)
      PROVE  AllNews(Append(us, u), n, s, t)
  <2>1. IsSeq(Append(us, u)) /\ Continues(Append(us, u), us, u)
    BY AppendAny DEF AllNews
  <2>2. \A k \in 1..Len(Append(us, u)) : k \in 1..Len(us) \/ k = Len(us) + 1
    BY <2>1 DEF Continues
  <2>. QED
    BY <1>1, <2>1, <2>2 DEF AllNews, Continues
<1>2. ASSUME NEW v, t \subseteq v
      PROVE  AllNews(us, n, s, v)
  BY <1>2 DEF AllNews, News
<1>. QED
  BY <1>1, <1>2

KeepsActor == UNCHANGED <<records, marks, task>> /\ (UNCHANGED events \/ Happens)

(* The driver of r is e now, and the rest of the daemon as it was. *)
LEMMA PutTyped ==
  ASSUME Typed, NEW r \in Runs, driver[r].pc # "none", KeepsActor,
         NEW e, Sound(e, last), Orderly(e), e.pc # "none", driver' = [driver EXCEPT ![r] = e],
         told \subseteq told', told' \subseteq 1..last, AllNews(updates', last, started, told')
  PROVE  Typed'
<1>1. UNCHANGED <<records, marks, task>> /\ events' \in 0..MaxEvents
  BY HappensTyped DEF KeepsActor, Typed, TypedRecords
<1>2. TypedRecords'
  BY <1>1 DEF Typed, TypedRecords, records, marks, task
<1>3. driver' \in [Runs -> Drivers]
  BY DEF Sound, Typed, TypedSessions
<1>4. \A q \in Runs : /\ driver'[q].pc = "none" <=> q > started
                      /\ Sound(driver'[q], last) /\ Orderly(driver'[q])
  BY DEF Typed, TypedSessions
<1>5. TypedSessions'
  BY <1>1, <1>3, <1>4 DEF Typed, TypedSessions, records, task
<1>6. TypedUpdates'
  BY <1>1 DEF Typed, TypedUpdates, AllNews, records, task
<1>. QED
  BY <1>2, <1>5, <1>6 DEF Typed

LEMMA ToppingTyped ==
  ASSUME Typed, NEW r \in Runs, Topping(r)
  PROVE  /\ Typed' /\ ActorIdle
         /\ \E d, x, mid : /\ Sound(d, last) /\ Passes(driver[r], d) /\ TopMakes(r, d, x, mid)
                           /\ IsSeq(mid)
<1>1. ActorIdle /\ last \in Nat /\ AllNews(updates, last, started, told) /\ IsSeq(updates)
  BY Bounds, ToppingPasses DEF Typed, TypedUpdates, AllNews
<1>2. PICK d : Sound(d, last) /\ Passes(driver[r], d) /\ LoopTop(r, d)
  BY ToppingPasses
<1>3. PICK x, mid : TopMakes(r, d, x, mid)
  BY <1>1, <1>2, TopTakes DEF Sound
<1>4. /\ Sound(x, last) /\ x.announced \in Seq(Entry)
      /\ d.waiting # <<>> => Written(d.waiting[1].prompt, last)
  BY <1>1, <1>2, <1>3, LineShrinks
<1>5. x.pc = "on" /\ Orderly(x) /\ driver' = [driver EXCEPT ![r] = x] /\ driver[r].pc # "none"
  BY <1>2, <1>3 DEF TopMakes, Passes, Orderly
<1>6. r \in 1..started
  BY <1>5, Bounds DEF Typed, TypedSessions, Runs
<1>7. told \subseteq told' /\ told' \subseteq 1..last /\ AllNews(mid, last, started, told')
  <2>1. CASE told' = told /\ mid = updates
    BY <1>1, <2>1 DEF Typed, TypedUpdates
  <2>2. CASE /\ d.waiting # <<>> /\ told' = told \cup Content(d.waiting[1].prompt)
             /\ mid = Append(updates, [type |-> "TurnStarted", run |-> r, prompt |-> d.waiting[1].prompt])
    <3>1. told \subseteq told' /\ told' \subseteq 1..last /\ Content(d.waiting[1].prompt) \subseteq told'
      BY <1>4, <2>2 DEF Written, Typed, TypedUpdates
    <3>2. AllNews(updates, last, started, told')
      BY <1>1, <3>1, MoreNews
    <3>3. News([type |-> "TurnStarted", run |-> r, prompt |-> d.waiting[1].prompt], last, started, told')
      BY <1>4, <1>6, <2>2, <3>1 DEF News
    <3>. QED
      BY <2>2, <3>1, <3>2, <3>3, MoreNews
  <2>. QED
    BY <1>3, <2>1, <2>2 DEF TopMakes
<1>8. AllNews(updates', last, started, told')
  <2>1. News([type |-> "QueueChanged", run |-> r, queued |-> x.announced], last, started, told')
    BY <1>4, <1>6 DEF News, Sound
  <2>. QED
    BY <1>3, <1>7, <2>1, MoreNews DEF TopMakes
<1>9. Typed'
  <2>1. KeepsActor
    BY <1>1 DEF ActorIdle, KeepsActor
  <2>. QED
    BY <1>4, <1>5, <1>7, <1>8, <2>1, PutTyped
<1>. QED
  BY <1>1, <1>2, <1>3, <1>7, <1>9 DEF AllNews

(* The other steps of a driver and its agent: c becomes e. *)
SameQueues(c, e) ==
  /\ e \in Drivers /\ e.pc = c.pc /\ e.inbox = c.inbox /\ e.waiting = c.waiting
  /\ e.announced = c.announced
LEMMA SameQueuesSound ==
  ASSUME NEW n, NEW c, Sound(c, n), Orderly(c), c.pc # "none", NEW e, SameQueues(c, e),
         c.exited => e.exited, c.turn = e.turn \/ c.pc = "on"
  PROVE  /\ Sound(e, n) /\ Orderly(e)
         /\ \A i : (InBox(e, i) <=> InBox(c, i)) /\ (InLine(e, i) <=> InLine(c, i))
<1>1. \A i : (InBox(e, i) <=> InBox(c, i)) /\ (InLine(e, i) <=> InLine(c, i))
  BY DEF SameQueues, InBox, InLine
<1>2. Once(e)
  BY <1>1 DEF SameQueues, Sound, Once
<1>. QED
  BY <1>1, <1>2 DEF SameQueues, Sound, Orderly

LEMMA RestTyped ==
  ASSUME Typed, NEW r \in Runs,
         AgentAnswers(r) \/ ChildExits(r) \/ SendGivesUp(r) \/ MonitorReports(r) \/ DriverStops(r)
  PROVE  Typed'
<1>. DEFINE c == driver[r]
<1>1. AllNews(updates, last, started, told) /\ told \subseteq 1..last /\ IsSeq(updates)
  BY DEF Typed, TypedUpdates, AllNews
<1>2. Sound(c, last) /\ Orderly(c) /\ c \in Drivers
  BY DEF Typed, TypedSessions
<1>3. c.pc # "none"
  BY <1>2 DEF AgentAnswers, ChildExits, SendGivesUp, MonitorReports, DriverStops, IsOn, Orderly, Unborn
<1>4. r \in 1..started
  BY <1>3, Bounds DEF Typed, TypedSessions, Runs
<1>5. ASSUME NEW e, SameQueues(c, e), driver' = [driver EXCEPT ![r] = e], c.exited => e.exited,
             c.turn = e.turn \/ c.pc = "on", UNCHANGED told,
             KeepsActor,
             AllNews(updates', last, started, told)
      PROVE  Typed'
  <2>1. Sound(e, last) /\ Orderly(e) /\ e.pc # "none"
    BY <1>2, <1>3, <1>5, SameQueuesSound DEF SameQueues
  <2>. QED
    BY <1>1, <1>3, <1>5, <2>1, PutTyped
<1>6. CASE AgentAnswers(r)
  <2>1. PICK e : e = [c EXCEPT !.turn = "over"]
    OBVIOUS
  <2>2. SameQueues(c, e) /\ e.exited = c.exited
    BY <1>2, <2>1 DEF SameQueues, Drivers
  <2>3. driver' = [driver EXCEPT ![r] = e] /\ ActorIdle /\ UNCHANGED told /\ c.pc = "on"
        /\ updates' = Append(updates, [type |-> "TurnEnded", run |-> r])
    BY <1>6, <2>1 DEF AgentAnswers, IsOn
  <2>4. News([type |-> "TurnEnded", run |-> r], last, started, told)
    BY <1>4 DEF News
  <2>. QED
    BY <1>1, <1>5, <2>2, <2>3, <2>4, MoreNews DEF ActorIdle, KeepsActor
<1>7. CASE ChildExits(r) \/ SendGivesUp(r)
  <2>1. PICK e : e = [c EXCEPT !.exited = TRUE]
    OBVIOUS
  <2>2. SameQueues(c, e) /\ e.exited /\ e.turn = c.turn
    BY <1>2, <2>1 DEF SameQueues, Drivers
  <2>3. driver' = [driver EXCEPT ![r] = e] /\ UNCHANGED <<told, updates>>
        /\ KeepsActor
    BY <1>7, <2>1 DEF ChildExits, SendGivesUp, IsOn, ActorIdle, KeepsActor
  <2>. QED
    BY <1>1, <1>5, <2>2, <2>3
<1>8. CASE MonitorReports(r)
  <2>1. PICK e : e = [c EXCEPT !.reported = TRUE]
    OBVIOUS
  <2>2. SameQueues(c, e) /\ e.exited = c.exited /\ e.turn = c.turn
    BY <1>2, <2>1 DEF SameQueues, Drivers
  <2>3. driver' = [driver EXCEPT ![r] = e] /\ ActorIdle /\ UNCHANGED told
        /\ updates' = Append(updates, [type |-> "Error", run |-> r])
    BY <1>8, <2>1 DEF MonitorReports
  <2>4. News([type |-> "Error", run |-> r], last, started, told)
    BY <1>4 DEF News
  <2>. QED
    BY <1>1, <1>5, <2>2, <2>3, <2>4, MoreNews DEF ActorIdle, KeepsActor
<1>9. CASE DriverStops(r)
  <2>1. PICK e : e = [c EXCEPT !.pc = "off", !.inbox = <<>>, !.waiting = <<>>, !.turn = "none",
                               !.announced = <<>>]
    OBVIOUS
  <2>2. \A S : <<>> \in Seq(S) /\ Len(<<>>) = 0
    BY EmptySeq
  <2>3. /\ e \in Drivers /\ e.pc = "off" /\ e.inbox = <<>> /\ e.waiting = <<>> /\ e.turn = "none"
        /\ e.announced = <<>> /\ e.exited = c.exited
    BY <1>2, <2>1, <2>2 DEF Drivers
  <2>4. DirectsOf(<<>>) = {} /\ Once(e)
    BY <2>2, <2>3 DEF DirectsOf, Once
  <2>5. c.exited /\ ActorIdle /\ UNCHANGED told
        /\ updates' = IF c.announced = <<>> THEN updates
                      ELSE Append(updates, [type |-> "QueueChanged", run |-> r, queued |-> <<>>])
    BY <1>9 DEF DriverStops
  <2>6. driver' = [driver EXCEPT ![r] = e]
    BY <1>9, <2>1 DEF DriverStops
  <2>7. Sound(e, last) /\ Orderly(e)
    BY <2>2, <2>3, <2>4, <2>5 DEF Sound, Orderly
  <2>8. News([type |-> "QueueChanged", run |-> r, queued |-> <<>>], last, started, told)
    BY <1>4, <2>2, <2>4 DEF News
  <2>9. AllNews(updates', last, started, told)
    BY <1>1, <2>5, <2>8, MoreNews
  <2>. QED
    BY <1>1, <1>3, <2>3, <2>5, <2>6, <2>7, <2>9, PutTyped DEF ActorIdle, KeepsActor
<1>. QED
  BY <1>6, <1>7, <1>8, <1>9

LEMMA InitTyped ==
  ASSUME Init
  PROVE  Typed
<1>1. {MaxIds, MaxEvents, MaxRuns} \subseteq Nat
  BY PeerAssumption
<1>2. \A S : <<>> \in Seq(S) /\ Len(<<>>) = 0
  BY EmptySeq
<1>3. TypedRecords
  <2>1. status \in [Ids -> Statuses] /\ \A i \in Ids : status[i] = "none"
    BY DEF Init, Statuses
  <2>2. /\ last \in 0..MaxIds /\ cursor \in 0..MaxIds /\ events \in 0..MaxEvents
        /\ slot \in BOOLEAN /\ resuming \in BOOLEAN /\ blocked \in BOOLEAN
        /\ in_flight = {} /\ held = {} /\ reserved = {} /\ removing = {}
    <3>1. 0 \in 0..MaxIds /\ 0 \in 0..MaxEvents
      BY <1>1
    <3>. QED
      BY <3>1 DEF Init
  <2>. QED
    BY <2>1, <2>2 DEF TypedRecords
<1>4. Unborn \in Drivers /\ Unborn.pc = "none"
  BY <1>2 DEF Unborn, Drivers
<1>5. DirectsOf(<<>>) = {}
  BY <1>2 DEF DirectsOf
<1>6. Sound(Unborn, 0) /\ Orderly(Unborn)
  <2>1. Once(Unborn)
    BY <1>2 DEF Unborn, Once
  <2>2. Unborn.announced = <<>> /\ Unborn.inbox = <<>> /\ Unborn.waiting = <<>>
    BY DEF Unborn
  <2>. QED
    BY <1>2, <1>4, <1>5, <2>1, <2>2 DEF Sound, Orderly
<1>7. driver = [r \in Runs |-> Unborn]
  BY DEF Init, Unborn
<1>8. TypedSessions
  <2>1. \A r \in Runs : r > 0
    BY <1>1 DEF Runs
  <2>. QED
    <3>1. started = 0 /\ live = 0 /\ last = 0 /\ queued = <<>> /\ started \in 0..MaxRuns /\ live \in 0..started
      BY <1>1 DEF Init
    <3>2. driver \in [Runs -> Drivers] /\ \A r \in Runs : driver[r] = Unborn
      BY <1>4, <1>7
    <3>3. queued \in Seq(Entry) /\ DirectsOf(queued) \subseteq 1..last
      BY <1>2, <1>5, <3>1
    <3>4. \A r \in Runs : /\ driver[r].pc = "none" <=> r > started
                          /\ Sound(driver[r], last) /\ Orderly(driver[r])
      BY <1>4, <1>6, <2>1, <3>1, <3>2
    <3>. QED
      BY <3>1, <3>2, <3>3, <3>4 DEF TypedSessions
<1>9. TypedUpdates
  BY <1>2 DEF Init, TypedUpdates, IsSeq
<1>. QED
  BY <1>3, <1>8, <1>9 DEF Typed

LEMMA TypedStep ==
  ASSUME Typed, [Next]_vars
  PROVE  Typed'
<1>1. CASE Actor
  BY <1>1, UserPromptTyped, ResumeTyped, CancelTyped, MessagesTyped DEF Actor
<1>2. CASE HearsUpdate \/ Restart
  BY <1>2, HearTyped, RestartTyped
<1>3. ASSUME NEW r \in Runs, Driver(r) \/ AgentAnswers(r) \/ ChildExits(r)
      PROVE  Typed'
  BY <1>3, ToppingTyped, RestTyped DEF Driver, Topping
<1>4. CASE UNCHANGED vars
  <2>1. UNCHANGED <<records, marks, task, sessions, updates, events>>
    BY <1>4 DEF vars
  <2>2. TypedRecords'
    BY <2>1 DEF Typed, TypedRecords, records, marks, task
  <2>3. TypedSessions' /\ TypedUpdates'
    BY <2>1, Bounds, SameSessions, SameUpdates DEF records, task, sessions
  <2>. QED
    BY <2>2, <2>3 DEF Typed
<1>. QED
  BY <1>1, <1>2, <1>3, <1>4 DEF Next

(* Every variable of the actor and of every driver keeps its type, for     *)
(* every number of messages, runs and faults; nothing unwritten is ever    *)
(* carried, queued, marked or told.                                        *)
THEOREM TypesHold == Spec => []TypeOK
<1>1. Init => Typed
  BY InitTyped
<1>2. Typed /\ [Next]_vars => Typed'
  BY TypedStep
<1>3. Typed => TypeOK
  BY TypedTypes
<1>. QED
  BY <1>1, <1>2, <1>3, PTL DEF Spec

-----------------------------------------------------------------------------
(* Where the message i of run r is: d is its driver, q the mirror, us the  *)
(* updates, t what the agent was sent                                      *)

Errs(us, r) == \E k \in 1..Len(us) : us[k].type = "Error" /\ us[k].run = r
Fails(d, us, r) == d.turn = "unsent" \/ (d.exited /\ ~d.reported) \/ Errs(us, r)
Begun(us, r, i, k) == us[k].type = "TurnStarted" /\ us[k].run = r /\ us[k].prompt.direct = i

(* in the channel, before the driver has it *)
Boxed(d, q, us, r, i, t) ==
  InBox(d, i) /\ ~InLine(d, i) /\ i \notin t /\ ~Listed(q, us, r, i)
(* in the queue, and on every list from the first that shows it *)
Lined(d, q, us, r, i, t) ==
  InLine(d, i) /\ ~InBox(d, i) /\ i \notin t /\ Stays(q, us, r, i, Len(us))
(* sent: the update that says so comes before any list without it *)
Begins(d, q, us, r, i) ==
  /\ ~InLine(d, i) /\ ~InBox(d, i)
  /\ \E k \in 1..Len(us) : Begun(us, r, i, k) /\ Stays(q, us, r, i, k)
(* never to be sent, and an update under way tells *)
Lost(d, q, us, r, i, t) ==
  /\ ~InLine(d, i) /\ ~InBox(d, i) /\ i \notin t
  /\ (\E k \in 1..Len(us) : Drops(q, us, r, i, k)) \/ Fails(d, us, r)
Fate(d, q, us, r, i, t) ==
  \/ Boxed(d, q, us, r, i, t) \/ Lined(d, q, us, r, i, t)
  \/ Begins(d, q, us, r, i) \/ Lost(d, q, us, r, i, t)
(* taken from the queue, and not yet from list, the announced one *)
Leaving(d, q, us, r, i, t, list) ==
  /\ ~InLine(d, i) /\ ~InBox(d, i) /\ i \notin t
  /\ Listed(q, us, r, i) /\ i \in DirectsOf(list)

LEMMA Announced ==
  ASSUME NEW q, NEW us, IsSeq(us), NEW r, NEW list, Mirrors(q, us, r, list), NEW i, i \in DirectsOf(list)
  PROVE  Listed(q, us, r, i)
<1>1. CASE \E k \in 1..Len(us) : IsList(us, r, k)
  <2>. DEFINE S == {k \in 1..Len(us) : IsList(us, r, k)}
  <2>1. Len(us) \in Nat
    BY AppendAny DEF Continues
  <2>2. PICK k \in S : \A j \in S : j <= k
    BY <1>1, <2>1, Greatest
  <2>3. us[k].queued = list
    BY <2>1, <2>2 DEF Mirrors
  <2>. QED
    BY <2>2, <2>3 DEF Listed, Shows
<1>2. CASE ~\E k \in 1..Len(us) : IsList(us, r, k)
  <2>1. list # <<>>
    <3>1. DOMAIN <<>> = {}
      BY EmptySeq
    <3>. QED
      BY <3>1 DEF DirectsOf
  <2>. QED
    BY <1>2, <2>1 DEF Mirrors, Listed
<1>. QED
  BY <1>1, <1>2

(* An update that is no list of r, or no update at all. *)
LEMMA FateGoesOn ==
  ASSUME NEW d, NEW q, NEW us, NEW r, NEW i, NEW t, Fate(d, q, us, r, i, t),
         NEW e, InBox(e, i) <=> InBox(d, i), InLine(e, i) <=> InLine(d, i),
         NEW v, i \in v => i \in t,
         NEW u, NEW n, n = us \/ (Continues(n, us, u) /\ ~(u.type = "QueueChanged" /\ u.run = r)),
         Fails(d, us, r) => Fails(e, n, r)
  PROVE  Fate(e, q, n, r, i, v)
<1>1. CASE n = us
  BY <1>1 DEF Fate, Boxed, Lined, Begins, Lost
<1>2. CASE Continues(n, us, u) /\ ~(u.type = "QueueChanged" /\ u.run = r)
  <2>1. /\ \A m \in 0..Len(us) : Stays(q, us, r, i, m) => Stays(q, n, r, i, m)
        /\ Stays(q, us, r, i, Len(us)) => Stays(q, n, r, i, Len(n))
        /\ ~Listed(q, us, r, i) => ~Listed(q, n, r, i)
    BY <1>2, MoreStays
  <2>2. /\ \A k \in 1..Len(us) : k \in 1..Len(n) /\ k \in 0..Len(us) /\ n[k] = us[k]
        /\ \A k \in 1..Len(us) : Drops(q, us, r, i, k) => Drops(q, n, r, i, k)
    BY <1>2, MoreDrops DEF Keeps, Continues
  <2>3. CASE Boxed(d, q, us, r, i, t)
    BY <2>1, <2>3 DEF Fate, Boxed
  <2>4. CASE Lined(d, q, us, r, i, t)
    BY <2>1, <2>4 DEF Fate, Lined
  <2>5. CASE Begins(d, q, us, r, i)
    BY <2>1, <2>2, <2>5 DEF Fate, Begins, Begun
  <2>6. CASE Lost(d, q, us, r, i, t)
    BY <2>2, <2>6 DEF Fate, Lost
  <2>. QED
    BY <2>3, <2>4, <2>5, <2>6 DEF Fate
<1>. QED
  BY <1>1, <1>2

(* The driver comes to its loop top. *)
LEMMA FatePasses ==
  ASSUME NEW c, NEW q, NEW us, IsSeq(us), NEW r, NEW i, NEW t, Fate(c, q, us, r, i, t), i # 0,
         NEW d, Passes(c, d), Once(d), Mirrors(q, us, r, c.announced),
         c.pc = "on" /\ InLine(c, i) => i \in DirectsOf(c.announced)
  PROVE  Fate(d, q, us, r, i, t) \/ Leaving(d, q, us, r, i, t, c.announced)
<1>1. /\ InBox(d, i) => InBox(c, i) /\ ~InLine(d, i)
      /\ InLine(d, i) => InBox(c, i) \/ InLine(c, i)
      /\ InBox(c, i) => InBox(d, i) \/ InLine(d, i)
      /\ InLine(c, i) => InLine(d, i) \/ c.pc = "on"
  <2>1. InBox(d, i) => InBox(c, i) /\ ~InLine(d, i)
    BY DEF Passes, InBox, Once
  <2>2. InLine(d, i) => InBox(c, i) \/ InLine(c, i)
    BY DEF Passes, InBox, InLine
  <2>. QED
    BY <2>1, <2>2 DEF Passes
<1>2. Fails(c, us, r) => Fails(d, us, r)
  BY DEF Fails, Passes
<1>3. CASE Boxed(c, q, us, r, i, t)
  BY <1>1, <1>3, UnlistedStays DEF Boxed, Lined, Fate
<1>4. CASE Lined(c, q, us, r, i, t)
  <2>1. CASE InLine(d, i)
    BY <1>1, <1>4, <2>1 DEF Lined, Fate
  <2>2. CASE ~InLine(d, i)
    <3>1. i \in DirectsOf(c.announced)
      BY <1>1, <1>4, <2>2 DEF Lined
    <3>2. Listed(q, us, r, i)
      BY <3>1, Announced
    <3>. QED
      BY <1>1, <1>4, <2>2, <3>1, <3>2 DEF Lined, Leaving, Passes
  <2>. QED
    BY <2>1, <2>2
<1>5. CASE Begins(c, q, us, r, i)
  BY <1>1, <1>5 DEF Begins, Fate
<1>6. CASE Lost(c, q, us, r, i, t)
  BY <1>1, <1>2, <1>6 DEF Lost, Fate
<1>. QED
  BY <1>3, <1>4, <1>5, <1>6 DEF Fate

(* It says that the queue's list is l now, if that is news. *)
LEMMA FateListed ==
  ASSUME NEW d, NEW q, NEW us, NEW r, NEW i, NEW t,
         NEW old, Fate(d, q, us, r, i, t) \/ Leaving(d, q, us, r, i, t, old),
         NEW list, i \in DirectsOf(list) <=> InLine(d, i),
         NEW u, u.type = "QueueChanged" /\ u.run = r /\ u.queued = list,
         NEW n, Continues(n, us, u)
  PROVE  Fate(d, q, n, r, i, t)
<1>1. /\ \A m \in 0..Len(us) : Stays(q, us, r, i, m) => Stays(q, n, r, i, m)
      /\ Stays(q, us, r, i, Len(us)) /\ InLine(d, i) => Stays(q, n, r, i, Len(n))
      /\ ~Listed(q, us, r, i) /\ ~InLine(d, i) => ~Listed(q, n, r, i)
      /\ Listed(q, us, r, i) /\ ~InLine(d, i) => \E k \in 1..Len(n) : Drops(q, n, r, i, k)
  BY MoreStays
<1>2. /\ \A k \in 1..Len(us) : k \in 1..Len(n) /\ k \in 0..Len(us) /\ n[k] = us[k]
      /\ \A k \in 1..Len(us) : Drops(q, us, r, i, k) => Drops(q, n, r, i, k)
  BY MoreDrops DEF Keeps, Continues
<1>3. CASE Boxed(d, q, us, r, i, t)
  BY <1>1, <1>3 DEF Fate, Boxed
<1>4. CASE Lined(d, q, us, r, i, t)
  BY <1>1, <1>4 DEF Fate, Lined
<1>5. CASE Begins(d, q, us, r, i)
  BY <1>1, <1>2, <1>5 DEF Fate, Begins, Begun
<1>6. CASE Lost(d, q, us, r, i, t)
  <2>1. Fails(d, us, r) => Fails(d, n, r)
    BY <1>2 DEF Fails, Errs
  <2>. QED
    BY <1>2, <1>6, <2>1 DEF Fate, Lost
<1>7. CASE Leaving(d, q, us, r, i, t, old)
  BY <1>1, <1>7 DEF Fate, Leaving, Lost
<1>. QED
  BY <1>3, <1>4, <1>5, <1>6, <1>7 DEF Fate

(* The actor hears the oldest update. *)
LEMMA FateHeard ==
  ASSUME NEW d, NEW q, NEW us, IsSeq(us), us # <<>>, NEW r, NEW i, NEW t, Fate(d, q, us, r, i, t),
         NEW q2, HeardBy(q, us, r, q2), ~Drops(q, us, r, i, 1), ~Begun(us, r, i, 1),
         ~(us[1].type = "Error" /\ us[1].run = r)
  PROVE  Fate(d, q2, Tail(us), r, i, t)
<1>. DEFINE n == Tail(us)
<1>1. /\ Len(us) \in Nat \ {0} /\ Len(n) = Len(us) - 1
      /\ \A k \in 1..Len(n) : n[k] = us[k + 1]
  BY TailAny
<1>2. /\ \A k \in 1..Len(n) : Drops(q2, n, r, i, k) <=> Drops(q, us, r, i, k + 1)
      /\ Listed(q2, n, r, i) <=> Listed(q, us, r, i)
  BY HeardDrops
<1>3. \A k \in 1..Len(us) : Stays(q, us, r, i, k) => Stays(q2, n, r, i, k - 1)
  BY HeardStays
<1>. HIDE DEF n
<1>4. \A k \in 1..Len(us) : k # 1 => k - 1 \in 1..Len(n) /\ n[k - 1] = us[k]
  <2>. SUFFICES ASSUME NEW k \in 1..Len(us), k # 1
                PROVE  k - 1 \in 1..Len(n) /\ n[k - 1] = us[k]
    OBVIOUS
  <2>1. k - 1 \in 1..Len(n) /\ k - 1 + 1 = k
    BY <1>1
  <2>. QED
    BY <1>1, <2>1
<1>5. Len(us) \in 1..Len(us) /\ Len(us) - 1 = Len(n)
  BY <1>1
<1>6. CASE Boxed(d, q, us, r, i, t)
  BY <1>2, <1>6 DEF Fate, Boxed, n
<1>7. CASE Lined(d, q, us, r, i, t)
  <2>1. Stays(q2, n, r, i, Len(n))
    BY <1>3, <1>5, <1>7 DEF Lined
  <2>. QED
    BY <1>7, <2>1 DEF Fate, Lined, n
<1>8. CASE Begins(d, q, us, r, i)
  <2>1. PICK k \in 1..Len(us) : Begun(us, r, i, k) /\ Stays(q, us, r, i, k)
    BY <1>8 DEF Begins
  <2>2. k - 1 \in 1..Len(n) /\ Begun(n, r, i, k - 1) /\ Stays(q2, n, r, i, k - 1)
    BY <1>3, <1>4, <2>1 DEF Begun
  <2>. QED
    BY <1>8, <2>2 DEF Fate, Begins, n
<1>9. CASE Lost(d, q, us, r, i, t)
  <2>1. Fails(d, us, r) => Fails(d, n, r)
    BY <1>4 DEF Fails, Errs
  <2>2. ASSUME NEW k \in 1..Len(us), Drops(q, us, r, i, k)
        PROVE  \E j \in 1..Len(n) : Drops(q2, n, r, i, j)
    <3>1. k # 1 /\ k - 1 \in 1..Len(n) /\ k - 1 + 1 = k
      BY <1>1, <1>4, <2>2
    <3>. QED
      BY <1>2, <2>2, <3>1
  <2>. QED
    BY <1>9, <2>1, <2>2 DEF Fate, Lost, n
<1>. QED
  BY <1>6, <1>7, <1>8, <1>9 DEF Fate

Apart(i, p) == i \notin p.held \cup p.posts
(* Message i rides on no digest of the driver. *)
AllApart(d, i) ==
  /\ \A j \in 1..Len(d.inbox) : Apart(i, d.inbox[j])
  /\ \A j \in 1..Len(d.waiting) : Apart(i, d.waiting[j].prompt)

(* An update appended, an error stays one. *)
LEMMA ErrsStay ==
  ASSUME NEW us, NEW u, NEW n, n = us \/ Continues(n, us, u), NEW r
  PROVE  /\ Errs(us, r) => Errs(n, r)
         /\ n # us /\ u.type = "Error" /\ u.run = r => Errs(n, r)
<1>1. CASE Continues(n, us, u)
  <2>1. Len(us) + 1 \in 1..Len(n) /\ \A k \in 1..Len(us) : k \in 1..Len(n) /\ n[k] = us[k]
    BY <1>1 DEF Continues
  <2>. QED
    BY <1>1, <2>1 DEF Errs, Continues
<1>. QED
  BY <1>1

(* The loop top, up to the list it announces. *)
LEMMA FateStarts ==
  ASSUME NEW r \in Runs, NEW n \in Nat, NEW d, Sound(d, n), NEW x, NEW mid, TopMakes(r, d, x, mid),
         IsSeq(updates), NEW i \in 1..n, AllApart(d, i), NEW q,
         Fate(d, q, updates, r, i, told) \/ Leaving(d, q, updates, r, i, told, d.announced)
  PROVE  Fate(x, q, mid, r, i, told') \/ Leaving(x, q, mid, r, i, told', d.announced)
<1>1. x.inbox = d.inbox /\ x.exited = d.exited /\ x.reported = d.reported
      /\ (InBox(x, i) <=> InBox(d, i))
  BY DEF TopMakes, InBox
<1>2. CASE x.waiting = d.waiting /\ x.turn = d.turn /\ told' = told /\ mid = updates
  <2>1. InLine(x, i) <=> InLine(d, i)
    BY <1>2 DEF InLine
  <2>2. Fails(d, updates, r) => Fails(x, mid, r)
    BY <1>1, <1>2 DEF Fails
  <2>3. CASE Fate(d, q, updates, r, i, told)
    BY <1>1, <1>2, <2>1, <2>2, <2>3 DEF Fate, Boxed, Lined, Begins, Lost
  <2>4. CASE Leaving(d, q, updates, r, i, told, d.announced)
    BY <1>1, <1>2, <2>1, <2>4 DEF Leaving
  <2>. QED
    BY <2>3, <2>4
<1>3. CASE /\ d.waiting # <<>> /\ d.turn = "none" /\ x.waiting = Tail(d.waiting)
           /\ \/ /\ x.turn = "running" /\ told' = told \cup Content(d.waiting[1].prompt)
                 /\ mid = Append(updates, [type |-> "TurnStarted", run |-> r,
                                           prompt |-> d.waiting[1].prompt])
              \/ x.turn = "unsent" /\ told' = told /\ mid = updates
  <2>. DEFINE p == d.waiting[1].prompt
  <2>1. /\ 1 \in 1..Len(d.waiting)
        /\ p.direct = i => ~InLine(x, i) /\ ~InBox(x, i)
        /\ InLine(d, i) => p.direct = i \/ InLine(x, i)
        /\ InLine(x, i) => InLine(d, i)
    <3>1. /\ 1 \in 1..Len(d.waiting)
          /\ \A j \in 1..Len(x.waiting) : \E k \in 1..Len(d.waiting) : x.waiting[j] = d.waiting[k]
      BY <1>3, LineShrinks
    <3>2. /\ p.direct = i => ~InLine(x, i) /\ ~InBox(x, i)
          /\ InLine(d, i) => p.direct = i \/ InLine(x, i)
      BY <1>3, LineShrinks
    <3>. QED
      BY <3>1, <3>2 DEF InLine
  <2>2. Apart(i, p) /\ (p.direct = i => InLine(d, i))
    BY <2>1 DEF AllApart, InLine
  <2>3. p.direct # i => i \notin Content(p)
    BY <2>2 DEF Apart, Content
  <2>4. PICK u : u = [type |-> "TurnStarted", run |-> r, prompt |-> p]
    OBVIOUS
  <2>5. Continues(Append(updates, u), updates, u)
    BY AppendAny
  <2>6. ASSUME InLine(d, i)
        PROVE  Lined(d, q, updates, r, i, told)
    BY <2>6 DEF Fate, Boxed, Begins, Lost, Leaving
  <2>. HIDE DEF p
  <2>7. CASE x.turn = "running" /\ told' = told \cup Content(p) /\ mid = Append(updates, u)
    <3>1. Continues(mid, updates, u) /\ u.type = "TurnStarted" /\ u.run = r /\ u.prompt = p
      BY <2>4, <2>5, <2>7
    <3>2. CASE p.direct = i
      <4>1. Stays(q, mid, r, i, Len(mid))
        BY <2>2, <2>6, <3>1, <3>2, MoreStays DEF Lined
      <4>2. Len(mid) \in 1..Len(mid) /\ Begun(mid, r, i, Len(mid))
        BY <3>1, <3>2 DEF Continues, Begun
      <4>. QED
        BY <2>1, <3>2, <4>1, <4>2 DEF Fate, Begins
    <3>3. CASE p.direct # i
      <4>1. (InLine(x, i) <=> InLine(d, i)) /\ (i \in told' => i \in told)
        BY <2>1, <2>3, <2>7, <3>3
      <4>2. Fails(d, updates, r) => Fails(x, mid, r)
        BY <1>1, <1>3, <3>1, ErrsStay DEF Fails
      <4>3. CASE Fate(d, q, updates, r, i, told)
        BY <1>1, <3>1, <4>1, <4>2, <4>3, FateGoesOn
      <4>4. CASE Leaving(d, q, updates, r, i, told, d.announced)
        BY <1>1, <3>1, <4>1, <4>4, MoreStays DEF Leaving
      <4>. QED
        BY <4>3, <4>4
    <3>. QED
      BY <3>2, <3>3
  <2>8. CASE x.turn = "unsent" /\ told' = told /\ mid = updates
    <3>1. Fails(x, mid, r)
      BY <2>8 DEF Fails
    <3>2. CASE p.direct = i
      BY <2>1, <2>2, <2>6, <2>8, <3>1, <3>2 DEF Fate, Lost, Lined
    <3>3. CASE p.direct # i
      <4>1. InLine(x, i) <=> InLine(d, i)
        BY <2>1, <3>3
      <4>2. CASE Fate(d, q, updates, r, i, told)
        BY <1>1, <2>8, <3>1, <4>1, <4>2 DEF Fate, Boxed, Lined, Begins, Lost
      <4>3. CASE Leaving(d, q, updates, r, i, told, d.announced)
        BY <1>1, <2>8, <4>1, <4>3 DEF Leaving
      <4>. QED
        BY <4>2, <4>3
    <3>. QED
      BY <3>2, <3>3
  <2>. QED
    BY <1>3, <2>4, <2>7, <2>8 DEF p
<1>. QED
  BY <1>2, <1>3 DEF TopMakes

LEMMA FateTops ==
  ASSUME NEW r \in Runs, NEW n \in Nat, NEW d, Sound(d, n), NEW x, NEW mid, TopMakes(r, d, x, mid),
         IsSeq(updates), IsSeq(mid), NEW i \in 1..n, AllApart(d, i), NEW q,
         Fate(d, q, updates, r, i, told) \/ Leaving(d, q, updates, r, i, told, d.announced)
  PROVE  Fate(x, q, updates', r, i, told')
<1>1. Fate(x, q, mid, r, i, told') \/ Leaving(x, q, mid, r, i, told', d.announced)
  BY FateStarts
<1>2. i \in DirectsOf(x.announced) <=> InLine(x, i)
  BY LineShrinks
<1>3. CASE x.announced = d.announced
  BY <1>1, <1>2, <1>3 DEF TopMakes, Leaving
<1>4. CASE x.announced # d.announced
  <2>1. PICK u : u = [type |-> "QueueChanged", run |-> r, queued |-> x.announced]
    OBVIOUS
  <2>2. updates' = Append(mid, u)
    BY <1>4, <2>1 DEF TopMakes
  <2>3. Continues(updates', mid, u) /\ u.type = "QueueChanged" /\ u.run = r /\ u.queued = x.announced
    BY <2>1, <2>2, AppendAny
  <2>. QED
    BY <1>1, <1>2, <2>3, FateListed
<1>. QED
  BY <1>3, <1>4

-----------------------------------------------------------------------------
(* The live session, and every message in flight *)

(* Only a prompt of the live session is for the message i. *)
Alone(i) ==
  \A r \in Runs : /\ AllApart(driver[r], i)
                  /\ r # live => ~InBox(driver[r], i) /\ ~InLine(driver[r], i)
Followed ==
  live # 0 => /\ Mirrors(queued, updates, live, driver[live].announced)
              /\ driver[live].reported => Errs(updates, live)
Tracked == \A i \in in_flight : Alone(i) /\ Fate(driver[live], queued, updates, live, i, told)
LiveOK ==
  /\ resuming => live = 0
  /\ in_flight # {} => live # 0
  /\ Followed /\ Tracked
Traced == IInv /\ Typed /\ LiveOK

LEMMA DroppedLive ==
  ASSUME live' = 0, in_flight' = {}
  PROVE  LiveOK'
  BY DEF LiveOK, Followed, Tracked

LEMMA SameLive ==
  ASSUME LiveOK, UNCHANGED <<resuming, live, queued, driver, updates, told, in_flight>>
  PROVE  LiveOK'
<1>1. Followed'
  BY DEF LiveOK, Followed
<1>2. Tracked'
  BY DEF LiveOK, Tracked, Alone
<1>. QED
  BY <1>1, <1>2 DEF LiveOK

(* What was written can name none but the messages there were. *)
LEMMA NotYet ==
  ASSUME Typed, NEW i, i \notin 1..last, i # 0
  PROVE  /\ i \notin told /\ \A r : ~Listed(queued, updates, r, i)
         /\ \A r \in Runs : AllApart(driver[r], i) /\ ~InBox(driver[r], i) /\ ~InLine(driver[r], i)
<1>1. i \notin told
  BY DEF Typed, TypedUpdates
<1>2. ASSUME NEW r PROVE ~Listed(queued, updates, r, i)
  BY DEF Typed, TypedSessions, TypedUpdates, News, Listed, Shows, IsList
<1>3. ASSUME NEW p, Written(p, last)
      PROVE  Apart(i, p) /\ p.direct # i
  BY <1>3 DEF Written, Content, Apart
<1>4. ASSUME NEW r \in Runs
      PROVE  AllApart(driver[r], i) /\ ~InBox(driver[r], i) /\ ~InLine(driver[r], i)
  <2>1. Sound(driver[r], last)
    BY DEF Typed, TypedSessions
  <2>. QED
    BY <1>3, <2>1 DEF Sound, AllApart, InBox, InLine
<1>. QED
  BY <1>1, <1>2, <1>4

(* A prompt is sent to the live session, for message direct or for none. *)
LEMMA SubmitLive ==
  ASSUME Traced, Listens(live), NEW direct \in 0..MaxIds, direct = 0 \/ direct = last + 1,
         Submit(Prepared(direct)), UNCHANGED <<resuming, live, queued, updates, told>>,
         in_flight' = in_flight \cup ({direct} \ {0})
  PROVE  LiveOK'
<1>. DEFINE d == driver[live]
            p == Prepared(direct)
            e == [d EXCEPT !.inbox = Append(@, p)]
<1>0. Typed /\ IInv /\ LiveOK
  BY DEF Traced
<1>1. last \in Nat /\ live \in Runs /\ live # 0 /\ d.pc \in {"starting", "on"}
  BY <1>0, Bounds DEF Listens
<1>2. Sound(d, last) /\ Orderly(d) /\ driver \in [Runs -> Drivers]
  BY <1>0, <1>1 DEF Typed, TypedSessions
<1>3. p \in Prompt /\ p.direct = direct /\ p.held \subseteq held /\ p.held \cup p.posts \subseteq 1..last
      /\ \A i \in p.posts : status[i] = "posted"
  BY <1>0, PreparedOf
<1>4. driver' = [driver EXCEPT ![live] = e]
  BY DEF Submit
<1>. HIDE DEF p
<1>5. PICK m \in Nat : m = last + 1
  BY <1>1
<1>6. Written(p, m) /\ last <= m
  BY <1>1, <1>3, <1>5 DEF Written, Content
<1>7. p.direct = 0 \/ p.direct > last
  BY <1>1, <1>3
<1>8. /\ e.waiting = d.waiting /\ e.exited = d.exited /\ e.reported = d.reported /\ e.announced = d.announced
      /\ e.turn = d.turn /\ Len(d.inbox) \in Nat
      /\ \A j \in 1..Len(d.inbox) : j \in 1..Len(e.inbox) /\ e.inbox[j] = d.inbox[j]
      /\ \A j \in 1..Len(e.inbox) : \/ j \in 1..Len(d.inbox) /\ e.inbox[j] = d.inbox[j]
                                    \/ j = Len(d.inbox) + 1 /\ e.inbox[j] = p
      /\ Len(d.inbox) + 1 \in 1..Len(e.inbox)
  BY <1>1, <1>2, <1>5, <1>6, <1>7, BoxGrows
<1>. HIDE DEF e
<1>9. driver'[live] = e /\ \A r \in Runs : r # live => driver'[r] = driver[r]
  BY <1>1, <1>2, <1>4
<1>10. \A i : /\ InBox(e, i) <=> InBox(d, i) \/ p.direct = i
              /\ InLine(e, i) <=> InLine(d, i)
              /\ AllApart(d, i) /\ Apart(i, p) => AllApart(e, i)
  <2>1. \A i : InBox(e, i) <=> InBox(d, i) \/ p.direct = i
    <3>1. e.inbox[Len(d.inbox) + 1] = p
      BY <1>8
    <3>. QED
      BY <1>8, <3>1 DEF InBox
  <2>2. \A i : InLine(e, i) <=> InLine(d, i)
    BY <1>8 DEF InLine
  <2>3. \A i : AllApart(d, i) /\ Apart(i, p) => AllApart(e, i)
    BY <1>8 DEF AllApart
  <2>. QED
    BY <2>1, <2>2, <2>3
<1>. HIDE DEF d
<1>11. ASSUME NEW i \in in_flight
       PROVE  Alone(i)' /\ Fate(e, queued, updates, live, i, told)
  <2>1. i \in 1..last /\ status[i] = "queued" /\ i \notin held
    BY <1>0, Bounds DEF IInv, Known, RecordsAgree, Ids
  <2>2. Apart(i, p) /\ p.direct # i
    <3>1. i \notin p.held
      BY <1>3, <2>1
    <3>2. i \notin p.posts
      BY <1>3, <2>1
    <3>3. p.direct # i
      BY <1>1, <1>3, <2>1
    <3>. QED
      BY <3>1, <3>2, <3>3 DEF Apart
  <2>3. Alone(i) /\ Fate(d, queued, updates, live, i, told)
    BY <1>0 DEF LiveOK, Tracked, d
  <2>4. Alone(i)'
    <3>1. \A r \in Runs : AllApart(driver'[r], i) /\ (r # live => ~InBox(driver'[r], i) /\ ~InLine(driver'[r], i))
      BY <1>9, <1>10, <2>2, <2>3 DEF Alone, d
    <3>. QED
      BY <3>1 DEF Alone
  <2>5. Fails(d, updates, live) => Fails(e, updates, live)
    BY <1>8 DEF Fails, d
  <2>6. (InBox(e, i) <=> InBox(d, i)) /\ (InLine(e, i) <=> InLine(d, i))
    BY <1>10, <2>2
  <2>7. Fate(e, queued, updates, live, i, told)
    BY <2>3, <2>5, <2>6 DEF Fate, Boxed, Lined, Begins, Lost
  <2>. QED
    BY <2>4, <2>7
<1>12. ASSUME NEW i, i = direct, i # 0
       PROVE  Alone(i)' /\ Fate(e, queued, updates, live, i, told)
  <2>1. i \notin 1..last
    BY <1>1, <1>12
  <2>2. /\ i \notin told /\ ~Listed(queued, updates, live, i)
        /\ \A r \in Runs : AllApart(driver[r], i) /\ ~InBox(driver[r], i) /\ ~InLine(driver[r], i)
    BY <1>0, <1>12, <2>1, NotYet
  <2>3. Apart(i, p)
    BY <1>3, <2>1 DEF Apart
  <2>4. Alone(i)'
    <3>1. \A r \in Runs : AllApart(driver'[r], i) /\ (r # live => ~InBox(driver'[r], i) /\ ~InLine(driver'[r], i))
      BY <1>1, <1>9, <1>10, <2>2, <2>3 DEF d
    <3>. QED
      BY <3>1 DEF Alone
  <2>5. Boxed(e, queued, updates, live, i, told)
    BY <1>1, <1>3, <1>10, <1>12, <2>2 DEF Boxed, d
  <2>. QED
    BY <2>4, <2>5 DEF Fate
<1>13. Tracked'
  BY <1>9, <1>11, <1>12 DEF Tracked
<1>14. Followed'
  BY <1>0, <1>8, <1>9 DEF LiveOK, Followed, d
<1>. QED
  BY <1>0, <1>1, <1>13, <1>14 DEF LiveOK

(* A session starts: nothing is in flight, and nothing of it was heard. *)
LEMMA ResumeLive ==
  ASSUME Traced, ResumeReplayReady
  PROVE  LiveOK'
<1>. DEFINE s == started + 1
            e == driver'[s]
<1>1. Typed /\ LiveOK /\ started \in Nat /\ s \in Runs
  BY Bounds, ResumeTyped DEF Traced
<1>2. /\ resuming /\ live' = s /\ resuming' = FALSE
      /\ UNCHANGED <<in_flight, queued, updates>>
  BY DEF ResumeReplayReady, records
<1>3. in_flight = {}
  BY <1>1, <1>2 DEF LiveOK
<1>4. e.announced = <<>> /\ ~e.reported
  <2>1. e = [Unborn EXCEPT !.pc = "starting", !.waiting = <<[q |-> 0, prompt |-> Prepared(0)]>>]
    BY <1>1, ResumeTyped
  <2>. QED
    BY <2>1 DEF Unborn
<1>5. \A k \in 1..Len(updates) : ~IsList(updates, s, k)
  <2>1. s \notin 1..started
    BY <1>1
  <2>. QED
    BY <1>1, <2>1 DEF Typed, TypedUpdates, News, IsList
<1>6. Mirrors(queued, updates, s, <<>>)
  BY <1>5 DEF Mirrors
<1>7. Followed'
  BY <1>2, <1>4, <1>6 DEF Followed
<1>. QED
  BY <1>1, <1>2, <1>3, <1>7 DEF LiveOK, Tracked

LEMMA ActorLive ==
  ASSUME Traced, Actor
  PROVE  LiveOK'
<1>0. Typed /\ IInv /\ LiveOK
  BY DEF Traced
<1>1. CASE UserPrompt
  <2>1. CASE Listens(live)
    <3>1. /\ Submit(Prepared(0))
          /\ UNCHANGED <<resuming, live, queued, updates, told, in_flight>>
      BY <1>1, <2>1 DEF UserPrompt, records
    <3>2. 0 \in 0..MaxIds
      BY PeerAssumption
    <3>. QED
      BY <2>1, <3>1, <3>2, SubmitLive
  <2>2. CASE ~Listens(live)
    BY <1>1, <2>2, DroppedLive DEF UserPrompt, drop_session
  <2>. QED
    BY <2>1, <2>2
<1>2. CASE ResumeReplayReady
  BY <1>2, ResumeLive
<1>3. CASE CancelTask \/ DirectFindsStale
  BY <1>3, DroppedLive DEF CancelTask, drop_session, DirectFindsStale
<1>4. CASE SlotLapses \/ peers_post \/ DirectHeld
  BY <1>0, <1>4, SameLive DEF SlotLapses, peers_post, DirectHeld, task, sessions
<1>5. CASE \E i \in DOMAIN queued : peers_removing(i)
  BY <1>0, <1>5, SameLive DEF peers_removing, records, task
<1>6. CASE DirectQueued
  <2>1. /\ Listens(live) /\ Submit(Prepared(last + 1)) /\ NewRecord("queued")
        /\ in_flight' = in_flight \cup {last + 1}
        /\ UNCHANGED <<resuming, live, queued, updates, told>>
    BY <1>6 DEF DirectQueued, task
  <2>2. last + 1 \in 0..MaxIds /\ last + 1 # 0
    BY <1>0, <2>1, Bounds DEF NewRecord
  <2>. QED
    BY <2>1, <2>2, SubmitLive
<1>. QED
  BY <1>1, <1>2, <1>3, <1>4, <1>5, <1>6 DEF Actor

(* The actor hears an update, and every message it settles leaves in_flight. *)
LEMMA HeardLive ==
  ASSUME Traced, updates # <<>>, updates' = Tail(updates), UNCHANGED <<live, resuming, driver, told>>,
         in_flight' \subseteq in_flight,
         live # 0 => /\ HeardBy(queued, updates, live, queued')
                     /\ ~(Head(updates).type = "Error" /\ Head(updates).run = live)
                     /\ \A i \in in_flight' : /\ ~Drops(queued, updates, live, i, 1)
                                              /\ ~Begun(updates, live, i, 1)
  PROVE  LiveOK'
<1>0. Typed /\ LiveOK /\ IsSeq(updates)
  BY DEF Traced, Typed, TypedUpdates
<1>1. Head(updates) = updates[1]
  BY <1>0, TailAny
<1>2. CASE live = 0
  <2>1. in_flight' = {}
    BY <1>0, <1>2 DEF LiveOK
  <2>. QED
    BY <1>2, <2>1, DroppedLive
<1>3. CASE live # 0
  <2>1. Errs(updates, live) => Errs(updates', live)
    <3>1. /\ Len(updates) \in Nat \ {0} /\ Len(updates') = Len(updates) - 1
          /\ \A k \in 1..Len(updates') : updates'[k] = updates[k + 1]
      BY <1>0, TailAny
    <3>. SUFFICES ASSUME NEW k \in 1..Len(updates), updates[k].type = "Error", updates[k].run = live
                  PROVE  Errs(updates', live)
      BY DEF Errs
    <3>2. k # 1
      BY <1>1, <1>3
    <3>3. k - 1 \in 1..Len(updates') /\ k - 1 + 1 = k
      BY <3>1, <3>2
    <3>. QED
      BY <3>1, <3>3 DEF Errs
  <2>2. Mirrors(queued', updates', live, driver[live].announced)
    BY <1>0, <1>3, HeardMirrors DEF LiveOK, Followed
  <2>3. Followed'
    BY <1>0, <1>3, <2>1, <2>2 DEF LiveOK, Followed
  <2>4. ASSUME NEW i \in in_flight'
        PROVE  Alone(i)' /\ Fate(driver[live], queued', updates', live, i, told)
    <3>1. Alone(i) /\ Fate(driver[live], queued, updates, live, i, told)
      BY <1>0, <2>4 DEF LiveOK, Tracked
    <3>2. Fate(driver[live], queued', updates', live, i, told)
      BY <1>0, <1>1, <1>3, <2>4, <3>1, FateHeard
    <3>. QED
      BY <3>1, <3>2 DEF Alone
  <2>5. Tracked'
    BY <2>4 DEF Tracked
  <2>. QED
    BY <1>0, <1>3, <2>3, <2>5 DEF LiveOK
<1>. QED
  BY <1>2, <1>3

LEMMA HearLive ==
  ASSUME Traced, HearsUpdate
  PROVE  LiveOK'
<1>. DEFINE u == Head(updates)
<1>0. Typed /\ LiveOK /\ IsSeq(updates)
  BY DEF Traced, Typed, TypedUpdates
<1>1. updates # <<>> /\ updates' = Tail(updates) /\ News(u, last, started, told)
  BY <1>0, HearTyped
<1>2. UNCHANGED <<driver, told>>
  BY DEF HearsUpdate, HearTurnStarted, HearQueueChanged, HearTurnEnded, HearError, sessions
<1>3. u = updates[1] /\ 1 \in 1..Len(updates)
  BY <1>0, <1>1, TailAny
<1>. HIDE DEF u
<1>4. \A i : /\ Drops(queued, updates, live, i, 1) =>
                  u.type = "QueueChanged" /\ u.run = live /\ i \in DirectsOf(queued) \ DirectsOf(u.queued)
             /\ Begun(updates, live, i, 1) => u.type = "TurnStarted" /\ u.run = live /\ u.prompt.direct = i
  <2>1. \A j \in 1..Len(updates) : ~(j < 1)
    <3>1. Len(updates) \in Nat
      BY <1>0, AppendAny DEF Continues
    <3>. QED
      BY <3>1
  <2>. QED
    BY <1>3, <2>1 DEF Drops, IsList, Begun
<1>5. IsList(updates, live, 1) <=> u.type = "QueueChanged" /\ u.run = live
  BY <1>3 DEF IsList
<1>6. ASSUME UNCHANGED <<in_flight, queued, live, resuming>>,
             u.type = "TurnEnded" \/ live = 0 \/ u.run # live
      PROVE  LiveOK'
  <2>1. live # 0 => /\ HeardBy(queued, updates, live, queued')
                    /\ ~(u.type = "Error" /\ u.run = live)
                    /\ \A i \in in_flight' : /\ ~Drops(queued, updates, live, i, 1)
                                             /\ ~Begun(updates, live, i, 1)
    BY <1>4, <1>5, <1>6 DEF HeardBy
  <2>. QED
    BY <1>1, <1>2, <1>6, <2>1, HeardLive DEF u
<1>7. CASE HearTurnStarted
  <2>1. u.type = "TurnStarted"
    BY <1>7 DEF HearTurnStarted, Hears, u
  <2>2. CASE (live = 0 \/ u.run # live) /\ Ignored
    BY <1>6, <2>2 DEF Ignored, records, task
  <2>3. CASE peers_turn_started(u.prompt) /\ UNCHANGED <<last, queued, live, resuming, started>>
    <3>1. in_flight' \subseteq in_flight /\ \A i \in in_flight' : u.prompt.direct # i
      BY <2>3 DEF peers_turn_started
    <3>2. live # 0 => /\ HeardBy(queued, updates, live, queued')
                      /\ ~(u.type = "Error" /\ u.run = live)
                      /\ \A i \in in_flight' : /\ ~Drops(queued, updates, live, i, 1)
                                               /\ ~Begun(updates, live, i, 1)
      BY <1>4, <1>5, <2>1, <2>3, <3>1 DEF HeardBy
    <3>. QED
      BY <1>1, <1>2, <2>3, <3>1, <3>2, HeardLive DEF u
  <2>. QED
    BY <1>7, <2>2, <2>3 DEF HearTurnStarted, IsStale, u
<1>8. CASE HearQueueChanged
  <2>1. u.type = "QueueChanged"
    BY <1>8 DEF HearQueueChanged, Hears, u
  <2>2. CASE (live = 0 \/ u.run # live) /\ Ignored
    BY <1>6, <2>2 DEF Ignored, records, task
  <2>3. CASE /\ live = 0 \/ u.run = live
             /\ peers_queue_changed(DirectsOf(queued) \ DirectsOf(u.queued))
             /\ queued' = u.queued /\ UNCHANGED <<live, resuming>>
    <3>1. /\ in_flight' \subseteq in_flight
          /\ \A i \in in_flight' : i \notin DirectsOf(queued) \ DirectsOf(u.queued)
      BY <2>3 DEF peers_queue_changed
    <3>2. live # 0 => /\ HeardBy(queued, updates, live, queued')
                      /\ ~(u.type = "Error" /\ u.run = live)
                      /\ \A i \in in_flight' : /\ ~Drops(queued, updates, live, i, 1)
                                               /\ ~Begun(updates, live, i, 1)
      BY <1>3, <1>4, <1>5, <2>1, <2>3, <3>1 DEF HeardBy
    <3>. QED
      BY <1>1, <1>2, <2>3, <3>1, <3>2, HeardLive DEF u
  <2>. QED
    BY <1>8, <2>2, <2>3 DEF HearQueueChanged, IsStale, u
<1>9. CASE HearTurnEnded
  <2>1. UNCHANGED <<in_flight, queued, live, resuming>> /\ u.type = "TurnEnded"
    BY <1>9 DEF HearTurnEnded, Hears, records, task, u
  <2>. QED
    BY <1>6, <2>1
<1>10. CASE HearError
  <2>1. CASE drop_session
    BY <2>1, DroppedLive DEF drop_session
  <2>2. CASE u.run # live /\ Ignored
    BY <1>6, <2>2 DEF Ignored, records, task
  <2>. QED
    BY <1>10, <2>1, <2>2 DEF HearError, IsStale, u
<1>. QED
  BY <1>7, <1>8, <1>9, <1>10 DEF HearsUpdate

(* The driver of r is e now. *)
LEMMA PutLive ==
  ASSUME Traced, NEW r \in Runs, NEW e, driver' = [driver EXCEPT ![r] = e], KeepsActor,
         \A i \in in_flight : /\ AllApart(driver[r], i) => AllApart(e, i)
                              /\ InBox(e, i) \/ InLine(e, i) => InBox(driver[r], i) \/ InLine(driver[r], i),
         live # 0 => /\ Mirrors(queued, updates', live, driver'[live].announced)
                     /\ driver'[live].reported => Errs(updates', live)
                     /\ \A i \in in_flight : Fate(driver'[live], queued, updates', live, i, told')
  PROVE  LiveOK'
<1>0. Typed /\ LiveOK /\ driver \in [Runs -> Drivers]
  BY DEF Traced, Typed, TypedSessions
<1>1. UNCHANGED <<in_flight, queued, live, resuming>>
  BY DEF KeepsActor, records, task
<1>2. driver'[r] = e /\ \A s \in Runs : s # r => driver'[s] = driver[s]
  BY <1>0
<1>3. ASSUME NEW i \in in_flight
      PROVE  Alone(i)'
  <2>1. Alone(i)
    BY <1>0, <1>3 DEF LiveOK, Tracked
  <2>2. ASSUME NEW s \in Runs
        PROVE  /\ AllApart(driver'[s], i)
               /\ s # live => ~InBox(driver'[s], i) /\ ~InLine(driver'[s], i)
    <3>1. CASE s = r
      BY <1>2, <2>1, <3>1 DEF Alone
    <3>2. CASE s # r
      BY <1>2, <2>1, <3>2 DEF Alone
    <3>. QED
      BY <3>1, <3>2
  <2>. QED
    BY <1>1, <2>2 DEF Alone
<1>4. Followed'
  BY <1>1 DEF Followed
<1>5. Tracked'
  BY <1>0, <1>1, <1>3 DEF Tracked, LiveOK
<1>. QED
  BY <1>0, <1>1, <1>4, <1>5 DEF LiveOK

(* Nothing new comes into the queues of r at the loop top. *)
LEMMA TopKeepsApart ==
  ASSUME NEW c, NEW d, Passes(c, d), NEW r \in Runs, NEW n \in Nat, Sound(d, n),
         NEW x, NEW mid, TopMakes(r, d, x, mid), NEW i
  PROVE  /\ AllApart(c, i) => AllApart(d, i) /\ AllApart(x, i)
         /\ InBox(d, i) \/ InLine(d, i) => InBox(c, i) \/ InLine(c, i)
         /\ InBox(x, i) \/ InLine(x, i) => InBox(d, i) \/ InLine(d, i)
<1>0. x.inbox = d.inbox
  BY DEF TopMakes
<1>1. \A j \in 1..Len(x.waiting) : \E k \in 1..Len(d.waiting) : x.waiting[j] = d.waiting[k]
  BY LineShrinks
<1>2. AllApart(c, i) => AllApart(d, i)
  BY DEF Passes, AllApart
<1>3. AllApart(d, i) => AllApart(x, i)
  BY <1>0, <1>1 DEF AllApart
<1>4. InBox(d, i) \/ InLine(d, i) => InBox(c, i) \/ InLine(c, i)
  BY DEF Passes, InBox, InLine
<1>5. InBox(x, i) \/ InLine(x, i) => InBox(d, i) \/ InLine(d, i)
  BY <1>0, <1>1 DEF InBox, InLine
<1>. QED
  BY <1>2, <1>3, <1>4, <1>5

(* The loop top of the live session. *)
LEMMA TopOfLive ==
  ASSUME Traced, live # 0, Topping(live),
         NEW d, NEW x, NEW mid, Sound(d, last), Passes(driver[live], d), TopMakes(live, d, x, mid), IsSeq(mid)
  PROVE  /\ Mirrors(queued, updates', live, x.announced)
         /\ x.reported => Errs(updates', live)
         /\ \A i \in in_flight : Fate(x, queued, updates', live, i, told')
<1>. DEFINE c == driver[live]
<1>0. Typed /\ LiveOK /\ last \in Nat /\ live \in Runs /\ IsSeq(updates)
  BY Bounds DEF Traced, Typed, TypedUpdates
<1>1. Mirrors(queued, updates, live, c.announced) /\ (c.reported => Errs(updates, live))
  BY <1>0 DEF LiveOK, Followed
<1>2. PICK u : u = [type |-> "TurnStarted", run |-> live, prompt |-> d.waiting[1].prompt]
  OBVIOUS
<1>3. PICK v : v = [type |-> "QueueChanged", run |-> live, queued |-> x.announced]
  OBVIOUS
<1>4. /\ mid = updates \/ Continues(mid, updates, u)
      /\ IF x.announced = c.announced THEN updates' = mid ELSE Continues(updates', mid, v)
      /\ x.reported = c.reported
  <2>1. Continues(Append(updates, u), updates, u) /\ Continues(Append(mid, v), mid, v)
    BY <1>0, AppendAny
  <2>2. mid = updates \/ mid = Append(updates, u)
    BY <1>2 DEF TopMakes
  <2>3. updates' = IF x.announced = d.announced THEN mid ELSE Append(mid, v)
    BY <1>3 DEF TopMakes
  <2>4. d.announced = c.announced /\ d.reported = c.reported /\ x.reported = d.reported
    BY DEF Passes, TopMakes
  <2>. QED
    BY <2>1, <2>2, <2>3, <2>4
<1>5. Mirrors(queued, updates', live, x.announced)
  <2>1. u.type = "TurnStarted" /\ v.type = "QueueChanged" /\ v.run = live /\ v.queued = x.announced
    BY <1>2, <1>3
  <2>2. Mirrors(queued, mid, live, c.announced)
    BY <1>1, <1>4, <2>1, MoreMirrors
  <2>3. CASE x.announced = c.announced
    BY <1>4, <2>2, <2>3
  <2>4. CASE x.announced # c.announced
    BY <1>4, <2>1, <2>4, MoreMirrors
  <2>. QED
    BY <2>3, <2>4
<1>6. Errs(updates, live) => Errs(updates', live)
  <2>1. Errs(updates, live) => Errs(mid, live)
    BY <1>4, ErrsStay
  <2>2. Errs(mid, live) => Errs(updates', live)
    BY <1>4, ErrsStay
  <2>. QED
    BY <2>1, <2>2
<1>7. ASSUME NEW i \in in_flight
      PROVE  Fate(x, queued, updates', live, i, told')
  <2>1. i \in 1..last /\ i # 0
    BY <1>0 DEF Typed, TypedRecords
  <2>2. Alone(i) /\ Fate(c, queued, updates, live, i, told)
    BY <1>0 DEF LiveOK, Tracked
  <2>3. AllApart(d, i)
    BY <1>0, <2>2, TopKeepsApart DEF Alone
  <2>4. c.pc = "on" /\ InLine(c, i) => i \in DirectsOf(c.announced)
    <3>1. Orderly(c) /\ c.waiting \in Seq([q : Nat, prompt : Prompt])
      BY <1>0 DEF Typed, TypedSessions, Drivers
    <3>2. DirectsOf(Entries(c.waiting)) = {c.waiting[j].prompt.direct : j \in 1..Len(c.waiting)} \ {0}
      BY <3>1, EntriesOf
    <3>. QED
      BY <2>1, <3>1, <3>2 DEF Orderly, InLine
  <2>5. Once(d) /\ d.announced = c.announced
    BY DEF Sound, Passes
  <2>6. \/ Fate(d, queued, updates, live, i, told)
        \/ Leaving(d, queued, updates, live, i, told, d.announced)
    BY <1>0, <1>1, <2>1, <2>2, <2>4, <2>5, FatePasses
  <2>. QED
    BY <1>0, <2>1, <2>3, <2>6, FateTops
<1>. QED
  BY <1>1, <1>4, <1>5, <1>6, <1>7

(* The loop top of a session dropped before. *)
LEMMA TopOfOther ==
  ASSUME Traced, live # 0, NEW r \in Runs, r # live,
         NEW d, NEW x, NEW mid, Sound(d, last), Passes(driver[r], d), TopMakes(r, d, x, mid), IsSeq(mid)
  PROVE  /\ Mirrors(queued, updates', live, driver[live].announced)
         /\ driver[live].reported => Errs(updates', live)
         /\ \A i \in in_flight : Fate(driver[live], queued, updates', live, i, told')
<1>. DEFINE e == driver[live]
<1>0. Typed /\ LiveOK /\ last \in Nat /\ IsSeq(updates)
  BY Bounds DEF Traced, Typed, TypedUpdates
<1>1. PICK u : u = [type |-> "TurnStarted", run |-> r, prompt |-> d.waiting[1].prompt]
  OBVIOUS
<1>2. PICK v : v = [type |-> "QueueChanged", run |-> r, queued |-> x.announced]
  OBVIOUS
<1>3. /\ mid = updates \/ Continues(mid, updates, u)
      /\ updates' = mid \/ Continues(updates', mid, v)
      /\ u.run # live /\ v.run # live
  <2>1. Continues(Append(updates, u), updates, u) /\ Continues(Append(mid, v), mid, v)
    BY <1>0, AppendAny
  <2>2. mid = updates \/ mid = Append(updates, u)
    BY <1>1 DEF TopMakes
  <2>3. updates' = mid \/ updates' = Append(mid, v)
    BY <1>2 DEF TopMakes
  <2>. QED
    BY <1>1, <1>2, <2>1, <2>2, <2>3
<1>4. Mirrors(queued, updates', live, e.announced)
  <2>1. Mirrors(queued, mid, live, e.announced)
    BY <1>0, <1>3, MoreMirrors DEF LiveOK, Followed
  <2>. QED
    BY <1>3, <2>1, MoreMirrors
<1>5. (Errs(updates, live) => Errs(mid, live)) /\ (Errs(mid, live) => Errs(updates', live))
  BY <1>3, ErrsStay
<1>6. ASSUME NEW i \in in_flight
      PROVE  Fate(e, queued, updates', live, i, told')
  <2>1. Alone(i) /\ Fate(e, queued, updates, live, i, told)
    BY <1>0 DEF LiveOK, Tracked
  <2>2. AllApart(d, i) /\ ~InLine(d, i)
    BY <1>0, <2>1, TopKeepsApart DEF Alone
  <2>3. i \in told' => i \in told
    <3>1. d.waiting # <<>> => i \notin Content(d.waiting[1].prompt)
      <4>1. d.waiting # <<>> => 1 \in 1..Len(d.waiting)
        BY <1>0, LineShrinks
      <4>2. i # 0
        BY <1>0 DEF Typed, TypedRecords
      <4>. QED
        BY <2>2, <4>1, <4>2 DEF AllApart, InLine, Apart, Content
    <3>. QED
      BY <3>1 DEF TopMakes
  <2>4. Fails(e, updates, live) => Fails(e, mid, live)
    BY <1>5 DEF Fails
  <2>5. Fails(e, mid, live) => Fails(e, updates', live)
    BY <1>5 DEF Fails
  <2>6. Fate(e, queued, mid, live, i, told)
    BY <1>3, <2>1, <2>4, FateGoesOn
  <2>. QED
    BY <1>3, <2>3, <2>5, <2>6, FateGoesOn
<1>. QED
  BY <1>0, <1>4, <1>5, <1>6 DEF LiveOK, Followed

LEMMA ToppingLive ==
  ASSUME Traced, NEW r \in Runs, Topping(r)
  PROVE  LiveOK'
<1>0. Typed /\ LiveOK /\ last \in Nat /\ driver \in [Runs -> Drivers]
  BY Bounds DEF Traced, Typed, TypedSessions
<1>1. KeepsActor
  BY <1>0, ToppingTyped DEF ActorIdle, KeepsActor
<1>2. PICK d, x, mid : Sound(d, last) /\ Passes(driver[r], d) /\ TopMakes(r, d, x, mid) /\ IsSeq(mid)
  BY <1>0, ToppingTyped
<1>3. driver' = [driver EXCEPT ![r] = x]
  BY <1>2 DEF TopMakes
<1>4. \A i \in in_flight : /\ AllApart(driver[r], i) => AllApart(x, i)
                           /\ InBox(x, i) \/ InLine(x, i) => InBox(driver[r], i) \/ InLine(driver[r], i)
  BY <1>0, <1>2, TopKeepsApart
<1>5. live # 0 => /\ Mirrors(queued, updates', live, driver'[live].announced)
                  /\ driver'[live].reported => Errs(updates', live)
                  /\ \A i \in in_flight : Fate(driver'[live], queued, updates', live, i, told')
  <2>. SUFFICES ASSUME live # 0
                PROVE  /\ Mirrors(queued, updates', live, driver'[live].announced)
                       /\ driver'[live].reported => Errs(updates', live)
                       /\ \A i \in in_flight : Fate(driver'[live], queued, updates', live, i, told')
    OBVIOUS
  <2>1. CASE r = live
    <3>1. driver'[live] = x
      BY <1>0, <1>3, <2>1
    <3>. QED
      BY <1>2, <2>1, <3>1, TopOfLive
  <2>2. CASE r # live
    <3>1. driver'[live] = driver[live]
      BY <1>0, <1>3, <2>2
    <3>. QED
      BY <1>2, <2>2, <3>1, TopOfOther
  <2>. QED
    BY <2>1, <2>2
<1>. QED
  BY <1>1, <1>3, <1>4, <1>5, PutLive

(* Another step of the driver or the agent of r, and what it reports.      *)
LEMMA RestLive ==
  ASSUME Traced, NEW r \in Runs, AgentAnswers(r) \/ ChildExits(r) \/ SendGivesUp(r) \/ MonitorReports(r)
  PROVE  LiveOK'
<1>. DEFINE c == driver[r]
<1>0. Typed /\ LiveOK /\ c \in Drivers /\ driver \in [Runs -> Drivers] /\ IsSeq(updates)
  BY DEF Traced, Typed, TypedSessions, TypedUpdates
<1>1. ASSUME NEW e, driver' = [driver EXCEPT ![r] = e], SameQueues(c, e), e.reported => c.reported \/ Errs(updates', r),
             KeepsActor, UNCHANGED told,
             NEW u, u.type # "QueueChanged", updates' = updates \/ updates' = Append(updates, u),
             Fails(c, updates, r) => Fails(e, updates', r)
      PROVE  LiveOK'
  <2>1. updates' = updates \/ Continues(updates', updates, u)
    BY <1>0, <1>1, AppendAny
  <2>2. /\ \/ updates' = updates
           \/ Continues(updates', updates, u) /\ ~(u.type = "QueueChanged" /\ u.run = live)
        /\ \A i : i \in told' => i \in told
    BY <1>1, <2>1
  <2>3. \A i : /\ AllApart(c, i) <=> AllApart(e, i)
               /\ InBox(e, i) <=> InBox(c, i)
               /\ InLine(e, i) <=> InLine(c, i)
    BY <1>1 DEF SameQueues, AllApart, InBox, InLine
  <2>4. Errs(updates, live) => Errs(updates', live)
    BY <2>1, ErrsStay
  <2>5. ASSUME live # 0
        PROVE  /\ Mirrors(queued, updates', live, driver[live].announced)
               /\ driver'[live].announced = driver[live].announced
               /\ driver'[live].reported => Errs(updates', live)
    <3>1. Mirrors(queued, updates, live, driver[live].announced) /\ (driver[live].reported => Errs(updates, live))
      BY <1>0, <2>5 DEF LiveOK, Followed
    <3>2. Mirrors(queued, updates', live, driver[live].announced)
      BY <1>1, <2>1, <3>1, MoreMirrors
    <3>3. live \in Runs
      BY <1>0, <2>5, Bounds
    <3>4. CASE r = live
      BY <1>0, <1>1, <2>4, <3>1, <3>2, <3>3, <3>4 DEF SameQueues
    <3>5. CASE r # live
      BY <1>0, <1>1, <2>4, <3>1, <3>2, <3>3, <3>5
    <3>. QED
      BY <3>4, <3>5
  <2>6. ASSUME live # 0, NEW i \in in_flight
        PROVE  Fate(driver'[live], queued, updates', live, i, told')
    <3>1. Fate(driver[live], queued, updates, live, i, told) /\ live \in Runs
      BY <1>0, <2>6, Bounds DEF LiveOK, Tracked
    <3>2. CASE r = live
      <4>1. driver'[live] = e
        BY <1>0, <1>1, <3>1, <3>2
      <4>2. Fate(c, queued, updates, live, i, told) /\ (Fails(c, updates, live) => Fails(e, updates', live))
        BY <1>1, <3>1, <3>2
      <4>. HIDE DEF c
      <4>. QED
        BY <2>3, <2>2, <4>1, <4>2, FateGoesOn
    <3>3. CASE r # live
      <4>1. driver'[live] = driver[live]
        BY <1>0, <1>1, <3>1, <3>3
      <4>2. Fails(driver[live], updates, live) => Fails(driver[live], updates', live)
        BY <2>4 DEF Fails
      <4>. QED
        BY <2>2, <3>1, <4>1, <4>2, FateGoesOn
    <3>. QED
      BY <3>2, <3>3
  <2>. QED
    BY <1>1, <2>3, <2>5, <2>6, PutLive
<1>2. CASE AgentAnswers(r)
  <2>1. PICK e : e = [c EXCEPT !.turn = "over"]
    OBVIOUS
  <2>2. PICK u : u = [type |-> "TurnEnded", run |-> r]
    OBVIOUS
  <2>3. SameQueues(c, e) /\ e.exited = c.exited /\ e.reported = c.reported
    BY <1>0, <2>1 DEF SameQueues, Drivers
  <2>4. driver' = [driver EXCEPT ![r] = e] /\ KeepsActor /\ UNCHANGED told /\ c.turn = "running"
        /\ updates' = Append(updates, u)
    BY <1>2, <2>1, <2>2 DEF AgentAnswers, IsOn, ActorIdle, KeepsActor
  <2>5. Errs(updates, r) => Errs(updates', r)
    BY <1>0, <2>4, AppendAny, ErrsStay
  <2>6. u.type # "QueueChanged"
    BY <2>2
  <2>. QED
    BY <1>1, <2>3, <2>4, <2>5, <2>6 DEF Fails
<1>3. CASE ChildExits(r) \/ SendGivesUp(r)
  <2>1. PICK e : e = [c EXCEPT !.exited = TRUE]
    OBVIOUS
  <2>2. SameQueues(c, e) /\ e.exited /\ e.turn = c.turn /\ e.reported = c.reported
    BY <1>0, <2>1 DEF SameQueues, Drivers
  <2>3. driver' = [driver EXCEPT ![r] = e] /\ UNCHANGED <<told, updates>> /\ KeepsActor
    BY <1>3, <2>1 DEF ChildExits, SendGivesUp, IsOn, ActorIdle, KeepsActor
  <2>4. PICK u : u = [type |-> "TurnEnded", run |-> r]
    OBVIOUS
  <2>5. u.type # "QueueChanged"
    BY <2>4
  <2>. QED
    BY <1>1, <2>2, <2>3, <2>5 DEF Fails
<1>4. CASE MonitorReports(r)
  <2>1. PICK e : e = [c EXCEPT !.reported = TRUE]
    OBVIOUS
  <2>2. PICK u : u = [type |-> "Error", run |-> r]
    OBVIOUS
  <2>3. SameQueues(c, e) /\ e.exited = c.exited /\ e.turn = c.turn
    BY <1>0, <2>1 DEF SameQueues, Drivers
  <2>4. driver' = [driver EXCEPT ![r] = e] /\ KeepsActor /\ UNCHANGED told
        /\ updates' = Append(updates, u)
    BY <1>4, <2>1, <2>2 DEF MonitorReports, ActorIdle, KeepsActor
  <2>5. u.type = "Error" /\ u.run = r
    BY <2>2
  <2>6. Errs(updates', r)
    <3>1. Continues(updates', updates, u)
      BY <1>0, <2>4, AppendAny
    <3>2. updates' # updates
      BY <3>1 DEF Continues
    <3>. QED
      BY <2>5, <3>1, <3>2, ErrsStay
  <2>. QED
    BY <1>1, <2>3, <2>4, <2>5, <2>6 DEF Fails
<1>. QED
  BY <1>2, <1>3, <1>4

(* The driver of r stops, and all that waits in its queues is lost. *)
LEMMA StopLive ==
  ASSUME Traced, NEW r \in Runs, DriverStops(r)
  PROVE  LiveOK'
<1>. DEFINE c == driver[r]
<1>0. Typed /\ LiveOK /\ c \in Drivers /\ driver \in [Runs -> Drivers] /\ IsSeq(updates)
  BY DEF Traced, Typed, TypedSessions, TypedUpdates
<1>1. PICK e : e = [c EXCEPT !.pc = "off", !.inbox = <<>>, !.waiting = <<>>, !.turn = "none",
                             !.announced = <<>>]
  OBVIOUS
<1>2. PICK u : u = [type |-> "QueueChanged", run |-> r, queued |-> <<>>]
  OBVIOUS
<1>3. /\ e.inbox = <<>> /\ e.waiting = <<>> /\ e.announced = <<>> /\ e.turn = "none"
      /\ e.exited = c.exited /\ e.reported = c.reported
  BY <1>0, <1>1 DEF Drivers
<1>4. driver' = [driver EXCEPT ![r] = e]
  BY <1>1 DEF DriverStops
<1>5. c.exited /\ KeepsActor /\ UNCHANGED told
      /\ updates' = IF c.announced = <<>> THEN updates ELSE Append(updates, u)
  BY <1>2 DEF DriverStops, ActorIdle, KeepsActor
<1>6. u.type = "QueueChanged" /\ u.run = r /\ u.queued = <<>>
  BY <1>2
<1>7. updates' = updates \/ Continues(updates', updates, u)
  BY <1>0, <1>5, AppendAny
<1>8. Len(<<>>) = 0
  BY EmptySeq
<1>9. \A i : ~InBox(e, i) /\ ~InLine(e, i) /\ AllApart(e, i)
  BY <1>3, <1>8 DEF InBox, InLine, AllApart
<1>10. Errs(updates, live) => Errs(updates', live)
  BY <1>7, ErrsStay
<1>11. CASE r = live /\ live # 0
  <2>1. /\ Mirrors(queued, updates, live, c.announced) /\ (c.reported => Errs(updates, live))
        /\ driver'[live] = e
    BY <1>0, <1>4, <1>11 DEF LiveOK, Followed
  <2>2. Mirrors(queued, updates', live, <<>>)
    <3>1. CASE c.announced = <<>>
      BY <1>5, <2>1, <3>1
    <3>2. CASE c.announced # <<>>
      <4>1. Continues(updates', updates, u) /\ u.type = "QueueChanged" /\ u.run = live /\ u.queued = <<>>
        BY <1>0, <1>5, <1>6, <1>11, <3>2, AppendAny
      <4>2. Mirrors(queued, updates', live, u.queued)
        BY <4>1, MoreMirrors
      <4>. QED
        BY <4>1, <4>2
    <3>. QED
      BY <3>1, <3>2
  <2>3. Fails(e, updates', live)
    BY <1>3, <1>5, <1>10, <2>1 DEF Fails
  <2>4. ASSUME NEW i \in in_flight
        PROVE  Fate(e, queued, updates', live, i, told')
    <3>1. Fate(c, queued, updates, live, i, told)
      BY <1>0, <1>11 DEF LiveOK, Tracked
    <3>2. CASE Begins(c, queued, updates, live, i)
      <4>1. PICK k \in 1..Len(updates) : Begun(updates, live, i, k) /\ Stays(queued, updates, live, i, k)
        BY <3>2 DEF Begins
      <4>2. k \in 1..Len(updates') /\ Begun(updates', live, i, k) /\ Stays(queued, updates', live, i, k)
        <5>1. CASE updates' = updates
          BY <4>1, <5>1
        <5>2. CASE Continues(updates', updates, u)
          <6>1. k \in 1..Len(updates') /\ k \in 0..Len(updates) /\ updates'[k] = updates[k]
            BY <5>2 DEF Continues
          <6>2. Stays(queued, updates', live, i, k)
            BY <4>1, <5>2, <6>1, MoreStays
          <6>. QED
            BY <4>1, <6>1, <6>2 DEF Begun
        <5>. QED
          BY <1>7, <5>1, <5>2
      <4>. QED
        BY <1>9, <4>2 DEF Fate, Begins
    <3>3. CASE i \notin told
      BY <1>5, <1>9, <2>3, <3>3 DEF Fate, Lost
    <3>. QED
      BY <3>1, <3>2, <3>3 DEF Fate, Boxed, Lined, Lost
  <2>. QED
    BY <1>3, <1>4, <1>5, <1>9, <1>10, <2>1, <2>2, <2>4, PutLive
<1>12. CASE r # live \/ live = 0
  <2>1. ASSUME live # 0
        PROVE  /\ driver'[live] = driver[live]
               /\ Mirrors(queued, updates', live, driver[live].announced)
               /\ driver[live].reported => Errs(updates', live)
               /\ \A i \in in_flight : Fate(driver[live], queued, updates', live, i, told')
    <3>1. Mirrors(queued, updates, live, driver[live].announced) /\ (driver[live].reported => Errs(updates, live))
      BY <1>0, <2>1 DEF LiveOK, Followed
    <3>2. driver'[live] = driver[live] /\ u.run # live
      BY <1>0, <1>4, <1>6, <1>12, <2>1, Bounds
    <3>3. Mirrors(queued, updates', live, driver[live].announced)
      BY <1>7, <3>1, <3>2, MoreMirrors
    <3>4. Fails(driver[live], updates, live) => Fails(driver[live], updates', live)
      BY <1>10 DEF Fails
    <3>5. ASSUME NEW i \in in_flight
          PROVE  Fate(driver[live], queued, updates', live, i, told')
      <4>1. Fate(driver[live], queued, updates, live, i, told)
        BY <1>0 DEF LiveOK, Tracked
      <4>. QED
        BY <1>5, <1>7, <3>2, <3>4, <4>1, FateGoesOn
    <3>. QED
      BY <1>10, <3>1, <3>2, <3>3, <3>5
  <2>. QED
    BY <1>4, <1>5, <1>9, <2>1, PutLive
<1>. QED
  BY <1>11, <1>12

LEMMA TracedInit ==
  ASSUME Init
  PROVE  Traced
<1>1. IInv /\ Typed
  BY AgreeInit, InitTyped
<1>2. live = 0 /\ in_flight = {}
  BY DEF Init
<1>. QED
  BY <1>1, <1>2 DEF Traced, LiveOK, Followed, Tracked

LEMMA TracedStep ==
  ASSUME Traced, [Next]_vars
  PROVE  Traced'
<1>1. IInv' /\ Typed'
  BY AgreeStep, TypedStep DEF Traced
<1>2. LiveOK'
  <2>1. CASE Actor \/ HearsUpdate
    BY <2>1, ActorLive, HearLive
  <2>2. CASE Restart
    BY <2>2, DroppedLive DEF Restart
  <2>3. ASSUME NEW r \in Runs, Driver(r) \/ AgentAnswers(r) \/ ChildExits(r)
        PROVE  LiveOK'
    BY <2>3, ToppingLive, RestLive, StopLive DEF Driver, Topping
  <2>4. CASE UNCHANGED vars
    BY <2>4, SameLive DEF Traced, vars, records, task, sessions
  <2>. QED
    BY <2>1, <2>2, <2>3, <2>4 DEF Next
<1>. QED
  BY <1>1, <1>2 DEF Traced

(* Whatever a message's fate is, NothingInLimbo names where to see it.     *)
LEMMA TracedLimbo ==
  ASSUME Traced
  PROVE  NothingInLimbo
<1>. SUFFICES ASSUME NEW i \in in_flight
              PROVE  /\ live # 0
                     /\ \/ Waits(i) \/ LeavesList(i) \/ SessionFails
                        \/ \E k \in Under("TurnStarted") : updates[k].prompt.direct = i
  BY DEF NothingInLimbo
<1>. DEFINE d == driver[live]
<1>1. live # 0 /\ live \in Runs /\ Fate(d, queued, updates, live, i, told)
  BY Bounds DEF Traced, LiveOK, Tracked
<1>2. Typed /\ Orderly(d) /\ d \in Drivers /\ IsSeq(updates)
  BY <1>1 DEF Traced, Typed, TypedSessions, TypedUpdates
<1>3. DOMAIN updates = 1..Len(updates) /\ Len(updates) \in Nat
  BY <1>2, LenProperties DEF IsSeq
<1>4. DOMAIN d.inbox = 1..Len(d.inbox) /\ DOMAIN d.waiting = 1..Len(d.waiting)
  BY <1>2, LenProperties DEF Drivers
<1>5. InBox(d, i) \/ InLine(d, i) => Listens(live)
  <2>1. Len(<<>>) = 0 /\ Unborn.inbox = <<>> /\ Unborn.waiting = <<>>
    BY EmptySeq DEF Unborn
  <2>2. d.pc \in {"none", "starting", "on", "off"}
    BY <1>2 DEF Drivers
  <2>. QED
    BY <1>1, <1>2, <2>1, <2>2 DEF Orderly, InBox, InLine, Listens
<1>6. CASE Boxed(d, queued, updates, live, i, told) \/ Lined(d, queued, updates, live, i, told)
  <2>1. Waits(i)
    BY <1>4, <1>5, <1>6 DEF Boxed, Lined, Waits, InBox, InLine
  <2>. QED
    BY <1>1, <2>1
<1>7. CASE Begins(d, queued, updates, live, i)
  BY <1>1, <1>3, <1>7 DEF Begins, Begun, Under
<1>8. ASSUME NEW k \in 1..Len(updates), Drops(queued, updates, live, i, k)
      PROVE  LeavesList(i)
  BY <1>3, <1>8 DEF Drops, Shows, IsList, LeavesList, Under
<1>9. Fails(d, updates, live) => SessionFails
  BY <1>3 DEF Fails, Errs, SessionFails, Under
<1>. QED
  BY <1>1, <1>6, <1>7, <1>8, <1>9 DEF Fate, Lost

(* While a message is in flight, in whatever order the updates come and    *)
(* however sessions fail, it waits in the live session or an update under  *)
(* way settles it: none is forgotten.                                      *)
THEOREM NoneInLimbo == Spec => []NothingInLimbo
<1>1. Init => Traced
  BY TracedInit
<1>2. Traced /\ [Next]_vars => Traced'
  BY TracedStep
<1>3. Traced => NothingInLimbo
  BY TracedLimbo
<1>. QED
  BY <1>1, <1>2, <1>3, PTL DEF Spec

-----------------------------------------------------------------------------
(* Verdicts *)

(* The actor takes message i off, at the user's word. *)
TakesOff(i) ==
  LET u == Head(updates)
      gone == DirectsOf(queued) \ DirectsOf(u.queued)
  IN /\ updates # <<>> /\ u.type = "QueueChanged" /\ ~IsStale(u.run) /\ i \in gone \cap in_flight

Settled == {"delivered", "removed", "refused"}
Resolves(i) ==
  /\ status[i] \in Settled => status'[i] = status[i]
  /\ status[i] # "removed" /\ status'[i] = "removed" => TakesOff(i)

LEMMA DropResolves ==
  ASSUME Typed, IInv, drop_session, NEW i \in Ids
  PROVE  Resolves(i)
<1>1. i \in in_flight => status[i] = "queued"
  BY DEF IInv, RecordsAgree
<1>2. status'[i] = IF i \in in_flight THEN "held" ELSE status[i]
  BY DEF drop_session
<1>. QED
  BY <1>1, <1>2 DEF Resolves, Settled

LEMMA SettledStays ==
  ASSUME Typed, IInv, [Next]_vars, NEW i \in Ids
  PROVE  Resolves(i) /\ (status' = status \/ told' = told)
<1>. USE DEF Settled
<1>1. /\ status \in [Ids -> Statuses] /\ last \in Nat /\ (i > last => status[i] = "none")
      /\ status[i] = "queued" <=> i \in in_flight
      /\ status[i] = "held" <=> i \in held
  BY Bounds DEF Typed, TypedRecords, IInv, RecordsAgree
<1>2. ASSUME status' = status
      PROVE  Resolves(i)
  BY <1>2 DEF Resolves
<1>3. ASSUME NEW s \in {"posted", "held", "queued"}, NewRecord(s)
      PROVE  Resolves(i)
  <2>1. status'[i] = IF i = last + 1 THEN s ELSE status[i]
    BY <1>1, <1>3 DEF NewRecord
  <2>. QED
    BY <1>1, <2>1 DEF Resolves
<1>4. CASE Actor
  <2>1. told' = told
    BY <1>4 DEF Actor, UserPrompt, ResumeReplayReady, CancelTask, SlotLapses, peers_post, DirectHeld,
                DirectQueued, DirectFindsStale, peers_removing, sessions
  <2>2. CASE UserPrompt \/ CancelTask
    BY <1>2, <2>1, <2>2, DropResolves DEF UserPrompt, CancelTask, records
  <2>3. CASE ResumeReplayReady \/ SlotLapses \/ \E j \in DOMAIN queued : peers_removing(j)
    BY <1>2, <2>1, <2>3 DEF ResumeReplayReady, SlotLapses, peers_removing, records
  <2>4. CASE peers_post \/ DirectHeld \/ DirectQueued
    BY <1>3, <2>1, <2>4 DEF peers_post, DirectHeld, DirectQueued
  <2>5. CASE DirectFindsStale
    <3>1. status'[i] = IF i \in in_flight \cup {last + 1} THEN "held" ELSE status[i]
      BY <2>5 DEF DirectFindsStale
    <3>. QED
      BY <1>1, <2>1, <3>1 DEF Resolves
  <2>. QED
    BY <1>4, <2>2, <2>3, <2>4, <2>5 DEF Actor
<1>5. CASE HearsUpdate
  <2>1. told' = told
    BY <1>5 DEF HearsUpdate, HearTurnStarted, HearQueueChanged, HearTurnEnded, HearError, sessions
  <2>2. CASE Ignored \/ HearTurnEnded
    BY <1>2, <2>1, <2>2 DEF Ignored, HearTurnEnded, records
  <2>3. ASSUME NEW p, peers_turn_started(p)
        PROVE  Resolves(i)
    <3>1. status'[i] = IF i \in ({p.direct} \cap in_flight) \cup (p.held \cap held)
                       THEN "delivered" ELSE status[i]
      BY <2>3 DEF peers_turn_started
    <3>. QED
      BY <1>1, <3>1 DEF Resolves
  <2>4. CASE /\ Hears("QueueChanged") /\ ~IsStale(Head(updates).run)
             /\ peers_queue_changed(DirectsOf(queued) \ DirectsOf(Head(updates).queued))
    <3>. DEFINE gone == DirectsOf(queued) \ DirectsOf(Head(updates).queued)
    <3>1. status'[i] = IF i \notin gone \cap in_flight THEN status[i]
                       ELSE IF i \in removing THEN "removed" ELSE "held"
      BY <2>4 DEF peers_queue_changed
    <3>2. i \in gone \cap in_flight => TakesOff(i)
      BY <2>4 DEF Hears, TakesOff
    <3>. HIDE DEF gone
    <3>. QED
      BY <1>1, <2>1, <3>1, <3>2 DEF Resolves
  <2>5. CASE drop_session
    BY <2>1, <2>5, DropResolves
  <2>. QED
    BY <1>5, <2>1, <2>2, <2>3, <2>4, <2>5 DEF HearsUpdate, HearTurnStarted, HearQueueChanged, HearError
<1>6. CASE Restart
  <2>1. status'[i] = (IF status[i] = "queued" THEN "refused" ELSE status[i]) /\ told' = told
    BY <1>6 DEF Restart
  <2>. QED
    BY <2>1 DEF Resolves
<1>7. ASSUME NEW r \in Runs, Driver(r) \/ AgentAnswers(r) \/ ChildExits(r)
      PROVE  status' = status
  BY <1>7 DEF Driver, Handshake, TakesPrompt, RemovesQueued, FreesSlot, SendGivesUp, MonitorReports,
              DriverStops, AgentAnswers, ChildExits, IsOn, ActorIdle, records
<1>8. CASE UNCHANGED vars
  BY <1>2, <1>8 DEF vars, records
<1>. QED
  BY <1>2, <1>4, <1>5, <1>6, <1>7, <1>8 DEF Next

(* What is taken off was never sent: its turn's start would be heard first. *)
LEMMA TakenOffUnsent ==
  ASSUME Traced, NEW i, TakesOff(i)
  PROVE  i \notin told
<1>. DEFINE d == driver[live]
            u == Head(updates)
<1>1. /\ updates # <<>> /\ u.type = "QueueChanged" /\ ~IsStale(u.run) /\ i \in in_flight
      /\ i \in DirectsOf(queued) /\ i \notin DirectsOf(u.queued)
  BY DEF TakesOff
<1>2. Typed /\ LiveOK /\ IsSeq(updates)
  BY DEF Traced, Typed, TypedUpdates
<1>3. live # 0 /\ Fate(d, queued, updates, live, i, told)
  BY <1>1, <1>2 DEF LiveOK, Tracked
<1>4. u.run = live
  BY <1>1, <1>3 DEF IsStale
<1>5. u = updates[1] /\ Len(updates) \in Nat \ {0}
  BY <1>1, <1>2, TailAny
<1>6. Drops(queued, updates, live, i, 1)
  BY <1>1, <1>4, <1>5 DEF Drops, IsList
<1>7. ~Stays(queued, updates, live, i, Len(updates)) /\ \A k \in 1..Len(updates) : ~Stays(queued, updates, live, i, k)
  <2>1. \A k \in 1..Len(updates) : 1 \in 1..k
    BY <1>5
  <2>2. Len(updates) \in 1..Len(updates)
    BY <1>5
  <2>. QED
    BY <1>6, <2>1, <2>2 DEF Stays
<1>. QED
  BY <1>1, <1>3, <1>7 DEF Fate, Boxed, Lined, Begins, Lost, Listed

LEMMA VerdictStep ==
  ASSUME Traced, [Next]_vars, NEW i \in Ids
  PROVE  /\ status[i] \in Settled => status'[i] = status[i]
         /\ status'[i] = "delivered" => i \in told
         /\ status[i] # "removed" /\ status'[i] = "removed" => i \notin told
<1>1. Resolves(i) /\ (status' = status \/ told' = told)
  BY SettledStays DEF Traced
<1>2. status[i] = "delivered" => i \in told
  BY DEF Traced, Typed, TypedUpdates
<1>3. status'[i] = "delivered" => i \in told'
  BY TypedStep DEF Traced, Typed, TypedUpdates
<1>. QED
  BY <1>1, <1>2, <1>3, TakenOffUnsent DEF Resolves

(* What the feed says of a message is true, and what it has settled stays: *)
(* delivered only when the agent was sent it, removed only when not.       *)
THEOREM VerdictsAreFinal == Spec => VerdictsHold
<1>. DEFINE Verdicts == \A i \in Ids :
              /\ status[i] \in {"delivered", "removed", "refused"} => status'[i] = status[i]
              /\ status'[i] = "delivered" => i \in told
              /\ status[i] # "removed" /\ status'[i] = "removed" => i \notin told
<1>1. Init => Traced
  BY TracedInit
<1>2. Traced /\ [Next]_vars => Traced'
  BY TracedStep
<1>3. Traced /\ [Next]_vars => [Verdicts]_vars
  BY VerdictStep DEF Settled
<1>. QED
  BY <1>1, <1>2, <1>3, PTL DEF Spec, VerdictsHold
=============================================================================
