------------------------- MODULE ServiceStartProofs -------------------------
(***************************************************************************)
(* Proofs about ServiceStart, for any services, any declarations (cycles   *)
(* included), and any commands, edits, refusals, timeouts and exits.       *)
(*                                                                         *)
(* A handler is an operator on the state st of that handler.  The lemmas   *)
(* say what each of them keeps (Good), and that nobody is left waiting     *)
(* wrongly (Calm); the actions follow.  A handler that goes through        *)
(* several services is a fold: what its step hands on holds at its end,    *)
(* by the smallest set of services where it would not (Climbs).            *)
(***************************************************************************)
EXTENDS ServiceStart, FiniteSetTheorems, WellFoundedInduction, SequenceTheorems, TLAPS

-----------------------------------------------------------------------------
(* Folds over finite sets.                                                 *)

(* A non-empty set of finite sets has a smallest one: the induction over   *)
(* finite sets that every other induction here rests on.                   *)
LEMMA Smallest ==
  ASSUME NEW U, NEW T, T \subseteq FiniteSubsetsOf(U), T # {}
  PROVE  \E x \in T : \A y \in T : y \subseteq x => y = x
<1>1. PICK x \in T : \A y \in T : <<y, x>> \notin StrictSubsetOrdering(U)
  BY FS_StrictSubsetOrderingWellFounded, WFMin
<1>2. ASSUME NEW y \in T, y \subseteq x, y # x
      PROVE  FALSE
  <2>1. y \in SUBSET U /\ x \in SUBSET U
    BY DEF FiniteSubsetsOf
  <2>. QED
    BY <1>1, <1>2, <2>1 DEF StrictSubsetOrdering
<1>. QED
  BY <1>1, <1>2

(* A non-empty set of numbers has a smallest one. *)
LEMMA Least ==
  ASSUME NEW T, T \subseteq Nat, T # {}
  PROVE  \E n \in T : \A k \in T : n <= k
<1>1. PICK U : U = {0..n : n \in T}
  OBVIOUS
<1>2. U \subseteq FiniteSubsetsOf(Nat) /\ U # {}
  <2>1. ASSUME NEW n \in Nat
        PROVE  0..n \in SUBSET Nat /\ IsFiniteSet(0..n)
    BY FS_Interval
  <2>. QED
    BY <1>1, <2>1 DEF FiniteSubsetsOf
<1>3. PICK x \in U : \A y \in U : y \subseteq x => y = x
  BY <1>2, Smallest
<1>4. PICK n \in T : x = 0..n
  BY <1>1, <1>3
<1>5. ASSUME NEW k \in T, k < n
      PROVE  FALSE
  <2>1. 0..k \subseteq 0..n /\ 0..k \in U /\ n \in 0..n /\ n \notin 0..k
    BY <1>1, <1>5
  <2>. QED
    BY <1>3, <1>4, <2>1
<1>. QED
  BY <1>4, <1>5

(* The Max of the community modules is the largest of a finite set. *)
LEMMA MaxIs ==
  ASSUME NEW S, S \subseteq Nat, IsFiniteSet(S), S # {}
  PROVE  Max(S) \in S /\ \A y \in S : Max(S) >= y
<1>1. ASSUME ~ \E x \in S : \A y \in S : x >= y
      PROVE  FALSE
  <2>1. PICK T : T = {R \in FiniteSubsetsOf(Nat) :
                       R # {} /\ ~ \E x \in R : \A y \in R : x >= y}
    OBVIOUS
  <2>2. T \subseteq FiniteSubsetsOf(Nat) /\ T # {}
    BY <1>1, <2>1 DEF FiniteSubsetsOf
  <2>3. PICK R \in T : \A y \in T : y \subseteq R => y = R
    BY <2>2, Smallest
  <2>4. PICK a \in R : a \in Nat
    BY <2>1, <2>3 DEF FiniteSubsetsOf
  <2>5. R \ {a} \in FiniteSubsetsOf(Nat) /\ R \ {a} # R /\ R \ {a} \subseteq R
    BY <2>1, <2>4, FS_RemoveElement DEF FiniteSubsetsOf
  <2>6. R \ {a} \notin T
    BY <2>3, <2>5
  <2>7. CASE R \ {a} = {}
    BY <2>1, <2>3, <2>4, <2>7
  <2>8. CASE R \ {a} # {}
    <3>1. PICK b \in R \ {a} : \A y \in R \ {a} : b >= y
      BY <2>1, <2>5, <2>6, <2>8
    <3>2. R \subseteq Nat
      BY <2>1 DEF FiniteSubsetsOf
    <3>3. (a >= b => \A y \in R : a >= y) /\ (~(a >= b) => \A y \in R : b >= y)
      BY <3>1, <3>2, <2>4
    <3>. QED
      BY <2>1, <2>3, <3>1, <3>3
  <2>. QED
    BY <2>7, <2>8
<1>. QED
  BY <1>1 DEF Max

(* ch picks an element of each set on the way from S to nothing. *)
Chooses(ch, S) == \A T \in SUBSET S : T # {} => ch[T] \in T

(* What holds at the bottom and is handed on from a set without its chosen *)
(* element to the set holds at the top.                                    *)
LEMMA Climbs ==
  ASSUME NEW S, IsFiniteSet(S), NEW ch, NEW it, NEW Good,
         Chooses(ch, S),
         it[{}] \in Good[{}],
         \A T \in SUBSET S : T # {} =>
           (it[T \ {ch[T]}] \in Good[T \ {ch[T]}] => it[T] \in Good[T])
  PROVE  \A T \in SUBSET S : it[T] \in Good[T]
<1>1. SUFFICES ASSUME NEW T0 \in SUBSET S, it[T0] \notin Good[T0]
               PROVE  FALSE
  OBVIOUS
<1>2. PICK B : B = {T \in SUBSET S : it[T] \notin Good[T]}
  OBVIOUS
<1>3. B \subseteq FiniteSubsetsOf(S) /\ B # {}
  <2>1. ASSUME NEW T \in SUBSET S
        PROVE  IsFiniteSet(T)
    BY FS_Subset
  <2>. QED
    BY <1>1, <1>2, <2>1 DEF FiniteSubsetsOf
<1>4. PICK T \in B : \A y \in B : y \subseteq T => y = T
  BY <1>3, Smallest
<1>5. T # {} /\ T \in SUBSET S /\ ch[T] \in T
  BY <1>2, <1>4 DEF Chooses
<1>6. T \ {ch[T]} \in SUBSET S /\ T \ {ch[T]} \notin B
  BY <1>4, <1>5
<1>. QED
  BY <1>2, <1>4, <1>5, <1>6

(* it is the fold of F over the subsets of S. *)
FoldsTo(it, S, ch, st, F) ==
  \A T \in SUBSET S : it[T] = IF T = {} THEN st ELSE F[<<it[T \ {ch[T]}], ch[T]>>]

(* A fold over the subsets of a finite set, whichever element it takes.    *)
LEMMA FoldExists ==
  ASSUME NEW S, IsFiniteSet(S), NEW ch, NEW H, NEW st, NEW F,
         st \in H, F \in [H \X S -> H], Chooses(ch, S)
  PROVE  \E it \in [SUBSET S -> H] : FoldsTo(it, S, ch, st, F)
<1>. DEFINE Upto(it, n) == \A T \in SUBSET S : Cardinality(T) <= n =>
              it[T] = IF T = {} THEN st ELSE F[<<it[T \ {ch[T]}], ch[T]>>]
            Bad == {n \in Nat : ~ \E it \in [SUBSET S -> H] : Upto(it, n)}
<1>1. ASSUME NEW T \in SUBSET S
      PROVE  /\ Cardinality(T) \in Nat /\ Cardinality(T) <= Cardinality(S)
             /\ (Cardinality(T) = 0 <=> T = {})
             /\ T # {} => /\ T \ {ch[T]} \in SUBSET S /\ ch[T] \in S
                          /\ Cardinality(T \ {ch[T]}) = Cardinality(T) - 1
  BY FS_Subset, FS_EmptySet, FS_RemoveElement, FS_CardinalityType DEF Chooses
<1>2. Bad = {}
  <2>1. SUFFICES ASSUME Bad # {}
                 PROVE  FALSE
    OBVIOUS
  <2>2. Bad \subseteq Nat
    OBVIOUS
  <2>3. PICK n \in Bad : \A k \in Bad : n <= k
    BY <2>1, <2>2, Least
  <2>4. n \in Nat
    BY <2>2, <2>3
  <2>5. n # 0
    <3>1. SUFFICES ASSUME n = 0
                   PROVE  FALSE
      OBVIOUS
    <3>2. PICK it \in [SUBSET S -> H] : it = [T \in SUBSET S |-> st]
      OBVIOUS
    <3>3. ASSUME NEW T \in SUBSET S, Cardinality(T) <= 0
          PROVE  T = {} /\ it[T] = st
      <4>1. Cardinality(T) = 0
        <5>1. Cardinality(T) \in Nat
          BY <1>1
        <5>. QED
          BY <3>3, <5>1
      <4>. QED
        BY <1>1, <3>2, <4>1
    <3>4. Upto(it, 0)
      BY <3>3
    <3>. QED
      BY <2>3, <3>1, <3>4
  <2>6. n - 1 \in Nat /\ n - 1 \notin Bad
    <3>1. n - 1 \in Nat /\ ~(n <= n - 1)
      BY <2>4, <2>5
    <3>. HIDE DEF Bad
    <3>. QED
      BY <2>3, <3>1
  <2>7. PICK it \in [SUBSET S -> H] : Upto(it, n - 1)
    BY <2>6
  <2>8. PICK new : new = [T \in SUBSET S |->
                            IF T = {} THEN st ELSE F[<<it[T \ {ch[T]}], ch[T]>>]]
    OBVIOUS
  <2>9. new \in [SUBSET S -> H]
    <3>1. ASSUME NEW T \in SUBSET S, T # {}
          PROVE  F[<<it[T \ {ch[T]}], ch[T]>>] \in H
      <4>1. it[T \ {ch[T]}] \in H /\ ch[T] \in S
        BY <1>1, <3>1
      <4>. QED
        BY <4>1
    <3>. QED
      BY <2>8, <3>1
  <2>10. Upto(new, n)
    <3>1. SUFFICES ASSUME NEW T \in SUBSET S, Cardinality(T) <= n
                   PROVE  new[T] = IF T = {} THEN st ELSE F[<<new[T \ {ch[T]}], ch[T]>>]
      OBVIOUS
    <3>2. CASE T = {}
      BY <2>8, <3>2
    <3>3. CASE T # {}
      <4>1. PICK R : R = T \ {ch[T]}
        OBVIOUS
      <4>2. R \in SUBSET S /\ Cardinality(R) <= n - 1
        <5>1. R \in SUBSET S /\ Cardinality(R) = Cardinality(T) - 1 /\ Cardinality(T) \in Nat
          BY <1>1, <3>3, <4>1
        <5>. QED
          BY <2>4, <3>1, <5>1
      <4>3. it[R] = IF R = {} THEN st ELSE F[<<it[R \ {ch[R]}], ch[R]>>]
        BY <2>7, <4>2
      <4>4. new[R] = it[R]
        BY <2>8, <4>2, <4>3
      <4>. QED
        BY <2>8, <3>3, <4>1, <4>4
    <3>. QED
      BY <3>2, <3>3
  <2>. QED
    BY <2>3, <2>9, <2>10
<1>3. Cardinality(S) \in Nat /\ Cardinality(S) \notin Bad
  BY <1>1, <1>2
<1>4. PICK it \in [SUBSET S -> H] : Upto(it, Cardinality(S))
  BY <1>3
<1>. QED
  BY <1>1, <1>4 DEF FoldsTo

(* F hands Good on along the way. *)
Takes(F, S, ch, Good) ==
  \A T \in SUBSET S : T # {} =>
    \A a \in Good[T \ {ch[T]}] : F[<<a, ch[T]>>] \in Good[T]
(* it is that fold, and Good holds of it everywhere. *)
Keeps(it, S, ch, st, F, Good) ==
  /\ it = [T \in SUBSET S |-> it[T]]
  /\ FoldsTo(it, S, ch, st, F)
  /\ \A T \in SUBSET S : it[T] \in Good[T]

(* The same, when the step F only keeps to Good where it is taken. *)
LEMMA FoldKeeps ==
  ASSUME NEW S, IsFiniteSet(S), NEW ch, Chooses(ch, S), NEW st, NEW Good, NEW F,
         st \in Good[{}], Takes(F, S, ch, Good)
  PROVE  \E it : Keeps(it, S, ch, st, F, Good)
<1>. DEFINE H == UNION {Good[T] : T \in SUBSET S}
<1>1. st \in H
  OBVIOUS
<1>2. PICK G : G = [p \in H \X S |-> IF F[p] \in H THEN F[p] ELSE st]
  OBVIOUS
<1>3. G \in [H \X S -> H]
  BY <1>1, <1>2
<1>4. PICK it \in [SUBSET S -> H] : FoldsTo(it, S, ch, st, G)
  BY <1>1, <1>3, FoldExists
<1>5. ASSUME NEW T \in SUBSET S, T # {}, it[T \ {ch[T]}] \in Good[T \ {ch[T]}]
      PROVE  it[T] \in Good[T] /\ it[T] = F[<<it[T \ {ch[T]}], ch[T]>>]
  <2>1. T \ {ch[T]} \in SUBSET S /\ ch[T] \in S
    BY <1>5 DEF Chooses
  <2>2. PICK a \in H : a = it[T \ {ch[T]}]
    BY <1>4, <2>1
  <2>3. F[<<a, ch[T]>>] \in Good[T]
    BY <1>5, <2>2 DEF Takes
  <2>4. F[<<a, ch[T]>>] \in H
    BY <2>3
  <2>5. G[<<a, ch[T]>>] = F[<<a, ch[T]>>]
    BY <1>2, <2>1, <2>4
  <2>. QED
    BY <1>4, <1>5, <2>2, <2>3, <2>5 DEF FoldsTo
<1>6. it[{}] \in Good[{}]
  BY <1>4 DEF FoldsTo
<1>7. \A T \in SUBSET S : it[T] \in Good[T]
  BY <1>5, <1>6, Climbs
<1>8. ASSUME NEW T \in SUBSET S, T # {}
      PROVE  it[T] = F[<<it[T \ {ch[T]}], ch[T]>>]
  <2>1. T \ {ch[T]} \in SUBSET S
    OBVIOUS
  <2>. QED
    BY <1>5, <1>7, <1>8, <2>1
<1>9. FoldsTo(it, S, ch, st, F)
  BY <1>4, <1>8 DEF FoldsTo
<1>. QED
  BY <1>4, <1>7, <1>9 DEF Keeps

(* What stop_key hands on from one set of services to the next, StopAll    *)
(* has at the end: StopProject's loop.                                     *)
LEMMA StopAllKeeps ==
  ASSUME NEW st, NEW S, IsFiniteSet(S), NEW Good, st \in Good[{}],
         \A T \in SUBSET S : \A s \in T : \A a \in Good[T \ {s}] : stop_key(a, s) \in Good[T]
  PROVE  StopAll(st, S) \in Good[S]
<1>. DEFINE Makes(it) ==
         it = [T \in SUBSET S |->
                 IF T = {} THEN st
                 ELSE stop_key(it[T \ {(CHOOSE x \in T : TRUE)}], (CHOOSE x \in T : TRUE))]
<1>1. PICK ch : ch = [T \in SUBSET S |-> (CHOOSE x \in T : TRUE)]
  OBVIOUS
<1>2. Chooses(ch, S)
  BY <1>1 DEF Chooses
<1>3. ASSUME NEW it, Makes(it)
      PROVE  it[S] \in Good[S]
  <2>1. it[{}] = st
    BY <1>3
  <2>2. ASSUME NEW T \in SUBSET S, T # {}, it[T \ {ch[T]}] \in Good[T \ {ch[T]}]
        PROVE  it[T] \in Good[T]
    <3>1. it[T] = stop_key(it[T \ {ch[T]}], ch[T])
      BY <1>1, <1>3, <2>2
    <3>2. ch[T] \in T
      BY <1>2, <2>2 DEF Chooses
    <3>. QED
      BY <2>2, <3>1, <3>2
  <2>3. \A T \in SUBSET S : it[T] \in Good[T]
    <3>. HIDE DEF Makes
    <3>. QED
      BY <1>2, <2>1, <2>2, Climbs
  <2>. QED
    BY <2>3
<1>4. \E it : Makes(it)
  <2>1. PICK H : H = UNION {Good[T] : T \in SUBSET S}
    OBVIOUS
  <2>2. PICK F : F = [p \in H \X S |-> stop_key(p[1], p[2])]
    OBVIOUS
  <2>3. ASSUME NEW T \in SUBSET S, T # {}, NEW a \in Good[T \ {ch[T]}]
        PROVE  F[<<a, ch[T]>>] \in Good[T] /\ F[<<a, ch[T]>>] = stop_key(a, ch[T])
    <3>1. ch[T] \in T /\ ch[T] \in S /\ T \ {ch[T]} \in SUBSET S
      BY <1>2, <2>3 DEF Chooses
    <3>2. a \in H
      BY <2>1, <3>1
    <3>3. F[<<a, ch[T]>>] = stop_key(a, ch[T])
      BY <2>2, <3>1, <3>2
    <3>. QED
      BY <3>1, <3>3
  <2>. HIDE DEF Makes
  <2>4. PICK it : Keeps(it, S, ch, st, F, Good)
    <3>1. Takes(F, S, ch, Good)
      BY <2>3 DEF Takes
    <3>. QED
      BY <1>2, <3>1, FoldKeeps
  <2>. USE DEF Makes
  <2>5. ASSUME NEW T \in SUBSET S
        PROVE  it[T] = IF T = {} THEN st
                       ELSE stop_key(it[T \ {(CHOOSE x \in T : TRUE)}], (CHOOSE x \in T : TRUE))
    <3>1. ch[T] = (CHOOSE x \in T : TRUE)
      BY <1>1
    <3>2. T # {} => it[T \ {ch[T]}] \in Good[T \ {ch[T]}]
      BY <2>4 DEF Keeps
    <3>3. T # {} => F[<<it[T \ {ch[T]}], ch[T]>>] = stop_key(it[T \ {ch[T]}], ch[T])
      BY <2>3, <3>2
    <3>4. it[T] = IF T = {} THEN st ELSE F[<<it[T \ {ch[T]}], ch[T]>>]
      BY <2>4 DEF FoldsTo, Keeps
    <3>. QED
      BY <3>1, <3>3, <3>4
  <2>. QED
    BY <2>4, <2>5 DEF Keeps
<1>5. Makes(CHOOSE it : Makes(it))
  BY <1>4, Zenon
<1>6. StopAll(st, S) = (CHOOSE it : Makes(it))[S]
  BY DEF StopAll, FoldSet, MapThenFoldSet
<1>. HIDE DEF Makes
<1>. QED
  BY <1>3, <1>5, <1>6

(* The same of remove_service and RemoveAll: the services a changed file   *)
(* has dropped.                                                            *)
LEMMA RemoveAllKeeps ==
  ASSUME NEW st, NEW S, IsFiniteSet(S), NEW Good, st \in Good[{}],
         \A T \in SUBSET S : \A s \in T : \A a \in Good[T \ {s}] :
           remove_service(a, s) \in Good[T]
  PROVE  RemoveAll(st, S) \in Good[S]
<1>. DEFINE Makes(it) ==
         it = [T \in SUBSET S |->
                 IF T = {} THEN st
                 ELSE remove_service(it[T \ {(CHOOSE x \in T : TRUE)}], (CHOOSE x \in T : TRUE))]
<1>1. PICK ch : ch = [T \in SUBSET S |-> (CHOOSE x \in T : TRUE)]
  OBVIOUS
<1>2. Chooses(ch, S)
  BY <1>1 DEF Chooses
<1>3. ASSUME NEW it, Makes(it)
      PROVE  it[S] \in Good[S]
  <2>1. it[{}] = st
    BY <1>3
  <2>2. ASSUME NEW T \in SUBSET S, T # {}, it[T \ {ch[T]}] \in Good[T \ {ch[T]}]
        PROVE  it[T] \in Good[T]
    <3>1. it[T] = remove_service(it[T \ {ch[T]}], ch[T])
      BY <1>1, <1>3, <2>2
    <3>2. ch[T] \in T
      BY <1>2, <2>2 DEF Chooses
    <3>. QED
      BY <2>2, <3>1, <3>2
  <2>3. \A T \in SUBSET S : it[T] \in Good[T]
    <3>. HIDE DEF Makes
    <3>. QED
      BY <1>2, <2>1, <2>2, Climbs
  <2>. QED
    BY <2>3
<1>4. \E it : Makes(it)
  <2>1. PICK H : H = UNION {Good[T] : T \in SUBSET S}
    OBVIOUS
  <2>2. PICK F : F = [p \in H \X S |-> remove_service(p[1], p[2])]
    OBVIOUS
  <2>3. ASSUME NEW T \in SUBSET S, T # {}, NEW a \in Good[T \ {ch[T]}]
        PROVE  F[<<a, ch[T]>>] \in Good[T] /\ F[<<a, ch[T]>>] = remove_service(a, ch[T])
    <3>1. ch[T] \in T /\ ch[T] \in S /\ T \ {ch[T]} \in SUBSET S
      BY <1>2, <2>3 DEF Chooses
    <3>2. a \in H
      BY <2>1, <3>1
    <3>3. F[<<a, ch[T]>>] = remove_service(a, ch[T])
      BY <2>2, <3>1, <3>2
    <3>. QED
      BY <3>1, <3>3
  <2>. HIDE DEF Makes
  <2>4. PICK it : Keeps(it, S, ch, st, F, Good)
    <3>1. Takes(F, S, ch, Good)
      BY <2>3 DEF Takes
    <3>. QED
      BY <1>2, <3>1, FoldKeeps
  <2>. USE DEF Makes
  <2>5. ASSUME NEW T \in SUBSET S
        PROVE  it[T] = IF T = {} THEN st
                       ELSE remove_service(it[T \ {(CHOOSE x \in T : TRUE)}], (CHOOSE x \in T : TRUE))
    <3>1. ch[T] = (CHOOSE x \in T : TRUE)
      BY <1>1
    <3>2. T # {} => it[T \ {ch[T]}] \in Good[T \ {ch[T]}]
      BY <2>4 DEF Keeps
    <3>3. T # {} => F[<<it[T \ {ch[T]}], ch[T]>>] = remove_service(it[T \ {ch[T]}], ch[T])
      BY <2>3, <3>2
    <3>4. it[T] = IF T = {} THEN st ELSE F[<<it[T \ {ch[T]}], ch[T]>>]
      BY <2>4 DEF FoldsTo, Keeps
    <3>. QED
      BY <3>1, <3>3, <3>4
  <2>. QED
    BY <2>4, <2>5 DEF Keeps
<1>5. Makes(CHOOSE it : Makes(it))
  BY <1>4, Zenon
<1>6. RemoveAll(st, S) = (CHOOSE it : Makes(it))[S]
  BY DEF RemoveAll, FoldSet, MapThenFoldSet
<1>. HIDE DEF Makes
<1>. QED
  BY <1>3, <1>5, <1>6

(* The same of advance_waiting, which reconsiders the waiting services in  *)
(* the order of their names.                                               *)
LEMMA AdvanceKeeps ==
  ASSUME NEW st, NEW c, c # Broken, NEW bad, NEW Good,
         NEW S, S = waiting_in_project(st), st \in Good[{}],
         \A T \in SUBSET S : \A s \in T : \A a \in Good[T \ {s}] :
           (\A t \in T : t <= s) => Reconsider(a, c, s, st.svc[s], bad) \in Good[T]
  PROVE  advance_waiting(st, c, bad) \in Good[S]
<1>a. S \subseteq Nat /\ IsFiniteSet(S)
  <2>1. S \subseteq Svcs
    BY DEF waiting_in_project
  <2>. QED
    BY <2>1, ServiceAssumption, FS_Subset DEF ServiceAssumption
<1>. DEFINE Makes(it) ==
         it = [T \in SUBSET S |->
                 IF T = {} THEN st
                 ELSE Reconsider(it[T \ {Max(T)}], c, Max(T), st.svc[Max(T)], bad)]
<1>1. PICK ch : ch = [T \in SUBSET S |-> Max(T)]
  OBVIOUS
<1>2. Chooses(ch, S)
  <2>1. ASSUME NEW T \in SUBSET S, T # {}
        PROVE  Max(T) \in T
    BY <1>a, <2>1, FS_Subset, MaxIs
  <2>. QED
    BY <1>1, <2>1 DEF Chooses
<1>b. ASSUME NEW T \in SUBSET S, T # {}
      PROVE  \A t \in T : t <= ch[T]
  BY <1>1, <1>a, <1>b, FS_Subset, MaxIs
<1>3. ASSUME NEW it, Makes(it)
      PROVE  it[S] \in Good[S]
  <2>1. it[{}] = st
    BY <1>3
  <2>2. ASSUME NEW T \in SUBSET S, T # {}, it[T \ {ch[T]}] \in Good[T \ {ch[T]}]
        PROVE  it[T] \in Good[T]
    <3>1. it[T] = Reconsider(it[T \ {ch[T]}], c, ch[T], st.svc[ch[T]], bad)
      BY <1>1, <1>3, <2>2
    <3>2. ch[T] \in T /\ \A t \in T : t <= ch[T]
      BY <1>2, <1>b, <2>2 DEF Chooses
    <3>. QED
      BY <2>2, <3>1, <3>2
  <2>3. \A T \in SUBSET S : it[T] \in Good[T]
    <3>. HIDE DEF Makes
    <3>. QED
      BY <1>a, <1>2, <2>1, <2>2, Climbs
  <2>. QED
    BY <2>3
<1>4. \E it : Makes(it)
  <2>1. PICK H : H = UNION {Good[T] : T \in SUBSET S}
    OBVIOUS
  <2>2. PICK F : F = [p \in H \X S |-> Reconsider(p[1], c, p[2], st.svc[p[2]], bad)]
    OBVIOUS
  <2>3. ASSUME NEW T \in SUBSET S, T # {}, NEW a \in Good[T \ {ch[T]}]
        PROVE  /\ F[<<a, ch[T]>>] \in Good[T]
               /\ F[<<a, ch[T]>>] = Reconsider(a, c, ch[T], st.svc[ch[T]], bad)
    <3>1. ch[T] \in T /\ ch[T] \in S /\ T \ {ch[T]} \in SUBSET S
      BY <1>2, <2>3 DEF Chooses
    <3>2. a \in H
      BY <2>1, <3>1
    <3>3. F[<<a, ch[T]>>] = Reconsider(a, c, ch[T], st.svc[ch[T]], bad)
      BY <2>2, <3>1, <3>2
    <3>. QED
      BY <1>b, <2>3, <3>1, <3>3
  <2>. HIDE DEF Makes
  <2>4. PICK it : Keeps(it, S, ch, st, F, Good)
    <3>1. Takes(F, S, ch, Good)
      BY <2>3 DEF Takes
    <3>. QED
      BY <1>a, <1>2, <3>1, FoldKeeps
  <2>. USE DEF Makes
  <2>5. ASSUME NEW T \in SUBSET S
        PROVE  it[T] = IF T = {} THEN st
                       ELSE Reconsider(it[T \ {Max(T)}], c, Max(T), st.svc[Max(T)], bad)
    <3>1. ch[T] = Max(T)
      BY <1>1
    <3>2. T # {} => it[T \ {ch[T]}] \in Good[T \ {ch[T]}]
      BY <2>4 DEF Keeps
    <3>3. T # {} => F[<<it[T \ {ch[T]}], ch[T]>>]
                     = Reconsider(it[T \ {ch[T]}], c, ch[T], st.svc[ch[T]], bad)
      BY <2>3, <3>2
    <3>4. it[T] = IF T = {} THEN st ELSE F[<<it[T \ {ch[T]}], ch[T]>>]
      BY <2>4 DEF FoldsTo, Keeps
    <3>. QED
      BY <3>1, <3>3, <3>4
  <2>. QED
    BY <2>4, <2>5 DEF Keeps
<1>5. Makes(CHOOSE it : Makes(it))
  BY <1>4, Zenon
<1>6. advance_waiting(st, c, bad) = (CHOOSE it : Makes(it))[S]
  BY DEF advance_waiting, MapThenFoldSet
<1>. HIDE DEF Makes
<1>. QED
  BY <1>3, <1>5, <1>6

(* One service of the order, as a start of the services S takes it. *)
LaunchStep(st, c, s, S, explicit, bad) ==
  IF s \in S THEN launch_service(st, c, s, s \in explicit, bad) ELSE st

(* The same of Launch, which goes through sorted_services: Good is what    *)
(* holds when the services at some places of the order are done.           *)
LEMMA LaunchKeeps ==
  ASSUME NEW st, NEW c, NEW S, NEW explicit, NEW bad, NEW Good,
         NEW q, q = sorted_services(c), NEW D, D = DOMAIN q, IsFiniteSet(D), D \subseteq Nat,
         st \in Good[{}],
         \A T \in SUBSET D : \A i \in T : \A a \in Good[T \ {i}] :
           (\A j \in T : j <= i) =>
             LaunchStep(a, c, q[i], S, explicit, bad) \in Good[T]
  PROVE  Launch(st, c, S, explicit, bad) \in Good[D]
<1>. DEFINE Makes(it) ==
         it = [T \in SUBSET D |->
                 IF T = {} THEN st
                 ELSE LaunchStep(it[T \ {Max(T)}], c, q[Max(T)], S, explicit, bad)]
<1>1. PICK ch : ch = [T \in SUBSET D |-> Max(T)]
  OBVIOUS
<1>2. Chooses(ch, D)
  <2>1. ASSUME NEW T \in SUBSET D, T # {}
        PROVE  Max(T) \in T
    BY <2>1, FS_Subset, MaxIs
  <2>. QED
    BY <1>1, <2>1 DEF Chooses
<1>b. ASSUME NEW T \in SUBSET D, T # {}
      PROVE  \A t \in T : t <= ch[T]
  BY <1>1, <1>b, FS_Subset, MaxIs
<1>3. ASSUME NEW it, Makes(it)
      PROVE  it[D] \in Good[D]
  <2>1. it[{}] = st
    BY <1>3
  <2>2. ASSUME NEW T \in SUBSET D, T # {}, it[T \ {ch[T]}] \in Good[T \ {ch[T]}]
        PROVE  it[T] \in Good[T]
    <3>1. it[T] = LaunchStep(it[T \ {ch[T]}], c, q[ch[T]], S, explicit, bad)
      BY <1>1, <1>3, <2>2
    <3>2. ch[T] \in T /\ \A t \in T : t <= ch[T]
      BY <1>2, <1>b, <2>2 DEF Chooses
    <3>. QED
      BY <2>2, <3>1, <3>2
  <2>3. \A T \in SUBSET D : it[T] \in Good[T]
    <3>. HIDE DEF Makes
    <3>. QED
      BY <1>2, <2>1, <2>2, Climbs
  <2>. QED
    BY <2>3
<1>4. \E it : Makes(it)
  <2>1. PICK H : H = UNION {Good[T] : T \in SUBSET D}
    OBVIOUS
  <2>2. PICK F : F = [p \in H \X D |-> LaunchStep(p[1], c, q[p[2]], S, explicit, bad)]
    OBVIOUS
  <2>3. ASSUME NEW T \in SUBSET D, T # {}, NEW a \in Good[T \ {ch[T]}]
        PROVE  /\ F[<<a, ch[T]>>] \in Good[T]
               /\ F[<<a, ch[T]>>] = LaunchStep(a, c, q[ch[T]], S, explicit, bad)
    <3>1. ch[T] \in T /\ ch[T] \in D /\ T \ {ch[T]} \in SUBSET D
      BY <1>2, <2>3 DEF Chooses
    <3>2. a \in H
      BY <2>1, <3>1
    <3>3. F[<<a, ch[T]>>] = LaunchStep(a, c, q[ch[T]], S, explicit, bad)
      BY <2>2, <3>1, <3>2
    <3>. QED
      BY <1>b, <2>3, <3>1, <3>3
  <2>. HIDE DEF Makes
  <2>4. PICK it : Keeps(it, D, ch, st, F, Good)
    <3>1. Takes(F, D, ch, Good)
      BY <2>3 DEF Takes
    <3>. QED
      BY <1>2, <3>1, FoldKeeps
  <2>. USE DEF Makes
  <2>5. ASSUME NEW T \in SUBSET D
        PROVE  it[T] = IF T = {} THEN st
                       ELSE LaunchStep(it[T \ {Max(T)}], c, q[Max(T)], S, explicit, bad)
    <3>1. ch[T] = Max(T)
      BY <1>1
    <3>2. T # {} => it[T \ {ch[T]}] \in Good[T \ {ch[T]}]
      BY <2>4 DEF Keeps
    <3>3. T # {} => F[<<it[T \ {ch[T]}], ch[T]>>]
                     = LaunchStep(it[T \ {ch[T]}], c, q[ch[T]], S, explicit, bad)
      BY <2>3, <3>2
    <3>4. it[T] = IF T = {} THEN st ELSE F[<<it[T \ {ch[T]}], ch[T]>>]
      BY <2>4 DEF FoldsTo, Keeps
    <3>. QED
      BY <3>1, <3>3, <3>4
  <2>6. it = [T \in SUBSET D |-> it[T]]
    BY <2>4 DEF Keeps
  <2>7. it = [T \in SUBSET D |->
                IF T = {} THEN st
                ELSE LaunchStep(it[T \ {Max(T)}], c, q[Max(T)], S, explicit, bad)]
    BY <2>5, <2>6, Zenon
  <2>. QED
    BY <2>7
<1>5. Makes(CHOOSE it : Makes(it))
  BY <1>4, Zenon
<1>6. Launch(st, c, S, explicit, bad) = (CHOOSE it : Makes(it))[D]
  BY DEF Launch, LaunchStep, FoldLeft, MapThenFoldSet
<1>. HIDE DEF Makes
<1>. QED
  BY <1>3, <1>5, <1>6

-----------------------------------------------------------------------------
(* sorted_services always finds an order, cycles or not. *)

(* Which names each name depends on. *)
Depends(c) == [n \in Names |-> dependency_closure(c, n)]
(* Dependencies come first, but for cycles. *)
Sorts(c, order) ==
  \A i, j \in DOMAIN order :
    i < j /\ order[j] \in dependency_closure(c, order[i])
      => order[i] \in dependency_closure(c, order[j])

(* A closure contains its root and the closures of its members. *)
LEMMA ClosureIs ==
  ASSUME NEW c, NEW a \in Names
  PROVE  /\ a \in dependency_closure(c, a) /\ dependency_closure(c, a) \subseteq Names
         /\ \A b \in dependency_closure(c, a) :
              dependency_closure(c, b) \subseteq dependency_closure(c, a)
  BY DEF dependency_closure

(* Every set of services and forwards is finite. *)
LEMMA NamesFinite ==
  ASSUME NEW S \in SUBSET Names
  PROVE  IsFiniteSet(S)
<1>1. IsFiniteSet(Svcs)
  BY ServiceAssumption DEF ServiceAssumption
<1>2. IsFiniteSet({Fwd})
  BY FS_Singleton
<1>. QED
  BY <1>1, <1>2, FS_Union, FS_Subset DEF Names

(* Among any services one can be started first: what it needs of them      *)
(* needs it in turn.                                                       *)
LEMMA FirstToStart ==
  ASSUME NEW c, NEW S \in SUBSET Svcs, S # {}
  PROVE  \E s \in S : \A t \in S :
           t \in dependency_closure(c, s) => s \in dependency_closure(c, t)
<1>1. PICK T : T = {dependency_closure(c, s) : s \in S}
  OBVIOUS
<1>2. T \subseteq FiniteSubsetsOf(Names) /\ T # {}
  <2>1. ASSUME NEW s \in S
        PROVE  dependency_closure(c, s) \in FiniteSubsetsOf(Names)
    BY NamesFinite DEF FiniteSubsetsOf, dependency_closure
  <2>. QED
    BY <1>1, <2>1
<1>3. PICK x \in T : \A y \in T : y \subseteq x => y = x
  BY <1>2, Smallest
<1>4. PICK s \in S : x = dependency_closure(c, s)
  BY <1>1, <1>3
<1>5. ASSUME NEW t \in S, t \in dependency_closure(c, s)
      PROVE  s \in dependency_closure(c, t)
  <2>1. s \in Names
    BY DEF Names
  <2>2. dependency_closure(c, t) \subseteq dependency_closure(c, s)
    BY <1>5, <2>1, ClosureIs
  <2>3. dependency_closure(c, t) = dependency_closure(c, s)
    BY <1>1, <1>3, <1>4, <2>2
  <2>. QED
    BY <2>1, <2>3, ClosureIs
<1>. QED
  BY <1>5

(* Some order of any set of services puts dependencies first. *)
LEMMA SomeOrder ==
  ASSUME NEW c, NEW D \in SUBSET Svcs
  PROVE  \E order \in SetToSeqs(D) : Sorts(c, order)
<1>1. SUFFICES ASSUME ~ \E order \in SetToSeqs(D) : Sorts(c, order)
               PROVE  FALSE
  OBVIOUS
<1>2. PICK B : B = {S \in SUBSET Svcs : ~ \E order \in SetToSeqs(S) : Sorts(c, order)}
  OBVIOUS
<1>3. B \subseteq FiniteSubsetsOf(Svcs) /\ B # {}
  <2>1. ASSUME NEW S \in SUBSET Svcs
        PROVE  IsFiniteSet(S)
    BY NamesFinite DEF Names
  <2>. QED
    BY <1>1, <1>2, <2>1 DEF FiniteSubsetsOf
<1>4. PICK S \in B : \A y \in B : y \subseteq S => y = S
  BY <1>3, Smallest
<1>5. S \in SUBSET Svcs /\ ~ \E order \in SetToSeqs(S) : Sorts(c, order)
  BY <1>2, <1>4
<1>6. IsFiniteSet(S)
  BY <1>5, NamesFinite DEF Names
<1>7. S # {}
  <2>1. SUFFICES ASSUME S = {}
                 PROVE  FALSE
    OBVIOUS
  <2>2. Cardinality(S) = 0
    BY <2>1, FS_EmptySet
  <2>3. PICK o : o = [i \in 1..0 |-> i]
    OBVIOUS
  <2>4. o \in SetToSeqs(S)
    BY <2>1, <2>2, <2>3 DEF SetToSeqs
  <2>5. Sorts(c, o)
    BY <2>3 DEF Sorts
  <2>. QED
    BY <1>5, <2>4, <2>5
<1>8. PICK s \in S : \A t \in S : t \in dependency_closure(c, s) => s \in dependency_closure(c, t)
  BY <1>5, <1>7, FirstToStart
<1>9. S \ {s} \in SUBSET Svcs /\ S \ {s} \notin B
  BY <1>4, <1>5
<1>10. PICK o \in SetToSeqs(S \ {s}) : Sorts(c, o)
  BY <1>2, <1>9
<1>11. PICK n : n = Cardinality(S)
  OBVIOUS
<1>12. n \in Nat \ {0} /\ Cardinality(S \ {s}) = n - 1
  BY <1>6, <1>7, <1>11, FS_RemoveElement, FS_CardinalityType, FS_EmptySet
<1>13. /\ o \in [1..(n - 1) -> S \ {s}]
       /\ \A i, j \in 1..(n - 1) : i # j => o[i] # o[j]
  BY <1>10, <1>12 DEF SetToSeqs
<1>14. PICK p : p = [i \in 1..n |-> IF i = 1 THEN s ELSE o[i - 1]]
  OBVIOUS
<1>15. ASSUME NEW i \in 1..n
       PROVE  \/ i = 1 /\ p[i] = s
              \/ i - 1 \in 1..(n - 1) /\ p[i] = o[i - 1] /\ p[i] \in S \ {s}
  BY <1>12, <1>13, <1>14
<1>16. p \in SetToSeqs(S)
  <2>1. p \in [1..n -> S]
    BY <1>14, <1>15
  <2>2. ASSUME NEW i \in 1..n, NEW j \in 1..n, i # j
        PROVE  p[i] # p[j]
    BY <1>12, <1>13, <1>15, <2>2
  <2>. QED
    BY <1>11, <2>1, <2>2 DEF SetToSeqs
<1>17. Sorts(c, p)
  <2>1. DOMAIN p = 1..n
    BY <1>14
  <2>2. SUFFICES ASSUME NEW i \in 1..n, NEW j \in 1..n, i < j,
                        p[j] \in dependency_closure(c, p[i])
                 PROVE  p[i] \in dependency_closure(c, p[j])
    BY <2>1 DEF Sorts
  <2>3. j - 1 \in 1..(n - 1) /\ p[j] = o[j - 1] /\ p[j] \in S
    BY <1>12, <1>15, <2>2
  <2>4. CASE i = 1
    BY <1>8, <1>14, <2>2, <2>3, <2>4
  <2>5. CASE i # 1
    <3>1. i - 1 \in 1..(n - 1) /\ p[i] = o[i - 1]
      BY <1>15, <2>5
    <3>2. i - 1 < j - 1
      BY <1>12, <2>2
    <3>3. DOMAIN o = 1..(n - 1)
      BY <1>13
    <3>. QED
      BY <1>10, <2>2, <2>3, <3>1, <3>2, <3>3 DEF Sorts
  <2>. QED
    BY <2>4, <2>5
<1>. QED
  BY <1>5, <1>16, <1>17

(* sorted_services is an order of what the file declares: the CHOOSE finds *)
(* one.                                                                    *)
LEMMA SortedIs ==
  ASSUME NEW c \in Configs, NEW q, q = sorted_services(c)
  PROVE  /\ q \in [1..Cardinality(c.declared) -> c.declared]
         /\ Cardinality(c.declared) \in Nat
         /\ IsFiniteSet(DOMAIN q) /\ DOMAIN q \subseteq Nat
         /\ \A s \in c.declared : \E i \in DOMAIN q : q[i] = s
         /\ \A i, j \in DOMAIN q : i # j => q[i] # q[j]
<1>1. c.declared \in SUBSET Svcs
  BY ServiceAssumption DEF ServiceAssumption, Declared
<1>2. PICK D : D = c.declared
  OBVIOUS
<1>3. IsFiniteSet(D) /\ Cardinality(D) \in Nat
  BY <1>1, <1>2, NamesFinite, FS_CardinalityType DEF Names
<1>4. q = CHOOSE order \in SetToSeqs(D) : Sorts(c, order)
  BY <1>2 DEF sorted_services, Sorts
<1>5. \E order \in SetToSeqs(D) : Sorts(c, order)
  BY <1>1, <1>2, SomeOrder
<1>6. q \in SetToSeqs(D)
  BY <1>4, <1>5
<1>7. PICK n \in Nat : n = Cardinality(D)
  BY <1>3
<1>8. q \in [1..n -> D] /\ \A i, j \in 1..n : i # j => q[i] # q[j]
  BY <1>6, <1>7 DEF SetToSeqs
<1>9. IsFiniteSet(1..n) /\ Cardinality(1..n) = n
  BY FS_Interval
<1>10. \A s \in D : \E i \in 1..n : q[i] = s
  <2>1. q \in Injection(1..n, D)
    BY <1>8 DEF Injection, IsInjective
  <2>. QED
    BY <1>3, <1>7, <1>8, <1>9, <2>1, FS_Injection, FS_Surjection DEF Surjection
<1>. QED
  BY <1>2, <1>7, <1>8, <1>9, <1>10

-----------------------------------------------------------------------------
(* What holds of a state of one handler, whose services W were started and *)
(* not stopped since.                                                      *)

Statuses == {"none", "Starting", "Running", "Failed", "Stopped"}
Entries == [status : Statuses, run : Nat, alive : BOOLEAN, held : SUBSET Names, group : Nat]
Runs == [svc : Svcs, proc : {"none", "up", "ok", "err"},
         stopping : BOOLEAN, settled : BOOLEAN, timed : BOOLEAN,
         ready : {"no", "won", "plain", "late", "sent"},
         late : {"no", "checked", "swapped", "sent"}, gone : {"no", "marked", "sent"}]
Events == [run : Nat, kind : Kinds]
Forwards == [status : PfStatuses, served : BOOLEAN, run : Nat, cfg : Nat]
Watchers == [at : Steps, once : BOOLEAN, fails : 0..MaxFailures]
States == [svc : [Svcs -> Entries], runs : Seq(Runs), q : Seq(Events),
           fwd : Forwards, watch : Seq(Watchers)]

(* The ids an entry and an event name are those of runs of the service. *)
Named(st) ==
  /\ \A s \in Svcs : LET e == st.svc[s] IN
       /\ e.run \in 0..Len(st.runs) /\ e.group \in 0..e.run
       /\ e.run # 0 => st.runs[e.run].svc = s
       /\ e.group # 0 => st.runs[e.group].svc = s
       /\ e.held # {} => e.status \in {"Starting", "Failed"}
       /\ e.status = "none" => e = NoService
  /\ \A i \in DOMAIN st.q : st.q[i].run \in DOMAIN st.runs
  /\ st.fwd.run \in 0..Len(st.watch)

(* Whose process runs, and who is held back. *)
Owned(st, W) ==
  /\ \A r \in DOMAIN st.runs : st.runs[r].proc = "up" =>
       LET e == st.svc[st.runs[r].svc] IN
       /\ e.run = r /\ e.group = r /\ e.alive
       /\ e.status \in {"Starting", "Running", "Failed"}
       /\ st.runs[r].svc \in W
  /\ \A s \in Svcs : LET e == st.svc[s] IN
       /\ e.alive => e.run # 0 /\ st.runs[e.run].proc # "none"
       /\ e.held # {} => e.run # 0 /\ st.runs[e.run].proc = "none" /\ s \in W

(* What a run says of itself, once, and in which words. *)
Readies == {"Running", "LateReady"}
Ends == {"Stopped", "Failed"}
Said(run, kind) ==
  /\ kind \in Readies => run.ready = "sent"
  /\ kind = "NotReady" => run.late = "sent"
  /\ kind \in Ends => IF run.proc = "none" THEN kind = "Failed" ELSE run.gone = "sent"
  /\ kind \in Ends /\ run.proc # "none" /\ ~run.stopping =>
       kind = IF run.proc = "ok" THEN "Stopped" ELSE "Failed"
Alike(kind, other) ==
  \/ kind = other
  \/ kind \in Readies /\ other \in Readies
  \/ kind \in Ends /\ other \in Ends
InOrder(run) ==
  /\ run.ready # "no" => run.settled
  /\ run.gone # "no" => run.proc \in {"ok", "err"}
Spoken(st) ==
  /\ \A r \in DOMAIN st.runs : InOrder(st.runs[r])
  /\ \A i \in DOMAIN st.q : Said(st.runs[st.q[i].run], st.q[i].kind)
  /\ \A i, j \in DOMAIN st.q :
       i # j /\ st.q[i].run = st.q[j].run => ~Alike(st.q[i].kind, st.q[j].kind)

(* What the entry has heard of its run is what it says. *)
Waits(q, r, kinds) == \E i \in DOMAIN q : q[i].run = r /\ q[i].kind \in kinds
Tells(e, run, q) ==
  IF run.gone = "sent" /\ ~Waits(q, e.run, Ends)
  THEN ~e.alive /\ e.status = IF run.proc = "ok" THEN "Stopped" ELSE "Failed"
  ELSE e.alive /\ e.status = IF run.ready = "sent" /\ ~Waits(q, e.run, Readies) THEN "Running"
                             ELSE IF run.late = "sent" /\ ~Waits(q, e.run, {"NotReady"})
                             THEN "Failed" ELSE "Starting"
Truthful(st) ==
  \A s \in Svcs : LET e == st.svc[s] IN
    e.run # 0 /\ st.runs[e.run].proc # "none" /\ ~st.runs[e.run].stopping =>
      Tells(e, st.runs[e.run], st.q)

(* Everything that holds between two steps. *)
Good(st, W) ==
  st \in States /\ Named(st) /\ Owned(st, W) /\ Spoken(st) /\ Truthful(st)

(* No process of s runs. *)
Idle(st, s) == \A r \in DOMAIN st.runs : st.runs[r].svc = s => st.runs[r].proc # "up"

(* Good allows more services to be wanted. *)
LEMMA SameGood ==
  ASSUME NEW st, NEW W, NEW V, W \subseteq V, Good(st, W)
  PROVE  Good(st, V)
  BY DEF Good, Owned

(* No process runs behind an entry that is not alive, or is held back. *)
LEMMA IdleIf ==
  ASSUME NEW st, NEW W, Good(st, W), NEW s \in Svcs,
         ~st.svc[s].alive \/ st.svc[s].status = "none" \/ st.svc[s].held # {}
  PROVE  Idle(st, s)
  BY DEF Good, Owned, Idle

(* Kill ends the service's process, marks its run as stopping, and leaves  *)
(* nothing of another service changed.                                     *)
LEMMA KillGood ==
  ASSUME NEW st, NEW W, Good(st, W), NEW s \in Svcs
  PROVE  LET b == Kill(st, s) IN
         /\ Good(b, W) /\ Idle(b, s)
         /\ b = [st EXCEPT !.svc = b.svc, !.runs = b.runs]
         /\ b.svc = [st.svc EXCEPT ![s] = [@ EXCEPT !.alive = FALSE, !.group = 0]]
         /\ b.svc[s].run # 0 => b.runs[b.svc[s].run].stopping
<1>1. PICK b : b = Kill(st, s)
  OBVIOUS
<1>2. PICK e \in Entries : e = st.svc[s]
  BY DEF Good, States
<1>3. PICK f \in Entries : f = [e EXCEPT !.alive = FALSE, !.group = 0]
  BY <1>2 DEF Entries
<1>4. PICK rs : rs = [r \in DOMAIN st.runs |->
         [st.runs[r] EXCEPT !.stopping = @ \/ r = e.run,
                            !.proc = IF r = e.group /\ @ = "up" THEN "err" ELSE @]]
  OBVIOUS
<1>5. b = [st EXCEPT !.svc = [st.svc EXCEPT ![s] = f], !.runs = rs]
  BY <1>1, <1>2, <1>3, <1>4 DEF Kill, Good, States, Entries
<1>a. st.runs \in Seq(Runs) /\ DOMAIN st.runs = 1..Len(st.runs) /\ Len(st.runs) \in Nat
  BY DEF Good, States
<1>b. ASSUME NEW r \in DOMAIN st.runs
      PROVE  st.runs[r] \in Runs
  BY <1>a, ElementOfSeq
<1>6. ASSUME NEW r \in DOMAIN st.runs
      PROVE  /\ rs[r] \in Runs
             /\ rs[r] = [st.runs[r] EXCEPT !.stopping = rs[r].stopping, !.proc = rs[r].proc]
             /\ rs[r].svc = st.runs[r].svc /\ rs[r].gone = st.runs[r].gone
             /\ rs[r].settled = st.runs[r].settled
             /\ rs[r].ready = st.runs[r].ready /\ rs[r].late = st.runs[r].late
             /\ rs[r].stopping = (st.runs[r].stopping \/ r = e.run)
             /\ rs[r].proc = IF r = e.group /\ st.runs[r].proc = "up" THEN "err" ELSE st.runs[r].proc
  <2>0. PICK a \in Runs : a = st.runs[r]
    BY <1>b
  <2>1. PICK p \in {"none", "up", "ok", "err"} :
          p = IF r = e.group /\ a.proc = "up" THEN "err" ELSE a.proc
    BY DEF Runs
  <2>2. PICK w \in BOOLEAN : w = (a.stopping \/ r = e.run)
    OBVIOUS
  <2>3. rs[r] = [a EXCEPT !.stopping = w, !.proc = p]
    BY <1>4, <2>0, <2>1, <2>2
  <2>4. rs[r].settled = a.settled
    BY <2>3 DEF Runs
  <2>5. /\ rs[r] \in Runs /\ rs[r].stopping = w /\ rs[r].proc = p
        /\ rs[r].svc = a.svc /\ rs[r].gone = a.gone
        /\ rs[r].ready = a.ready /\ rs[r].late = a.late
    BY <2>3 DEF Runs
  <2>. QED
    BY <2>0, <2>1, <2>2, <2>3, <2>4, <2>5
<1>7. ASSUME NEW r \in DOMAIN st.runs
      PROVE  /\ st.runs[r].svc # s => rs[r] = st.runs[r]
             /\ rs[r].svc = st.runs[r].svc /\ rs[r].gone = st.runs[r].gone
             /\ rs[r].settled = st.runs[r].settled
             /\ rs[r].ready = st.runs[r].ready /\ rs[r].late = st.runs[r].late
             /\ rs[r].stopping = (st.runs[r].stopping \/ r = e.run)
             /\ rs[r].proc = IF st.runs[r].svc = s /\ st.runs[r].proc = "up"
                             THEN "err" ELSE st.runs[r].proc
  <2>1. PICK a \in Runs : a = st.runs[r]
    BY <1>b
  <2>0. /\ rs[r] \in Runs
        /\ rs[r] = [a EXCEPT !.stopping = rs[r].stopping, !.proc = rs[r].proc]
        /\ rs[r].svc = a.svc /\ rs[r].gone = a.gone /\ rs[r].settled = a.settled
        /\ rs[r].ready = a.ready /\ rs[r].late = a.late
        /\ rs[r].stopping = (a.stopping \/ r = e.run)
        /\ rs[r].proc = IF r = e.group /\ a.proc = "up" THEN "err" ELSE a.proc
    BY <1>6, <2>1
  <2>2. (r = e.run => a.svc = s) /\ (r = e.group => a.svc = s)
    BY <1>2, <1>a, <2>1 DEF Good, Named
  <2>3. a.svc = s /\ a.proc = "up" => r = e.group
    BY <1>2, <2>1 DEF Good, Owned
  <2>4. a = [a EXCEPT !.stopping = a.stopping, !.proc = a.proc] /\ a.stopping \in BOOLEAN
    BY DEF Runs
  <2>5. ASSUME a.svc # s
        PROVE  rs[r] = a
    <3>1. rs[r].stopping = a.stopping
      BY <2>0, <2>2, <2>4, <2>5
    <3>2. rs[r].proc = a.proc
      BY <2>0, <2>2, <2>5
    <3>. QED
      BY <2>0, <2>4, <3>1, <3>2
  <2>6. rs[r].proc = IF a.svc = s /\ a.proc = "up" THEN "err" ELSE a.proc
    BY <2>0, <2>2, <2>3
  <2>. QED
    BY <2>0, <2>1, <2>5, <2>6
<1>c. rs \in Seq(Runs) /\ Len(rs) = Len(st.runs) /\ DOMAIN rs = DOMAIN st.runs
  <2>1. ASSUME NEW r \in DOMAIN st.runs
        PROVE  rs[r] \in Runs
    BY <1>6, <1>b
  <2>2. rs \in [1..Len(st.runs) -> Runs]
    BY <1>4, <1>a, <2>1
  <2>. QED
    BY <1>a, <2>2
<1>8. /\ b.svc = [st.svc EXCEPT ![s] = f] /\ b.runs = rs /\ b.q = st.q /\ b.fwd = st.fwd
      /\ b.watch = st.watch /\ b \in States
  BY <1>5, <1>c DEF Good, States
<1>9. f.run = e.run /\ f.status = e.status /\ f.held = e.held /\ ~f.alive /\ f.group = 0
  BY <1>3 DEF Entries
<1>10. /\ b.svc[s] = f
       /\ \A t \in Svcs : t # s => b.svc[t] = st.svc[t]
  BY <1>8 DEF Good, States
<1>11. Named(b)
  <2>1. ASSUME NEW t \in Svcs
        PROVE  /\ b.svc[t].run \in 0..Len(b.runs) /\ b.svc[t].group \in 0..b.svc[t].run
               /\ b.svc[t].run # 0 => b.runs[b.svc[t].run].svc = t
               /\ b.svc[t].group # 0 => b.runs[b.svc[t].group].svc = t
               /\ b.svc[t].held # {} => b.svc[t].status \in {"Starting", "Failed"}
               /\ b.svc[t].status = "none" => b.svc[t] = NoService
    <3>1. /\ st.svc[t].run \in 0..Len(st.runs) /\ st.svc[t].group \in 0..st.svc[t].run
          /\ st.svc[t].run # 0 => st.runs[st.svc[t].run].svc = t
          /\ st.svc[t].group # 0 => st.runs[st.svc[t].group].svc = t
          /\ st.svc[t].held # {} => st.svc[t].status \in {"Starting", "Failed"}
      BY DEF Good, Named
    <3>2. /\ b.svc[t].run = st.svc[t].run /\ b.svc[t].group \in {0, st.svc[t].group}
          /\ b.svc[t].held = st.svc[t].held /\ b.svc[t].status = st.svc[t].status
      BY <1>2, <1>9, <1>10
    <3>3. /\ st.svc[t].run # 0 => st.svc[t].run \in DOMAIN st.runs
          /\ st.svc[t].group # 0 => st.svc[t].group \in DOMAIN st.runs
      BY <1>a, <3>1
    <3>4. b.svc[t].status = "none" => b.svc[t] = NoService
      <4>1. st.svc[t].status = "none" => st.svc[t] = NoService
        BY DEF Good, Named
      <4>2. NoService = [NoService EXCEPT !.alive = FALSE, !.group = 0]
        <5>1. /\ NoService \in Entries /\ NoService.alive = FALSE /\ NoService.group = 0
          BY DEF NoService, Entries, Statuses
        <5>2. ASSUME NEW x \in Entries
              PROVE  x = [x EXCEPT !.alive = x.alive, !.group = x.group]
          BY DEF Entries
        <5>. QED
          BY <5>1, <5>2
      <4>. QED
        BY <1>2, <1>3, <1>10, <3>2, <4>1, <4>2
    <3>. QED
      BY <1>7, <1>8, <1>a, <1>c, <3>1, <3>2, <3>3, <3>4
  <2>2. ASSUME NEW i \in DOMAIN b.q
        PROVE  b.q[i].run \in DOMAIN b.runs
    BY <1>8, <1>c DEF Good, Named
  <2>3. b.fwd.run \in 0..Len(b.watch)
    BY <1>8 DEF Good, Named
  <2>. QED
    BY <2>1, <2>2, <2>3 DEF Named
<1>12. Idle(b, s)
  BY <1>7, <1>8, <1>c DEF Idle
<1>13. Owned(b, W)
  <2>1. ASSUME NEW r \in DOMAIN b.runs, b.runs[r].proc = "up"
        PROVE  /\ r \in DOMAIN st.runs /\ st.runs[r].proc = "up" /\ st.runs[r].svc # s
               /\ st.runs[r].svc \in Svcs /\ b.runs[r].svc = st.runs[r].svc
    BY <1>7, <1>8, <1>b, <1>c, <2>1 DEF Runs
  <2>2. ASSUME NEW r \in DOMAIN b.runs, b.runs[r].proc = "up", NEW e2, e2 = b.svc[b.runs[r].svc]
        PROVE  /\ e2.run = r /\ e2.group = r /\ e2.alive
               /\ e2.status \in {"Starting", "Running", "Failed"}
               /\ b.runs[r].svc \in W
    <3>1. e2 = st.svc[st.runs[r].svc]
      BY <1>10, <2>1, <2>2
    <3>. QED
      BY <2>1, <2>2, <3>1 DEF Good, Owned
  <2>3. ASSUME NEW t \in Svcs
        PROVE  /\ b.svc[t].alive => b.svc[t].run # 0 /\ b.runs[b.svc[t].run].proc # "none"
               /\ b.svc[t].held # {} => /\ b.svc[t].run # 0 /\ t \in W
                                        /\ b.runs[b.svc[t].run].proc = "none"
    <3>1. /\ st.svc[t].alive => st.svc[t].run # 0 /\ st.runs[st.svc[t].run].proc # "none"
          /\ st.svc[t].held # {} => /\ st.svc[t].run # 0 /\ t \in W
                                    /\ st.runs[st.svc[t].run].proc = "none"
      BY DEF Good, Owned
    <3>2. /\ b.svc[t].run = st.svc[t].run /\ b.svc[t].held = st.svc[t].held
          /\ b.svc[t].alive => st.svc[t].alive
      BY <1>2, <1>9, <1>10
    <3>3. st.svc[t].run # 0 => st.svc[t].run \in DOMAIN st.runs
      BY <1>a DEF Good, Named
    <3>. QED
      BY <1>7, <1>8, <3>1, <3>2, <3>3
  <2>. QED
    BY <2>2, <2>3 DEF Owned
<1>14. Spoken(b)
  <2>1. ASSUME NEW r \in DOMAIN b.runs
        PROVE  InOrder(b.runs[r])
    BY <1>7, <1>8, <1>c DEF Good, Spoken, InOrder
  <2>2. ASSUME NEW i \in DOMAIN b.q
        PROVE  Said(b.runs[b.q[i].run], b.q[i].kind)
    <3>1. PICK r \in DOMAIN st.runs : r = b.q[i].run
      BY <1>8 DEF Good, Named
    <3>2. Said(st.runs[r], b.q[i].kind)
      BY <1>8, <3>1 DEF Good, Spoken
    <3>3. st.runs[r].gone # "no" => st.runs[r].proc \in {"ok", "err"}
      BY DEF Good, Spoken, InOrder
    <3>. QED
      <4>1. PICK x : x = b.runs[r]
        OBVIOUS
      <4>2. /\ x.gone = st.runs[r].gone /\ x.ready = st.runs[r].ready
            /\ x.late = st.runs[r].late /\ (st.runs[r].stopping => x.stopping)
            /\ \/ x.proc = st.runs[r].proc
               \/ st.runs[r].proc = "up" /\ x.proc = "err"
        BY <1>7, <1>8, <4>1
      <4>. QED
        BY <3>1, <3>2, <3>3, <4>1, <4>2 DEF Said, Ends
  <2>. QED
    BY <1>8, <2>1, <2>2 DEF Good, Spoken
<1>15. Truthful(b)
  <2>1. ASSUME NEW t \in Svcs, b.svc[t].run # 0, b.runs[b.svc[t].run].proc # "none",
               ~b.runs[b.svc[t].run].stopping
        PROVE  Tells(b.svc[t], b.runs[b.svc[t].run], b.q)
    <3>1. b.svc[t].run \in DOMAIN st.runs
      BY <1>8, <1>11, <1>a, <1>c, <2>1 DEF Named
    <3>2. t # s
      BY <1>7, <1>8, <1>9, <1>10, <2>1, <3>1
    <3>3. b.svc[t] = st.svc[t] /\ b.runs[b.svc[t].run] = st.runs[st.svc[t].run]
      BY <1>7, <1>8, <1>10, <3>1, <3>2 DEF Good, Named
    <3>. QED
      BY <1>8, <2>1, <3>3 DEF Good, Truthful
  <2>. QED
    BY <2>1 DEF Truthful
<1>16. b.svc = [st.svc EXCEPT ![s] = [@ EXCEPT !.alive = FALSE, !.group = 0]]
  BY <1>2, <1>3, <1>8
<1>17. b.svc[s].run # 0 => b.runs[b.svc[s].run].stopping
  <2>1. e.run # 0 => e.run \in DOMAIN st.runs
    BY <1>2, <1>a DEF Good, Named
  <2>. QED
    BY <1>7, <1>8, <1>9, <1>10, <2>1
<1>18. b = [st EXCEPT !.svc = b.svc, !.runs = b.runs]
  BY <1>5, <1>8
<1>. QED
  BY <1>1, <1>8, <1>11, <1>12, <1>13, <1>14, <1>15, <1>16, <1>17, <1>18 DEF Good

(* Kill gives out no run id. *)
LEMMA KillSize ==
  ASSUME NEW st, NEW W, Good(st, W), NEW s \in Svcs
  PROVE  Len(Kill(st, s).runs) = Len(st.runs)
<1>1. st.runs \in Seq(Runs) /\ st \in States
  BY DEF Good, States
<1>2. Kill(st, s).runs =
        [r \in DOMAIN st.runs |->
           [st.runs[r] EXCEPT !.stopping = @ \/ r = st.svc[s].run,
                              !.proc = IF r = st.svc[s].group /\ @ = "up" THEN "err" ELSE @]]
  BY <1>1 DEF Kill, States
<1>3. PICK rs : rs = Kill(st, s).runs
  OBVIOUS
<1>4. DOMAIN rs = DOMAIN st.runs
  BY <1>2, <1>3
<1>5. Good(Kill(st, s), W)
  BY KillGood
<1>6. rs \in Seq(Runs)
  BY <1>3, <1>5 DEF Good, States
<1>7. Len(rs) = Len(st.runs)
  BY <1>1, <1>4, <1>6, LenProperties
<1>. QED
  BY <1>3, <1>7

(* A service without a process may be left without an entry, or with one   *)
(* at rest.                                                                *)
LEMMA RestGood ==
  ASSUME NEW st, NEW W, Good(st, W), NEW s \in Svcs, Idle(st, s), NEW f \in Entries,
         ~f.alive, f.held = {}, f.group = 0, f.status = "none" => f = NoService,
         \/ f.run = 0
         \/ f.run = st.svc[s].run /\ st.runs[f.run].stopping,
         NEW b, b = [st EXCEPT !.svc = [st.svc EXCEPT ![s] = f]]
  PROVE  Good(b, W \ {s}) /\ Idle(b, s)
<1>1. /\ b \in States /\ b.runs = st.runs /\ b.q = st.q /\ b.fwd = st.fwd
      /\ b.watch = st.watch /\ b.svc[s] = f /\ DOMAIN st.runs = 1..Len(st.runs)
      /\ Len(st.runs) \in Nat
      /\ \A t \in Svcs : t # s => b.svc[t] = st.svc[t]
  <2>1. st \in States /\ st.svc \in [Svcs -> Entries] /\ st.runs \in Seq(Runs)
    BY DEF Good, States
  <2>2. [st.svc EXCEPT ![s] = f] \in [Svcs -> Entries]
    BY <2>1
  <2>3. b \in States
    BY <2>1, <2>2 DEF States
  <2>4. b.svc = [st.svc EXCEPT ![s] = f]
    BY <2>1 DEF States
  <2>5. /\ b.runs = st.runs /\ b.q = st.q /\ b.fwd = st.fwd /\ b.watch = st.watch
    BY <2>1 DEF States
  <2>6. DOMAIN st.runs = 1..Len(st.runs) /\ Len(st.runs) \in Nat
    BY <2>1
  <2>7. b.svc[s] = f /\ \A t \in Svcs : t # s => b.svc[t] = st.svc[t]
    BY <2>1, <2>4
  <2>. QED
    BY <2>3, <2>5, <2>6, <2>7
<1>2. \A r \in DOMAIN st.runs : st.runs[r].svc \in Svcs
  <2>1. ASSUME NEW r \in DOMAIN st.runs
        PROVE  st.runs[r] \in Runs
    BY ElementOfSeq DEF Good, States
  <2>. QED
    BY <2>1 DEF Runs
<1>3. Named(b)
  <2>1. ASSUME NEW t \in Svcs
        PROVE  /\ b.svc[t].run \in 0..Len(b.runs) /\ b.svc[t].group \in 0..b.svc[t].run
               /\ b.svc[t].run # 0 => b.runs[b.svc[t].run].svc = t
               /\ b.svc[t].group # 0 => b.runs[b.svc[t].group].svc = t
               /\ b.svc[t].held # {} => b.svc[t].status \in {"Starting", "Failed"}
               /\ b.svc[t].status = "none" => b.svc[t] = NoService
    BY <1>1 DEF Good, Named, Entries
  <2>. QED
    BY <1>1, <2>1 DEF Good, Named
<1>4. Idle(b, s)
  BY <1>1 DEF Idle
<1>5. Owned(b, W \ {s})
  <2>1. ASSUME NEW r \in DOMAIN b.runs, b.runs[r].proc = "up"
        PROVE  b.runs[r].svc # s /\ b.svc[b.runs[r].svc] = st.svc[b.runs[r].svc]
    BY <1>1, <1>2, <2>1 DEF Idle
  <2>2. ASSUME NEW t \in Svcs, t # s
        PROVE  b.svc[t] = st.svc[t]
    BY <1>1, <2>2
  <2>. QED
    BY <1>1, <2>1, <2>2 DEF Good, Owned
<1>6. Spoken(b)
  BY <1>1 DEF Good, Spoken
<1>7. Truthful(b)
  BY <1>1 DEF Good, Truthful
<1>. QED
  BY <1>1, <1>3, <1>4, <1>5, <1>6, <1>7 DEF Good

(* Other services' entries stay. *)
Others(st, b, s) == \A t \in Svcs : t # s => b.svc[t] = st.svc[t]

(* stop_key leaves the service without a process, unwanted, and waiting    *)
(* for nobody.                                                             *)
LEMMA StopGood ==
  ASSUME NEW st, NEW W, Good(st, W), NEW s \in Svcs
  PROVE  LET b == stop_key(st, s) IN
         /\ Good(b, W \ {s}) /\ Idle(b, s) /\ ~b.svc[s].alive
         /\ b.svc[s] = NoService \/ b.svc[s].group = 0
         /\ b.svc[s].held = {}
         /\ b = [st EXCEPT !.svc = b.svc, !.runs = b.runs]
         /\ Others(st, b, s) /\ b.q = st.q /\ b.fwd = st.fwd
         /\ ~Live(b.svc[s])
<1>1. PICK b : b = stop_key(st, s)
  OBVIOUS
<1>2. CASE st.svc[s].status = "none"
  <2>1. b = st /\ b.svc[s] = NoService
    BY <1>1, <1>2 DEF stop_key, Good, Named
  <2>2. Idle(b, s)
    BY <1>2, <2>1, IdleIf
  <2>3. Owned(b, W \ {s})
    <3>1. ASSUME NEW r \in DOMAIN b.runs, b.runs[r].proc = "up"
          PROVE  b.runs[r].svc # s
      BY <2>1, <2>2, <3>1 DEF Idle
    <3>2. b.svc[s].held = {}
      BY <2>1 DEF NoService
    <3>. QED
      BY <2>1, <3>1, <3>2 DEF Good, Owned
  <2>4. Good(b, W \ {s})
    BY <2>1, <2>3 DEF Good
  <2>5. b = [st EXCEPT !.svc = b.svc, !.runs = b.runs]
    BY <2>1 DEF Good, States
  <2>. QED
    BY <1>1, <1>2, <2>1, <2>2, <2>4, <2>5 DEF NoService, Others, Live
<1>3. CASE st.svc[s].status # "none"
  <2>1. PICK k : k = Kill(st, s)
    OBVIOUS
  <2>2. /\ Good(k, W) /\ Idle(k, s)
        /\ k = [st EXCEPT !.svc = k.svc, !.runs = k.runs]
        /\ k.svc = [st.svc EXCEPT ![s] = [@ EXCEPT !.alive = FALSE, !.group = 0]]
        /\ k.svc[s].run # 0 => k.runs[k.svc[s].run].stopping
    BY <2>1, KillGood
  <2>3. PICK e \in Entries : e = st.svc[s]
    BY DEF Good, States
  <2>4. k.svc[s] = [e EXCEPT !.alive = FALSE, !.group = 0]
    BY <2>2, <2>3 DEF Good, States
  <2>5. PICK f \in Entries : f = [e EXCEPT !.alive = FALSE, !.group = 0,
                                          !.status = "Stopped", !.held = {}]
    BY DEF Entries, Statuses
  <2>6. f = [k.svc[s] EXCEPT !.status = "Stopped", !.held = {}]
    BY <2>4, <2>5 DEF Entries
  <2>7. b = [k EXCEPT !.svc = [k.svc EXCEPT ![s] = f]]
    <3>1. b = [k EXCEPT !.svc[s].status = "Stopped", !.svc[s].held = {}]
      BY <1>1, <1>3, <2>1 DEF stop_key
    <3>2. PICK g \in Entries : g = k.svc[s]
      BY <2>2 DEF Good, States
    <3>3. f = [g EXCEPT !.status = "Stopped", !.held = {}]
      BY <2>6, <3>2
    <3>4. PICK h \in Entries : h = [g EXCEPT !.status = "Stopped"]
      BY DEF Entries, Statuses
    <3>5. k \in States /\ k.svc \in [Svcs -> Entries]
      BY <2>2 DEF Good, States
    <3>6. PICK k1 : k1 = [k EXCEPT !.svc = [k.svc EXCEPT ![s] = h]]
      OBVIOUS
    <3>7. [k EXCEPT !.svc[s].status = "Stopped"] = k1
      BY <3>2, <3>4, <3>5, <3>6 DEF States
    <3>8. b = [k1 EXCEPT !.svc[s].held = {}]
      BY <3>1, <3>7
    <3>9. f = [h EXCEPT !.held = {}]
      BY <3>3, <3>4 DEF Entries
    <3>10. k1.svc = [k.svc EXCEPT ![s] = h] /\ k1.svc[s] = h
      BY <3>5, <3>6 DEF States
    <3>11. b = [k1 EXCEPT !.svc = [k1.svc EXCEPT ![s] = f]]
      BY <3>5, <3>6, <3>8, <3>9, <3>10 DEF States
    <3>12. [k1.svc EXCEPT ![s] = f] = [k.svc EXCEPT ![s] = f]
      BY <3>5, <3>10
    <3>. QED
      BY <3>5, <3>6, <3>11, <3>12 DEF States
  <2>8. /\ ~f.alive /\ f.held = {} /\ f.group = 0 /\ f.status = "Stopped"
        /\ f.run = k.svc[s].run
    BY <2>4, <2>5 DEF Entries
  <2>9. Good(b, W \ {s}) /\ Idle(b, s)
    BY <2>2, <2>7, <2>8, RestGood
  <2>10. b.svc[s] = f
    BY <2>2, <2>7 DEF Good, States
  <2>11. b = [st EXCEPT !.svc = b.svc, !.runs = b.runs]
    BY <2>2, <2>7 DEF Good, States
  <2>12. \A t \in Svcs : t # s => b.svc[t] = st.svc[t]
    BY <2>2, <2>7 DEF Good, States
  <2>13. b.q = st.q /\ b.fwd = st.fwd
    BY <2>2, <2>7 DEF Good, States
  <2>. QED
    BY <1>1, <1>3, <2>8, <2>9, <2>10, <2>11, <2>12, <2>13 DEF Others, Live
<1>. QED
  BY <1>2, <1>3

(* remove_service does, and forgets the entry. *)
LEMMA RemoveGood ==
  ASSUME NEW st, NEW W, Good(st, W), NEW s \in Svcs
  PROVE  LET b == remove_service(st, s) IN
         /\ Good(b, W \ {s})
         /\ \A t \in Svcs : t # s => b.svc[t] = st.svc[t]
         /\ b.svc[s] = NoService /\ b.q = st.q /\ b.fwd = st.fwd
<1>1. PICK a : a = stop_key(st, s)
  OBVIOUS
<1>2. /\ Good(a, W \ {s}) /\ Idle(a, s)
      /\ a = [st EXCEPT !.svc = a.svc, !.runs = a.runs]
      /\ Others(st, a, s)
  BY <1>1, StopGood
<1>3. PICK b : b = remove_service(st, s)
  OBVIOUS
<1>4. b = [a EXCEPT !.svc = [a.svc EXCEPT ![s] = NoService]]
  BY <1>1, <1>2, <1>3 DEF remove_service, Good, States
<1>5. NoService \in Entries
  BY DEF NoService, Entries, Statuses
<1>6. Good(b, (W \ {s}) \ {s})
  BY <1>2, <1>4, <1>5, RestGood DEF NoService
<1>7. (W \ {s}) \ {s} = W \ {s}
  OBVIOUS
<1>8. /\ b.svc = [a.svc EXCEPT ![s] = NoService] /\ b.q = st.q /\ b.fwd = st.fwd
  BY <1>2, <1>4 DEF Good, States
<1>9. b.svc[s] = NoService /\ \A t \in Svcs : t # s => b.svc[t] = st.svc[t]
  BY <1>2, <1>8 DEF Good, States, Others
<1>. QED
  BY <1>3, <1>6, <1>7, <1>8, <1>9

(* A new run of a service without a process. *)
Begins(st, W, s, run, e, kind) ==
  /\ run.svc = s /\ ~run.stopping /\ run.late = "no" /\ run.gone = "no"
  /\ run.ready # "no" => run.settled
  /\ e.run = Len(st.runs) + 1 /\ e.status \in {"Starting", "Failed"}
  /\ e.held # {} => s \in W
  /\ \/ /\ run.proc = "none" /\ ~e.alive /\ kind \in {"nothing", "Failed"}
        /\ run.ready = "no" /\ e.group = st.svc[s].group
     \/ /\ run.proc = "up" /\ e.alive /\ e.held = {} /\ s \in W
        /\ e.status = "Starting" /\ e.group = e.run
        /\ kind = IF run.ready = "sent" THEN "Running" ELSE "nothing"
Begun(st, s, run, e, kind) ==
  [st EXCEPT !.svc = [st.svc EXCEPT ![s] = e], !.runs = Append(st.runs, run),
             !.q = IF kind = "nothing" THEN st.q ELSE Append(st.q, Event(e.run, kind))]

(* A service without a process may begin a run, with or without one. *)
LEMMA BeginGood ==
  ASSUME NEW st, NEW W, Good(st, W), NEW s \in Svcs, Idle(st, s), NEW run \in Runs,
         NEW e \in Entries, NEW kind \in {"nothing", "Failed", "Running"},
         Begins(st, W, s, run, e, kind), NEW b, b = Begun(st, s, run, e, kind)
  PROVE  Good(b, W)
<1>1. /\ st \in States /\ st.svc \in [Svcs -> Entries] /\ st.runs \in Seq(Runs)
      /\ st.q \in Seq(Events)
  BY DEF Good, States
<1>2. PICK n \in Nat : n = Len(st.runs) + 1
  BY <1>1
<1>3. PICK rs \in Seq(Runs) : rs = Append(st.runs, run)
  BY <1>1, AppendProperties
<1>4. /\ DOMAIN st.runs = 1..(n - 1) /\ DOMAIN rs = 1..n /\ Len(rs) = n /\ rs[n] = run
      /\ \A r \in 1..(n - 1) : rs[r] = st.runs[r]
  BY <1>1, <1>2, <1>3
<1>5. e.run = n /\ n # 0
  BY <1>2, <1>1 DEF Begins
<1>6. PICK q : q = IF kind = "nothing" THEN st.q ELSE Append(st.q, Event(e.run, kind))
  OBVIOUS
<1>7. kind # "nothing" => Event(e.run, kind) \in Events
  BY <1>5 DEF Event, Events, Kinds
<1>8. /\ q \in Seq(Events)
      /\ \A i \in DOMAIN q :
           \/ i \in DOMAIN st.q /\ q[i] = st.q[i]
           \/ /\ kind # "nothing" /\ i = Len(st.q) + 1 /\ i \notin DOMAIN st.q
              /\ q[i].run = n /\ q[i].kind = kind
      /\ \A i \in DOMAIN st.q : i \in DOMAIN q /\ q[i] = st.q[i]
      /\ kind # "nothing" => \E i \in DOMAIN q : q[i].run = n /\ q[i].kind = kind
  <2>1. CASE kind = "nothing"
    BY <1>1, <1>6, <2>1
  <2>2. CASE kind # "nothing"
    <3>1. q = Append(st.q, Event(n, kind)) /\ Event(n, kind) \in Events
      BY <1>5, <1>6, <1>7, <2>2
    <3>2. /\ q \in Seq(Events) /\ Len(q) = Len(st.q) + 1 /\ Len(st.q) \in Nat
          /\ DOMAIN st.q = 1..Len(st.q) /\ DOMAIN q = 1..(Len(st.q) + 1)
          /\ q[Len(st.q) + 1] = Event(n, kind)
          /\ \A i \in 1..Len(st.q) : q[i] = st.q[i]
      BY <1>1, <3>1
    <3>3. Event(n, kind).run = n /\ Event(n, kind).kind = kind
      BY DEF Event
    <3>. QED
      BY <2>2, <3>2, <3>3
  <2>. QED
    BY <2>1, <2>2
<1>9. PICK sv \in [Svcs -> Entries] : sv = [st.svc EXCEPT ![s] = e]
  BY <1>1
<1>10. sv[s] = e /\ \A t \in Svcs : t # s => sv[t] = st.svc[t]
  BY <1>1, <1>9
<1>11. /\ b \in States /\ b.svc = sv /\ b.runs = rs /\ b.q = q /\ b.fwd = st.fwd
       /\ b.watch = st.watch
  BY <1>1, <1>3, <1>6, <1>8, <1>9 DEF Begun, States
<1>12. Named(b)
  <2>1. ASSUME NEW t \in Svcs
        PROVE  /\ b.svc[t].run \in 0..Len(b.runs) /\ b.svc[t].group \in 0..b.svc[t].run
               /\ b.svc[t].run # 0 => b.runs[b.svc[t].run].svc = t
               /\ b.svc[t].group # 0 => b.runs[b.svc[t].group].svc = t
               /\ b.svc[t].held # {} => b.svc[t].status \in {"Starting", "Failed"}
               /\ b.svc[t].status = "none" => b.svc[t] = NoService
    <3>1. /\ st.svc[t].run \in 0..(n - 1) /\ st.svc[t].group \in 0..st.svc[t].run
          /\ st.svc[t].run # 0 => st.runs[st.svc[t].run].svc = t
          /\ st.svc[t].group # 0 => st.runs[st.svc[t].group].svc = t
          /\ st.svc[t].held # {} => st.svc[t].status \in {"Starting", "Failed"}
          /\ st.svc[t].status = "none" => st.svc[t] = NoService
      BY <1>1, <1>2 DEF Good, Named
    <3>2. CASE t # s
      <4>1. b.svc[t] = st.svc[t]
        BY <1>10, <1>11, <3>2
      <4>2. st.svc[t].run # 0 => rs[st.svc[t].run] = st.runs[st.svc[t].run]
        BY <1>2, <1>4, <3>1
      <4>3. st.svc[t].group # 0 => rs[st.svc[t].group] = st.runs[st.svc[t].group]
        BY <1>2, <1>4, <3>1
      <4>. QED
        BY <1>2, <1>4, <1>11, <3>1, <4>1, <4>2, <4>3
    <3>3. CASE t = s
      <4>1. /\ e.group = n \/ e.group = st.svc[t].group
            /\ e.status \in {"Starting", "Failed"} /\ run.svc = s
        BY <1>5, <3>3 DEF Begins
      <4>. QED
        BY <1>2, <1>4, <1>5, <1>10, <1>11, <3>1, <3>3, <4>1
    <3>. QED
      BY <3>2, <3>3
  <2>2. ASSUME NEW i \in DOMAIN b.q
        PROVE  b.q[i].run \in DOMAIN b.runs
    <3>1. \A j \in DOMAIN st.q : st.q[j].run \in 1..(n - 1)
      BY <1>4 DEF Good, Named
    <3>2. b.q[i].run \in 1..(n - 1) \/ b.q[i].run = n
      BY <1>8, <1>11, <3>1
    <3>. QED
      BY <1>2, <1>4, <1>5, <1>11, <3>2
  <2>3. b.fwd.run \in 0..Len(b.watch)
    BY <1>11 DEF Good, Named
  <2>. QED
    BY <2>1, <2>2, <2>3 DEF Named
<1>13. Owned(b, W)
  <2>1. ASSUME NEW r \in DOMAIN b.runs, b.runs[r].proc = "up", NEW e2, e2 = b.svc[b.runs[r].svc]
        PROVE  /\ e2.run = r /\ e2.group = r /\ e2.alive
               /\ e2.status \in {"Starting", "Running", "Failed"}
               /\ b.runs[r].svc \in W
    <3>1. CASE r = n
      BY <1>4, <1>5, <1>10, <1>11, <2>1, <3>1 DEF Begins
    <3>2. CASE r # n
      <4>1. r \in DOMAIN st.runs /\ b.runs[r] = st.runs[r]
        BY <1>2, <1>4, <1>11, <2>1, <3>2
      <4>2. st.runs[r].svc # s /\ st.runs[r].svc \in Svcs
        <5>1. st.runs[r] \in Runs
          BY <1>1, <4>1, ElementOfSeq
        <5>. QED
          BY <2>1, <4>1, <5>1 DEF Idle, Runs
      <4>3. e2 = st.svc[st.runs[r].svc]
        BY <1>10, <1>11, <2>1, <4>1, <4>2
      <4>. QED
        BY <2>1, <4>1, <4>3 DEF Good, Owned
    <3>. QED
      BY <3>1, <3>2
  <2>2. ASSUME NEW t \in Svcs
        PROVE  /\ b.svc[t].alive => b.svc[t].run # 0 /\ b.runs[b.svc[t].run].proc # "none"
               /\ b.svc[t].held # {} => /\ b.svc[t].run # 0 /\ t \in W
                                        /\ b.runs[b.svc[t].run].proc = "none"
    <3>1. CASE t = s
      BY <1>4, <1>5, <1>10, <1>11, <3>1 DEF Begins
    <3>2. CASE t # s
      <4>1. /\ st.svc[t].alive => st.svc[t].run # 0 /\ st.runs[st.svc[t].run].proc # "none"
            /\ st.svc[t].held # {} => /\ st.svc[t].run # 0 /\ t \in W
                                      /\ st.runs[st.svc[t].run].proc = "none"
        BY DEF Good, Owned
      <4>2. st.svc[t].run \in 0..(n - 1)
        BY <1>1, <1>2 DEF Good, Named
      <4>3. st.svc[t].run # 0 => rs[st.svc[t].run] = st.runs[st.svc[t].run]
        BY <1>2, <1>4, <4>2
      <4>. QED
        BY <1>10, <1>11, <3>2, <4>1, <4>3
    <3>. QED
      BY <3>1, <3>2
  <2>. QED
    BY <2>1, <2>2 DEF Owned
<1>14. Spoken(b)
  <2>1. ASSUME NEW r \in DOMAIN b.runs
        PROVE  InOrder(b.runs[r])
    <3>1. CASE r = n
      BY <1>4, <1>11, <3>1 DEF Begins, InOrder
    <3>2. CASE r # n
      <4>1. r \in DOMAIN st.runs /\ b.runs[r] = st.runs[r]
        BY <1>2, <1>4, <1>11, <3>2
      <4>. QED
        BY <4>1 DEF Good, Spoken
    <3>. QED
      BY <3>1, <3>2
  <2>2. ASSUME NEW j \in DOMAIN st.q
        PROVE  st.q[j].run \in 1..(n - 1) /\ rs[st.q[j].run] = st.runs[st.q[j].run]
    BY <1>4 DEF Good, Named
  <2>3. ASSUME NEW i \in DOMAIN b.q
        PROVE  Said(b.runs[b.q[i].run], b.q[i].kind)
    <3>1. CASE i \in DOMAIN st.q /\ q[i] = st.q[i]
      BY <1>11, <2>2, <3>1 DEF Good, Spoken
    <3>2. CASE kind # "nothing" /\ q[i].run = n /\ q[i].kind = kind
      BY <1>4, <1>11, <3>2 DEF Begins, Said, Readies, Ends
    <3>. QED
      BY <1>8, <1>11, <3>1, <3>2
  <2>4. ASSUME NEW i \in DOMAIN b.q, NEW j \in DOMAIN b.q, i # j, b.q[i].run = b.q[j].run
        PROVE  ~Alike(b.q[i].kind, b.q[j].kind)
    <3>1. n \notin 1..(n - 1)
      BY <1>2
    <3>2. i \in DOMAIN st.q /\ j \in DOMAIN st.q /\ q[i] = st.q[i] /\ q[j] = st.q[j]
      BY <1>8, <1>11, <2>2, <2>4, <3>1
    <3>. QED
      BY <1>11, <2>4, <3>2 DEF Good, Spoken
  <2>. QED
    BY <2>1, <2>3, <2>4 DEF Spoken
<1>15. Truthful(b)
  <2>1. ASSUME NEW t \in Svcs, b.svc[t].run # 0, b.runs[b.svc[t].run].proc # "none",
               ~b.runs[b.svc[t].run].stopping
        PROVE  Tells(b.svc[t], b.runs[b.svc[t].run], b.q)
    <3>1. CASE t = s
      <4>1. b.svc[t] = e /\ b.runs[b.svc[t].run] = run /\ b.q = q
        BY <1>4, <1>5, <1>10, <1>11, <3>1
      <4>2. run.ready = "sent" => Waits(q, n, Readies)
        BY <1>8, <2>1, <4>1 DEF Begins, Waits, Readies
      <4>. QED
        BY <1>5, <2>1, <4>1, <4>2 DEF Begins, Tells
    <3>2. CASE t # s
      <4>1. st.svc[t].run \in 0..(n - 1) /\ b.svc[t] = st.svc[t]
        BY <1>1, <1>2, <1>10, <1>11, <3>2 DEF Good, Named
      <4>2. st.svc[t].run \in 1..(n - 1)
        BY <1>2, <2>1, <4>1
      <4>3. b.runs[b.svc[t].run] = st.runs[st.svc[t].run] /\ st.svc[t].run # n
        BY <1>2, <1>4, <1>11, <4>1, <4>2
      <4>4. ASSUME NEW kinds
            PROVE  Waits(q, st.svc[t].run, kinds) <=> Waits(st.q, st.svc[t].run, kinds)
        BY <1>8, <4>3 DEF Waits
      <4>5. Tells(st.svc[t], st.runs[st.svc[t].run], st.q)
        BY <2>1, <4>1, <4>3 DEF Good, Truthful
      <4>. QED
        BY <1>11, <4>1, <4>3, <4>4, <4>5 DEF Tells
    <3>. QED
      BY <3>1, <3>2
  <2>. QED
    BY <2>1 DEF Truthful
<1>. QED
  BY <1>11, <1>12, <1>13, <1>14, <1>15 DEF Good

(* Enters, and Enters with SendsFor, are a beginning. *)
LEMMA EntersIs ==
  ASSUME NEW st \in States, NEW s \in Svcs, NEW entry \in Entries, NEW run,
         NEW kind \in {"Failed", "Running"}
  PROVE  LET e == [entry EXCEPT !.run = Len(st.runs) + 1] IN
         /\ e \in Entries /\ e.run = Len(st.runs) + 1
         /\ Enters(st, s, entry, run) = Begun(st, s, run, e, "nothing")
         /\ SendsFor(Enters(st, s, entry, run), s, kind) = Begun(st, s, run, e, kind)
<1>1. PICK e : e = [entry EXCEPT !.run = Len(st.runs) + 1]
  OBVIOUS
<1>2. st.svc \in [Svcs -> Entries] /\ Len(st.runs) + 1 \in Nat
  BY DEF States
<1>3. e \in Entries /\ e.run = Len(st.runs) + 1
  BY <1>1, <1>2 DEF Entries
<1>4. PICK b : b = Enters(st, s, entry, run)
  OBVIOUS
<1>5. b = [st EXCEPT !.svc = [st.svc EXCEPT ![s] = e], !.runs = Append(st.runs, run)]
  BY <1>1, <1>2, <1>4 DEF Enters, States
<1>6. b = Begun(st, s, run, e, "nothing")
  BY <1>5 DEF Begun, States
<1>7. /\ b.svc[s] = e /\ b.svc = [st.svc EXCEPT ![s] = e] /\ b.q = st.q
  BY <1>2, <1>5 DEF States
<1>8. SendsFor(b, s, kind) = [b EXCEPT !.q = Append(st.q, Event(e.run, kind))]
  BY <1>5, <1>7 DEF SendsFor, States
<1>9. SendsFor(b, s, kind) = Begun(st, s, run, e, kind)
  BY <1>5, <1>8 DEF Begun, States
<1>. QED
  BY <1>1, <1>3, <1>4, <1>6, <1>9

(* What an operation on s may do to a state st: begin a run of s, or two   *)
(* steps of a kill and a beginning; other services are left alone.         *)
Elsewhere(st, b, s) ==
  /\ \A t \in Svcs : t # s => b.svc[t] = st.svc[t]
  /\ b.fwd = st.fwd

(* A beginning leaves the other services alone. *)
LEMMA BegunElsewhere ==
  ASSUME NEW st \in States, NEW s \in Svcs, NEW run, NEW e, NEW kind
  PROVE  /\ Elsewhere(st, Begun(st, s, run, e, kind), s)
         /\ Begun(st, s, run, e, kind).svc[s] = e
<1>1. st.svc \in [Svcs -> Entries]
  BY DEF States
<1>. QED
  BY <1>1 DEF Begun, Elsewhere, States

(* record_start_failure begins a failed run without a process, and sends. *)
LEMMA FailureGood ==
  ASSUME NEW st, NEW W, Good(st, W), NEW s \in Svcs, Idle(st, s)
  PROVE  LET b == record_start_failure(st, s) IN
         /\ Good(b, W) /\ Elsewhere(st, b, s)
         /\ b.svc[s].status = "Failed" /\ b.svc[s].held = {} /\ b.q # <<>>
<1>1. PICK entry \in Entries :
        entry = [NoService EXCEPT !.status = "Failed", !.group = st.svc[s].group]
  BY DEF Good, States, NoService, Entries, Statuses
<1>2. PICK b : b = record_start_failure(st, s)
  OBVIOUS
<1>3. PICK e : e = [entry EXCEPT !.run = Len(st.runs) + 1]
  OBVIOUS
<1>4. st \in States
  BY DEF Good
<1>5. /\ e \in Entries /\ e.run = Len(st.runs) + 1
      /\ SendsFor(Enters(st, s, entry, Processless(s)), s, "Failed") =
           Begun(st, s, Processless(s), e, "Failed")
  BY <1>3, <1>4, EntersIs
<1>6. b = Begun(st, s, Processless(s), e, "Failed")
  BY <1>1, <1>2, <1>5 DEF record_start_failure
<1>7. /\ e.status = "Failed" /\ e.held = {} /\ ~e.alive /\ e.group = st.svc[s].group
  BY <1>1, <1>3 DEF NoService, Entries
<1>8. Processless(s) \in Runs /\ Begins(st, W, s, Processless(s), e, "Failed")
  BY <1>5, <1>7 DEF Processless, Process, Runs, Begins
<1>9. Good(b, W)
  BY <1>5, <1>6, <1>8, BeginGood
<1>10. b.q # <<>>
  <2>1. b.q = Append(st.q, Event(e.run, "Failed")) /\ st.q \in Seq(Events)
    BY <1>4, <1>6 DEF Begun, States
  <2>2. Event(e.run, "Failed") \in Events
    BY <1>5 DEF Event, Events, Entries, Kinds
  <2>. QED
    BY <2>1, <2>2
<1>. QED
  BY <1>2, <1>4, <1>6, <1>7, <1>9, <1>10, BegunElsewhere

(* hold begins a run without a process, which waits or has failed; a       *)
(* failure is sent.                                                        *)
LEMMA HoldGood ==
  ASSUME NEW st, NEW W, Good(st, W), NEW s \in W, s \in Svcs, Idle(st, s),
         NEW deps \in SUBSET Names, NEW failed \in BOOLEAN, NEW refused \in BOOLEAN
  PROVE  LET b == hold(st, s, deps, failed, refused) IN
         /\ Good(b, W) /\ Elsewhere(st, b, s)
         /\ failed \/ refused => b.q # <<>>
         /\ ~failed /\ ~refused => b.svc[s].status = "Starting" /\ b.svc[s].held = deps
         /\ b.q = st.q \/ b.q # <<>>
<1>1. PICK b : b = hold(st, s, deps, failed, refused)
  OBVIOUS
<1>2. CASE refused
  <2>1. b = record_start_failure(st, s)
    BY <1>1, <1>2 DEF hold
  <2>2. /\ Good(b, W) /\ Elsewhere(st, b, s)
        /\ b.svc[s].status = "Failed" /\ b.svc[s].held = {} /\ b.q # <<>>
    BY <2>1, FailureGood
  <2>. QED
    BY <1>1, <1>2, <2>2
<1>3. CASE ~refused
  <2>1. PICK status \in {"Failed", "Starting"} : status = IF failed THEN "Failed" ELSE "Starting"
    OBVIOUS
  <2>2. PICK entry \in Entries : entry = [NoService EXCEPT !.status = status, !.held = deps,
                                                          !.group = st.svc[s].group]
    BY DEF Good, States, NoService, Entries, Statuses
  <2>3. PICK e : e = [entry EXCEPT !.run = Len(st.runs) + 1]
    OBVIOUS
  <2>4. st \in States
    BY DEF Good
  <2>5. PICK kind \in {"nothing", "Failed"} : kind = IF failed THEN "Failed" ELSE "nothing"
    OBVIOUS
  <2>6. /\ e \in Entries /\ e.run = Len(st.runs) + 1
        /\ Enters(st, s, entry, Processless(s)) = Begun(st, s, Processless(s), e, "nothing")
        /\ SendsFor(Enters(st, s, entry, Processless(s)), s, "Failed") =
             Begun(st, s, Processless(s), e, "Failed")
    BY <2>3, <2>4, EntersIs
  <2>7. b = Begun(st, s, Processless(s), e, kind)
    BY <1>1, <1>3, <2>1, <2>2, <2>5, <2>6 DEF hold
  <2>8. /\ e.status = status /\ e.held = deps /\ ~e.alive /\ e.group = st.svc[s].group
    BY <2>2, <2>3 DEF NoService, Entries
  <2>9. Processless(s) \in Runs /\ Begins(st, W, s, Processless(s), e, kind)
    BY <2>6, <2>8 DEF Processless, Process, Runs, Begins
  <2>10. Good(b, W)
    BY <2>6, <2>7, <2>9, BeginGood
  <2>11. /\ b.q = IF kind = "nothing" THEN st.q ELSE Append(st.q, Event(e.run, kind))
         /\ st.q \in Seq(Events)
    BY <2>4, <2>7 DEF Begun, States
  <2>12. kind # "nothing" => b.q # <<>>
    BY <2>11, <2>6 DEF Event, Events, Entries, Kinds
  <2>13. Elsewhere(st, b, s) /\ b.svc[s] = e
    BY <2>4, <2>7, BegunElsewhere
  <2>. QED
    BY <1>1, <1>3, <2>1, <2>5, <2>8, <2>10, <2>11, <2>12, <2>13
<1>. QED
  BY <1>2, <1>3

(* st with the forward f and the watchers w. *)
WithForward(st, f, w) == [st EXCEPT !.fwd = f, !.watch = w]

(* A change of the forward and its watchers disturbs no service. *)
LEMMA ForwardGood ==
  ASSUME NEW st, NEW W, Good(st, W), NEW f \in Forwards, NEW w \in Seq(Watchers),
         f.run \in 0..Len(w), NEW b, b = WithForward(st, f, w)
  PROVE  /\ Good(b, W) /\ b.svc = st.svc /\ b.runs = st.runs /\ b.q = st.q /\ b.fwd = f
<1>1. /\ b \in States /\ b.svc = st.svc /\ b.runs = st.runs /\ b.q = st.q
      /\ b.fwd = f /\ b.watch = w
  BY DEF Good, States, WithForward
<1>2. Named(b)
  BY <1>1 DEF Good, Named
<1>3. Owned(b, W)
  BY <1>1 DEF Good, Owned
<1>4. Spoken(b) /\ Truthful(b)
  BY <1>1 DEF Good, Spoken, Truthful
<1>. QED
  BY <1>1, <1>2, <1>3, <1>4 DEF Good

(* insert_starting leaves the forward as it was, or starting. *)
LEMMA InsertGood ==
  ASSUME NEW st, NEW W, Good(st, W), NEW cfg \in Nat, NEW dependent \in BOOLEAN
  PROVE  LET b == insert_starting(st, cfg, dependent) IN
         /\ Good(b, W) /\ b.svc = st.svc /\ b.runs = st.runs /\ b.q = st.q
         /\ b.fwd = st.fwd \/ b.fwd.status = "Starting"
         /\ b.fwd.status \in Up
<1>1. PICK b : b = insert_starting(st, cfg, dependent)
  OBVIOUS
<1>2. CASE st.fwd.status \in Up
  BY <1>1, <1>2 DEF insert_starting
<1>3. CASE st.fwd.status \notin Up
  <2>1. st \in States /\ st.watch \in Seq(Watchers) /\ Len(st.watch) + 1 \in Nat
    BY DEF Good, States
  <2>2. PICK x : x = [at |-> IF dependent THEN "probe" ELSE "look", once |-> FALSE, fails |-> 0]
    OBVIOUS
  <2>3. x \in Watchers
    BY <2>2, PortForwardAssumption DEF Watchers, Steps, PortForwardAssumption
  <2>4. PICK w : w = Append(st.watch, x)
    OBVIOUS
  <2>a. w \in Seq(Watchers) /\ Len(w) = Len(st.watch) + 1
    BY <2>1, <2>3, <2>4, AppendProperties
  <2>5. PICK f : f = [status |-> "Starting", served |-> FALSE,
                      run |-> Len(st.watch) + 1, cfg |-> cfg]
    OBVIOUS
  <2>6. f \in Forwards /\ f.run \in 0..Len(w) /\ f.status = "Starting"
    BY <2>1, <2>a, <2>5 DEF Forwards, PfStatuses
  <2>7. b = WithForward(st, f, w)
    BY <1>1, <1>3, <2>1, <2>2, <2>4, <2>5 DEF insert_starting, States, WithForward
  <2>8. Good(b, W) /\ b.svc = st.svc /\ b.runs = st.runs /\ b.q = st.q /\ b.fwd = f
    BY <2>a, <2>6, <2>7, ForwardGood
  <2>. QED
    BY <1>1, <2>6, <2>8 DEF Up
<1>. QED
  BY <1>2, <1>3

(* stop_forward leaves it stopped, or not there. *)
LEMMA StopForwardGood ==
  ASSUME NEW st, NEW W, Good(st, W)
  PROVE  LET b == stop_forward(st) IN
         Good(b, W) /\ b.svc = st.svc /\ b.runs = st.runs /\ b.q = st.q
<1>1. PICK b : b = stop_forward(st)
  OBVIOUS
<1>2. CASE st.fwd.status = "none"
  BY <1>1, <1>2 DEF stop_forward
<1>3. CASE st.fwd.status # "none"
  <2>1. /\ st \in States /\ st.watch \in Seq(Watchers) /\ Len(st.watch) \in Nat
        /\ DOMAIN st.watch = 1..Len(st.watch) /\ st.fwd \in Forwards
    BY DEF Good, States
  <2>2. PICK w : w = [g \in DOMAIN st.watch |->
                        IF g = st.fwd.run /\ st.watch[g].at \in Hears
                        THEN [st.watch[g] EXCEPT !.at = "gone"] ELSE st.watch[g]]
    OBVIOUS
  <2>3. ASSUME NEW g \in DOMAIN st.watch
        PROVE  w[g] \in Watchers
    <3>1. st.watch[g] \in Watchers
      BY <2>1, ElementOfSeq
    <3>. QED
      BY <2>2, <3>1 DEF Watchers, Steps
  <2>4. w \in [1..Len(st.watch) -> Watchers]
    BY <2>1, <2>2, <2>3
  <2>5. w \in Seq(Watchers) /\ Len(w) = Len(st.watch)
    BY <2>1, <2>4
  <2>6. PICK f \in Forwards : f = [st.fwd EXCEPT !.status = "Stopped"]
    BY <2>1 DEF Forwards, PfStatuses
  <2>7. f.run \in 0..Len(w)
    BY <2>1, <2>5, <2>6 DEF Good, Named, Forwards
  <2>8. b = WithForward(st, f, w)
    BY <1>1, <1>3, <2>1, <2>2, <2>6 DEF stop_forward, States, WithForward
  <2>9. Good(b, W) /\ b.svc = st.svc /\ b.runs = st.runs /\ b.q = st.q
    <3>1. f \in Forwards /\ w \in Seq(Watchers)
      BY <2>5, <2>6
    <3>. QED
      BY <2>7, <2>8, <3>1, ForwardGood
  <2>. QED
    BY <1>1, <2>9
<1>. QED
  BY <1>2, <1>3

(* remove_forward leaves it not there. *)
LEMMA RemoveForwardGood ==
  ASSUME NEW st, NEW W, Good(st, W)
  PROVE  LET b == remove_forward(st) IN
         Good(b, W) /\ b.svc = st.svc /\ b.runs = st.runs /\ b.q = st.q
<1>1. PICK a : a = stop_forward(st)
  OBVIOUS
<1>2. Good(a, W) /\ a.svc = st.svc /\ a.runs = st.runs /\ a.q = st.q
  BY <1>1, StopForwardGood
<1>3. PICK b : b = remove_forward(st)
  OBVIOUS
<1>4. a.watch \in Seq(Watchers) /\ Len(a.watch) \in Nat /\ a \in States
  BY <1>2 DEF Good, States
<1>5. b = WithForward(a, NoForward, a.watch)
  BY <1>1, <1>3, <1>4 DEF remove_forward, States, WithForward
<1>6. NoForward \in Forwards /\ NoForward.run \in 0..Len(a.watch)
  BY <1>4 DEF NoForward, Forwards, PfStatuses
<1>7. Good(b, W) /\ b.svc = a.svc /\ b.runs = a.runs /\ b.q = a.q
  BY <1>2, <1>4, <1>5, <1>6, ForwardGood
<1>. QED
  BY <1>2, <1>3, <1>7

(* apply_pf_event changes the forward only. *)
LEMMA PfEventGood ==
  ASSUME NEW st, NEW W, Good(st, W), NEW kind \in PfKinds
  PROVE  LET b == apply_pf_event(st, kind) IN
         Good(b, W) /\ b.svc = st.svc /\ b.runs = st.runs /\ b.q = st.q
<1>1. PICK b : b = apply_pf_event(st, kind)
  OBVIOUS
<1>2. /\ st \in States /\ st.fwd \in Forwards /\ st.watch \in Seq(Watchers)
      /\ st.fwd.run \in 0..Len(st.watch)
  BY DEF Good, States, Named
<1>3. \/ b = st
      \/ \E x \in PfStatuses, y \in BOOLEAN :
           b = WithForward(st, [st.fwd EXCEPT !.status = x, !.served = y], st.watch)
  <2>1. ASSUME NEW x \in PfStatuses, NEW y \in BOOLEAN
        PROVE  /\ [st EXCEPT !.fwd.status = x] =
                    WithForward(st, [st.fwd EXCEPT !.status = x, !.served = st.fwd.served],
                                st.watch)
               /\ [st EXCEPT !.fwd.status = x, !.fwd.served = y] =
                    WithForward(st, [st.fwd EXCEPT !.status = x, !.served = y], st.watch)
    BY <1>2 DEF States, Forwards, WithForward
  <2>2. st.fwd.served \in BOOLEAN
    BY <1>2 DEF Forwards
  <2>. QED
    BY <1>1, <2>1, <2>2 DEF apply_pf_event, PfKinds, PfStatuses
<1>4. ASSUME NEW x \in PfStatuses, NEW y \in BOOLEAN,
             b = WithForward(st, [st.fwd EXCEPT !.status = x, !.served = y], st.watch)
      PROVE  Good(b, W) /\ b.svc = st.svc /\ b.runs = st.runs /\ b.q = st.q
  <2>1. PICK f \in Forwards : f = [st.fwd EXCEPT !.status = x, !.served = y]
    BY <1>2 DEF Forwards
  <2>2. f.run \in 0..Len(st.watch)
    BY <1>2, <2>1 DEF Forwards
  <2>. QED
    <3>1. b = WithForward(st, f, st.watch)
      BY <1>4, <2>1
    <3>. QED
      BY <1>2, <2>2, <3>1, ForwardGood
<1>. QED
  BY <1>1, <1>3, <1>4

(* start ends with the service up, or running already, or failed and sent. *)
LEMMA StartGood ==
  ASSUME NEW st, NEW W, Good(st, W), NEW s \in W, s \in Svcs, NEW refused \in BOOLEAN
  PROVE  LET b == start(st, s, refused) IN
         /\ Good(b, W) /\ Elsewhere(st, b, s)
         /\ \/ b = st /\ Live(st.svc[s]) /\ st.svc[s].held = {}
            \/ /\ b.svc[s].held = {}
               /\ \/ b.q # <<>>
                  \/ b.svc[s].status = "Starting" /\ b.q = st.q
         /\ b.q = st.q \/ b.q # <<>>
<1>1. PICK b : b = start(st, s, refused)
  OBVIOUS
<1>2. CASE Live(st.svc[s]) /\ st.svc[s].held = {}
  <2>1. b = st
    BY <1>1, <1>2 DEF start
  <2>. QED
    BY <1>1, <1>2, <2>1 DEF Elsewhere
<1>3. CASE ~(Live(st.svc[s]) /\ st.svc[s].held = {})
  <2>1. PICK free : free = IF st.svc[s].status = "none" THEN st ELSE Kill(st, s)
    OBVIOUS
  <2>2. /\ Good(free, W) /\ Idle(free, s) /\ free.q = st.q /\ Len(free.runs) = Len(st.runs)
        /\ Elsewhere(st, free, s)
    <3>1. CASE st.svc[s].status = "none"
      BY <2>1, <3>1, IdleIf DEF Elsewhere
    <3>2. CASE st.svc[s].status # "none"
      <4>1. /\ Good(free, W) /\ Idle(free, s)
            /\ free = [st EXCEPT !.svc = free.svc, !.runs = free.runs]
            /\ free.svc = [st.svc EXCEPT ![s] = [@ EXCEPT !.alive = FALSE, !.group = 0]]
        BY <2>1, <3>2, KillGood
      <4>2. free.q = st.q /\ free.fwd = st.fwd
        BY <4>1 DEF Good, States
      <4>3. \A t \in Svcs : t # s => free.svc[t] = st.svc[t]
        BY <4>1 DEF Good, States
      <4>4. Len(free.runs) = Len(st.runs)
        BY <2>1, <3>2, KillSize
      <4>. QED
        BY <4>1, <4>2, <4>3, <4>4 DEF Elsewhere
    <3>. QED
      BY <3>1, <3>2
  <2>3. CASE refused
    <3>1. b = record_start_failure(free, s)
      BY <1>1, <1>3, <2>1, <2>3 DEF start
    <3>2. /\ Good(b, W) /\ Elsewhere(free, b, s)
          /\ b.svc[s].status = "Failed" /\ b.svc[s].held = {} /\ b.q # <<>>
      BY <2>2, <3>1, FailureGood
    <3>. QED
      BY <1>1, <2>2, <3>2 DEF Elsewhere
  <2>4. CASE ~refused
    <3>1. PICK entry \in Entries :
            entry = [NoService EXCEPT !.status = "Starting", !.alive = TRUE,
                                      !.group = Len(st.runs) + 1]
      <4>1. Len(st.runs) + 1 \in Nat
        BY DEF Good, States
      <4>. QED
        BY <4>1 DEF NoService, Entries, Statuses
    <3>2. PICK e : e = [entry EXCEPT !.run = Len(free.runs) + 1]
      OBVIOUS
    <3>3. PICK ready : ready = [Process(s) EXCEPT !.settled = TRUE, !.ready = "sent"]
      OBVIOUS
    <3>4. PICK run \in Runs : run = IF s \in Unprobed THEN ready ELSE Process(s)
      <4>1. Process(s) \in Runs
        BY DEF Process, Runs
      <4>2. ready \in Runs
        BY <3>3, <4>1 DEF Runs
      <4>. QED
        BY <4>1, <4>2
    <3>5. PICK kind \in {"nothing", "Running"} :
            kind = IF s \in Unprobed THEN "Running" ELSE "nothing"
      OBVIOUS
    <3>6. free \in States
      BY <2>2 DEF Good
    <3>7. /\ e \in Entries /\ e.run = Len(free.runs) + 1
          /\ Enters(free, s, entry, run) = Begun(free, s, run, e, "nothing")
          /\ SendsFor(Enters(free, s, entry, run), s, "Running") =
               Begun(free, s, run, e, "Running")
      BY <3>2, <3>6, EntersIs
    <3>8. b = Begun(free, s, run, e, kind)
      BY <1>1, <1>3, <2>1, <2>4, <3>1, <3>3, <3>4, <3>5, <3>7 DEF start
    <3>9. e.status = "Starting" /\ e.held = {} /\ e.alive /\ e.group = e.run
      BY <2>2, <3>1, <3>2 DEF NoService, Entries
    <3>10. Begins(free, W, s, run, e, kind)
      <4>1. /\ run.svc = s /\ ~run.stopping /\ run.late = "no" /\ run.gone = "no"
            /\ run.proc = "up" /\ (run.ready = "sent" <=> s \in Unprobed)
            /\ run.ready # "no" => run.settled
        BY <3>3, <3>4 DEF Process
      <4>. QED
        BY <3>5, <3>7, <3>9, <4>1 DEF Begins
    <3>11. Good(b, W)
      BY <2>2, <3>7, <3>8, <3>10, BeginGood
    <3>12. Elsewhere(free, b, s) /\ b.svc[s] = e
      BY <3>6, <3>8, BegunElsewhere
    <3>13. /\ b.q = IF kind = "nothing" THEN free.q ELSE Append(free.q, Event(e.run, kind))
           /\ free.q \in Seq(Events)
      BY <3>6, <3>8 DEF Begun, States
    <3>14. kind # "nothing" => b.q # <<>>
      <4>1. Event(e.run, "Running") \in Events
        BY <3>7 DEF Event, Events, Entries, Kinds
      <4>. QED
        BY <3>5, <3>13, <4>1
    <3>. QED
      BY <1>1, <2>2, <3>9, <3>11, <3>12, <3>13, <3>14 DEF Elsewhere
  <2>. QED
    BY <2>3, <2>4
<1>. QED
  BY <1>2, <1>3

-----------------------------------------------------------------------------
(* Whether the services held back are held rightly, by the declarations c:  *)
(* all but P, and as if the dependencies X were coming up.                  *)

Coming(st, c, deps, X) ==
  \E dep \in deps : dep \in X \/ dependency_state(st, c, dep) = "Pending"
Barred(st, c, deps, X) ==
  \E dep \in deps \ X : dependency_state(st, c, dep) = "Unavailable"
Rightly(st, c, s, X) ==
  LET e == st.svc[s] IN
  IF e.status = "Starting"
  THEN Coming(st, c, e.held, X) /\ ~Barred(st, c, e.held, X)
  ELSE Coming(st, c, e.held, X) \/ Barred(st, c, e.held, X)
Calm(st, c, X, P) ==
  st.q # <<>> \/ \A s \in waiting_in_project(st) \ P : Rightly(st, c, s, X)

(* dependency_gate: one dependency that is unavailable bars, otherwise one *)
(* that is pending holds back.                                             *)
LEMMA GateIs ==
  ASSUME NEW st, NEW c, NEW deps
  PROVE  LET gate == dependency_gate(st, c, deps) IN
         /\ gate \in {"Go", "Wait", "Fail"}
         /\ gate = "Fail" <=> Barred(st, c, deps, {})
         /\ gate = "Wait" <=> Coming(st, c, deps, {}) /\ ~Barred(st, c, deps, {})
<1>1. PICK states : states = {dependency_state(st, c, dep) : dep \in deps}
  OBVIOUS
<1>2. "Unavailable" \in states <=> Barred(st, c, deps, {})
  BY <1>1 DEF Barred
<1>3. "Pending" \in states <=> Coming(st, c, deps, {})
  BY <1>1 DEF Coming
<1>4. dependency_gate(st, c, deps) =
        IF "Unavailable" \in states THEN "Fail"
        ELSE IF "Pending" \in states THEN "Wait" ELSE "Go"
  BY <1>1 DEF dependency_gate
<1>. QED
  BY <1>2, <1>3, <1>4

(* Dependencies that stay as they are or begin to come up change nothing.  *)
LEMMA CalmStep ==
  ASSUME NEW st, NEW b, NEW c, NEW X, NEW Y, NEW P, NEW Q, Calm(st, c, X, P),
         st.q # <<>> => b.q # <<>>,
         \A dep \in Names :
           \/ dep \in Y \/ dependency_state(b, c, dep) = "Pending"
           \/ dep \notin X /\ dependency_state(b, c, dep) = dependency_state(st, c, dep),
         \A w \in Svcs : b.svc[w].held \subseteq Names,
         \A w \in waiting_in_project(b) \ Q :
           \/ /\ w \in waiting_in_project(st) \ P
              /\ b.svc[w].status = st.svc[w].status /\ b.svc[w].held = st.svc[w].held
           \/ b.q # <<>> \/ Rightly(b, c, w, Y)
  PROVE  Calm(b, c, Y, Q)
<1>1. SUFFICES ASSUME b.q = <<>>, NEW w \in waiting_in_project(b) \ Q
               PROVE  Rightly(b, c, w, Y)
  BY DEF Calm
<1>2. CASE /\ w \in waiting_in_project(st) \ P
           /\ b.svc[w].status = st.svc[w].status /\ b.svc[w].held = st.svc[w].held
  <2>1. Rightly(st, c, w, X)
    BY <1>1, <1>2 DEF Calm
  <2>2. PICK deps : deps = b.svc[w].held
    OBVIOUS
  <2>3. deps \subseteq Names
    BY <1>1, <2>2 DEF waiting_in_project
  <2>4. Coming(st, c, deps, X) => Coming(b, c, deps, Y)
    <3>1. ASSUME NEW dep \in deps, dep \in X \/ dependency_state(st, c, dep) = "Pending"
          PROVE  dep \in Y \/ dependency_state(b, c, dep) = "Pending"
      BY <2>3, <3>1
    <3>. QED
      BY <3>1 DEF Coming
  <2>5. Barred(b, c, deps, Y) => Barred(st, c, deps, X)
    <3>1. ASSUME NEW dep \in deps \ Y, dependency_state(b, c, dep) = "Unavailable"
          PROVE  dep \notin X /\ dependency_state(st, c, dep) = "Unavailable"
      BY <2>3, <3>1
    <3>. QED
      BY <3>1 DEF Barred
  <2>6. Barred(st, c, deps, X) => Barred(b, c, deps, Y) \/ Coming(b, c, deps, Y)
    <3>1. ASSUME NEW dep \in deps \ X, dependency_state(st, c, dep) = "Unavailable"
          PROVE  \/ dep \in Y \/ dependency_state(b, c, dep) = "Pending"
                 \/ dependency_state(b, c, dep) = "Unavailable"
      BY <2>3, <3>1
    <3>. QED
      BY <3>1 DEF Barred, Coming
  <2>. QED
    BY <1>2, <2>1, <2>2, <2>4, <2>5, <2>6 DEF Rightly
<1>. QED
  BY <1>1, <1>2

(* The state of a dependency is read from its own entry only. *)
LEMMA StateOf ==
  ASSUME NEW st, NEW b, NEW c, NEW dep \in Names
  PROVE  /\ dep \in Svcs /\ b.svc[dep] = st.svc[dep] =>
              dependency_state(b, c, dep) = dependency_state(st, c, dep)
         /\ dep \in Svcs /\ b.svc[dep].status = "Starting" =>
              dependency_state(b, c, dep) = "Pending"
         /\ dep = Fwd /\ b.fwd = st.fwd =>
              dependency_state(b, c, dep) = dependency_state(st, c, dep)
         /\ dep = Fwd /\ b.fwd.status = "Starting" =>
              dependency_state(b, c, dep) = "Pending"
<1>1. Fwd \notin Svcs
  BY ServiceAssumption DEF ServiceAssumption
<1>. QED
  BY <1>1 DEF dependency_state, forward_state, Names

(* start_for_dependents starts a declared forward that its dependents      *)
(* need, and nothing else.                                                 *)
LEMMA AsksForward ==
  ASSUME NEW st, NEW W, Good(st, W), NEW c \in Configs, NEW deps
  PROVE  LET b == StartsForward(st, c, deps) IN
         /\ Good(b, W) /\ b.svc = st.svc /\ b.runs = st.runs /\ b.q = st.q
         /\ b.fwd = st.fwd \/ b.fwd.status = "Starting"
         /\ Fwd \in deps /\ c.fwd # 0 => b.fwd.status # "none"
<1>1. PICK b : b = StartsForward(st, c, deps)
  OBVIOUS
<1>2. c.fwd \in Nat
  BY ServiceAssumption DEF ServiceAssumption, Declared
<1>3. CASE Fwd \in deps /\ c.fwd # 0
  <2>1. b = insert_starting(st, c.fwd, TRUE)
    BY <1>1, <1>3 DEF StartsForward
  <2>2. PICK dependent \in BOOLEAN : dependent = TRUE
    OBVIOUS
  <2>3. b = insert_starting(st, c.fwd, dependent)
    BY <2>1, <2>2
  <2>4. /\ Good(b, W) /\ b.svc = st.svc /\ b.runs = st.runs /\ b.q = st.q
        /\ b.fwd = st.fwd \/ b.fwd.status = "Starting"
        /\ b.fwd.status \in Up
    BY <1>2, <2>3, InsertGood
  <2>. QED
    BY <1>1, <2>4 DEF Up
<1>4. CASE ~(Fwd \in deps /\ c.fwd # 0)
  BY <1>1, <1>4 DEF StartsForward
<1>. QED
  BY <1>3, <1>4

(* A handler's step at s: others are left alone, and s ends up coming up,  *)
(* told of, or held rightly.                                               *)
LEMMA CalmAt ==
  ASSUME NEW st, NEW b, NEW W, Good(st, W), Good(b, W), NEW s \in Svcs, NEW c, NEW X, NEW P,
         \A t \in Svcs : t # s => b.svc[t] = st.svc[t],
         st.q # <<>> => b.q # <<>>,
         b.fwd = st.fwd \/ b.fwd.status = "Starting",
         \/ b.q # <<>>
         \/ b.svc[s].status = "Starting" /\ (b.svc[s].held # {} => Rightly(b, c, s, X \ {s})),
         Calm(st, c, X, P)
  PROVE  Calm(b, c, X \ {s}, P \ {s})
<1>1. ASSUME NEW dep \in Names, b.q = <<>>
      PROVE  \/ dep \in X \ {s} \/ dependency_state(b, c, dep) = "Pending"
             \/ dep \notin X /\ dependency_state(b, c, dep) = dependency_state(st, c, dep)
  <2>1. CASE dep = Fwd
    <3>1. Fwd # s
      BY ServiceAssumption DEF ServiceAssumption
    <3>. QED
      BY <2>1, <3>1, StateOf
  <2>2. CASE dep = s
    BY <1>1, <2>2, StateOf
  <2>3. CASE dep \in Svcs /\ dep # s
    BY <2>3, StateOf
  <2>. QED
    BY <2>1, <2>2, <2>3 DEF Names
<1>2. \A w \in Svcs : b.svc[w].held \subseteq Names
  BY DEF Good, States, Entries
<1>3. ASSUME NEW w \in waiting_in_project(b) \ (P \ {s}), b.q = <<>>
      PROVE  \/ /\ w \in waiting_in_project(st) \ P
                /\ b.svc[w].status = st.svc[w].status /\ b.svc[w].held = st.svc[w].held
             \/ Rightly(b, c, w, X \ {s})
  BY <1>3 DEF waiting_in_project
<1>4. CASE b.q # <<>>
  BY <1>4 DEF Calm
<1>5. CASE b.q = <<>>
  BY <1>1, <1>2, <1>3, <1>5, CalmStep
<1>. QED
  BY <1>4, <1>5

(* A service that hold makes wait does so for a dependency that is pending *)
(* by the applied file too: it names a service that starts or a forward    *)
(* that has an entry.                                                      *)
LEMMA HeldRightly ==
  ASSUME NEW st, NEW b, NEW s \in Svcs, NEW c \in Configs, NEW a, NEW deps \in SUBSET Names, NEW X,
         \A t \in Svcs : t # s => b.svc[t] = st.svc[t], b.fwd = st.fwd,
         Fwd \in deps /\ c.fwd # 0 => st.fwd.status # "none",
         b.svc[s].status = "Starting", b.svc[s].held = deps,
         dependency_gate(st, c, deps) = "Wait"
  PROVE  Rightly(b, a, s, X)
<1>1. Coming(st, c, deps, {}) /\ ~Barred(st, c, deps, {})
  BY GateIs
<1>2. ASSUME NEW dep \in deps
      PROVE  /\ dependency_state(st, c, dep) = "Pending" => dependency_state(b, a, dep) = "Pending"
             /\ dependency_state(b, a, dep) = "Unavailable" => dependency_state(st, c, dep) = "Unavailable"
  <2>1. CASE dep = s
    <3>1. dependency_state(b, a, dep) = "Pending"
      BY <2>1, StateOf DEF Names
    <3>. QED
      BY <3>1
  <2>2. CASE dep \in Svcs /\ dep # s
    BY <2>2 DEF dependency_state, Names
  <2>3. CASE dep = Fwd
    <3>1. Fwd \notin Svcs
      BY ServiceAssumption DEF ServiceAssumption
    <3>2. CASE st.fwd.status = "none"
      BY <2>3, <3>1, <3>2 DEF dependency_state
    <3>3. CASE st.fwd.status # "none"
      BY <2>3, <3>1, <3>3 DEF dependency_state
    <3>. QED
      BY <3>2, <3>3
  <2>. QED
    BY <2>1, <2>2, <2>3 DEF Names
<1>3. Coming(b, a, deps, X)
  BY <1>1, <1>2 DEF Coming
<1>4. ~Barred(b, a, deps, X)
  BY <1>1, <1>2 DEF Barred
<1>. QED
  BY <1>3, <1>4 DEF Rightly

(* launch_service, as one step of Launch: it takes s from the dependencies *)
(* X that are yet to be started.                                           *)
LEMMA LaunchOne ==
  ASSUME NEW st, NEW W, Good(st, W), NEW s \in W, s \in Svcs, NEW c \in Configs,
         NEW explicit \in BOOLEAN, NEW bad, NEW a, NEW X,
         Live(st.svc[s]) \/ st.svc[s].alive => s \notin X
  PROVE  LET b == launch_service(st, c, s, explicit, bad) IN
         /\ Good(b, W)
         /\ Others(st, b, s)
         /\ Calm(st, a, X, {}) => Calm(b, a, X \ {s}, {})
<1>1. PICK b : b = launch_service(st, c, s, explicit, bad)
  OBVIOUS
<1>2. CASE Live(st.svc[s]) \/ (st.svc[s].alive /\ ~explicit)
  <2>1. b = st
    BY <1>1, <1>2 DEF launch_service
  <2>2. X \ {s} = X
    BY <1>2
  <2>. QED
    BY <1>1, <2>1, <2>2 DEF Others
<1>3. CASE ~(Live(st.svc[s]) \/ (st.svc[s].alive /\ ~explicit))
  <2>1. PICK free : free = IF st.svc[s].alive THEN stop_key(st, s) ELSE st
    OBVIOUS
  <2>2. /\ Good(free, W) /\ Idle(free, s) /\ free.q = st.q /\ free.fwd = st.fwd
        /\ \A t \in Svcs : t # s => free.svc[t] = st.svc[t]
        /\ ~Live(free.svc[s])
    <3>1. CASE st.svc[s].alive
      <4>1. /\ Good(free, W \ {s}) /\ Idle(free, s)
            /\ Others(st, free, s) /\ free.q = st.q /\ free.fwd = st.fwd
            /\ ~Live(free.svc[s])
        BY <2>1, <3>1, StopGood
      <4>2. Good(free, W)
        BY <4>1, SameGood
      <4>. QED
        BY <4>1, <4>2 DEF Others
    <3>2. CASE ~st.svc[s].alive
      BY <1>3, <2>1, <3>2, IdleIf
    <3>. QED
      BY <3>1, <3>2
  <2>3. PICK deps : deps = c.deps[s]
    OBVIOUS
  <2>4. deps \in SUBSET Names
    BY <2>3, ServiceAssumption DEF ServiceAssumption, Declared
  <2>5. PICK ready : ready = StartsForward(free, c, deps)
    OBVIOUS
  <2>6. /\ Good(ready, W) /\ ready.svc = free.svc /\ ready.runs = free.runs /\ ready.q = free.q
        /\ ready.fwd = free.fwd \/ ready.fwd.status = "Starting"
        /\ Fwd \in deps /\ c.fwd # 0 => ready.fwd.status # "none"
    BY <2>2, <2>5, AsksForward
  <2>7. Idle(ready, s)
    BY <2>2, <2>6 DEF Idle
  <2>8. PICK refused \in BOOLEAN : refused = (s \in bad)
    <3>1. (s \in bad) \in BOOLEAN
      OBVIOUS
    <3>. QED
      BY <3>1, Zenon
  <2>9. /\ Good(b, W) /\ Elsewhere(ready, b, s)
        /\ b.q = ready.q \/ b.q # <<>>
        /\ \/ b.q # <<>>
           \/ b.svc[s].status = "Starting" /\ (b.svc[s].held # {} => Rightly(b, a, s, X \ {s}))
    <3>1. CASE in_dependency_cycle(c, s)
      <4>1. b = record_start_failure(ready, s)
        BY <1>1, <1>3, <2>1, <2>3, <2>5, <3>1 DEF launch_service
      <4>. QED
        BY <2>6, <2>7, <4>1, FailureGood
    <3>2. CASE ~in_dependency_cycle(c, s) /\ dependency_gate(ready, c, deps) = "Go"
      <4>1. b = start(ready, s, refused)
        BY <1>1, <1>3, <2>1, <2>3, <2>5, <2>8, <3>2 DEF launch_service
      <4>2. ~Live(ready.svc[s])
        BY <2>2, <2>6
      <4>. QED
        BY <2>6, <4>1, <4>2, StartGood
    <3>3. CASE ~in_dependency_cycle(c, s) /\ dependency_gate(ready, c, deps) # "Go"
      <4>1. PICK failed \in BOOLEAN : failed = (dependency_gate(ready, c, deps) = "Fail")
        OBVIOUS
      <4>2. b = hold(ready, s, deps, failed, refused)
        BY <1>1, <1>3, <2>1, <2>3, <2>5, <2>8, <3>3, <4>1 DEF launch_service
      <4>3. /\ Good(b, W) /\ Elsewhere(ready, b, s)
            /\ failed \/ refused => b.q # <<>>
            /\ ~failed /\ ~refused => b.svc[s].status = "Starting" /\ b.svc[s].held = deps
            /\ b.q = ready.q \/ b.q # <<>>
        BY <2>4, <2>6, <2>7, <4>2, HoldGood
      <4>4. CASE failed \/ refused
        BY <4>3, <4>4
      <4>5. CASE ~failed /\ ~refused
        <5>1. dependency_gate(ready, c, deps) = "Wait"
          BY <3>3, <4>1, <4>5, GateIs
        <5>2. Rightly(b, a, s, X \ {s})
          BY <2>4, <2>6, <4>3, <4>5, <5>1, HeldRightly DEF Elsewhere
        <5>. QED
          BY <4>3, <4>5, <5>2
      <4>. QED
        BY <4>4, <4>5
    <3>. QED
      BY <3>1, <3>2, <3>3
  <2>10. \A t \in Svcs : t # s => b.svc[t] = st.svc[t]
    BY <2>2, <2>6, <2>9 DEF Elsewhere
  <2>11. b.fwd = st.fwd \/ b.fwd.status = "Starting"
    BY <2>2, <2>6, <2>9 DEF Elsewhere
  <2>12. ASSUME Calm(st, a, X, {})
         PROVE  Calm(b, a, X \ {s}, {})
    <3>1. Calm(b, a, X \ {s}, {} \ {s})
      BY <2>2, <2>6, <2>9, <2>10, <2>11, <2>12, CalmAt
    <3>2. {} \ {s} = {}
      OBVIOUS
    <3>. QED
      BY <3>1, <3>2
  <2>. QED
    BY <1>1, <2>9, <2>10, <2>12 DEF Others
<1>. QED
  BY <1>2, <1>3

(* Reconsider, as one step of advance_waiting: s need not be passed over   *)
(* any longer, and no service is disturbed.                                *)
LEMMA ReconsiderOne ==
  ASSUME NEW st, NEW W, Good(st, W), NEW s \in Svcs, NEW was, was = st.svc[s],
         was.held # {}, NEW c \in Configs, NEW bad, NEW P
  PROVE  LET b == Reconsider(st, c, s, was, bad) IN
         /\ Good(b, W)
         /\ Others(st, b, s)
         /\ s \in c.declared /\ Calm(st, c, {}, P) => Calm(b, c, {}, P \ {s})
<1>1. PICK b : b = Reconsider(st, c, s, was, bad)
  OBVIOUS
<1>2. CASE s \notin c.declared
  <2>1. b = st
    BY <1>1, <1>2 DEF Reconsider
  <2>. QED
    BY <1>1, <1>2, <2>1 DEF Others
<1>3. CASE s \in c.declared
  <2>1. was.held \in SUBSET Names /\ was.status \in {"Starting", "Failed"} /\ s \in W
    BY DEF Good, States, Entries, Named, Owned
  <2>2. PICK asked : asked = IF was.status = "Failed" THEN st
                             ELSE start_missing_forwards(st, c, was.held)
    OBVIOUS
  <2>3. /\ Good(asked, W) /\ asked.svc = st.svc /\ asked.runs = st.runs /\ asked.q = st.q
        /\ asked.fwd = st.fwd \/ asked.fwd.status = "Starting"
    <3>1. CASE asked = st
      BY <3>1
    <3>2. CASE asked = StartsForward(st, c, was.held)
      BY <3>2, AsksForward
    <3>. QED
      BY <2>2, <3>1, <3>2 DEF start_missing_forwards
  <2>4. Idle(asked, s) /\ asked.svc[s] = was
    <3>1. Idle(st, s)
      BY IdleIf
    <3>. QED
      BY <2>3, <3>1 DEF Idle
  <2>5. PICK refused \in BOOLEAN : refused = (s \in bad)
    <3>1. (s \in bad) \in BOOLEAN
      OBVIOUS
    <3>. QED
      BY <3>1, Zenon
  <2>6. PICK gate : gate = dependency_gate(asked, c, was.held)
    OBVIOUS
  <2>7. CASE gate = "Go" \/ (gate = "Fail" /\ was.status # "Failed")
    <3>1. /\ Good(b, W) /\ Elsewhere(asked, b, s)
          /\ b.q = asked.q \/ b.q # <<>>
          /\ \/ b.q # <<>>
             \/ b.svc[s].status = "Starting" /\ b.svc[s].held = {}
      <4>1. CASE gate = "Go"
        <5>1. b = start(asked, s, refused)
          BY <1>1, <1>3, <2>2, <2>5, <2>6, <4>1 DEF Reconsider
        <5>2. /\ Good(b, W) /\ Elsewhere(asked, b, s)
              /\ \/ b = asked /\ Live(asked.svc[s]) /\ asked.svc[s].held = {}
                 \/ /\ b.svc[s].held = {}
                    /\ \/ b.q # <<>>
                       \/ b.svc[s].status = "Starting" /\ b.q = asked.q
              /\ b.q = asked.q \/ b.q # <<>>
          BY <2>1, <2>3, <5>1, StartGood
        <5>. QED
          BY <2>4, <5>2
      <4>2. CASE gate = "Fail" /\ was.status # "Failed"
        <5>1. PICK failed \in BOOLEAN : failed = TRUE
          OBVIOUS
        <5>2. b = hold(asked, s, was.held, failed, refused)
          <6>1. b = hold(asked, s, was.held, TRUE, s \in bad)
            BY <1>1, <1>3, <2>2, <2>6, <4>2 DEF Reconsider
          <6>. QED
            BY <2>5, <5>1, <6>1
        <5>3. /\ Good(b, W) /\ Elsewhere(asked, b, s)
              /\ failed \/ refused => b.q # <<>>
              /\ ~failed /\ ~refused => b.svc[s].status = "Starting" /\ b.svc[s].held = was.held
              /\ b.q = asked.q \/ b.q # <<>>
          BY <2>1, <2>3, <2>4, <5>2, HoldGood
        <5>. QED
          BY <5>1, <5>3
      <4>. QED
        BY <2>7, <4>1, <4>2
    <3>2. \A t \in Svcs : t # s => b.svc[t] = st.svc[t]
      BY <2>3, <3>1 DEF Elsewhere
    <3>3. b.fwd = st.fwd \/ b.fwd.status = "Starting"
      BY <2>3, <3>1 DEF Elsewhere
    <3>4. st.q # <<>> => b.q # <<>>
      BY <2>3, <3>1
    <3>5. ASSUME Calm(st, c, {}, P)
          PROVE  Calm(b, c, {}, P \ {s})
      <4>1. Calm(b, c, {} \ {s}, P \ {s})
        BY <3>1, <3>2, <3>3, <3>4, <3>5, CalmAt
      <4>2. {} \ {s} = {}
        OBVIOUS
      <4>. QED
        BY <4>1, <4>2
    <3>. QED
      BY <1>1, <3>1, <3>2, <3>5 DEF Others
  <2>8. CASE ~(gate = "Go" \/ (gate = "Fail" /\ was.status # "Failed"))
    <3>1. b = asked
      BY <1>1, <1>3, <2>2, <2>6, <2>8 DEF Reconsider
    <3>2. Rightly(b, c, s, {})
      <4>1. /\ gate \in {"Go", "Wait", "Fail"}
            /\ gate = "Fail" <=> Barred(asked, c, was.held, {})
            /\ gate = "Wait" <=> Coming(asked, c, was.held, {}) /\ ~Barred(asked, c, was.held, {})
        BY <2>6, GateIs
      <4>. QED
        BY <2>1, <2>4, <2>8, <3>1, <4>1 DEF Rightly
    <3>3. ASSUME Calm(st, c, {}, P)
          PROVE  Calm(b, c, {}, P \ {s})
      <4>1. ASSUME NEW dep \in Names
            PROVE  \/ dependency_state(b, c, dep) = "Pending"
                   \/ dependency_state(b, c, dep) = dependency_state(st, c, dep)
        BY <2>3, <3>1, StateOf DEF Names
      <4>2. \A w \in Svcs : b.svc[w].held \subseteq Names
        BY <2>3, <3>1 DEF Good, States, Entries
      <4>3. ASSUME NEW w \in waiting_in_project(b) \ (P \ {s})
            PROVE  \/ /\ w \in waiting_in_project(st) \ P
                      /\ b.svc[w].status = st.svc[w].status /\ b.svc[w].held = st.svc[w].held
                   \/ b.q # <<>> \/ Rightly(b, c, w, {})
        BY <2>3, <3>1, <3>2, <4>3 DEF waiting_in_project
      <4>. QED
        BY <2>3, <3>1, <3>3, <4>1, <4>2, <4>3, CalmStep
    <3>. QED
      BY <1>1, <2>3, <3>1, <3>3 DEF Others
  <2>. QED
    BY <2>7, <2>8
<1>. QED
  BY <1>2, <1>3

(* What a wake-up leaves, and a start of several services.                 *)
LEMMA AdvanceGood ==
  ASSUME NEW st, NEW W, Good(st, W), NEW c \in Configs \cup {Broken}, NEW bad
  PROVE  LET b == advance_waiting(st, c, bad) IN
         /\ Good(b, W)
         /\ ~PassesOver(st, c) => Calm(b, c, {}, {})
<1>1. PICK b : b = advance_waiting(st, c, bad)
  OBVIOUS
<1>2. PICK S : S = waiting_in_project(st)
  OBVIOUS
<1>3. CASE c = Broken
  <2>1. b = st
    BY <1>1, <1>3 DEF advance_waiting
  <2>2. ~PassesOver(st, c) => S = {}
    BY <1>2, <1>3 DEF PassesOver
  <2>3. S = {} => Calm(b, c, {}, {})
    BY <1>2, <2>1 DEF Calm
  <2>. QED
    BY <1>1, <2>1, <2>2, <2>3
<1>4. CASE c # Broken
  <2>1. PICK G : G = [T \in SUBSET S |->
           {x \in States : /\ Good(x, W) /\ \A t \in S \ T : x.svc[t] = st.svc[t]
                           /\ S \subseteq c.declared => Calm(x, c, {}, S \ T)}]
    OBVIOUS
  <2>2. st \in G[{}]
    <3>1. Calm(st, c, {}, S \ {})
      BY <1>2 DEF Calm
    <3>. QED
      BY <2>1, <3>1 DEF Good
  <2>3. ASSUME NEW T \in SUBSET S, NEW s \in T, NEW x \in G[T \ {s}]
        PROVE  Reconsider(x, c, s, st.svc[s], bad) \in G[T]
    <3>1. /\ Good(x, W) /\ (\A t \in S \ (T \ {s}) : x.svc[t] = st.svc[t])
          /\ S \subseteq c.declared => Calm(x, c, {}, S \ (T \ {s}))
      BY <2>1, <2>3
    <3>2. /\ s \in S /\ s \in Svcs /\ x.svc[s] = st.svc[s] /\ st.svc[s].held # {}
          /\ S \subseteq Svcs
      BY <1>2, <3>1 DEF waiting_in_project
    <3>3. PICK y : y = Reconsider(x, c, s, st.svc[s], bad)
      OBVIOUS
    <3>4. PICK P : P = S \ (T \ {s})
      OBVIOUS
    <3>5. /\ Good(y, W)
          /\ Others(x, y, s)
          /\ s \in c.declared /\ Calm(x, c, {}, P) => Calm(y, c, {}, P \ {s})
      <4>1. PICK was : was = st.svc[s]
        OBVIOUS
      <4>2. c \in Configs /\ s \in Svcs /\ was = x.svc[s] /\ was.held # {}
        BY <1>4, <3>2, <4>1
      <4>3. y = Reconsider(x, c, s, was, bad)
        BY <3>3, <4>1
      <4>4. Good(x, W)
        BY <3>1
      <4>. QED
        BY <4>2, <4>3, <4>4, ReconsiderOne
    <3>6. P \ {s} = S \ T
      BY <3>4
    <3>7. \A t \in S \ T : y.svc[t] = st.svc[t]
      BY <3>1, <3>2, <3>5 DEF Others
    <3>8. S \subseteq c.declared => Calm(y, c, {}, S \ T)
      BY <3>1, <3>2, <3>4, <3>5, <3>6
    <3>. QED
      BY <2>1, <3>3, <3>5, <3>7, <3>8 DEF Good
  <2>4. b \in G[S]
    BY <1>1, <1>2, <1>4, <2>2, <2>3, AdvanceKeeps
  <2>5. Good(b, W) /\ (S \subseteq c.declared => Calm(b, c, {}, {}))
    <3>1. S \ S = {}
      OBVIOUS
    <3>. QED
      BY <2>1, <2>4, <3>1
  <2>6. ~PassesOver(st, c) => S \subseteq c.declared
    BY <1>2, <1>4 DEF PassesOver
  <2>. QED
    BY <1>1, <2>5, <2>6
<1>. QED
  BY <1>3, <1>4

(* Launch starts all of X and leaves nobody waiting wrongly. *)
LEMMA LaunchGood ==
  ASSUME NEW st, NEW W, Good(st, W), NEW c \in Configs, NEW S, S \subseteq W, S \subseteq Svcs,
         NEW explicit, NEW bad, NEW a, NEW X, X \subseteq S, X \subseteq c.declared,
         \A x \in X : ~Live(st.svc[x]) /\ ~st.svc[x].alive
  PROVE  LET b == Launch(st, c, S, explicit, bad) IN
         /\ Good(b, W)
         /\ Calm(st, a, X, {}) => Calm(b, a, {}, {})
<1>1. PICK b : b = Launch(st, c, S, explicit, bad)
  OBVIOUS
<1>2. PICK q : q = sorted_services(c)
  OBVIOUS
<1>3. /\ IsFiniteSet(DOMAIN q) /\ DOMAIN q \subseteq Nat
      /\ \A s \in c.declared : \E i \in DOMAIN q : q[i] = s
  BY <1>2, SortedIs
<1>4. PICK Left : Left = [T \in SUBSET (DOMAIN q) |-> X \ {q[i] : i \in T}]
  OBVIOUS
<1>5. PICK G : G = [T \in SUBSET (DOMAIN q) |->
         {x \in States : /\ Good(x, W) /\ \A y \in Left[T] : x.svc[y] = st.svc[y]
                         /\ Calm(st, a, X, {}) => Calm(x, a, Left[T], {})}]
  OBVIOUS
<1>6. st \in G[{}]
  <2>1. Left[{}] = X
    BY <1>4
  <2>. QED
    BY <1>5, <2>1 DEF Good
<1>7. ASSUME NEW T \in SUBSET (DOMAIN q), NEW i \in T, NEW x \in G[T \ {i}]
      PROVE  LaunchStep(x, c, q[i], S, explicit, bad) \in G[T]
  <2>1. PICK Y : Y = Left[T \ {i}]
    OBVIOUS
  <2>2. T \ {i} \in SUBSET (DOMAIN q)
    OBVIOUS
  <2>3. /\ Good(x, W) /\ x \in States /\ \A y \in Y : x.svc[y] = st.svc[y]
        /\ Calm(st, a, X, {}) => Calm(x, a, Y, {})
    BY <1>5, <1>7, <2>1, <2>2
  <2>4. Y \subseteq X /\ Left[T] = Y \ {q[i]}
    BY <1>4, <2>1, <2>2
  <2>5. CASE q[i] \notin S
    <3>1. Left[T] = Y
      BY <2>4, <2>5
    <3>. QED
      BY <1>5, <2>3, <2>5, <3>1 DEF LaunchStep
  <2>6. CASE q[i] \in S
    <3>1. PICK e \in BOOLEAN : e = (q[i] \in explicit)
      <4>1. (q[i] \in explicit) \in BOOLEAN
        OBVIOUS
      <4>. QED
        BY <4>1, Zenon
    <3>2. PICK y : y = launch_service(x, c, q[i], e, bad)
      OBVIOUS
    <3>3. PICK s \in Svcs : s = q[i] /\ s \in W
      BY <2>6
    <3>4. Live(x.svc[s]) \/ x.svc[s].alive => s \notin Y
      BY <2>3, <2>4
    <3>5. /\ Good(y, W)
          /\ Others(x, y, s)
          /\ Calm(x, a, Y, {}) => Calm(y, a, Y \ {s}, {})
      <4>1. Good(x, W) /\ s \in W /\ s \in Svcs /\ e \in BOOLEAN
        BY <2>3, <3>3
      <4>2. y = launch_service(x, c, s, e, bad)
        BY <3>2, <3>3
      <4>. QED
        BY <3>4, <4>1, <4>2, LaunchOne
    <3>6. \A t \in Left[T] : y.svc[t] = st.svc[t]
      <4>1. ASSUME NEW t \in Left[T]
            PROVE  t \in Y /\ t # s /\ t \in Svcs
        BY <2>4, <3>3
      <4>. QED
        BY <2>3, <3>5, <4>1 DEF Others
    <3>7. y \in G[T]
      BY <1>5, <2>3, <2>4, <3>3, <3>5, <3>6 DEF Good
    <3>. QED
      BY <2>6, <3>1, <3>2, <3>7 DEF LaunchStep
  <2>. QED
    BY <2>5, <2>6
<1>8. b \in G[DOMAIN q]
  BY <1>1, <1>2, <1>3, <1>6, <1>7, LaunchKeeps
<1>9. Left[DOMAIN q] = {}
  BY <1>3, <1>4
<1>. QED
  BY <1>1, <1>5, <1>8, <1>9

(* StopAll leaves no process and nobody waiting. *)
LEMMA StopAllGood ==
  ASSUME NEW st, NEW W, Good(st, W), NEW c
  PROVE  LET b == StopAll(st, Svcs) IN Good(b, {}) /\ waiting_in_project(b) = {}
<1>1. PICK b : b = StopAll(st, Svcs)
  OBVIOUS
<1>2. PICK G : G = [T \in SUBSET Svcs |->
         {x \in States : Good(x, W \ T) /\ \A t \in T : x.svc[t].held = {}}]
  OBVIOUS
<1>3. st \in G[{}]
  <2>1. W \ {} = W
    OBVIOUS
  <2>. QED
    BY <1>2, <2>1 DEF Good
<1>4. ASSUME NEW T \in SUBSET Svcs, NEW s \in T, NEW x \in G[T \ {s}]
      PROVE  stop_key(x, s) \in G[T]
  <2>1. PICK V : V = W \ (T \ {s})
    OBVIOUS
  <2>2. Good(x, V) /\ \A t \in T \ {s} : x.svc[t].held = {}
    BY <1>2, <1>4, <2>1
  <2>3. PICK y : y = stop_key(x, s)
    OBVIOUS
  <2>4. /\ Good(y, V \ {s}) /\ y.svc[s].held = {}
        /\ \A t \in Svcs : t # s => y.svc[t] = x.svc[t]
    <3>1. s \in Svcs /\ Good(x, V)
      BY <2>2
    <3>2. Good(y, V \ {s}) /\ Others(x, y, s) /\ y.svc[s].held = {}
      BY <2>3, <3>1, StopGood
    <3>. QED
      BY <3>2 DEF Others
  <2>5. V \ {s} = W \ T
    BY <2>1
  <2>. QED
    BY <1>2, <2>2, <2>3, <2>4, <2>5 DEF Good
<1>5. IsFiniteSet(Svcs)
  BY ServiceAssumption DEF ServiceAssumption
<1>6. b \in G[Svcs]
  BY <1>1, <1>3, <1>4, <1>5, StopAllKeeps
<1>7. Good(b, W \ Svcs) /\ \A t \in Svcs : b.svc[t].held = {}
  BY <1>2, <1>6
<1>8. Good(b, {})
  <2>1. \A r \in DOMAIN b.runs : b.runs[r].svc \in Svcs
    <3>1. ASSUME NEW r \in DOMAIN b.runs
          PROVE  b.runs[r] \in Runs
      BY <1>7, ElementOfSeq DEF Good, States
    <3>. QED
      BY <3>1 DEF Runs
  <2>. QED
    BY <1>7, <2>1 DEF Good, Owned
<1>. QED
  BY <1>1, <1>7, <1>8 DEF waiting_in_project

(* RemoveAll leaves no process of the services it removes. *)
LEMMA RemoveAllGood ==
  ASSUME NEW st, NEW W, Good(st, W), NEW S \in SUBSET Svcs
  PROVE  Good(RemoveAll(st, S), W \ S)
<1>1. PICK G : G = [T \in SUBSET S |-> {x \in States : Good(x, W \ T)}]
  OBVIOUS
<1>2. st \in G[{}]
  <2>1. W \ {} = W
    OBVIOUS
  <2>. QED
    BY <1>1, <2>1 DEF Good
<1>3. ASSUME NEW T \in SUBSET S, NEW s \in T, NEW x \in G[T \ {s}]
      PROVE  remove_service(x, s) \in G[T]
  <2>1. PICK V : V = W \ (T \ {s})
    OBVIOUS
  <2>2. Good(x, V) /\ s \in Svcs
    BY <1>1, <1>3, <2>1
  <2>3. Good(remove_service(x, s), V \ {s})
    BY <2>2, RemoveGood
  <2>4. V \ {s} = W \ T
    BY <2>1
  <2>. QED
    BY <1>1, <2>3, <2>4 DEF Good
<1>4. IsFiniteSet(S)
  BY ServiceAssumption, FS_Subset DEF ServiceAssumption
<1>5. RemoveAll(st, S) \in G[S]
  BY <1>2, <1>3, <1>4, RemoveAllKeeps
<1>. QED
  BY <1>1, <1>5

-----------------------------------------------------------------------------
(* The entry of the run an event names, after the event.                   *)
Told(e, kind) ==
  CASE kind = "Running" -> IF e.alive THEN [e EXCEPT !.status = "Running"] ELSE e
    [] kind \in Ends -> [e EXCEPT !.status = kind, !.alive = FALSE]
    [] kind = "NotReady" -> IF e.status = "Starting" THEN [e EXCEPT !.status = "Failed"] ELSE e
    [] kind = "LateReady" ->
         IF e.alive /\ e.status \in {"Starting", "Failed"}
         THEN [e EXCEPT !.status = "Running"] ELSE e

(* An event changes the status and `alive` of an entry, and nothing else. *)
LEMMA ToldIs ==
  ASSUME NEW e \in Entries, NEW kind \in Kinds, NEW f, f = Told(e, kind)
  PROVE  /\ f \in Entries /\ f.run = e.run /\ f.group = e.group /\ f.held = e.held
         /\ kind \in Readies =>
              /\ f.alive = e.alive /\ f.status \in {"Running", e.status}
              /\ ~e.alive => f.status = e.status
              /\ e.alive /\ (kind = "Running" \/ e.status \in {"Starting", "Failed"}) =>
                   f.status = "Running"
         /\ kind \in Ends => ~f.alive /\ f.status = kind
         /\ kind = "NotReady" =>
              /\ f.alive = e.alive
              /\ f.status = IF e.status = "Starting" THEN "Failed" ELSE e.status
<1>1. CASE kind \in Readies
  BY <1>1 DEF Told, Readies, Ends, Entries, Statuses
<1>2. CASE kind \in Ends
  BY <1>2 DEF Told, Readies, Ends, Entries, Statuses
<1>3. CASE kind = "NotReady"
  BY <1>3 DEF Told, Readies, Ends, Entries, Statuses
<1>. QED
  BY <1>1, <1>2, <1>3 DEF Kinds, Readies, Ends

(* What an entry says stays true when it is told the first word waiting.   *)
LEMMA ToldTells ==
  ASSUME NEW e \in Entries, NEW run \in Runs, NEW kind \in Kinds, NEW q, NEW rest,
         Tells(e, run, q), Said(run, kind), run.proc # "none", ~run.stopping,
         \A kinds \in {Readies, Ends, {"NotReady"}} :
           /\ Waits(q, e.run, kinds) <=> kind \in kinds \/ Waits(rest, e.run, kinds)
           /\ kind \in kinds => ~Waits(rest, e.run, kinds)
  PROVE  Tells(Told(e, kind), run, rest)
<1>1. PICK f : f = Told(e, kind)
  OBVIOUS
<1>2. PICK wr, we, wn \in BOOLEAN :
        /\ wr = Waits(q, e.run, Readies) /\ we = Waits(q, e.run, Ends)
        /\ wn = Waits(q, e.run, {"NotReady"})
  BY Zenon DEF Waits
<1>3. PICK vr, ve, vn \in BOOLEAN :
        /\ vr = Waits(rest, e.run, Readies) /\ ve = Waits(rest, e.run, Ends)
        /\ vn = Waits(rest, e.run, {"NotReady"})
  BY Zenon DEF Waits
<1>4. /\ wr = (kind \in Readies \/ vr) /\ (kind \in Readies => ~vr)
      /\ we = (kind \in Ends \/ ve) /\ (kind \in Ends => ~ve)
      /\ wn = (kind = "NotReady" \/ vn) /\ (kind = "NotReady" => ~vn)
  BY <1>2, <1>3
<1>5. /\ run.gone = "sent" /\ ~we =>
           ~e.alive /\ e.status = IF run.proc = "ok" THEN "Stopped" ELSE "Failed"
      /\ ~(run.gone = "sent" /\ ~we) =>
           e.alive /\ e.status = IF run.ready = "sent" /\ ~wr THEN "Running"
                                 ELSE IF run.late = "sent" /\ ~wn THEN "Failed" ELSE "Starting"
  BY <1>2 DEF Tells
<1>6. /\ f \in Entries /\ f.run = e.run /\ f.group = e.group /\ f.held = e.held
      /\ kind \in Readies =>
           /\ f.alive = e.alive /\ f.status \in {"Running", e.status}
           /\ ~e.alive => f.status = e.status
           /\ e.alive /\ (kind = "Running" \/ e.status \in {"Starting", "Failed"}) =>
                f.status = "Running"
      /\ kind \in Ends => ~f.alive /\ f.status = kind
      /\ kind = "NotReady" =>
           /\ f.alive = e.alive
           /\ f.status = IF e.status = "Starting" THEN "Failed" ELSE e.status
  BY <1>1, ToldIs
<1>7. /\ run.gone = "sent" /\ ~ve =>
           ~f.alive /\ f.status = IF run.proc = "ok" THEN "Stopped" ELSE "Failed"
      /\ ~(run.gone = "sent" /\ ~ve) =>
           f.alive /\ f.status = IF run.ready = "sent" /\ ~vr THEN "Running"
                                 ELSE IF run.late = "sent" /\ ~vn THEN "Failed" ELSE "Starting"
  <2>1. CASE kind \in Readies
    BY <1>4, <1>5, <1>6, <2>1 DEF Said, Readies, Ends
  <2>2. CASE kind \in Ends
    BY <1>4, <1>5, <1>6, <2>2 DEF Said, Readies, Ends
  <2>3. CASE kind = "NotReady"
    BY <1>4, <1>5, <1>6, <2>3 DEF Said, Readies, Ends
  <2>. QED
    BY <2>1, <2>2, <2>3 DEF Kinds, Readies, Ends
<1>. QED
  BY <1>1, <1>3, <1>6, <1>7 DEF Tells

(* f is the entry of s after ev, and e was. *)
Changes(st, ev, s, e, f) ==
  /\ ev.run \in DOMAIN st.runs /\ s = st.runs[ev.run].svc /\ s \in Svcs
  /\ e = st.svc[s] /\ f = IF e.run = ev.run THEN Told(e, ev.kind) ELSE e

(* st with the queue q, and with the entry f of s. *)
Queued(st, q) == [st EXCEPT !.q = q]
After(st, q, s, f) == [st EXCEPT !.q = q, !.svc = [st.svc EXCEPT ![s] = f]]

(* apply_event queues nothing and changes the entry of the event's run     *)
(* only.                                                                   *)
LEMMA EventIs ==
  ASSUME NEW st \in States, NEW ev \in Events, NEW q,
         NEW s, NEW e, NEW f, Changes(st, ev, s, e, f)
  PROVE  apply_event(Queued(st, q), ev) = After(st, q, s, f)
<1>a. PICK a : a = [st EXCEPT !.q = q]
  OBVIOUS
<1>0. /\ ev.run \in DOMAIN st.runs /\ s = st.runs[ev.run].svc /\ s \in Svcs
      /\ e = st.svc[s] /\ f = IF e.run = ev.run THEN Told(e, ev.kind) ELSE e
  BY DEF Changes
<1>1. /\ a.svc = st.svc /\ a.runs = st.runs /\ st.svc \in [Svcs -> Entries]
      /\ e \in Entries /\ ev.kind \in Kinds /\ s = st.runs[ev.run].svc /\ s \in Svcs
      /\ e = st.svc[s]
  BY <1>0, <1>a DEF States, Events
<1>2. PICK b : b = apply_event(a, ev)
  OBVIOUS
<1>3. PICK kind \in Kinds : kind = ev.kind
  BY <1>1
<1>4. ASSUME NEW g
      PROVE  [a EXCEPT !.svc = [a.svc EXCEPT ![s] = g]]
               = [st EXCEPT !.q = q, !.svc = [st.svc EXCEPT ![s] = g]]
  BY <1>1, <1>a DEF States
<1>5. PICK c : c = [st EXCEPT !.q = q, !.svc = [st.svc EXCEPT ![s] = f]]
  OBVIOUS
<1>6. f = e => a = c
  <2>1. [st.svc EXCEPT ![s] = e] = st.svc
    BY <1>1
  <2>2. [st EXCEPT !.q = q, !.svc = st.svc] = a
    BY <1>1, <1>a DEF States
  <2>. QED
    BY <1>5, <2>1, <2>2
<1>7. ASSUME e.run # ev.run
      PROVE  b = c
  <2>1. b = a
    BY <1>1, <1>2, <1>7 DEF apply_event
  <2>. QED
    BY <1>0, <1>2, <1>5, <1>6, <1>7, <2>1
<1>8. ASSUME e.run = ev.run
      PROVE  b = c
  <2>1. f = Told(e, kind)
    BY <1>0, <1>3, <1>8
  <2>2. ASSUME NEW status
        PROVE  /\ [a EXCEPT !.svc[s].status = status]
                    = [st EXCEPT !.q = q, !.svc = [st.svc EXCEPT ![s] = [e EXCEPT !.status = status]]]
               /\ [a EXCEPT !.svc[s].status = status, !.svc[s].alive = FALSE]
                    = [st EXCEPT !.q = q, !.svc = [st.svc EXCEPT ![s] =
                         [e EXCEPT !.status = status, !.alive = FALSE]]]
    <3>1. /\ [a EXCEPT !.svc[s].status = status]
               = [a EXCEPT !.svc = [a.svc EXCEPT ![s] = [e EXCEPT !.status = status]]]
          /\ [a EXCEPT !.svc[s].status = status, !.svc[s].alive = FALSE]
               = [a EXCEPT !.svc = [a.svc EXCEPT ![s] =
                    [e EXCEPT !.status = status, !.alive = FALSE]]]
      BY <1>1, <1>a DEF States, Entries
    <3>. QED
      BY <1>4, <3>1
  <2>3. CASE kind = "Running"
    <3>1. b = IF e.alive THEN [a EXCEPT !.svc[s].status = "Running"] ELSE a
      BY <1>1, <1>2, <1>3, <1>8, <2>3 DEF apply_event
    <3>2. f = IF e.alive THEN [e EXCEPT !.status = "Running"] ELSE e
      BY <2>1, <2>3 DEF Told, Ends
    <3>3. ASSUME e.alive
          PROVE  b = c
      <4>1. PICK g : g = [e EXCEPT !.status = "Running"]
        OBVIOUS
      <4>2. b = [st EXCEPT !.q = q, !.svc = [st.svc EXCEPT ![s] = g]]
        BY <2>2, <3>1, <3>3, <4>1
      <4>. QED
        BY <1>5, <3>2, <3>3, <4>1, <4>2
    <3>4. ASSUME ~e.alive
          PROVE  b = c
      BY <1>6, <3>1, <3>2, <3>4
    <3>. QED
      BY <1>2, <1>5, <3>3, <3>4
  <2>4. CASE kind \in Ends
    <3>1. b = [a EXCEPT !.svc[s].status = kind, !.svc[s].alive = FALSE]
      BY <1>1, <1>2, <1>3, <1>8, <2>4 DEF apply_event, Ends
    <3>2. f = [e EXCEPT !.status = kind, !.alive = FALSE]
      BY <2>1, <2>4 DEF Told, Ends
    <3>3. b = c
      <4>1. PICK g : g = [e EXCEPT !.status = kind, !.alive = FALSE]
        OBVIOUS
      <4>2. b = [st EXCEPT !.q = q, !.svc = [st.svc EXCEPT ![s] = g]]
        BY <2>2, <3>1, <4>1
      <4>. QED
        BY <1>5, <3>2, <4>1, <4>2
    <3>. QED
      BY <1>2, <1>5, <3>3
  <2>5. CASE kind = "NotReady"
    <3>1. b = IF e.status = "Starting" THEN [a EXCEPT !.svc[s].status = "Failed"] ELSE a
      BY <1>1, <1>2, <1>3, <1>8, <2>5 DEF apply_event
    <3>2. f = IF e.status = "Starting" THEN [e EXCEPT !.status = "Failed"] ELSE e
      BY <2>1, <2>5 DEF Told, Ends
    <3>3. ASSUME e.status = "Starting"
          PROVE  b = c
      <4>1. PICK g : g = [e EXCEPT !.status = "Failed"]
        OBVIOUS
      <4>2. b = [st EXCEPT !.q = q, !.svc = [st.svc EXCEPT ![s] = g]]
        <5>1. b = [a EXCEPT !.svc[s].status = "Failed"]
          BY <3>1, <3>3
        <5>2. PICK status : status = "Failed"
          OBVIOUS
        <5>3. b = [a EXCEPT !.svc[s].status = status] /\ g = [e EXCEPT !.status = status]
          BY <4>1, <5>1, <5>2
        <5>. QED
          BY <2>2, <5>3
      <4>. QED
        BY <1>5, <3>2, <3>3, <4>1, <4>2
    <3>4. ASSUME e.status # "Starting"
          PROVE  b = c
      BY <1>6, <3>1, <3>2, <3>4
    <3>. QED
      BY <1>2, <1>5, <3>3, <3>4
  <2>6. CASE kind = "LateReady"
    <3>0. PICK revived \in BOOLEAN : revived = (e.alive /\ e.status \in {"Starting", "Failed"})
      BY <1>1 DEF Entries
    <3>1. b = IF revived THEN [a EXCEPT !.svc[s].status = "Running"] ELSE a
      <4>1. b = IF e.alive /\ e.status \in {"Starting", "Failed"}
                THEN [a EXCEPT !.svc[s].status = "Running"] ELSE a
        BY <1>1, <1>2, <1>3, <1>8, <2>6 DEF apply_event
      <4>. QED
        BY <3>0, <4>1
    <3>2. f = IF revived THEN [e EXCEPT !.status = "Running"] ELSE e
      BY <2>1, <2>6, <3>0 DEF Told, Ends
    <3>3. ASSUME revived
          PROVE  b = c
      <4>1. PICK g : g = [e EXCEPT !.status = "Running"]
        OBVIOUS
      <4>2. b = [st EXCEPT !.q = q, !.svc = [st.svc EXCEPT ![s] = g]]
        BY <2>2, <3>1, <3>3, <4>1
      <4>. QED
        BY <1>5, <3>2, <3>3, <4>1, <4>2
    <3>4. ASSUME ~revived
          PROVE  b = c
      BY <1>6, <3>1, <3>2, <3>4
    <3>. QED
      BY <1>2, <1>5, <3>3, <3>4
  <2>. QED
    BY <2>3, <2>4, <2>5, <2>6 DEF Kinds, Ends
<1>9. apply_event(a, ev) = [st EXCEPT !.q = q, !.svc = [st.svc EXCEPT ![s] = f]]
  BY <1>2, <1>5, <1>7, <1>8
<1>. QED
  BY <1>9, <1>a DEF Queued, After

(* An event the actor handles leaves what holds of its state.              *)
LEMMA EventGood ==
  ASSUME NEW st, NEW W, Good(st, W), st.q # <<>>
  PROVE  Good(apply_event([st EXCEPT !.q = Tail(@)], Head(st.q)), W)
<1>1. /\ st \in States /\ st.q \in Seq(Events) /\ st.runs \in Seq(Runs)
      /\ st.svc \in [Svcs -> Entries]
  BY DEF Good, States
<1>2. PICK ev \in Events : ev = Head(st.q)
  BY <1>1
<1>3. PICK q \in Seq(Events) : q = Tail(st.q)
  <2>1. Tail(st.q) \in Seq(Events)
    BY <1>1, HeadTailProperties
  <2>. QED
    BY <2>1
<1>4. /\ 1 \in DOMAIN st.q /\ st.q[1] = ev
      /\ \A i \in DOMAIN q : i + 1 \in DOMAIN st.q /\ i + 1 # 1 /\ q[i] = st.q[i + 1]
      /\ \A i \in DOMAIN st.q : i = 1 \/ (i - 1 \in DOMAIN q /\ st.q[i] = q[i - 1])
  BY <1>1, <1>2, <1>3
<1>5. ev.run \in DOMAIN st.runs /\ Said(st.runs[ev.run], ev.kind)
  BY <1>4 DEF Good, Named, Spoken
<1>6. PICK run \in Runs : run = st.runs[ev.run]
  BY <1>1, <1>5, ElementOfSeq
<1>7. PICK s \in Svcs : s = run.svc
  BY DEF Runs
<1>8. PICK e \in Entries : e = st.svc[s]
  BY <1>1
<1>9. PICK kind \in Kinds : kind = ev.kind
  BY DEF Events
<1>10. PICK f : f = IF e.run = ev.run THEN Told(e, kind) ELSE e
  OBVIOUS
<1>11. PICK b : b = [st EXCEPT !.q = q, !.svc = [st.svc EXCEPT ![s] = f]]
  OBVIOUS
<1>12. apply_event([st EXCEPT !.q = Tail(@)], Head(st.q)) = b
  <2>1. PICK a : a = [st EXCEPT !.q = q]
    OBVIOUS
  <2>2. apply_event(a, ev) = b
    <3>1. s = st.runs[ev.run].svc /\ f = IF e.run = ev.run THEN Told(e, ev.kind) ELSE e
      BY <1>6, <1>7, <1>9, <1>10
    <3>2. Changes(st, ev, s, e, f)
      BY <1>5, <1>8, <3>1 DEF Changes
    <3>3. apply_event(Queued(st, q), ev) = After(st, q, s, f)
      BY <1>1, <3>2, EventIs
    <3>. QED
      BY <1>11, <2>1, <3>3 DEF Queued, After
  <2>3. [st EXCEPT !.q = Tail(@)] = a
    BY <1>1, <1>3, <2>1 DEF States
  <2>. QED
    BY <1>2, <2>2, <2>3
<1>13. /\ f \in Entries /\ f.run = e.run /\ f.group = e.group /\ f.held = e.held
       /\ f.alive => e.alive
       /\ e.run # ev.run => f = e
       /\ f = e \/ f.status \in {"Running", "Failed", "Stopped"}
       /\ f = e \/ f.status # "Running" \/ e.alive
       /\ kind \notin Ends => f.alive = e.alive
       /\ kind \notin Ends => f.status \in {"Running", "Failed", e.status}
       /\ f.status \in {"Starting", "Failed"} \/ e.status = f.status \/ e.alive \/ kind \in Ends
  <2>1. CASE e.run # ev.run
    BY <1>10, <2>1
  <2>2. CASE e.run = ev.run
    <3>0. f = Told(e, kind)
      BY <1>10, <2>2
    <3>1. /\ f \in Entries /\ f.run = e.run /\ f.group = e.group /\ f.held = e.held
          /\ kind \in Readies =>
               /\ f.alive = e.alive /\ f.status \in {"Running", e.status}
               /\ ~e.alive => f.status = e.status
               /\ e.alive /\ (kind = "Running" \/ e.status \in {"Starting", "Failed"}) =>
                    f.status = "Running"
          /\ kind \in Ends => ~f.alive /\ f.status = kind
          /\ kind = "NotReady" =>
               /\ f.alive = e.alive
               /\ f.status = IF e.status = "Starting" THEN "Failed" ELSE e.status
      BY <3>0, ToldIs
    <3>2. kind \in Readies \/ kind \in Ends \/ kind = "NotReady"
      BY DEF Kinds, Readies, Ends
    <3>3. f = e \/ (f.status \in {"Running", "Failed", "Stopped"} /\ (f.status # "Running" \/ e.alive))
      BY <3>0 DEF Told, Kinds, Ends, Entries
    <3>. QED
      <4>1. CASE kind \in Readies
        BY <2>2, <3>1, <3>3, <4>1 DEF Ends, Readies
      <4>2. CASE kind \in Ends
        BY <2>2, <3>1, <3>3, <4>2
      <4>3. CASE kind = "NotReady"
        BY <2>2, <3>1, <3>3, <4>3 DEF Ends
      <4>. QED
        BY <3>2, <4>1, <4>2, <4>3
  <2>. QED
    BY <2>1, <2>2
<1>14. /\ b.svc = [st.svc EXCEPT ![s] = f] /\ b.runs = st.runs /\ b.q = q
       /\ b.fwd = st.fwd /\ b.watch = st.watch /\ b \in States
  BY <1>1, <1>11, <1>13 DEF States
<1>15. /\ b.svc[s] = f
       /\ \A t \in Svcs : t # s => b.svc[t] = st.svc[t]
  BY <1>1, <1>14
<1>16. /\ (e.run # 0 /\ e.run = ev.run) \/ f = e
       /\ e.run # 0 => st.runs[e.run].svc = s
       /\ e.status = "none" => e = NoService
       /\ e.held # {} => e.status \in {"Starting", "Failed"} /\ ~e.alive
  <2>1. /\ e.run # 0 => st.runs[e.run].svc = s
        /\ e.status = "none" => e = NoService
        /\ e.held # {} => e.status \in {"Starting", "Failed"}
    BY <1>8 DEF Good, Named
  <2>2. e.held # {} => ~e.alive
    BY <1>8 DEF Good, Owned
  <2>3. ev.run # 0
    BY <1>1, <1>5
  <2>. QED
    BY <1>13, <2>1, <2>2, <2>3
<1>17. Named(b)
  <2>1. ASSUME NEW t \in Svcs
        PROVE  /\ b.svc[t].run \in 0..Len(b.runs) /\ b.svc[t].group \in 0..b.svc[t].run
               /\ b.svc[t].run # 0 => b.runs[b.svc[t].run].svc = t
               /\ b.svc[t].group # 0 => b.runs[b.svc[t].group].svc = t
               /\ b.svc[t].held # {} => b.svc[t].status \in {"Starting", "Failed"}
               /\ b.svc[t].status = "none" => b.svc[t] = NoService
    <3>1. /\ st.svc[t].run \in 0..Len(st.runs) /\ st.svc[t].group \in 0..st.svc[t].run
          /\ st.svc[t].run # 0 => st.runs[st.svc[t].run].svc = t
          /\ st.svc[t].group # 0 => st.runs[st.svc[t].group].svc = t
          /\ st.svc[t].held # {} => st.svc[t].status \in {"Starting", "Failed"}
          /\ st.svc[t].status = "none" => st.svc[t] = NoService
      BY DEF Good, Named
    <3>2. CASE t # s
      BY <1>14, <1>15, <3>1, <3>2
    <3>3. CASE t = s
      <4>1. f.held # {} => f.status \in {"Starting", "Failed"}
        <5>1. ASSUME e.held # {}, kind \in Ends, f # e
              PROVE  f.status = "Failed"
          <6>1. st.runs[e.run].proc = "none"
            BY <1>8, <5>1 DEF Good, Owned
          <6>2. e.run = ev.run
            BY <1>16, <5>1
          <6>3. kind = "Failed"
            BY <1>5, <1>9, <5>1, <6>1, <6>2 DEF Said
          <6>. QED
            BY <1>10, <5>1, <6>2, <6>3, ToldIs
        <5>. QED
          BY <1>13, <1>16, <5>1
      <4>2. f.status = "none" => f = NoService
        BY <1>13, <1>16
      <4>. QED
        BY <1>8, <1>13, <1>14, <1>15, <3>1, <3>3, <4>1, <4>2
    <3>. QED
      BY <3>2, <3>3
  <2>2. ASSUME NEW i \in DOMAIN b.q
        PROVE  b.q[i].run \in DOMAIN b.runs
    BY <1>4, <1>14 DEF Good, Named
  <2>3. b.fwd.run \in 0..Len(b.watch)
    BY <1>14 DEF Good, Named
  <2>. QED
    BY <2>1, <2>2, <2>3 DEF Named
<1>18. Owned(b, W)
  <2>1. ASSUME NEW r \in DOMAIN b.runs, b.runs[r].proc = "up",
               NEW g, g = b.svc[b.runs[r].svc]
        PROVE  /\ g.run = r /\ g.group = r /\ g.alive
               /\ g.status \in {"Starting", "Running", "Failed"}
               /\ b.runs[r].svc \in W
    <3>1. PICK h : h = st.svc[st.runs[r].svc]
      OBVIOUS
    <3>2. /\ h.run = r /\ h.group = r /\ h.alive
          /\ h.status \in {"Starting", "Running", "Failed"}
          /\ b.runs[r].svc \in W
      BY <1>14, <2>1, <3>1 DEF Good, Owned
    <3>3. st.runs[r].svc \in Svcs
      <4>1. st.runs[r] \in Runs
        BY <1>1, <1>14, <2>1, ElementOfSeq
      <4>. QED
        BY <4>1 DEF Runs
    <3>4. CASE st.runs[r].svc # s
      BY <1>14, <1>15, <2>1, <3>1, <3>2, <3>3, <3>4
    <3>5. CASE st.runs[r].svc = s
      <4>1. h = e /\ g = f
        BY <1>8, <1>14, <1>15, <2>1, <3>1, <3>5
      <4>2. e.run = ev.run => kind \notin Ends
        <5>1. ASSUME e.run = ev.run, kind \in Ends
              PROVE  FALSE
          <6>1. st.runs[r].proc = "up" /\ r = ev.run
            BY <1>14, <2>1, <3>2, <4>1, <5>1
          <6>2. st.runs[r].gone = "sent"
            BY <1>5, <1>9, <5>1, <6>1 DEF Said
          <6>3. st.runs[r].proc \in {"ok", "err"}
            BY <1>14, <2>1, <6>2 DEF Good, Spoken, InOrder
          <6>. QED
            BY <6>1, <6>3
        <5>. QED
          BY <5>1
      <4>. QED
        BY <1>13, <3>2, <4>1, <4>2
    <3>. QED
      BY <3>4, <3>5
  <2>2. ASSUME NEW t \in Svcs
        PROVE  /\ b.svc[t].alive => b.svc[t].run # 0 /\ b.runs[b.svc[t].run].proc # "none"
               /\ b.svc[t].held # {} => /\ b.svc[t].run # 0 /\ t \in W
                                        /\ b.runs[b.svc[t].run].proc = "none"
    <3>1. /\ st.svc[t].alive => st.svc[t].run # 0 /\ st.runs[st.svc[t].run].proc # "none"
          /\ st.svc[t].held # {} => /\ st.svc[t].run # 0 /\ t \in W
                                    /\ st.runs[st.svc[t].run].proc = "none"
      BY DEF Good, Owned
    <3>2. CASE t # s
      BY <1>14, <1>15, <3>1, <3>2
    <3>3. CASE t = s
      BY <1>8, <1>13, <1>14, <1>15, <3>1, <3>3
    <3>. QED
      BY <3>2, <3>3
  <2>. QED
    BY <2>1, <2>2 DEF Owned
<1>19. Spoken(b)
  <2>1. ASSUME NEW i \in DOMAIN b.q
        PROVE  Said(b.runs[b.q[i].run], b.q[i].kind)
    BY <1>4, <1>14 DEF Good, Spoken
  <2>2. ASSUME NEW i \in DOMAIN b.q, NEW j \in DOMAIN b.q, i # j, b.q[i].run = b.q[j].run
        PROVE  ~Alike(b.q[i].kind, b.q[j].kind)
    <3>1. /\ i + 1 \in DOMAIN st.q /\ j + 1 \in DOMAIN st.q /\ i + 1 # j + 1
          /\ st.q[i + 1] = b.q[i] /\ st.q[j + 1] = b.q[j]
      BY <1>1, <1>3, <1>4, <1>14, <2>2
    <3>. QED
      BY <2>2, <3>1 DEF Good, Spoken
  <2>. QED
    BY <1>14, <2>1, <2>2 DEF Good, Spoken
<1>20. ASSUME NEW r, NEW kinds
       PROVE  Waits(st.q, r, kinds) <=> (ev.run = r /\ kind \in kinds) \/ Waits(q, r, kinds)
  BY <1>4, <1>9 DEF Waits
<1>21. ASSUME NEW kinds \in {Readies, Ends, {"NotReady"}}, kind \in kinds
       PROVE  ~Waits(q, ev.run, kinds)
  <2>1. ASSUME NEW i \in DOMAIN q, q[i].run = ev.run, q[i].kind \in kinds
        PROVE  FALSE
    <3>1. ~Alike(st.q[1].kind, st.q[i + 1].kind)
      BY <1>4, <2>1 DEF Good, Spoken
    <3>. QED
      BY <1>4, <1>9, <1>21, <2>1, <3>1 DEF Alike
  <2>. QED
    BY <2>1 DEF Waits
<1>22. Truthful(b)
  <2>1. ASSUME NEW t \in Svcs, b.svc[t].run # 0, b.runs[b.svc[t].run].proc # "none",
               ~b.runs[b.svc[t].run].stopping
        PROVE  Tells(b.svc[t], b.runs[b.svc[t].run], b.q)
    <3>0. b.svc[t].run = st.svc[t].run
      BY <1>8, <1>13, <1>15
    <3>1. PICK n : n = st.svc[t].run
      OBVIOUS
    <3>2. n \in DOMAIN st.runs /\ st.runs[n].svc = t
      BY <1>1, <1>14, <2>1, <3>0, <3>1 DEF Good, Named
    <3>3. Tells(st.svc[t], st.runs[n], st.q)
      BY <1>14, <2>1, <3>0, <3>1 DEF Good, Truthful
    <3>4. CASE n # ev.run
      <4>1. b.svc[t] = st.svc[t]
        BY <1>8, <1>13, <1>15, <3>1, <3>4
      <4>2. \A kinds : Waits(st.q, n, kinds) <=> Waits(q, n, kinds)
        BY <1>20, <3>4
      <4>. QED
        BY <1>14, <3>1, <3>3, <4>1, <4>2 DEF Tells
    <3>5. CASE n = ev.run
      <4>1. t = s /\ st.svc[t] = e /\ e.run = ev.run /\ b.svc[t] = Told(e, kind) /\ st.runs[n] = run
        BY <1>6, <1>7, <1>8, <1>10, <1>15, <3>1, <3>2, <3>5
      <4>2. run.proc # "none" /\ ~run.stopping /\ Said(run, kind) /\ Tells(e, run, st.q)
        BY <1>5, <1>6, <1>9, <1>14, <2>1, <3>0, <3>1, <3>3, <4>1
      <4>3. ASSUME NEW kinds \in {Readies, Ends, {"NotReady"}}
            PROVE  /\ Waits(st.q, e.run, kinds) <=> kind \in kinds \/ Waits(q, e.run, kinds)
                   /\ kind \in kinds => ~Waits(q, e.run, kinds)
        BY <1>20, <1>21, <4>1
      <4>4. Tells(Told(e, kind), run, q)
        BY <4>2, <4>3, ToldTells
      <4>. QED
        BY <1>14, <3>0, <3>1, <4>1, <4>4
    <3>. QED
      BY <3>4, <3>5
  <2>. QED
    BY <2>1 DEF Truthful
<1>. QED
  BY <1>12, <1>14, <1>17, <1>18, <1>19, <1>22 DEF Good

-----------------------------------------------------------------------------
(* The tasks beside a process: a step of run r to x, that may send a word. *)

(* A step of one run to x, which sends kind, or nothing. *)
Moves(run, x, kind) ==
  /\ x.svc = run.svc /\ x.stopping = run.stopping
  /\ \/ x.proc = run.proc
     \/ run.proc = "up" /\ x.proc \in {"ok", "err"} /\ run.gone = "no"
  /\ InOrder(x)
  /\ run.ready = "sent" => kind \notin Readies
  /\ run.late = "sent" => kind # "NotReady"
  /\ run.gone = "sent" => kind \notin Ends
  /\ x.ready = "sent" <=> run.ready = "sent" \/ kind \in Readies
  /\ x.late = "sent" <=> run.late = "sent" \/ kind = "NotReady"
  /\ x.gone = "sent" <=> run.gone = "sent" \/ kind \in Ends
  /\ kind \in Ends => /\ run.proc # "none" /\ x.proc = run.proc
                      /\ ~run.stopping => kind = IF run.proc = "ok" THEN "Stopped" ELSE "Failed"

(* st after the step of run r. *)
Moved(st, r, x, kind) ==
  [st EXCEPT !.runs = [st.runs EXCEPT ![r] = x],
             !.q = IF kind = "nothing" THEN st.q ELSE Append(st.q, Event(r, kind))]

(* A task's step takes back nothing that was said, and says nothing twice. *)
LEMMA MovesSaid ==
  ASSUME NEW run \in Runs, NEW x \in Runs, NEW kind, Moves(run, x, kind),
         InOrder(run)
  PROVE  /\ \A other : Said(run, other) => Said(x, other)
         /\ kind \in Kinds => /\ Said(x, kind)
                              /\ \A other : Said(run, other) => ~Alike(kind, other)
<1>1. ASSUME NEW other, Said(run, other)
      PROVE  Said(x, other)
  BY <1>1 DEF Said, Moves, Ends, InOrder
<1>2. ASSUME NEW other, Said(run, other), kind \in Kinds
      PROVE  ~Alike(kind, other)
  <2>1. ~(kind \in Readies /\ other \in Readies)
    BY <1>2 DEF Said, Moves, InOrder
  <2>2. ~(kind \in Ends /\ other \in Ends)
    BY <1>2 DEF Said, Moves, InOrder
  <2>3. ~(kind = "NotReady" /\ other = "NotReady")
    BY <1>2 DEF Said, Moves, InOrder
  <2>. QED
    BY <1>2, <2>1, <2>2, <2>3 DEF Alike, Kinds, Readies, Ends
<1>3. ASSUME kind \in Kinds
      PROVE  Said(x, kind)
  <2>1. kind \in Readies => x.ready = "sent"
    BY DEF Moves
  <2>2. kind = "NotReady" => x.late = "sent"
    BY DEF Moves
  <2>3. kind \in Ends =>
          /\ x.gone = "sent" /\ x.proc # "none" /\ run.proc # "none"
          /\ ~x.stopping => kind = IF x.proc = "ok" THEN "Stopped" ELSE "Failed"
    BY DEF Moves, InOrder
  <2>. QED
    BY <2>1, <2>2, <2>3 DEF Said
<1>. QED
  BY <1>1, <1>2, <1>3

(* What an entry says stays true: the word is still under way.             *)
LEMMA MovesTells ==
  ASSUME NEW run \in Runs, NEW x \in Runs, NEW kind \in Kinds \cup {"nothing"},
         Moves(run, x, kind), NEW e, NEW q, NEW rest, Tells(e, run, q),
         \A kinds \in {Readies, Ends, {"NotReady"}} :
           Waits(rest, e.run, kinds) <=> Waits(q, e.run, kinds) \/ kind \in kinds
  PROVE  Tells(e, x, rest)
<1>1. PICK wr, we, wn \in BOOLEAN :
        /\ wr = Waits(q, e.run, Readies) /\ we = Waits(q, e.run, Ends)
        /\ wn = Waits(q, e.run, {"NotReady"})
  BY Zenon DEF Waits
<1>2. PICK vr, ve, vn \in BOOLEAN :
        /\ vr = Waits(rest, e.run, Readies) /\ ve = Waits(rest, e.run, Ends)
        /\ vn = Waits(rest, e.run, {"NotReady"})
  BY Zenon DEF Waits
<1>3. PICK kr, ke, kn \in BOOLEAN :
        kr = (kind \in Readies) /\ ke = (kind \in Ends) /\ kn = (kind = "NotReady")
  <2>1. (kind \in Readies) \in BOOLEAN /\ (kind \in Ends) \in BOOLEAN
          /\ (kind = "NotReady") \in BOOLEAN
    OBVIOUS
  <2>. QED
    BY <2>1, Zenon
<1>4. vr = (wr \/ kr) /\ ve = (we \/ ke) /\ vn = (wn \/ kn)
  BY <1>1, <1>2, <1>3
<1>5. /\ (x.ready = "sent") = (run.ready = "sent" \/ kr) /\ (run.ready = "sent" => ~kr)
      /\ (x.late = "sent") = (run.late = "sent" \/ kn) /\ (run.late = "sent" => ~kn)
      /\ (x.gone = "sent") = (run.gone = "sent" \/ ke) /\ (run.gone = "sent" => ~ke)
      /\ run.gone = "sent" => x.proc = run.proc
  BY <1>3 DEF Moves, InOrder
<1>6. /\ run.gone = "sent" /\ ~we =>
           ~e.alive /\ e.status = IF run.proc = "ok" THEN "Stopped" ELSE "Failed"
      /\ ~(run.gone = "sent" /\ ~we) =>
           e.alive /\ e.status = IF run.ready = "sent" /\ ~wr THEN "Running"
                                 ELSE IF run.late = "sent" /\ ~wn THEN "Failed" ELSE "Starting"
  BY <1>1 DEF Tells
<1>7. /\ x.gone = "sent" /\ ~ve =>
           ~e.alive /\ e.status = IF x.proc = "ok" THEN "Stopped" ELSE "Failed"
      /\ ~(x.gone = "sent" /\ ~ve) =>
           e.alive /\ e.status = IF x.ready = "sent" /\ ~vr THEN "Running"
                                 ELSE IF x.late = "sent" /\ ~vn THEN "Failed" ELSE "Starting"
  BY <1>4, <1>5, <1>6
<1>. QED
  BY <1>2, <1>7 DEF Tells

(* A step of a run's tasks keeps to what holds of every state. *)
LEMMA MovedGood ==
  ASSUME NEW st, NEW W, Good(st, W), NEW r \in DOMAIN st.runs, NEW run, run = st.runs[r],
         NEW x \in Runs, NEW kind \in Kinds \cup {"nothing"}, Moves(run, x, kind)
  PROVE  Good(Moved(st, r, x, kind), W)
<1>1. /\ st \in States /\ st.q \in Seq(Events) /\ st.runs \in Seq(Runs)
      /\ st.svc \in [Svcs -> Entries] /\ DOMAIN st.runs = 1..Len(st.runs)
  BY DEF Good, States
<1>2. run \in Runs
  BY <1>1, ElementOfSeq
<1>3. PICK rs : rs = [st.runs EXCEPT ![r] = x]
  OBVIOUS
<1>4. PICK q : q = IF kind = "nothing" THEN st.q ELSE Append(st.q, Event(r, kind))
  OBVIOUS
<1>5. PICK b : b = [st EXCEPT !.runs = rs, !.q = q]
  OBVIOUS
<1>6. Moved(st, r, x, kind) = b
  BY <1>3, <1>4, <1>5 DEF Moved
<1>7. /\ rs \in Seq(Runs) /\ DOMAIN rs = DOMAIN st.runs /\ Len(rs) = Len(st.runs)
      /\ rs[r] = x /\ \A i \in DOMAIN rs : i # r => rs[i] = st.runs[i]
  BY <1>1, <1>3, ExceptSeq
<1>8. PICK ev \in Events : kind \in Kinds => ev = Event(r, kind)
  <2>1. kind \in Kinds => Event(r, kind) \in Events
    BY <1>1 DEF Event, Events
  <2>2. Event(0, "Running") \in Events
    BY DEF Event, Events, Kinds
  <2>. QED
    BY <2>1, <2>2
<1>9. kind \in Kinds => ev.run = r /\ ev.kind = kind
  BY <1>8 DEF Event
<1>10. /\ q \in Seq(Events) /\ "nothing" \notin Kinds
       /\ kind = "nothing" => q = st.q
       /\ kind \in Kinds => Len(q) = Len(st.q) + 1 /\ q[Len(st.q) + 1] = ev
       /\ \A i \in DOMAIN st.q : i \in DOMAIN q /\ q[i] = st.q[i]
       /\ \A i \in DOMAIN q : i \in DOMAIN st.q \/ (kind \in Kinds /\ i = Len(st.q) + 1)
  <2>1. "nothing" \notin Kinds
    BY DEF Kinds
  <2>2. CASE kind = "nothing"
    BY <1>1, <1>4, <2>1, <2>2
  <2>3. CASE kind \in Kinds
    <3>1. q = Append(st.q, ev)
      BY <1>4, <1>8, <2>1, <2>3
    <3>. QED
      BY <1>1, <2>1, <2>3, <3>1, AppendProperties
  <2>. QED
    BY <2>2, <2>3
<1>11. /\ b.svc = st.svc /\ b.runs = rs /\ b.q = q /\ b.fwd = st.fwd /\ b.watch = st.watch
       /\ b \in States
  BY <1>1, <1>5, <1>7, <1>10 DEF States
<1>12. /\ x.svc = run.svc /\ x.stopping = run.stopping
       /\ x.proc = "up" => run.proc = "up"
       /\ x.proc = "none" <=> run.proc = "none"
  BY DEF Moves, InOrder
<1>13. \A i \in DOMAIN rs : /\ rs[i].svc = st.runs[i].svc /\ rs[i].stopping = st.runs[i].stopping
                            /\ rs[i].proc = "up" => st.runs[i].proc = "up"
                            /\ rs[i].proc = "none" <=> st.runs[i].proc = "none"
  BY <1>7, <1>12
<1>14. Named(b)
  <2>1. ASSUME NEW t \in Svcs
        PROVE  /\ b.svc[t].run \in 0..Len(b.runs) /\ b.svc[t].group \in 0..b.svc[t].run
               /\ b.svc[t].run # 0 => b.runs[b.svc[t].run].svc = t
               /\ b.svc[t].group # 0 => b.runs[b.svc[t].group].svc = t
               /\ b.svc[t].held # {} => b.svc[t].status \in {"Starting", "Failed"}
               /\ b.svc[t].status = "none" => b.svc[t] = NoService
    <3>1. /\ st.svc[t].run \in 0..Len(st.runs) /\ st.svc[t].group \in 0..st.svc[t].run
          /\ st.svc[t].run # 0 => st.runs[st.svc[t].run].svc = t
          /\ st.svc[t].group # 0 => st.runs[st.svc[t].group].svc = t
          /\ st.svc[t].held # {} => st.svc[t].status \in {"Starting", "Failed"}
          /\ st.svc[t].status = "none" => st.svc[t] = NoService
      BY DEF Good, Named
    <3>2. /\ st.svc[t].run # 0 => st.svc[t].run \in DOMAIN rs
          /\ st.svc[t].group # 0 => st.svc[t].group \in DOMAIN rs
      BY <1>1, <1>7, <3>1
    <3>. QED
      BY <1>7, <1>11, <1>13, <3>1, <3>2
  <2>2. ASSUME NEW i \in DOMAIN b.q
        PROVE  b.q[i].run \in DOMAIN b.runs
    BY <1>7, <1>9, <1>10, <1>11 DEF Good, Named
  <2>3. b.fwd.run \in 0..Len(b.watch)
    BY <1>11 DEF Good, Named
  <2>. QED
    BY <2>1, <2>2, <2>3 DEF Named
<1>15. Owned(b, W)
  <2>1. ASSUME NEW i \in DOMAIN b.runs, b.runs[i].proc = "up", NEW g, g = b.svc[b.runs[i].svc]
        PROVE  /\ g.run = i /\ g.group = i /\ g.alive
               /\ g.status \in {"Starting", "Running", "Failed"}
               /\ b.runs[i].svc \in W
    BY <1>7, <1>11, <1>13, <2>1 DEF Good, Owned
  <2>2. ASSUME NEW t \in Svcs
        PROVE  /\ b.svc[t].alive => b.svc[t].run # 0 /\ b.runs[b.svc[t].run].proc # "none"
               /\ b.svc[t].held # {} => /\ b.svc[t].run # 0 /\ t \in W
                                        /\ b.runs[b.svc[t].run].proc = "none"
    <3>1. /\ st.svc[t].alive => st.svc[t].run # 0 /\ st.runs[st.svc[t].run].proc # "none"
          /\ st.svc[t].held # {} => /\ st.svc[t].run # 0 /\ t \in W
                                    /\ st.runs[st.svc[t].run].proc = "none"
      BY DEF Good, Owned
    <3>2. st.svc[t].run # 0 => st.svc[t].run \in DOMAIN rs
      BY <1>1, <1>7 DEF Good, Named
    <3>. QED
      BY <1>11, <1>13, <3>1, <3>2
  <2>. QED
    BY <2>1, <2>2 DEF Owned
<1>16. InOrder(run)
  BY DEF Good, Spoken
<1>17. /\ \A other : Said(run, other) => Said(x, other)
       /\ kind \in Kinds => /\ Said(x, kind)
                            /\ \A other : Said(run, other) => ~Alike(kind, other)
  BY <1>2, <1>16, MovesSaid
<1>18. Spoken(b)
  <2>1. ASSUME NEW i \in DOMAIN rs
        PROVE  InOrder(rs[i])
    BY <1>7, <2>1 DEF Good, Spoken, Moves
  <2>2. ASSUME NEW i \in DOMAIN st.q
        PROVE  Said(rs[st.q[i].run], st.q[i].kind)
    <3>1. Said(st.runs[st.q[i].run], st.q[i].kind) /\ st.q[i].run \in DOMAIN st.runs
      BY DEF Good, Spoken, Named
    <3>. QED
      BY <1>7, <1>17, <3>1
  <2>3. ASSUME NEW i \in DOMAIN st.q, kind \in Kinds, st.q[i].run = r
        PROVE  ~Alike(kind, st.q[i].kind) /\ ~Alike(st.q[i].kind, kind)
    <3>1. Said(run, st.q[i].kind)
      BY <2>3 DEF Good, Spoken
    <3>2. ~Alike(kind, st.q[i].kind)
      BY <1>17, <2>3, <3>1
    <3>. QED
      BY <3>2 DEF Alike
  <2>4. ASSUME NEW i \in DOMAIN q
        PROVE  Said(rs[q[i].run], q[i].kind)
    BY <1>7, <1>9, <1>10, <1>17, <2>2
  <2>5. ASSUME NEW i \in DOMAIN q, NEW j \in DOMAIN q, i # j, q[i].run = q[j].run
        PROVE  ~Alike(q[i].kind, q[j].kind)
    <3>1. CASE i \in DOMAIN st.q /\ j \in DOMAIN st.q
      BY <1>10, <2>5, <3>1 DEF Good, Spoken
    <3>2. CASE i \notin DOMAIN st.q
      <4>1. kind \in Kinds /\ i = Len(st.q) + 1 /\ j \in DOMAIN st.q
        BY <1>10, <2>5, <3>2
      <4>. QED
        BY <1>9, <1>10, <2>3, <2>5, <4>1
    <3>3. CASE j \notin DOMAIN st.q
      <4>1. kind \in Kinds /\ j = Len(st.q) + 1 /\ i \in DOMAIN st.q
        BY <1>10, <2>5, <3>3
      <4>. QED
        BY <1>9, <1>10, <2>3, <2>5, <4>1
    <3>. QED
      BY <3>1, <3>2, <3>3
  <2>. QED
    BY <1>11, <2>1, <2>4, <2>5 DEF Spoken
<1>19. ASSUME NEW n, NEW kinds
       PROVE  Waits(q, n, kinds) <=> Waits(st.q, n, kinds) \/ (n = r /\ kind \in Kinds \cap kinds)
  <2>1. ASSUME Waits(st.q, n, kinds)
        PROVE  Waits(q, n, kinds)
    BY <1>10, <2>1 DEF Waits
  <2>2. ASSUME n = r, kind \in Kinds \cap kinds
        PROVE  Waits(q, n, kinds)
    <3>1. Len(st.q) + 1 \in DOMAIN q
      BY <1>1, <1>10, <2>2
    <3>. QED
      BY <1>9, <1>10, <2>2, <3>1 DEF Waits
  <2>3. ASSUME Waits(q, n, kinds)
        PROVE  Waits(st.q, n, kinds) \/ (n = r /\ kind \in Kinds \cap kinds)
    <3>1. PICK i \in DOMAIN q : q[i].run = n /\ q[i].kind \in kinds
      BY <2>3 DEF Waits
    <3>. QED
      BY <1>9, <1>10, <3>1 DEF Waits
  <2>. QED
    BY <2>1, <2>2, <2>3
<1>20. Truthful(b)
  <2>1. ASSUME NEW t \in Svcs, b.svc[t].run # 0, b.runs[b.svc[t].run].proc # "none",
               ~b.runs[b.svc[t].run].stopping
        PROVE  Tells(b.svc[t], b.runs[b.svc[t].run], b.q)
    <3>1. PICK e : e = st.svc[t]
      OBVIOUS
    <3>2. e.run \in DOMAIN st.runs
      BY <1>1, <1>11, <2>1, <3>1 DEF Good, Named
    <3>3. Tells(e, st.runs[e.run], st.q)
      BY <1>7, <1>11, <1>13, <2>1, <3>1, <3>2 DEF Good, Truthful
    <3>4. CASE e.run # r
      <4>1. \A kinds : Waits(q, e.run, kinds) <=> Waits(st.q, e.run, kinds)
        BY <1>19, <3>4
      <4>2. rs[e.run] = st.runs[e.run]
        BY <1>7, <3>2, <3>4
      <4>. QED
        BY <1>11, <3>1, <3>3, <4>1, <4>2 DEF Tells
    <3>5. CASE e.run = r
      <4>1. ASSUME NEW kinds \in {Readies, Ends, {"NotReady"}}
            PROVE  Waits(q, e.run, kinds) <=> Waits(st.q, e.run, kinds) \/ kind \in kinds
        <5>1. "nothing" \notin kinds
          BY DEF Readies, Ends
        <5>. QED
          BY <1>19, <3>5, <5>1
      <4>2. Tells(e, run, st.q)
        BY <3>3, <3>5
      <4>3. Tells(e, x, q)
        BY <1>2, <4>1, <4>2, MovesTells
      <4>. QED
        BY <1>7, <1>11, <3>1, <3>5, <4>3
    <3>. QED
      BY <3>4, <3>5
  <2>. QED
    BY <2>1 DEF Truthful
<1>. QED
  BY <1>6, <1>11, <1>14, <1>15, <1>18, <1>20 DEF Good

-----------------------------------------------------------------------------
(* What holds of every state.                                              *)

(* The inductive invariant. The four properties are about the entries, the *)
(* events under way and the dependents; none is inductive without what     *)
(* Good says of all of them.                                               *)
IInv ==
  /\ Good(Now, wanted)
  /\ ~skipped => Calm(Now, applied, {}, {})
  /\ pfq \in Seq(PfKinds)
  /\ file \in Configs \cup {Broken} /\ applied \in Configs
  /\ acts \in 0..MaxActs /\ wanted \subseteq Svcs /\ skipped \in BOOLEAN

(* The fields of Now. *)
LEMMA NowIs ==
  /\ Now.svc = svc /\ Now.runs = runs /\ Now.q = svcq /\ Now.fwd = fwd /\ Now.watch = watch
  /\ Now'.svc = svc' /\ Now'.runs = runs' /\ Now'.q = svcq'
  /\ Now'.fwd = fwd' /\ Now'.watch = watch'
BY DEF Now

(* A handler's state is the next one. *)
LEMMA BecomesIs ==
  ASSUME NEW st \in States, Becomes(st)
  PROVE  Now' = st
BY DEF Now, Becomes, States

(* IInv holds at the start. *)
LEMMA Initially == Init => IInv
<1>1. SUFFICES ASSUME Init
               PROVE  IInv
  OBVIOUS
<1>2. /\ svc = [s \in Svcs |-> NoService] /\ runs = <<>> /\ svcq = <<>>
      /\ fwd = NoForward /\ watch = <<>> /\ pfq = <<>>
  BY <1>1 DEF Init, ForwardInit
<1>3. NoService \in Entries /\ NoForward \in Forwards /\ NoForward.run = 0
  BY DEF NoService, Entries, Statuses, NoForward, Forwards, PfStatuses
<1>4. Now \in States
  BY <1>2, <1>3 DEF Now, States
<1>5. \A s \in Svcs : svc[s] = NoService
  BY <1>2
<1>6. /\ NoService.status = "none" /\ NoService.run = 0 /\ NoService.group = 0
      /\ NoService.alive = FALSE /\ NoService.held = {}
  BY DEF NoService
<1>7. Named(Now)
  BY <1>2, <1>3, <1>5, <1>6, NowIs DEF Named
<1>8. Owned(Now, wanted)
  BY <1>2, <1>5, <1>6, NowIs DEF Owned
<1>9. Spoken(Now) /\ Truthful(Now)
  BY <1>2, <1>5, <1>6, NowIs DEF Spoken, Truthful
<1>10. Calm(Now, applied, {}, {})
  BY <1>5, <1>6, NowIs DEF Calm, waiting_in_project
<1>11. acts = 0 /\ wanted = {} /\ skipped = FALSE /\ file \in Configs /\ applied = file
  BY <1>1 DEF Init
<1>12. 0 \in 0..MaxActs
  BY ServiceAssumption DEF ServiceAssumption
<1>13. pfq \in Seq(PfKinds)
  BY <1>2
<1>. QED
  BY <1>4, <1>7, <1>8, <1>9, <1>10, <1>11, <1>12, <1>13 DEF IInv, Good

-----------------------------------------------------------------------------
(* The tasks and the watchers *)

(* Each of the tasks' actions is such a step. *)
LEMMA TaskMoves ==
  ASSUME NEW r \in DOMAIN runs, runs[r] \in Runs,
         InOrder(runs[r]), Tasks(r)
  PROVE  \E x \in Runs : \E kind \in Kinds \cup {"nothing"} :
           /\ Moves(runs[r], x, kind) /\ runs' = [runs EXCEPT ![r] = x]
           /\ svcq' = IF kind = "nothing" THEN svcq ELSE Append(svcq, Event(r, kind))
<1>0. PICK run \in Runs : run = runs[r]
  OBVIOUS
<1>1. ASSUME NEW x \in Runs, Moves(run, x, "nothing"), RunGoes(r, x), UNCHANGED svcq
      PROVE  \E y \in Runs : \E kind \in Kinds \cup {"nothing"} :
               /\ Moves(runs[r], y, kind) /\ runs' = [runs EXCEPT ![r] = y]
               /\ svcq' = IF kind = "nothing" THEN svcq ELSE Append(svcq, Event(r, kind))
  BY <1>0, <1>1 DEF RunGoes
<1>2. ASSUME NEW x \in Runs, NEW kind \in Kinds, Moves(run, x, kind), RunGoes(r, x),
             Reports(r, kind)
      PROVE  \E y \in Runs : \E k \in Kinds \cup {"nothing"} :
               /\ Moves(runs[r], y, k) /\ runs' = [runs EXCEPT ![r] = y]
               /\ svcq' = IF k = "nothing" THEN svcq ELSE Append(svcq, Event(r, k))
  <2>1. kind # "nothing"
    BY DEF Kinds
  <2>. QED
    BY <1>0, <1>2, <2>1 DEF RunGoes, Reports
<1>3. CASE Settles(r)
  <2>1. PICK x : x = [run EXCEPT !.settled = TRUE, !.ready = "won"]
    OBVIOUS
  <2>2. RunGoes(r, x) /\ UNCHANGED svcq /\ run.proc # "none" /\ ~run.settled
    BY <1>0, <1>3, <2>1 DEF Settles
  <2>3. x \in Runs /\ Moves(run, x, "nothing")
    BY <1>0, <2>1, <2>2 DEF Runs, Moves, InOrder, Readies, Ends
  <2>. QED
    BY <1>1, <2>2, <2>3
<1>4. CASE SwapsTimedOut(r)
  <2>1. PICK x : x = [run EXCEPT !.late = "swapped", !.timed = TRUE]
    OBVIOUS
  <2>2. RunGoes(r, x) /\ UNCHANGED svcq /\ run.late = "checked"
    BY <1>0, <1>4, <2>1 DEF SwapsTimedOut
  <2>3. x \in Runs /\ Moves(run, x, "nothing")
    BY <1>0, <2>1, <2>2 DEF Runs, Moves, InOrder, Readies, Ends
  <2>. QED
    BY <1>1, <2>2, <2>3
<1>5. CASE TimesOut(r)
  <2>1. PICK x : x = [run EXCEPT !.late = "checked"]
    OBVIOUS
  <2>2. RunGoes(r, x) /\ UNCHANGED svcq /\ run.late = "no"
    BY <1>0, <1>5, <2>1 DEF TimesOut
  <2>3. x \in Runs /\ Moves(run, x, "nothing")
    BY <1>0, <2>1, <2>2 DEF Runs, Moves, InOrder, Readies, Ends
  <2>. QED
    BY <1>1, <2>2, <2>3
<1>6. CASE ExitSeen(r)
  <2>1. PICK x : x = [run EXCEPT !.settled = TRUE, !.gone = "marked"]
    OBVIOUS
  <2>2. RunGoes(r, x) /\ UNCHANGED svcq /\ run.proc \in {"ok", "err"} /\ run.gone = "no"
    BY <1>0, <1>6, <2>1 DEF ExitSeen
  <2>3. x \in Runs /\ Moves(run, x, "nothing")
    BY <1>0, <2>1, <2>2 DEF Runs, Moves, InOrder, Readies, Ends
  <2>. QED
    BY <1>1, <2>2, <2>3
<1>7. CASE LoadsTimedOut(r)
  <2>1. PICK ready \in {"late", "plain"} : ready = IF run.timed THEN "late" ELSE "plain"
    OBVIOUS
  <2>2. PICK x : x = [run EXCEPT !.ready = ready]
    OBVIOUS
  <2>3. RunGoes(r, x) /\ UNCHANGED svcq /\ run.ready = "won"
    BY <1>0, <1>7, <2>1, <2>2 DEF LoadsTimedOut
  <2>4. x \in Runs /\ Moves(run, x, "nothing")
    BY <1>0, <2>2, <2>3 DEF Runs, Moves, InOrder, Readies, Ends
  <2>. QED
    BY <1>1, <2>3, <2>4
<1>8. CASE Exits(r)
  <2>1. PICK code \in {"ok", "err"} : RunGoes(r, [run EXCEPT !.proc = code])
    BY <1>0, <1>8 DEF Exits
  <2>2. PICK x : x = [run EXCEPT !.proc = code]
    OBVIOUS
  <2>3. RunGoes(r, x) /\ UNCHANGED svcq /\ run.proc = "up"
    BY <1>0, <1>8, <2>1, <2>2 DEF Exits
  <2>4. x \in Runs /\ Moves(run, x, "nothing")
    BY <1>0, <2>2, <2>3 DEF Runs, Moves, InOrder, Readies, Ends
  <2>. QED
    BY <1>1, <2>3, <2>4
<1>9. CASE ReportsReady(r)
  <2>1. PICK kind \in {"LateReady", "Running"} :
          kind = IF run.ready = "late" THEN "LateReady" ELSE "Running"
    OBVIOUS
  <2>2. PICK x : x = [run EXCEPT !.ready = "sent"]
    OBVIOUS
  <2>3. RunGoes(r, x) /\ Reports(r, kind) /\ run.ready \in {"plain", "late"}
    BY <1>0, <1>9, <2>1, <2>2 DEF ReportsReady
  <2>4. x \in Runs /\ kind \in Kinds /\ Moves(run, x, kind)
    BY <1>0, <2>1, <2>2, <2>3 DEF Runs, Moves, InOrder, Readies, Ends, Kinds
  <2>. QED
    BY <1>2, <2>3, <2>4
<1>10. CASE ReportsNotReady(r)
  <2>1. PICK kind \in {"NotReady"} :
          kind = "NotReady"
    OBVIOUS
  <2>2. PICK x : x = [run EXCEPT !.late = "sent"]
    OBVIOUS
  <2>3. RunGoes(r, x) /\ Reports(r, kind) /\ run.late = "swapped"
    BY <1>0, <1>10, <2>1, <2>2 DEF ReportsNotReady
  <2>4. x \in Runs /\ kind \in Kinds /\ Moves(run, x, kind)
    BY <1>0, <2>1, <2>2, <2>3 DEF Runs, Moves, InOrder, Readies, Ends, Kinds
  <2>. QED
    BY <1>2, <2>3, <2>4
<1>11. CASE ReportsExit(r)
  <2>1. PICK kind \in {"Stopped", "Failed"} :
          kind = IF run.stopping \/ run.proc = "ok" THEN "Stopped" ELSE "Failed"
    OBVIOUS
  <2>2. PICK x : x = [run EXCEPT !.gone = "sent"]
    OBVIOUS
  <2>3. RunGoes(r, x) /\ Reports(r, kind) /\ run.gone = "marked"
    BY <1>0, <1>11, <2>1, <2>2 DEF ReportsExit
  <2>4. x \in Runs /\ kind \in Kinds /\ Moves(run, x, kind)
    BY <1>0, <2>1, <2>2, <2>3 DEF Runs, Moves, InOrder, Readies, Ends, Kinds
  <2>. QED
    BY <1>2, <2>3, <2>4
<1>. QED
  BY <1>3, <1>4, <1>5, <1>6, <1>7, <1>8, <1>9, <1>10, <1>11 DEF Tasks

(* Nobody waits for another reason when a word is added.                   *)
LEMMA CalmSame ==
  ASSUME NEW st, NEW b, NEW c, Calm(st, c, {}, {}), b.svc = st.svc, b.fwd = st.fwd,
         b.q = st.q \/ b.q # <<>>
  PROVE  Calm(b, c, {}, {})
<1>1. waiting_in_project(b) = waiting_in_project(st)
  BY DEF waiting_in_project
<1>2. \A dep : dependency_state(b, c, dep) = dependency_state(st, c, dep)
  BY DEF dependency_state
<1>3. \A s : Rightly(b, c, s, {}) <=> Rightly(st, c, s, {})
  BY <1>2 DEF Rightly, Coming, Barred
<1>. QED
  BY <1>1, <1>3 DEF Calm

(* A forward that starts, when no service changes, leaves everyone waiting *)
(* rightly.                                                                *)
LEMMA CalmForward ==
  ASSUME NEW st, NEW b, NEW W, Good(b, W), NEW c, Calm(st, c, {}, {}), b.svc = st.svc, b.q = st.q,
         b.fwd = st.fwd \/ b.fwd.status = "Starting"
  PROVE  Calm(b, c, {}, {})
<1>1. ASSUME NEW dep \in Names
      PROVE  \/ dependency_state(b, c, dep) = "Pending"
             \/ dependency_state(b, c, dep) = dependency_state(st, c, dep)
  BY StateOf DEF Names
<1>2. \A w \in Svcs : b.svc[w].held \subseteq Names
  BY DEF Good, States, Entries
<1>3. waiting_in_project(b) = waiting_in_project(st)
  BY DEF waiting_in_project
<1>. QED
  BY <1>1, <1>2, <1>3, CalmStep

(* IInv is kept by the tasks beside a process, *)
LEMMA TasksKeep ==
  ASSUME IInv, NEW r \in DOMAIN runs, Tasks(r), Beside
  PROVE  IInv'
<1>1. PICK st : st = Now
  OBVIOUS
<1>2. Good(st, wanted) /\ st.runs = runs /\ st.q = svcq
  BY <1>1, NowIs DEF IInv
<1>3. runs[r] \in Runs /\ InOrder(runs[r])
  BY <1>2, ElementOfSeq DEF Good, States, Spoken
<1>4. PICK x \in Runs, kind \in Kinds \cup {"nothing"} :
        /\ Moves(runs[r], x, kind) /\ runs' = [runs EXCEPT ![r] = x]
        /\ svcq' = IF kind = "nothing" THEN svcq ELSE Append(svcq, Event(r, kind))
  BY <1>3, TaskMoves
<1>5. PICK b : b = Moved(st, r, x, kind)
  OBVIOUS
<1>6. Good(b, wanted)
  BY <1>2, <1>4, <1>5, MovedGood
<1>7. Now' = b
  BY <1>1, <1>2, <1>4, <1>5 DEF Now, Moved, Beside
<1>8. ASSUME ~skipped
      PROVE  Calm(b, applied, {}, {})
  <2>1. svcq' = svcq \/ svcq' # <<>>
    <3>1. svcq \in Seq(Events)
      BY <1>2 DEF Good, States
    <3>2. CASE kind = "nothing"
      BY <1>4, <3>2
    <3>3. CASE kind # "nothing"
      <4>1. Event(r, kind) \in Events
        BY <1>2, <1>4, <3>3 DEF Event, Events, Good, States
      <4>. QED
        BY <1>4, <3>1, <3>3, <4>1, AppendProperties
    <3>. QED
      BY <3>2, <3>3
  <2>2. b.svc = st.svc /\ b.fwd = st.fwd /\ b.q = svcq'
    BY <1>1, <1>7, NowIs DEF Beside
  <2>. QED
    BY <1>1, <1>2, <1>8, <2>1, <2>2, CalmSame DEF IInv
<1>9. acts' \in 0..MaxActs
  BY ServiceAssumption DEF IInv, Tasks, TimesOut, Exits, Acts, ServiceAssumption
<1>. QED
  BY <1>6, <1>7, <1>8, <1>9 DEF IInv, Beside

(* The watchers change themselves and the events they send.                *)
LEMMA WatcherTypes ==
  ASSUME watch \in Seq(Watchers), pfq \in Seq(PfKinds), NEW g \in DOMAIN watch,
         Watches(g) \/ Trouble(g)
  PROVE  /\ watch' \in Seq(Watchers) /\ Len(watch') = Len(watch)
         /\ pfq' \in Seq(PfKinds) /\ fwd' = fwd
<1>1. PICK w \in Watchers : w = watch[g]
  BY ElementOfSeq
<1>2. ASSUME NEW x \in Watchers, Goes(g, x)
      PROVE  watch' \in Seq(Watchers) /\ Len(watch') = Len(watch)
  BY <1>2, ExceptSeq DEF Goes
<1>3. ASSUME NEW kind \in PfKinds, Sends(kind)
      PROVE  pfq' \in Seq(PfKinds)
  BY <1>3, AppendProperties DEF Sends
<1>4. ASSUME NEW at \in Steps
      PROVE  [w EXCEPT !.at = at] \in Watchers
  BY DEF Watchers
<1>5. MaxFailures \in Nat \ {0}
  BY PortForwardAssumption DEF PortForwardAssumption
<1>6. {"gone", "look", "connect", "up", "recheck", "sleep"} \subseteq Steps
  BY DEF Steps
<1>7. {"ServedLocally", "Failed", "Active", "Restarted"} \subseteq PfKinds
  BY DEF PfKinds
<1>8. CASE Probe(g)
  BY <1>1, <1>2, <1>3, <1>4, <1>6, <1>7, <1>8 DEF Probe
<1>9. CASE Look(g)
  <2>1. [w EXCEPT !.at = "recheck", !.fails = 0] \in Watchers
    <3>1. 0 \in 0..MaxFailures /\ "recheck" \in Steps
      BY <1>5, <1>6
    <3>. QED
      BY <3>1 DEF Watchers
  <2>2. /\ \/ Goes(g, [w EXCEPT !.at = "recheck", !.fails = 0]) /\ UNCHANGED pfq
           \/ Goes(g, [w EXCEPT !.at = "gone"]) /\ Sends("Failed")
           \/ Goes(g, [w EXCEPT !.at = "connect"]) /\ UNCHANGED pfq
        /\ fwd' = fwd
    BY <1>1, <1>9 DEF Look
  <2>. QED
    BY <1>2, <1>3, <1>4, <1>6, <1>7, <2>1, <2>2
<1>10. CASE Connected(g)
  <2>1. [at |-> "up", once |-> TRUE, fails |-> 0] \in Watchers
    BY <1>5, <1>6 DEF Watchers
  <2>2. PICK kind \in PfKinds : Sends(kind)
    BY <1>7, <1>10 DEF Connected
  <2>. QED
    BY <1>2, <1>3, <1>10, <2>1, <2>2 DEF Connected
<1>11. CASE LooksAgain(g)
  BY <1>1, <1>2, <1>4, <1>6, <1>11 DEF LooksAgain
<1>12. CASE Fails(g)
  <2>1. PICK fails : fails = w.fails + 1
    OBVIOUS
  <2>2. ASSUME fails < MaxFailures
        PROVE  [w EXCEPT !.at = "sleep", !.fails = fails] \in Watchers
    <3>1. w.fails \in 0..MaxFailures
      BY DEF Watchers
    <3>2. fails \in 0..MaxFailures /\ "sleep" \in Steps
      BY <1>5, <1>6, <2>1, <2>2, <3>1
    <3>. QED
      BY <3>2 DEF Watchers
  <2>3. /\ \/ Goes(g, [w EXCEPT !.at = "gone"]) /\ Sends("Failed")
           \/ /\ ~(fails >= MaxFailures)
              /\ Goes(g, [w EXCEPT !.at = "sleep", !.fails = fails]) /\ UNCHANGED pfq
        /\ fwd' = fwd
    BY <1>1, <1>12, <2>1 DEF Fails
  <2>4. w.fails \in Nat
    BY <1>5 DEF Watchers
  <2>. QED
    BY <1>2, <1>3, <1>4, <1>5, <1>6, <1>7, <2>1, <2>2, <2>3, <2>4
<1>13. CASE KubectlExits(g)
  BY <1>1, <1>2, <1>4, <1>6, <1>13 DEF KubectlExits
<1>. QED
  BY <1>8, <1>9, <1>10, <1>11, <1>12, <1>13 DEF Watches, Trouble

(* by the watchers and a forward that is lost, *)
LEMMA WatchersKeep ==
  ASSUME IInv, NEW g \in DOMAIN watch, Watcher(g) \/ ForwardLost(g)
  PROVE  IInv'
<1>1. PICK st : st = Now
  OBVIOUS
<1>2. Good(st, wanted)
  BY <1>1 DEF IInv
<1>3. /\ st \in States /\ watch \in Seq(Watchers) /\ fwd \in Forwards
      /\ fwd.run \in 0..Len(watch) /\ pfq \in Seq(PfKinds)
  BY <1>1, <1>2, NowIs DEF Good, States, Named, IInv
<1>4. /\ watch' \in Seq(Watchers) /\ Len(watch') = Len(watch)
      /\ pfq' \in Seq(PfKinds) /\ fwd' = fwd
  BY <1>3, WatcherTypes DEF Watcher, ForwardLost
<1>5. UNCHANGED <<svc, runs, svcq, file, applied, wanted, skipped>>
  BY DEF Watcher, ForwardLost
<1>6. PICK b : b = WithForward(st, fwd, watch')
  OBVIOUS
<1>7. /\ Good(b, wanted) /\ b.svc = st.svc /\ b.runs = st.runs /\ b.q = st.q /\ b.fwd = fwd
  BY <1>2, <1>3, <1>4, <1>6, ForwardGood
<1>8. Now' = b
  BY <1>1, <1>4, <1>5, <1>6 DEF Now, WithForward
<1>9. ASSUME ~skipped
      PROVE  Calm(b, applied, {}, {})
  <2>1. b.fwd = st.fwd /\ Calm(st, applied, {}, {})
    BY <1>1, <1>7, <1>9, NowIs DEF IInv
  <2>. QED
    BY <1>7, <2>1, CalmSame
<1>10. acts' \in 0..MaxActs
  BY ServiceAssumption DEF IInv, Watcher, ForwardLost, Acts, ServiceAssumption
<1>. QED
  BY <1>4, <1>5, <1>7, <1>8, <1>9, <1>10 DEF IInv

-----------------------------------------------------------------------------
(* The handlers *)

(* The bound on what goes wrong. *)
LEMMA ActsKept ==
  ASSUME acts \in 0..MaxActs, Acts \/ UNCHANGED acts
  PROVE  acts' \in 0..MaxActs
BY ServiceAssumption DEF Acts, ServiceAssumption

(* by any handler that ends in advance_waiting: *)
LEMMA AdvancesKeep ==
  ASSUME NEW st, Good(st, wanted'), file \in Configs \cup {Broken}, NEW bad, Advances(st, bad),
         pfq' \in Seq(PfKinds), UNCHANGED file, applied' \in Configs,
         acts' \in 0..MaxActs, wanted' \subseteq Svcs
  PROVE  IInv'
<1>1. PICK c \in Configs \cup {Broken} : c = file
  OBVIOUS
<1>2. PICK b : b = advance_waiting(st, c, bad)
  OBVIOUS
<1>3. Good(b, wanted') /\ (~PassesOver(st, c) => Calm(b, c, {}, {}))
  BY <1>2, AdvanceGood
<1>4. Now' = b
  BY <1>1, <1>2, <1>3, BecomesIs DEF Advances, Good
<1>5. /\ skipped' \in BOOLEAN
      /\ ~skipped' => ~PassesOver(st, c) /\ c = applied'
  <2>1. (PassesOver(st, file) \/ file # applied') \in BOOLEAN
    OBVIOUS
  <2>. QED
    BY <1>1, <2>1 DEF Advances
<1>. QED
  BY <1>3, <1>4, <1>5 DEF IInv

(* by an event of a service, *)
LEMMA ServiceEventKeeps ==
  ASSUME IInv, ServiceEvent
  PROVE  IInv'
<1>1. PICK st : st = Now
  OBVIOUS
<1>2. Good(st, wanted) /\ st.q = svcq /\ svcq # <<>>
  BY <1>1, NowIs DEF IInv, ServiceEvent
<1>3. PICK b : b = apply_event([st EXCEPT !.q = Tail(@)], Head(st.q))
  OBVIOUS
<1>4. Good(b, wanted)
  BY <1>2, <1>3, EventGood
<1>5. UNCHANGED <<pfq, file, applied, wanted>> /\ Wakes(b)
  BY <1>1, <1>2, <1>3 DEF ServiceEvent
<1>6. PICK bad \in Refused : Advances(b, bad) /\ (Acts \/ UNCHANGED acts)
  BY <1>5 DEF Wakes
<1>7. acts' \in 0..MaxActs
  BY <1>6, ActsKept DEF IInv
<1>. QED
  BY <1>4, <1>5, <1>6, <1>7, AdvancesKeep DEF IInv

(* by an event of the forward, *)
LEMMA ForwardEventKeeps ==
  ASSUME IInv, ForwardEvent
  PROVE  IInv'
<1>1. PICK st : st = Now
  OBVIOUS
<1>2. Good(st, wanted) /\ pfq \in Seq(PfKinds) /\ pfq # <<>>
  BY <1>1 DEF IInv, ForwardEvent
<1>3. PICK kind \in PfKinds : kind = Head(pfq)
  BY <1>2
<1>4. PICK b : b = apply_pf_event(st, kind)
  OBVIOUS
<1>5. Good(b, wanted)
  BY <1>2, <1>4, PfEventGood
<1>6. UNCHANGED <<file, applied, wanted>> /\ pfq' = Tail(pfq) /\ Wakes(b)
  BY <1>1, <1>3, <1>4 DEF ForwardEvent
<1>7. PICK bad \in Refused : Advances(b, bad) /\ (Acts \/ UNCHANGED acts)
  BY <1>6 DEF Wakes
<1>8. acts' \in 0..MaxActs
  BY <1>7, ActsKept DEF IInv
<1>9. pfq' \in Seq(PfKinds)
  BY <1>2, <1>6, HeadTailProperties
<1>. QED
  BY <1>5, <1>6, <1>7, <1>8, <1>9, AdvancesKeep DEF IInv

(* by a change of the file, once the actor applies it, *)
LEMMA ConfigKeeps ==
  ASSUME IInv, ConfigChanges
  PROVE  IInv'
<1>1. PICK st : st = Now
  OBVIOUS
<1>2. PICK S \in SUBSET Svcs : S = Svcs \ file.declared
  OBVIOUS
<1>3. PICK kept : kept = RemoveAll(st, S)
  OBVIOUS
<1>4. PICK b : b = IF fwd.status # "none" /\ fwd.cfg # file.fwd THEN remove_forward(kept) ELSE kept
  OBVIOUS
<1>5. /\ file \notin {Broken, applied} /\ applied' = file /\ wanted' = wanted \cap file.declared
      /\ UNCHANGED <<pfq, file>> /\ Wakes(b)
  BY <1>1, <1>2, <1>3, <1>4 DEF ConfigChanges
<1>6. wanted \ S = wanted' /\ wanted' \subseteq Svcs
  BY <1>2, <1>5 DEF IInv
<1>7. Good(kept, wanted \ S)
  BY <1>1, <1>3, RemoveAllGood DEF IInv
<1>8. Good(kept, wanted')
  BY <1>6, <1>7
<1>9. Good(b, wanted')
  <2>1. CASE b = kept
    BY <1>8, <2>1
  <2>2. CASE b = remove_forward(kept)
    BY <1>8, <2>2, RemoveForwardGood
  <2>. QED
    BY <1>4, <2>1, <2>2
<1>10. PICK bad \in Refused : Advances(b, bad) /\ (Acts \/ UNCHANGED acts)
  BY <1>5 DEF Wakes
<1>11. acts' \in 0..MaxActs
  BY <1>10, ActsKept DEF IInv
<1>12. applied' \in Configs
  BY <1>5 DEF IInv
<1>. QED
  BY <1>5, <1>6, <1>9, <1>10, <1>11, <1>12, AdvancesKeep DEF IInv

(* by an edit, which the actor has not read yet, *)
LEMMA EditKeeps ==
  ASSUME IInv, EditFile
  PROVE  IInv'
<1>1. acts' \in 0..MaxActs
  BY ActsKept DEF EditFile, IInv
<1>2. file' \in Configs \cup {Broken}
  BY DEF EditFile
<1>3. Now' = Now
  BY DEF Now, EditFile
<1>. QED
  BY <1>1, <1>2, <1>3 DEF IInv, EditFile

(* A command that leaves the handler in b and wakes nobody.                *)
LEMMA CommandKeeps ==
  ASSUME NEW b, IInv, Good(b, wanted'), Becomes(b), acts' \in 0..MaxActs,
         ~skipped' => Calm(b, applied, {}, {}),
         UNCHANGED <<pfq, file, applied>>, wanted' \subseteq Svcs, skipped' \in BOOLEAN
  PROVE  IInv'
<1>1. Now' = b
  BY BecomesIs DEF Good
<1>. QED
  BY <1>1 DEF IInv

(* A start covers its service, when declared, and declared services only. *)
LEMMA CoveredIs ==
  ASSUME NEW c \in Configs, NEW s \in Svcs
  PROVE  /\ Covered(c, s) \subseteq c.declared /\ Covered(c, s) \subseteq Svcs
         /\ c.declared \subseteq Svcs
         /\ s \in c.declared => s \in Covered(c, s)
<1>1. c.declared \subseteq Svcs
  BY ServiceAssumption DEF ServiceAssumption, Declared
<1>2. s \in dependency_closure(c, s)
  BY DEF dependency_closure, Names
<1>. QED
  BY <1>1, <1>2 DEF Covered

(* A start of the services S leaves everybody held rightly.                *)
LEMMA LaunchCalm ==
  ASSUME NEW st, NEW W, Good(st, W), NEW c \in Configs, NEW S, S \subseteq Svcs,
         NEW explicit, NEW bad, NEW a
  PROVE  LET b == Launch(st, c, S, explicit, bad) IN
         /\ Good(b, W \cup S)
         /\ Calm(st, a, {}, {}) => Calm(b, a, {}, {})
<1>1. PICK V : V = W \cup S
  OBVIOUS
<1>2. Good(st, V) /\ S \subseteq V
  BY <1>1, SameGood
<1>3. PICK X : X = {}
  OBVIOUS
<1>4. X \subseteq S /\ X \subseteq c.declared /\ \A x \in X : ~Live(st.svc[x]) /\ ~st.svc[x].alive
  BY <1>3
<1>5. PICK b : b = Launch(st, c, S, explicit, bad)
  OBVIOUS
<1>6. Good(b, V) /\ (Calm(st, a, X, {}) => Calm(b, a, {}, {}))
  BY <1>2, <1>4, <1>5, LaunchGood
<1>. QED
  BY <1>1, <1>3, <1>5, <1>6

(* by the start of a service with what it needs, *)
LEMMA StartServiceKeeps ==
  ASSUME IInv, NEW s \in Svcs, StartService(s)
  PROVE  IInv'
<1>1. PICK st : st = Now
  OBVIOUS
<1>2. PICK c \in Configs : c = file
  BY DEF IInv, StartService
<1>3. PICK S : S = Covered(c, s)
  OBVIOUS
<1>4. S \subseteq Svcs
  BY <1>3, CoveredIs
<1>5. PICK bad \in Refused : Becomes(Launch(st, c, S, {s}, bad))
  BY <1>1, <1>2, <1>3 DEF StartService, Launches
<1>6. /\ wanted' = wanted \cup S /\ UNCHANGED <<pfq, file, applied, skipped>>
      /\ acts' \in 0..MaxActs
  BY <1>2, <1>3, ActsKept DEF StartService, Launches, IInv
<1>7. PICK b : b = Launch(st, c, S, {s}, bad)
  OBVIOUS
<1>8. Good(b, wanted \cup S) /\ (Calm(st, applied, {}, {}) => Calm(b, applied, {}, {}))
  BY <1>1, <1>4, <1>7, LaunchCalm DEF IInv
<1>9. wanted' \subseteq Svcs /\ skipped' \in BOOLEAN /\ (~skipped' => Calm(b, applied, {}, {}))
  BY <1>1, <1>4, <1>6, <1>8 DEF IInv
<1>. QED
  BY <1>5, <1>6, <1>7, <1>8, <1>9, CommandKeeps

(* by the start of all services, *)
LEMMA StartAllKeeps ==
  ASSUME IInv, StartAllServices
  PROVE  IInv'
<1>1. PICK st : st = Now
  OBVIOUS
<1>2. PICK c \in Configs : c = file
  BY DEF IInv, StartAllServices
<1>3. PICK S : S = c.declared
  OBVIOUS
<1>4. S \subseteq Svcs
  BY <1>3, ServiceAssumption DEF ServiceAssumption, Declared
<1>5. PICK bad \in Refused : Becomes(Launch(st, c, S, {}, bad))
  BY <1>1, <1>2, <1>3 DEF StartAllServices, Launches
<1>6. /\ wanted' = wanted \cup S /\ UNCHANGED <<pfq, file, applied, skipped>>
      /\ acts' \in 0..MaxActs
  BY <1>2, <1>3, ActsKept DEF StartAllServices, Launches, IInv
<1>7. PICK b : b = Launch(st, c, S, {}, bad)
  OBVIOUS
<1>8. Good(b, wanted \cup S) /\ (Calm(st, applied, {}, {}) => Calm(b, applied, {}, {}))
  BY <1>1, <1>4, <1>7, LaunchCalm DEF IInv
<1>9. wanted' \subseteq Svcs /\ skipped' \in BOOLEAN /\ (~skipped' => Calm(b, applied, {}, {}))
  BY <1>1, <1>4, <1>6, <1>8 DEF IInv
<1>. QED
  BY <1>5, <1>6, <1>7, <1>8, <1>9, CommandKeeps

(* by opening the project, which starts the forwards too, *)
LEMMA OpenKeeps ==
  ASSUME IInv, OpenProject
  PROVE  IInv'
<1>1. PICK st : st = Now
  OBVIOUS
<1>2. PICK c \in Configs : c = file
  BY DEF IInv, OpenProject
<1>3. PICK S : S = c.declared
  OBVIOUS
<1>4. S \subseteq Svcs /\ c.fwd \in Nat
  BY <1>3, ServiceAssumption DEF ServiceAssumption, Declared
<1>5. PICK bad \in Refused :
        LET launched == Launch(st, c, S, {}, bad) IN
        Becomes(IF c.fwd = 0 THEN launched ELSE insert_starting(launched, c.fwd, FALSE))
  BY <1>1, <1>2, <1>3 DEF OpenProject
<1>6. /\ wanted' = wanted \cup S /\ UNCHANGED <<pfq, file, applied, skipped>>
      /\ acts' \in 0..MaxActs
  BY <1>2, <1>3, ActsKept DEF OpenProject, IInv
<1>7. PICK k : k = Launch(st, c, S, {}, bad)
  OBVIOUS
<1>8. Good(k, wanted \cup S) /\ (Calm(st, applied, {}, {}) => Calm(k, applied, {}, {}))
  BY <1>1, <1>4, <1>7, LaunchCalm DEF IInv
<1>9. PICK dependent \in BOOLEAN : dependent = FALSE
  OBVIOUS
<1>10. PICK b : b = IF c.fwd = 0 THEN k ELSE insert_starting(k, c.fwd, dependent)
  OBVIOUS
<1>11. /\ Good(b, wanted \cup S) /\ b.svc = k.svc /\ b.q = k.q
       /\ b.fwd = k.fwd \/ b.fwd.status = "Starting"
  <2>1. CASE b = k
    BY <1>8, <2>1
  <2>2. CASE b = insert_starting(k, c.fwd, dependent)
    BY <1>4, <1>8, <2>2, InsertGood
  <2>. QED
    BY <1>10, <2>1, <2>2
<1>12. Calm(k, applied, {}, {}) => Calm(b, applied, {}, {})
  BY <1>11, CalmForward
<1>13. wanted' \subseteq Svcs /\ skipped' \in BOOLEAN /\ (~skipped' => Calm(b, applied, {}, {}))
  BY <1>1, <1>4, <1>6, <1>8, <1>12 DEF IInv
<1>14. Becomes(b)
  BY <1>5, <1>7, <1>9, <1>10
<1>. QED
  BY <1>6, <1>11, <1>13, <1>14, CommandKeeps

(* A stopped service that is started next holds nobody it did not hold.    *)
LEMMA StopCalm ==
  ASSUME NEW st, NEW W, Good(st, W), NEW s \in Svcs, NEW c, Calm(st, c, {}, {})
  PROVE  Calm(stop_key(st, s), c, {s}, {})
<1>1. PICK k : k = stop_key(st, s)
  OBVIOUS
<1>2. /\ Good(k, W \ {s}) /\ k.svc[s].held = {}
      /\ Others(st, k, s) /\ k.q = st.q /\ k.fwd = st.fwd
  BY <1>1, StopGood
<1>3. ASSUME NEW dep \in Names
      PROVE  \/ dep \in {s} \/ dependency_state(k, c, dep) = "Pending"
             \/ dep \notin {} /\ dependency_state(k, c, dep) = dependency_state(st, c, dep)
  BY <1>2, StateOf DEF Names, Others
<1>4. \A w \in Svcs : k.svc[w].held \subseteq Names
  BY <1>2 DEF Good, States, Entries
<1>5. ASSUME NEW w \in waiting_in_project(k) \ {}
      PROVE  /\ w \in waiting_in_project(st) \ {}
             /\ k.svc[w].status = st.svc[w].status /\ k.svc[w].held = st.svc[w].held
  BY <1>2 DEF waiting_in_project, Others
<1>6. Calm(k, c, {s}, {})
  BY <1>2, <1>3, <1>4, <1>5, CalmStep
<1>. QED
  BY <1>1, <1>6

(* by a restart: a stop that nobody is told of, and a start at once, *)
LEMMA RestartKeeps ==
  ASSUME IInv, NEW s \in Svcs, RestartService(s)
  PROVE  IInv'
<1>1. PICK st : st = Now
  OBVIOUS
<1>2. PICK k : k = stop_key(st, s)
  OBVIOUS
<1>3. Good(k, wanted \ {s}) /\ ~k.svc[s].alive /\ ~Live(k.svc[s])
  <2>1. Good(st, wanted)
    BY <1>1 DEF IInv
  <2>. QED
    BY <1>2, <2>1, StopGood
<1>5. UNCHANGED <<pfq, file, applied>> /\ acts' \in 0..MaxActs
  BY ActsKept DEF RestartService, IInv
<1>6. CASE file = Broken
  <2>1. Becomes(k) /\ wanted' = wanted \ {s} /\ skipped'
    BY <1>1, <1>2, <1>6 DEF RestartService
  <2>2. skipped' \in BOOLEAN
    BY DEF RestartService
  <2>3. wanted' \subseteq Svcs
    BY <2>1 DEF IInv
  <2>. QED
    BY <1>3, <1>5, <2>1, <2>2, <2>3, CommandKeeps
<1>7. CASE file # Broken
  <2>1. PICK c \in Configs : c = file
    BY <1>7 DEF IInv
  <2>2. PICK S : S = Covered(c, s)
    OBVIOUS
  <2>3. S \subseteq Svcs /\ S \subseteq c.declared /\ (s \in c.declared => s \in S)
    BY <2>2, CoveredIs
  <2>4. PICK bad \in Refused : Becomes(Launch(k, c, S, {s}, bad))
    BY <1>1, <1>2, <1>7, <2>1, <2>2 DEF RestartService, Launches
  <2>5. wanted' = wanted \cup S
    BY <1>7, <2>1, <2>2 DEF RestartService, Launches
  <2>6. PICK b : b = Launch(k, c, S, {s}, bad)
    OBVIOUS
  <2>7. Good(k, wanted \cup S) /\ S \subseteq wanted \cup S
    BY <1>3, SameGood
  <2>8. PICK X : X = S \cap {s}
    OBVIOUS
  <2>9. X \subseteq S /\ X \subseteq c.declared /\ \A x \in X : ~Live(k.svc[x]) /\ ~k.svc[x].alive
    BY <1>3, <2>3, <2>8
  <2>10. Good(b, wanted \cup S) /\ (Calm(k, applied, X, {}) => Calm(b, applied, {}, {}))
    BY <2>3, <2>6, <2>7, <2>9, LaunchGood
  <2>11. skipped' \in BOOLEAN /\ (~skipped' => ~skipped /\ s \in c.declared)
    BY <1>7, <2>1 DEF RestartService
  <2>12. ASSUME ~skipped'
         PROVE  Calm(b, applied, {}, {})
    <3>1. X = {s}
      BY <2>3, <2>8, <2>11, <2>12
    <3>2. Calm(st, applied, {}, {}) /\ Good(st, wanted)
      BY <1>1, <2>11, <2>12 DEF IInv
    <3>3. Calm(k, applied, {s}, {})
      BY <1>2, <3>2, StopCalm
    <3>. QED
      BY <2>10, <3>1, <3>3
  <2>13. wanted' \subseteq Svcs
    BY <2>3, <2>5 DEF IInv
  <2>. QED
    BY <1>5, <2>4, <2>5, <2>6, <2>10, <2>11, <2>12, <2>13, CommandKeeps
<1>. QED
  BY <1>6, <1>7

(* by a stop, which wakes those that wait, *)
LEMMA StopKeeps ==
  ASSUME IInv, NEW s \in Svcs, StopService(s)
  PROVE  IInv'
<1>1. PICK st : st = Now
  OBVIOUS
<1>2. PICK b : b = stop_key(st, s)
  OBVIOUS
<1>3. Good(b, wanted \ {s})
  BY <1>1, <1>2, StopGood DEF IInv
<1>4. PICK bad \in Refused : Advances(b, bad)
  BY <1>1, <1>2 DEF StopService
<1>5. wanted' = wanted \ {s} /\ UNCHANGED <<pfq, file, applied>> /\ acts' \in 0..MaxActs
  BY ActsKept DEF StopService, IInv
<1>6. wanted' \subseteq Svcs
  BY <1>5 DEF IInv
<1>. QED
  BY <1>3, <1>4, <1>5, <1>6, AdvancesKeep DEF IInv

(* by stopping the project, *)
LEMMA StopProjectKeeps ==
  ASSUME IInv, StopProject
  PROVE  IInv'
<1>1. PICK st : st = Now
  OBVIOUS
<1>2. PICK k : k = StopAll(st, Svcs)
  OBVIOUS
<1>3. Good(k, {}) /\ waiting_in_project(k) = {}
  BY <1>1, <1>2, StopAllGood DEF IInv
<1>4. PICK b : b = stop_forward(k)
  OBVIOUS
<1>5. Good(b, {}) /\ b.svc = k.svc
  BY <1>3, <1>4, StopForwardGood
<1>6. Calm(b, applied, {}, {})
  BY <1>3, <1>5 DEF Calm, waiting_in_project
<1>7. /\ Becomes(b) /\ wanted' = {} /\ UNCHANGED <<pfq, file, applied, skipped>>
      /\ acts' \in 0..MaxActs
  BY <1>1, <1>2, <1>4, ActsKept DEF StopProject, IInv
<1>8. Good(b, wanted')
  BY <1>5, <1>7
<1>9. wanted' \subseteq Svcs /\ skipped' \in BOOLEAN
  BY <1>7 DEF IInv
<1>. QED
  BY <1>6, <1>7, <1>8, <1>9, CommandKeeps

(* by the start of a forward, *)
LEMMA StartForwardKeeps ==
  ASSUME IInv, StartPortForward
  PROVE  IInv'
<1>1. PICK st : st = Now
  OBVIOUS
<1>2. PICK c \in Configs : c = file
  BY DEF IInv, StartPortForward
<1>3. c.fwd \in Nat
  BY ServiceAssumption DEF ServiceAssumption, Declared
<1>4. PICK dependent \in BOOLEAN : dependent = FALSE
  OBVIOUS
<1>5. PICK b : b = insert_starting(st, c.fwd, dependent)
  OBVIOUS
<1>6. Good(st, wanted)
  BY <1>1 DEF IInv
<1>7. /\ Good(b, wanted) /\ b.svc = st.svc /\ b.runs = st.runs /\ b.q = st.q
      /\ b.fwd = st.fwd \/ b.fwd.status = "Starting"
      /\ b.fwd.status \in Up
  BY <1>3, <1>5, <1>6, InsertGood
<1>8. Calm(st, applied, {}, {}) => Calm(b, applied, {}, {})
  BY <1>7, CalmForward
<1>9. /\ Becomes(b) /\ UNCHANGED <<pfq, file, applied, wanted, skipped>> /\ acts' \in 0..MaxActs
  BY <1>1, <1>2, <1>4, <1>5, ActsKept DEF StartPortForward, IInv
<1>10. /\ Good(b, wanted') /\ wanted' \subseteq Svcs /\ skipped' \in BOOLEAN
       /\ ~skipped' => Calm(b, applied, {}, {})
  BY <1>1, <1>7, <1>8, <1>9 DEF IInv
<1>. QED
  BY <1>9, <1>10, CommandKeeps

(* and by stopping it. *)
LEMMA StopForwardKeeps ==
  ASSUME IInv, StopPortForward
  PROVE  IInv'
<1>1. PICK st : st = Now
  OBVIOUS
<1>2. PICK b : b = stop_forward(st)
  OBVIOUS
<1>3. Good(b, wanted)
  BY <1>1, <1>2, StopForwardGood DEF IInv
<1>4. PICK bad \in Refused : Advances(b, bad)
  BY <1>1, <1>2 DEF StopPortForward
<1>5. UNCHANGED <<pfq, file, applied, wanted>> /\ acts' \in 0..MaxActs
  BY ActsKept DEF StopPortForward, IInv
<1>. QED
  BY <1>3, <1>4, <1>5, AdvancesKeep DEF IInv

(* So every step keeps IInv, *)
LEMMA Inductive == IInv /\ [Next]_vars => IInv'
<1>1. SUFFICES ASSUME IInv, [Next]_vars
               PROVE  IInv'
  OBVIOUS
<1>2. CASE UNCHANGED vars
  <2>1. Now' = Now
    BY <1>2 DEF Now, vars
  <2>. QED
    BY <1>1, <1>2, <2>1 DEF IInv, vars
<1>3. CASE ServiceEvent
  BY <1>1, <1>3, ServiceEventKeeps
<1>4. CASE ForwardEvent
  BY <1>1, <1>4, ForwardEventKeeps
<1>5. CASE ConfigChanges
  BY <1>1, <1>5, ConfigKeeps
<1>6. CASE EditFile
  BY <1>1, <1>6, EditKeeps
<1>7. ASSUME NEW s \in Svcs, StartService(s)
      PROVE  IInv'
  BY <1>1, <1>7, StartServiceKeeps
<1>8. ASSUME NEW s \in Svcs, RestartService(s)
      PROVE  IInv'
  BY <1>1, <1>8, RestartKeeps
<1>9. ASSUME NEW s \in Svcs, StopService(s)
      PROVE  IInv'
  BY <1>1, <1>9, StopKeeps
<1>10. CASE StartAllServices
  BY <1>1, <1>10, StartAllKeeps
<1>11. CASE OpenProject
  BY <1>1, <1>11, OpenKeeps
<1>12. CASE StopProject
  BY <1>1, <1>12, StopProjectKeeps
<1>13. CASE StartPortForward
  BY <1>1, <1>13, StartForwardKeeps
<1>14. CASE StopPortForward
  BY <1>1, <1>14, StopForwardKeeps
<1>15. ASSUME NEW r \in DOMAIN runs, Tasks(r), Beside
       PROVE  IInv'
  BY <1>1, <1>15, TasksKeep
<1>16. ASSUME NEW g \in DOMAIN watch, Watcher(g) \/ ForwardLost(g)
       PROVE  IInv'
  BY <1>1, <1>16, WatchersKeep
<1>. QED
  BY <1>1, <1>2, <1>3, <1>4, <1>5, <1>6, <1>7, <1>8, <1>9, <1>10, <1>11, <1>12, <1>13, <1>14,
     <1>15, <1>16 DEF Next

(* and it always holds. *)
LEMMA Always == Spec => []IInv
<1>1. Init => IInv
  BY Initially
<1>2. IInv /\ [Next]_vars => IInv'
  BY Inductive
<1>. QED
  BY <1>1, <1>2, PTL DEF Spec

-----------------------------------------------------------------------------
(* The results *)

(* What IInv says of types. *)
LEMMA TypesFollow == IInv => TypeOK
<1>1. SUFFICES ASSUME IInv
               PROVE  TypeOK
  OBVIOUS
<1>2. PICK st : st = Now
  OBVIOUS
<1>3. Good(st, wanted) /\ st.svc = svc /\ st.runs = runs /\ st.q = svcq
      /\ st.fwd = fwd /\ st.watch = watch
  BY <1>1, <1>2, NowIs DEF IInv
<1>4. /\ svc \in [Svcs -> Entries] /\ runs \in Seq(Runs) /\ svcq \in Seq(Events)
      /\ fwd \in Forwards /\ watch \in Seq(Watchers)
  BY <1>3 DEF Good, States
<1>5. \A s \in Svcs :
        /\ svc[s].run \in 0..Len(runs) /\ svc[s].group \in 0..svc[s].run
        /\ svc[s].run # 0 => runs[svc[s].run].svc = s
        /\ svc[s].held # {} => svc[s].status \in {"Starting", "Failed"}
  BY <1>3 DEF Good, Named
<1>6. ASSUME NEW r \in DOMAIN runs
      PROVE  runs[r] \in Runs
  BY <1>4, ElementOfSeq
<1>7. svcq \in Seq([run : DOMAIN runs, kind : Kinds])
  <2>1. ASSUME NEW i \in 1..Len(svcq)
        PROVE  svcq[i] \in [run : DOMAIN runs, kind : Kinds]
    <3>1. svcq[i] \in Events /\ svcq[i].run \in DOMAIN runs
      BY <1>3, <1>4, ElementOfSeq DEF Good, Named
    <3>. QED
      BY <3>1 DEF Events
  <2>2. /\ Len(svcq) \in Nat /\ DOMAIN svcq = 1..Len(svcq)
        /\ svcq = [i \in 1..Len(svcq) |-> svcq[i]]
    BY <1>4
  <2>3. PICK K : K = [run : DOMAIN runs, kind : Kinds]
    OBVIOUS
  <2>4. svcq \in [1..Len(svcq) -> K]
    BY <2>1, <2>2, <2>3
  <2>. QED
    BY <2>2, <2>3, <2>4, SeqDef
<1>8. fwd \in [status : PfStatuses, served : BOOLEAN, run : 0..Len(watch), cfg : Nat]
  <2>1. fwd.run \in 0..Len(watch)
    BY <1>3 DEF Good, Named
  <2>. QED
    BY <1>4, <2>1 DEF Forwards
<1>9. /\ pfq \in Seq(PfKinds) /\ file \in Configs \cup {Broken} /\ applied \in Configs
      /\ acts \in 0..MaxActs /\ wanted \subseteq Svcs /\ skipped \in BOOLEAN
  BY <1>1 DEF IInv
<1>. QED
  BY <1>4, <1>5, <1>6, <1>7, <1>8, <1>9 DEF TypeOK, Entries, Statuses, Runs, Watchers

(* The state stays well-formed: an entry's run and the group it can kill   *)
(* are ids of its own service's runs, nothing is held that neither starts  *)
(* nor has failed, and the queues hold events of runs that were given out  *)
(* (ServiceManager.services, next_run_id; mod.rs).                         *)
THEOREM ServiceTypes == Spec => []TypeOK
<1>1. IInv => TypeOK
  BY TypesFollow
<1>. QED
  BY <1>1, Always, PTL

(* What it says of processes. *)
LEMMA OwnedFollows == IInv => ProcessesAreOwned
<1>1. SUFFICES ASSUME IInv, NEW r \in DOMAIN runs, runs[r].proc = "up",
                      NEW e, e = svc[runs[r].svc]
               PROVE  /\ e.run = r /\ e.group = r /\ e.alive /\ e.held = {}
                      /\ e.status \in {"Starting", "Running", "Failed"}
                      /\ runs[r].svc \in wanted
  BY DEF ProcessesAreOwned
<1>2. PICK st : st = Now
  OBVIOUS
<1>3. Good(st, wanted) /\ st.svc = svc /\ st.runs = runs
  BY <1>1, <1>2, NowIs DEF IInv
<1>4. /\ e.run = r /\ e.group = r /\ e.alive
      /\ e.status \in {"Starting", "Running", "Failed"}
      /\ runs[r].svc \in wanted
  BY <1>1, <1>3 DEF Good, Owned
<1>5. runs[r].svc \in Svcs
  <2>1. runs[r] \in Runs
    BY <1>3, ElementOfSeq DEF Good, States
  <2>. QED
    BY <2>1 DEF Runs
<1>6. e.held = {}
  BY <1>1, <1>3, <1>4, <1>5 DEF Good, Owned
<1>. QED
  BY <1>4, <1>6

(* At most one process of a service runs, it is that of the newest run     *)
(* behind an entry that can kill it, and only while the service was        *)
(* started and not stopped since: for any file and dependencies, cycles    *)
(* included, whatever the tasks and the actor do in between (ADR 0016,     *)
(* invariants 2 and 5; launch_service, start, hold, stop_key,              *)
(* advance_waiting).                                                       *)
THEOREM ProcessesStayOwned == Spec => []ProcessesAreOwned
<1>1. IInv => ProcessesAreOwned
  BY OwnedFollows
<1>. QED
  BY <1>1, Always, PTL

(* What it says of runs that have been heard. *)
LEMMA SettledFollows == IInv => StatusSettles
<1>1. SUFFICES ASSUME IInv, NEW s \in Svcs, NEW e, e = svc[s], NEW run, run = runs[e.run],
                      e.run # 0, run.proc # "none", ~run.stopping, Heard(e.run)
               PROVE  /\ e.alive <=> run.proc = "up"
                      /\ e.status = CASE run.proc = "ok" -> "Stopped"
                                      [] run.proc = "err" -> "Failed"
                                      [] run.proc = "up" /\ run.ready = "sent" -> "Running"
                                      [] run.proc = "up" /\ run.ready = "no" /\ run.late = "sent"
                                           -> "Failed"
                                      [] OTHER -> "Starting"
  BY DEF StatusSettles
<1>2. PICK st : st = Now
  OBVIOUS
<1>3. Good(st, wanted) /\ st.svc = svc /\ st.runs = runs /\ st.q = svcq
  BY <1>1, <1>2, NowIs DEF IInv
<1>4. Tells(e, run, svcq)
  BY <1>1, <1>3 DEF Good, Truthful
<1>5. \A kinds : ~Waits(svcq, e.run, kinds)
  BY <1>1 DEF Heard, Waits
<1>6. /\ run.ready \in {"no", "sent"} /\ run.late \in {"no", "sent"}
      /\ run.proc = "up" \/ run.gone = "sent"
  BY <1>1 DEF Heard
<1>7. run \in Runs /\ (run.gone # "no" => run.proc \in {"ok", "err"})
  <2>1. e.run \in DOMAIN runs
    BY <1>1, <1>3 DEF Good, Named, States
  <2>. QED
    BY <1>1, <1>3, <2>1, ElementOfSeq DEF Good, States, Spoken, InOrder
<1>8. run.gone = "sent" <=> run.proc # "up"
  BY <1>6, <1>7
<1>9. /\ run.gone = "sent" =>
           ~e.alive /\ e.status = IF run.proc = "ok" THEN "Stopped" ELSE "Failed"
      /\ run.gone # "sent" =>
           e.alive /\ e.status = IF run.ready = "sent" THEN "Running"
                                 ELSE IF run.late = "sent" THEN "Failed" ELSE "Starting"
  BY <1>4, <1>5 DEF Tells
<1>10. run.proc \in {"up", "ok", "err"}
  BY <1>1, <1>7 DEF Runs
<1>11. CASE run.proc = "up"
  BY <1>6, <1>8, <1>9, <1>11
<1>12. CASE run.proc \in {"ok", "err"}
  BY <1>8, <1>9, <1>12
<1>. QED
  BY <1>10, <1>11, <1>12

(* Whatever order the readiness monitor, the log readers and the exit      *)
(* waiter swap, load and send in, an entry that has heard its run out says *)
(* what became of it (ADR 0016, invariant 1; report_running,               *)
(* report_not_ready, apply_event).                                         *)
THEOREM StatusesSettle == Spec => []StatusSettles
<1>1. IInv => StatusSettles
  BY SettledFollows
<1>. QED
  BY <1>1, Always, PTL

(* What it says of those that wait. *)
LEMMA WakeupsFollow == IInv => NoMissedWakeup
<1>1. SUFFICES ASSUME IInv, svcq = <<>>, ~skipped, NEW s \in waiting_in_project(Now),
                      NEW gate, gate = dependency_gate(Now, applied, svc[s].held)
               PROVE  IF svc[s].status = "Starting" THEN gate = "Wait" ELSE gate # "Go"
  BY DEF NoMissedWakeup
<1>2. PICK st : st = Now
  OBVIOUS
<1>3. Calm(st, applied, {}, {}) /\ st.svc = svc /\ st.q = svcq
  BY <1>1, <1>2, NowIs DEF IInv
<1>4. Rightly(st, applied, s, {})
  BY <1>1, <1>2, <1>3 DEF Calm
<1>5. PICK deps : deps = svc[s].held
  OBVIOUS
<1>6. /\ gate \in {"Go", "Wait", "Fail"}
      /\ gate = "Fail" <=> Barred(st, applied, deps, {})
      /\ gate = "Wait" <=> Coming(st, applied, deps, {}) /\ ~Barred(st, applied, deps, {})
  BY <1>1, <1>2, <1>5, GateIs
<1>. QED
  BY <1>3, <1>4, <1>5, <1>6 DEF Rightly

(* When the service events are handled, nobody waits for what has been     *)
(* settled, by the declarations the actor applied, unless the last wake-up *)
(* passed somebody over (ADR 0016, invariant 3; every caller of            *)
(* advance_waiting).                                                       *)
THEOREM WakeupsReach == Spec => []NoMissedWakeup
<1>1. IInv => NoMissedWakeup
  BY WakeupsFollow
<1>. QED
  BY <1>1, Always, PTL
=============================================================================
