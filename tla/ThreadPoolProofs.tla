--------------------------- MODULE ThreadPoolProofs ---------------------------
(***************************************************************************)
(* Proofs about ThreadPool, for every set of workers and of tasks: its     *)
(* safety invariants, and that its steps implement those of Executor.      *)
(***************************************************************************)
EXTENDS ThreadPool, FiniteSetTheorems, SequenceTheorems, TLAPS

(* Sets of workers at given program points. *)

\* Any set of workers picked out by their program points is finite.
LEMMA AtFinite ==
  ASSUME NEW pc, NEW S
  PROVE  /\ IsFiniteSet(At(pc, S))
         /\ Cardinality(At(pc, S)) \in Nat
  <1>1. At(pc, S) \in SUBSET Workers
    BY DEF At
  <1>2. IsFiniteSet(At(pc, S))
    BY <1>1, PoolAssumption, FS_Subset
  <1> QED BY <1>2, FS_CardinalityType

\* pc2 differs from pc at worker w only.
OnlyMoves(w, pc, pc2) == \A v \in Workers \ {w} : pc2[v] = pc[v]

\* When one worker moves and the others stay, the number of workers at S
\* changes by what that worker contributes.
LEMMA OneWorkerMoves ==
  ASSUME NEW pc, NEW pc2, NEW S, NEW w \in Workers, OnlyMoves(w, pc, pc2)
  PROVE  /\ (pc[w] \in S <=> pc2[w] \in S) =>
              Cardinality(At(pc2, S)) = Cardinality(At(pc, S))
         /\ pc[w] \in S /\ pc2[w] \notin S =>
              Cardinality(At(pc2, S)) = Cardinality(At(pc, S)) - 1
         /\ pc[w] \notin S /\ pc2[w] \in S =>
              Cardinality(At(pc2, S)) = Cardinality(At(pc, S)) + 1
  <1> DEFINE Others == At(pc, S) \ {w}
  <1>1. IsFiniteSet(At(pc, S)) /\ Cardinality(At(pc, S)) \in Nat
    BY AtFinite
  <1>2. w \in At(pc, S) <=> pc[w] \in S
    BY DEF At
  <1>3. /\ IsFiniteSet(Others)
        /\ Cardinality(Others) =
             IF pc[w] \in S THEN Cardinality(At(pc, S)) - 1
                            ELSE Cardinality(At(pc, S))
    BY <1>1, <1>2, FS_RemoveElement
  <1>4. At(pc2, S) = IF pc2[w] \in S THEN Others \cup {w} ELSE Others
    BY DEF At, OnlyMoves
  <1>5. w \notin Others
    OBVIOUS
  <1>6. Cardinality(Others \cup {w}) = Cardinality(Others) + 1
    BY <1>3, <1>5, FS_AddElement
  <1> HIDE DEF Others
  <1> QED BY <1>1, <1>3, <1>4, <1>6

-------------------------------------------------------------------------------
(* Type correctness. *)

LEMMA NotifyOneType ==
  ASSUME TypeOK, NEW pc \in [Workers -> WorkerPC], NEW pc2 \in NotifyOne(pc)
  PROVE  pc2 \in [Workers -> WorkerPC]
  <1>1. CASE Sleepers = {}
    BY <1>1 DEF NotifyOne
  <1>2. CASE Sleepers # {}
    BY <1>2 DEF NotifyOne, WorkerPC, Awake
  <1> QED BY <1>1, <1>2

LEMMA TypeInit == Init => TypeOK
  <1> SUFFICES ASSUME Init PROVE TypeOK
    OBVIOUS
  <1>1. Task_assemble \in Seq(Tasks)
    BY EmptySeq DEF Init
  <1>2. wpc \in [Workers -> WorkerPC]
    BY DEF Init, WorkerPC, Awake
  <1>3. future \in [Tasks -> FutureState]
    BY DEF Init, FutureState
  <1>4. held \in [Workers -> Tasks \cup {NoTask}]
    BY DEF Init
  <1>5. lockx \in Workers \cup {Free} /\ done \in BOOLEAN
    BY DEF Init
  <1>6. idleThreadNum \in Int /\ mpc \in OwnerPC
    BY DEF Init, OwnerPC
  <1> QED BY <1>1, <1>2, <1>3, <1>4, <1>5, <1>6 DEF TypeOK

LEMMA TypeStep == TypeOK /\ [Next]_vars => TypeOK'
  <1> SUFFICES ASSUME TypeOK, [Next]_vars PROVE TypeOK'
    OBVIOUS
  <1> USE DEF TypeOK
  <1>1. ASSUME NEW w \in Workers, LoopTest(w) PROVE TypeOK'
    BY <1>1 DEF LoopTest, Goto, WorkerPC, Awake
  <1>2. ASSUME NEW w \in Workers, SeeEmpty(w) PROVE TypeOK'
    BY <1>2 DEF SeeEmpty, Goto, WorkerPC, InCritical
  <1>3. ASSUME NEW w \in Workers, SeeDone(w) PROVE TypeOK'
    BY <1>3 DEF SeeDone, Goto, WorkerPC, Awake
  <1>4. ASSUME NEW w \in Workers, SeeTask(w) PROVE TypeOK'
    BY <1>4 DEF SeeTask, Goto, WorkerPC, Awake
  <1>5. ASSUME NEW w \in Workers, Park(w) PROVE TypeOK'
    BY <1>5 DEF Park, Goto, WorkerPC
  <1>6. ASSUME NEW w \in Workers, Pop(w) PROVE TypeOK'
    <2>1. [wpc EXCEPT ![w] = "got"] \in [Workers -> WorkerPC]
      BY DEF WorkerPC
    <2>2. wpc' \in [Workers -> WorkerPC]
      BY <1>6, <2>1, NotifyOneType DEF Pop
    <2>3. Task_assemble' \in Seq(Tasks) /\ Head(Task_assemble) \in Tasks
      BY <1>6, HeadTailProperties DEF Pop
    <2> QED BY <1>6, <2>2, <2>3 DEF Pop
  <1>7. ASSUME NEW w \in Workers, PopEmpty(w) PROVE TypeOK'
    BY <1>7 DEF PopEmpty, Goto, WorkerPC
  <1>8. ASSUME NEW w \in Workers, CountBusy(w) PROVE TypeOK'
    BY <1>8 DEF CountBusy, Goto, WorkerPC, Counted
  <1>9. ASSUME NEW w \in Workers, NEW o \in Outcomes, TaskEnds(w, o)
        PROVE TypeOK'
    BY <1>9 DEF TaskEnds, Goto, WorkerPC, Counted, FutureState
  <1>10. ASSUME NEW w \in Workers, CountIdle(w) PROVE TypeOK'
    BY <1>10 DEF CountIdle, Goto, WorkerPC, Awake
  <1>11. ASSUME NEW w \in Workers, SpuriousWake(w) PROVE TypeOK'
    BY <1>11 DEF SpuriousWake, Goto, WorkerPC, Awake
  <1>12. ASSUME NEW t \in Tasks, Submit(t) PROVE TypeOK'
    <2>1. wpc' \in [Workers -> WorkerPC]
      BY <1>12, NotifyOneType DEF Submit
    <2>2. Task_assemble' \in Seq(Tasks)
      BY <1>12, AppendProperties DEF Submit
    <2> QED BY <1>12, <2>1, <2>2 DEF Submit, FutureState
  <1>13. CASE PoolSet
    <2>1. Cardinality(Workers) \in Nat
      BY PoolAssumption, FS_CardinalityType
    <2> QED BY <1>13, <2>1 DEF PoolSet, WorkerPC, Awake, OwnerPC
  <1>14. CASE Closed
    BY <1>14 DEF Closed, OwnerPC
  <1>15. CASE Drain
    <2>1. Task_assemble' \in Seq(Tasks) /\ Head(Task_assemble) \in Tasks
      BY <1>15, HeadTailProperties DEF Drain
    <2> QED BY <1>15, <2>1 DEF Drain, FutureState
  <1>16. CASE Drained
    BY <1>16 DEF Drained, OwnerPC
  <1>17. CASE NotifyAll
    BY <1>17 DEF NotifyAll, OwnerPC, WorkerPC, Awake
  <1>18. CASE Join
    BY <1>18 DEF Join, OwnerPC
  <1>19. CASE UNCHANGED vars
    BY <1>19 DEF vars
  <1> QED
    BY <1>1, <1>2, <1>3, <1>4, <1>5, <1>6, <1>7, <1>8, <1>9, <1>10, <1>11,
       <1>12, <1>13, <1>14, <1>15, <1>16, <1>17, <1>18, <1>19
    DEF Next, WorkerMoves, GetTask, Destructor

-------------------------------------------------------------------------------
(* The mutex. *)

\* Notifying one sleeper changes no worker but that one, and it was asleep.
LEMMA NotifyOneMoves ==
  ASSUME TypeOK, NEW pc \in [Workers -> WorkerPC], NEW pc2 \in NotifyOne(pc),
         \A v \in Workers : wpc[v] = "wait" => pc[v] = "wait"
  PROVE  /\ \A v \in Workers : pc2[v] = pc[v] \/ (pc[v] = "wait" /\ pc2[v] = "lock")
         /\ \/ Sleepers = {} /\ pc2 = pc
            \/ \E v \in Workers : wpc[v] = "wait" /\ pc2 = [pc EXCEPT ![v] = "lock"]
  <1>1. CASE Sleepers = {}
    BY <1>1 DEF NotifyOne
  <1>2. CASE Sleepers # {}
    <2>1. PICK v \in Sleepers : pc2 = [pc EXCEPT ![v] = "lock"]
      BY <1>2 DEF NotifyOne
    <2>2. v \in Workers /\ wpc[v] = "wait"
      BY DEF Sleepers, At
    <2> QED BY <2>1, <2>2
  <1> QED BY <1>1, <1>2

\* What the two steps that notify do to the program counters.
LEMMA PopMoves ==
  ASSUME TypeOK, NEW w \in Workers, Pop(w)
  PROVE  /\ wpc'[w] = "got" /\ wpc[w] = "pop"
         /\ \A v \in Workers \ {w} :
              wpc'[v] = wpc[v] \/ (wpc[v] = "wait" /\ wpc'[v] = "lock")
  <1> DEFINE pc == [wpc EXCEPT ![w] = "got"]
  <1>1. pc \in [Workers -> WorkerPC] /\ pc[w] = "got"
    BY DEF WorkerPC, TypeOK
  <1>2. \A v \in Workers : wpc[v] = "wait" => pc[v] = "wait"
    BY DEF Pop, TypeOK
  <1>3. \A v \in Workers : wpc'[v] = pc[v] \/ (pc[v] = "wait" /\ wpc'[v] = "lock")
    BY <1>1, <1>2, NotifyOneMoves DEF Pop
  <1> QED BY <1>1, <1>3 DEF Pop, TypeOK

LEMMA SubmitMoves ==
  ASSUME TypeOK, NEW t \in Tasks, Submit(t)
  PROVE  \A v \in Workers :
           wpc'[v] = wpc[v] \/ (wpc[v] = "wait" /\ wpc'[v] = "lock")
  BY NotifyOneMoves DEF Submit, TypeOK

LEMMA MutexStep == TypeOK /\ MutexHeld /\ [Next]_vars => MutexHeld'
  <1> SUFFICES ASSUME TypeOK, MutexHeld, [Next]_vars PROVE MutexHeld'
    OBVIOUS
  <1> USE PoolAssumption DEF TypeOK, MutexHeld, InCritical
  <1>1. ASSUME NEW w \in Workers, LoopTest(w) PROVE MutexHeld'
    BY <1>1 DEF LoopTest, Goto
  <1>2. ASSUME NEW w \in Workers, SeeEmpty(w) PROVE MutexHeld'
    BY <1>2 DEF SeeEmpty, Goto
  <1>3. ASSUME NEW w \in Workers, SeeDone(w) PROVE MutexHeld'
    BY <1>3 DEF SeeDone, Goto
  <1>4. ASSUME NEW w \in Workers, SeeTask(w) PROVE MutexHeld'
    BY <1>4 DEF SeeTask, Goto
  <1>5. ASSUME NEW w \in Workers, Park(w) PROVE MutexHeld'
    BY <1>5 DEF Park, Goto
  <1>6. ASSUME NEW w \in Workers, Pop(w) PROVE MutexHeld'
    <2>3. /\ wpc'[w] = "got"
          /\ \A v \in Workers \ {w} :
               wpc'[v] = wpc[v] \/ (wpc[v] = "wait" /\ wpc'[v] = "lock")
      BY <1>6, PopMoves
    <2> QED BY <1>6, <2>3 DEF Pop
  <1>7. ASSUME NEW w \in Workers, PopEmpty(w) PROVE MutexHeld'
    BY <1>7 DEF PopEmpty, Goto
  <1>8. ASSUME NEW w \in Workers, CountBusy(w) PROVE MutexHeld'
    BY <1>8 DEF CountBusy, Goto
  <1>9. ASSUME NEW w \in Workers, NEW o \in Outcomes, TaskEnds(w, o)
        PROVE MutexHeld'
    BY <1>9 DEF TaskEnds, Goto
  <1>10. ASSUME NEW w \in Workers, CountIdle(w) PROVE MutexHeld'
    BY <1>10 DEF CountIdle, Goto
  <1>11. ASSUME NEW w \in Workers, SpuriousWake(w) PROVE MutexHeld'
    BY <1>11 DEF SpuriousWake, Goto
  <1>12. ASSUME NEW t \in Tasks, Submit(t) PROVE MutexHeld'
    <2>1. \A v \in Workers : wpc'[v] = wpc[v] \/ (wpc[v] = "wait" /\ wpc'[v] = "lock")
      BY <1>12, SubmitMoves
    <2> QED BY <1>12, <2>1 DEF Submit
  <1>13. CASE PoolSet
    BY <1>13 DEF PoolSet
  <1>14. CASE Closed
    BY <1>14 DEF Closed
  <1>15. CASE Drain
    BY <1>15 DEF Drain
  <1>16. CASE Drained
    BY <1>16 DEF Drained
  <1>17. CASE NotifyAll
    BY <1>17 DEF NotifyAll
  <1>18. CASE Join
    BY <1>18 DEF Join
  <1>19. CASE UNCHANGED vars
    BY <1>19 DEF vars
  <1> QED
    BY <1>1, <1>2, <1>3, <1>4, <1>5, <1>6, <1>7, <1>8, <1>9, <1>10, <1>11,
       <1>12, <1>13, <1>14, <1>15, <1>16, <1>17, <1>18, <1>19
    DEF Next, WorkerMoves, GetTask, Destructor

-------------------------------------------------------------------------------
(* The phases. *)

LEMMA PhasesStep == TypeOK /\ MutexHeld /\ Phases /\ [Next]_vars => Phases'
  <1> SUFFICES ASSUME TypeOK, MutexHeld, Phases, [Next]_vars PROVE Phases'
    OBVIOUS
  <1> USE PoolAssumption DEF TypeOK, Phases, At
  <1>1. ASSUME NEW w \in Workers, LoopTest(w) PROVE Phases'
    BY <1>1 DEF LoopTest, Goto
  <1>2. ASSUME NEW w \in Workers, SeeEmpty(w) PROVE Phases'
    BY <1>2 DEF SeeEmpty, Goto
  <1>3. ASSUME NEW w \in Workers, SeeDone(w) PROVE Phases'
    BY <1>3 DEF SeeDone, Goto
  <1>4. ASSUME NEW w \in Workers, SeeTask(w) PROVE Phases'
    BY <1>4 DEF SeeTask, Goto
  <1>5. ASSUME NEW w \in Workers, Park(w) PROVE Phases'
    BY <1>5 DEF Park, Goto
  <1>6. ASSUME NEW w \in Workers, Pop(w) PROVE Phases'
    <2>3. /\ wpc'[w] = "got"
          /\ \A v \in Workers \ {w} :
               wpc'[v] = wpc[v] \/ (wpc[v] = "wait" /\ wpc'[v] = "lock")
      BY <1>6, PopMoves
    <2>4. Head(Task_assemble) \in Tasks
      BY <1>6, HeadTailProperties DEF Pop
    <2>5. \A v \in Workers : wpc[v] = "park" => v = w
      BY <1>6 DEF Pop, MutexHeld, InCritical
    <2> QED BY <1>6, <2>3, <2>4, <2>5 DEF Pop
  <1>7. ASSUME NEW w \in Workers, PopEmpty(w) PROVE Phases'
    BY <1>7 DEF PopEmpty, Goto
  <1>8. ASSUME NEW w \in Workers, CountBusy(w) PROVE Phases'
    BY <1>8 DEF CountBusy, Goto
  <1>9. ASSUME NEW w \in Workers, NEW o \in Outcomes, TaskEnds(w, o)
        PROVE Phases'
    BY <1>9 DEF TaskEnds, Goto
  <1>10. ASSUME NEW w \in Workers, CountIdle(w) PROVE Phases'
    BY <1>10 DEF CountIdle, Goto
  <1>11. ASSUME NEW w \in Workers, SpuriousWake(w) PROVE Phases'
    BY <1>11 DEF SpuriousWake, Goto
  <1>12. ASSUME NEW t \in Tasks, Submit(t) PROVE Phases'
    <2>1. \A v \in Workers : wpc'[v] = wpc[v] \/ (wpc[v] = "wait" /\ wpc'[v] = "lock")
      BY <1>12, SubmitMoves
    <2>2. \A v \in Workers : wpc[v] # "park"
      BY <1>12 DEF Submit, MutexHeld, InCritical
    <2> QED BY <1>12, <2>1, <2>2 DEF Submit
  <1>13. CASE PoolSet
    BY <1>13 DEF PoolSet
  <1>14. CASE Closed
    BY <1>14 DEF Closed
  <1>15. CASE Drain
    <2>1. Task_assemble # <<>> => At(wpc, {"unborn"}) = {}
      OBVIOUS
    <2> QED BY <1>15, <2>1 DEF Drain
  <1>16. CASE Drained
    BY <1>16 DEF Drained
  <1>17. CASE NotifyAll
    BY <1>17 DEF NotifyAll
  <1>18. CASE Join
    BY <1>18 DEF Join
  <1>19. CASE UNCHANGED vars
    BY <1>19 DEF vars
  <1> QED
    BY <1>1, <1>2, <1>3, <1>4, <1>5, <1>6, <1>7, <1>8, <1>9, <1>10, <1>11,
       <1>12, <1>13, <1>14, <1>15, <1>16, <1>17, <1>18, <1>19
    DEF Next, WorkerMoves, GetTask, Destructor

-------------------------------------------------------------------------------
(* The counter of idle threads. *)

\* The counter follows the workers that are between its two updates.
LEMMA IdleStep ==
  TypeOK /\ MutexHeld /\ Phases /\ CountIsOneShort /\ [Next]_vars => CountIsOneShort'
  <1> SUFFICES ASSUME TypeOK, MutexHeld, Phases, CountIsOneShort, [Next]_vars
               PROVE  CountIsOneShort'
    OBVIOUS
  <1>0. Phases' /\ TypeOK'
    BY PhasesStep, TypeStep
  <1> DEFINE Unborn == At(wpc, {"unborn"})
             Busy == Cardinality(At(wpc, Counted))
  <1>1. Busy \in Nat /\ Cardinality(Workers) \in Nat
    BY AtFinite, PoolAssumption, FS_CardinalityType
  <1>2. ASSUME UNCHANGED idleThreadNum, Unborn' = Unborn, Busy' = Busy
        PROVE  CountIsOneShort'
    BY <1>2 DEF CountIsOneShort
  <1>3. ASSUME NEW w \in Workers, NEW p, Goto(w, p), wpc[w] # "unborn",
               p # "unborn", UNCHANGED idleThreadNum,
               wpc[w] \in Counted <=> p \in Counted
        PROVE  CountIsOneShort'
    <2>0. wpc'[w] = p /\ OnlyMoves(w, wpc, wpc')
      BY <1>3 DEF Goto, TypeOK, OnlyMoves
    <2>1. Busy' = Busy
      BY <1>3, <2>0, OneWorkerMoves, Zenon
    <2>2. Unborn' = Unborn
      BY <1>3 DEF Goto, At, TypeOK
    <2> QED BY <1>2, <1>3, <2>1, <2>2
  <1>4. ASSUME NEW pc \in [Workers -> WorkerPC], wpc' \in NotifyOne(pc),
               UNCHANGED idleThreadNum,
               \A v \in Workers : /\ wpc[v] = "wait" => pc[v] = "wait"
                                  /\ pc[v] \in Counted <=> wpc[v] \in Counted
                                  /\ pc[v] = "unborn" <=> wpc[v] = "unborn"
        PROVE  CountIsOneShort'
    <2>1. \A v \in Workers : wpc'[v] = pc[v] \/ (pc[v] = "wait" /\ wpc'[v] = "lock")
      BY <1>4, NotifyOneMoves
    <2>2. At(wpc, Counted)' = At(wpc, Counted) /\ Unborn' = Unborn
      BY <1>4, <2>1 DEF At, Counted
    <2> QED BY <1>2, <1>4, <2>2
  <1>5. ASSUME NEW w \in Workers, WorkerMoves(w) PROVE CountIsOneShort'
    <2>1. CASE LoopTest(w)
      BY <1>3, <2>1 DEF LoopTest, Counted
    <2>2. CASE SeeEmpty(w)
      BY <1>3, <2>2 DEF SeeEmpty, Counted
    <2>3. CASE SeeDone(w)
      BY <1>3, <2>3 DEF SeeDone, Counted
    <2>4. CASE SeeTask(w)
      BY <1>3, <2>4 DEF SeeTask, Counted
    <2>5. CASE Park(w)
      BY <1>3, <2>5 DEF Park, Counted
    <2>6. CASE Pop(w)
      <3> DEFINE pc == [wpc EXCEPT ![w] = "got"]
      <3>1. pc \in [Workers -> WorkerPC]
        BY DEF WorkerPC, TypeOK
      <3>2. \A v \in Workers : /\ wpc[v] = "wait" => pc[v] = "wait"
                               /\ pc[v] \in Counted <=> wpc[v] \in Counted
                               /\ pc[v] = "unborn" <=> wpc[v] = "unborn"
        BY <2>6 DEF Pop, Counted, TypeOK
      <3> QED BY <1>4, <2>6, <3>1, <3>2 DEF Pop
    <2>7. CASE PopEmpty(w)
      BY <1>3, <2>7 DEF PopEmpty, Counted
    <2>8. CASE CountBusy(w)
      <3>0. /\ wpc[w] = "got" /\ wpc'[w] = "run"
            /\ OnlyMoves(w, wpc, wpc')
        BY <2>8 DEF CountBusy, Goto, TypeOK, OnlyMoves
      <3>1. Busy' = Busy + 1
        <4>1. wpc[w] \notin Counted /\ wpc'[w] \in Counted
          BY <3>0 DEF Counted
        <4> QED BY <3>0, <4>1, OneWorkerMoves, Zenon
      <3>2. Unborn = {} /\ Unborn' = {}
        BY <2>8 DEF Phases, CountBusy, Goto, At, TypeOK
      <3> QED BY <1>1, <2>8, <3>1, <3>2 DEF CountBusy, CountIsOneShort, TypeOK
    <2>9. CASE CountIdle(w)
      <3>0. /\ wpc[w] = "ran" /\ wpc'[w] = "loop"
            /\ OnlyMoves(w, wpc, wpc')
        BY <2>9 DEF CountIdle, Goto, TypeOK, OnlyMoves
      <3>1. Busy' = Busy - 1
        <4>1. wpc[w] \in Counted /\ wpc'[w] \notin Counted
          BY <3>0 DEF Counted
        <4> QED BY <3>0, <4>1, OneWorkerMoves, Zenon
      <3>2. Unborn = {} /\ Unborn' = {}
        BY <2>9 DEF Phases, CountIdle, Goto, At, TypeOK
      <3> QED BY <1>1, <2>9, <3>1, <3>2 DEF CountIdle, CountIsOneShort, TypeOK
    <2> QED BY <1>5, <2>1, <2>2, <2>3, <2>4, <2>5, <2>6, <2>7, <2>8, <2>9
            DEF WorkerMoves, GetTask
  <1>6. ASSUME NEW w \in Workers, NEW o \in Outcomes, TaskEnds(w, o)
        PROVE CountIsOneShort'
    BY <1>3, <1>6 DEF TaskEnds, Counted
  <1>7. ASSUME NEW w \in Workers, SpuriousWake(w) PROVE CountIsOneShort'
    BY <1>3, <1>7 DEF SpuriousWake, Counted
  <1>8. ASSUME NEW t \in Tasks, Submit(t) PROVE CountIsOneShort'
    BY <1>4, <1>8 DEF Submit, TypeOK
  <1>9. CASE PoolSet
    <2>1. At(wpc, Counted) = {} /\ At(wpc, Counted)' = {}
      BY <1>9 DEF PoolSet, Phases, At, Counted
    <2>2. Unborn' = {}
      BY <1>9, <1>0 DEF PoolSet, Phases
    <2>3. Busy' = 0
      BY <2>1, FS_EmptySet
    <2> QED BY <1>1, <1>9, <2>2, <2>3 DEF PoolSet, CountIsOneShort
  <1>10. CASE Closed \/ Drain \/ Drained \/ Join
    BY <1>2, <1>10 DEF Closed, Drain, Drained, Join, At
  <1>11. CASE NotifyAll
    <2>1. At(wpc, Counted)' = At(wpc, Counted) /\ Unborn' = Unborn
      BY <1>11 DEF NotifyAll, At, Counted
    <2> QED BY <1>2, <1>11, <2>1 DEF NotifyAll
  <1>12. CASE UNCHANGED vars
    BY <1>2, <1>12 DEF vars, At
  <1> QED
    BY <1>5, <1>6, <1>7, <1>8, <1>9, <1>10, <1>11, <1>12 DEF Next, Destructor

-------------------------------------------------------------------------------
(* No queued task waits behind a sleeping worker. *)

\* A notification leaves nobody asleep who was not, and either there was no
\* sleeper or one sleeper is awake now.
LEMMA NotifyOneWakes ==
  ASSUME TypeOK, NEW pc \in [Workers -> WorkerPC], NEW pc2 \in NotifyOne(pc),
         \A v \in Workers : wpc[v] = "wait" <=> pc[v] = "wait"
  PROVE  \/ At(pc2, {"wait"}) = {}
         \/ /\ Sleepers # {}
            /\ Cardinality(At(pc2, Awake)) = Cardinality(At(pc, Awake)) + 1
  <1>1. CASE Sleepers = {}
    BY <1>1 DEF NotifyOne, Sleepers, At
  <1>2. CASE Sleepers # {}
    <2>1. PICK v \in Sleepers : pc2 = [pc EXCEPT ![v] = "lock"]
      BY <1>2 DEF NotifyOne
    <2>2. /\ v \in Workers /\ pc[v] = "wait" /\ pc2[v] = "lock"
          /\ OnlyMoves(v, pc, pc2)
      BY <2>1 DEF Sleepers, At, OnlyMoves
    <2>3. pc[v] \notin Awake /\ pc2[v] \in Awake
      BY <2>2 DEF Awake
    <2>4. Cardinality(At(pc2, Awake)) = Cardinality(At(pc, Awake)) + 1
      BY <2>2, <2>3, OneWorkerMoves, Zenon
    <2> QED BY <1>2, <2>4
  <1> QED BY <1>1, <1>2

\* A worker that moves without notifying, and without a change of the queue.
LEMMA StrandedGoto ==
  ASSUME TypeOK, NoTaskStranded, UNCHANGED <<Task_assemble, done>>,
         NEW w \in Workers, NEW p, Goto(w, p), p # "wait",
         wpc[w] \in Awake => p \in Awake
  PROVE  NoTaskStranded'
  <1>1. wpc'[w] = p /\ OnlyMoves(w, wpc, wpc')
    BY DEF Goto, TypeOK, OnlyMoves
  <1>2. /\ Cardinality(At(wpc, Awake)) \in Nat
        /\ Cardinality(At(wpc', Awake)) \in Nat
        /\ Len(Task_assemble) \in Nat
    BY AtFinite, LenProperties DEF TypeOK
  <1>3. Cardinality(At(wpc', Awake)) >= Cardinality(At(wpc, Awake))
    <2>1. (wpc[w] \in Awake <=> wpc'[w] \in Awake) =>
            Cardinality(At(wpc', Awake)) = Cardinality(At(wpc, Awake))
      BY <1>1, OneWorkerMoves, Zenon
    <2>2. wpc[w] \notin Awake /\ wpc'[w] \in Awake =>
            Cardinality(At(wpc', Awake)) = Cardinality(At(wpc, Awake)) + 1
      BY <1>1, OneWorkerMoves, Zenon
    <2> QED BY <1>1, <1>2, <2>1, <2>2
  <1>4. Sleepers' # {} => Sleepers # {}
    BY <1>1 DEF Sleepers, At, OnlyMoves
  <1> QED BY <1>2, <1>3, <1>4 DEF NoTaskStranded

LEMMA StrandedStep ==
  TypeOK /\ MutexHeld /\ Phases /\ NoTaskStranded /\ [Next]_vars
    => NoTaskStranded'
  <1> SUFFICES ASSUME TypeOK, MutexHeld, Phases, NoTaskStranded, [Next]_vars
               PROVE  NoTaskStranded'
    OBVIOUS
  <1>1. /\ Cardinality(At(wpc, Awake)) \in Nat
        /\ Cardinality(At(wpc', Awake)) \in Nat
        /\ Len(Task_assemble) \in Nat
    BY AtFinite, LenProperties DEF TypeOK
  <1>2. ASSUME Task_assemble' = <<>> PROVE NoTaskStranded'
    <2>1. Len(Task_assemble') = 0
      BY <1>2, EmptySeq
    <2> QED BY <1>1, <2>1 DEF NoTaskStranded
  <1>3. ASSUME done' PROVE NoTaskStranded'
    BY <1>3 DEF NoTaskStranded
  <1>4. ASSUME NEW w \in Workers, WorkerMoves(w) PROVE NoTaskStranded'
    <2>1. CASE LoopTest(w)
      <3>1. CASE done
        BY <1>3, <2>1, <3>1 DEF LoopTest
      <3>2. CASE ~done
        BY <2>1, <3>2, StrandedGoto DEF LoopTest, Awake
      <3> QED BY <3>1, <3>2
    <2>2. CASE SeeEmpty(w)
      BY <1>2, <2>2 DEF SeeEmpty
    <2>3. CASE SeeDone(w)
      BY <1>3, <2>3 DEF SeeDone
    <2>4. CASE SeeTask(w)
      BY <2>4, StrandedGoto DEF SeeTask, Awake
    <2>5. CASE Park(w)
      BY <1>2, <1>3, <2>5 DEF Park, Phases
    <2>6. CASE Pop(w)
      <3> DEFINE pc == [wpc EXCEPT ![w] = "got"]
      <3>1. /\ pc \in [Workers -> WorkerPC] /\ pc[w] = "got" /\ wpc[w] = "pop"
            /\ OnlyMoves(w, wpc, pc)
        BY <2>6 DEF Pop, TypeOK, WorkerPC, OnlyMoves
      <3>2. \A v \in Workers : wpc[v] = "wait" <=> pc[v] = "wait"
        BY <3>1 DEF OnlyMoves
      <3>3. wpc' \in NotifyOne(pc)
        BY <2>6 DEF Pop
      <3> HIDE DEF pc
      <3>4. Cardinality(At(pc, Awake)) = Cardinality(At(wpc, Awake)) - 1
        <4>1. "got" \notin Awake /\ "pop" \in Awake
          BY DEF Awake
        <4>2. wpc[w] \in Awake /\ pc[w] \notin Awake
          BY <3>1, <4>1
        <4> QED BY <3>1, <4>2, OneWorkerMoves, Zenon
      <3>5. \/ At(wpc', {"wait"}) = {}
            \/ /\ Sleepers # {}
               /\ Cardinality(At(wpc', Awake)) = Cardinality(At(wpc, Awake))
        BY <1>1, <3>1, <3>2, <3>3, <3>4, NotifyOneWakes
      <3>6. Len(Task_assemble') = Len(Task_assemble) - 1
        BY <2>6, HeadTailProperties DEF Pop, TypeOK
      <3>7. done' = done /\ Sleepers' = At(wpc', {"wait"})
        BY <2>6 DEF Pop, Sleepers
      <3> QED BY <1>1, <3>5, <3>6, <3>7 DEF NoTaskStranded
    <2>7. CASE PopEmpty(w)
      BY <1>2, <2>7 DEF PopEmpty
    <2>8. CASE CountBusy(w)
      BY <2>8, StrandedGoto DEF CountBusy, Awake
    <2>9. CASE CountIdle(w)
      BY <2>9, StrandedGoto DEF CountIdle, Awake
    <2> QED BY <1>4, <2>1, <2>2, <2>3, <2>4, <2>5, <2>6, <2>7, <2>8, <2>9
            DEF WorkerMoves, GetTask
  <1>5. ASSUME NEW w \in Workers, NEW o \in Outcomes, TaskEnds(w, o)
        PROVE NoTaskStranded'
    BY <1>5, StrandedGoto DEF TaskEnds, Awake
  <1>6. ASSUME NEW w \in Workers, SpuriousWake(w) PROVE NoTaskStranded'
    BY <1>6, StrandedGoto DEF SpuriousWake, Awake
  <1>7. ASSUME NEW t \in Tasks, Submit(t) PROVE NoTaskStranded'
    <2>1. wpc \in [Workers -> WorkerPC] /\ wpc' \in NotifyOne(wpc)
      BY <1>7 DEF Submit, TypeOK
    <2>2. \/ At(wpc', {"wait"}) = {}
          \/ /\ Sleepers # {}
             /\ Cardinality(At(wpc', Awake)) = Cardinality(At(wpc, Awake)) + 1
      BY <2>1, NotifyOneWakes
    <2>3. Len(Task_assemble') = Len(Task_assemble) + 1
      BY <1>7, AppendProperties DEF Submit, TypeOK
    <2>4. done' = done /\ Sleepers' = At(wpc', {"wait"})
      BY <1>7 DEF Submit, Sleepers
    <2> QED BY <1>1, <2>2, <2>3, <2>4 DEF NoTaskStranded
  <1>8. CASE PoolSet
    BY <1>2, <1>8 DEF PoolSet, Phases
  <1>9. CASE Closed
    BY <1>3, <1>9 DEF Closed
  <1>10. CASE Destructor
    BY <1>3, <1>10 DEF Destructor, Drain, Drained, NotifyAll, Join, Phases
  <1>11. CASE UNCHANGED vars
    BY <1>11 DEF vars, NoTaskStranded, Sleepers
  <1> QED BY <1>4, <1>5, <1>6, <1>7, <1>8, <1>9, <1>10, <1>11 DEF Next

-------------------------------------------------------------------------------
(* A pending task is in one place. *)

\* What taking the head leaves of a queue.
LEMMA TakeHead ==
  ASSUME NEW q \in Seq(Tasks), q # <<>>
  PROVE  /\ Tail(q) \in Seq(Tasks) /\ Head(q) \in Tasks /\ Head(q) = q[1]
         /\ Len(q) \in Nat /\ Len(q) >= 1
         /\ DOMAIN q = 1 .. Len(q)
         /\ DOMAIN Tail(q) = 1 .. (Len(q) - 1)
         /\ \A i \in 1 .. (Len(q) - 1) : Tail(q)[i] = q[i + 1]
  BY HeadTailProperties, LenProperties, EmptySeq

\* The elements of a queue are its head and those of its tail.
LEMMA HeadOrTail ==
  ASSUME NEW q \in Seq(Tasks), q # <<>>, NEW t
  PROVE  (\E i \in DOMAIN q : q[i] = t) <=>
           Head(q) = t \/ \E i \in DOMAIN Tail(q) : Tail(q)[i] = t
  <1>1. ASSUME NEW i \in DOMAIN q, q[i] = t
        PROVE  Head(q) = t \/ \E j \in DOMAIN Tail(q) : Tail(q)[j] = t
    <2>1. CASE i = 1
      BY <1>1, <2>1, TakeHead
    <2>2. CASE i # 1
      <3>1. i - 1 \in DOMAIN Tail(q) /\ Tail(q)[i - 1] = t
        BY <1>1, <2>2, TakeHead
      <3> QED BY <3>1
    <2> QED BY <2>1, <2>2
  <1>2. ASSUME NEW i \in DOMAIN Tail(q), Tail(q)[i] = t
        PROVE  \E j \in DOMAIN q : q[j] = t
    <2>1. i + 1 \in DOMAIN q /\ q[i + 1] = t
      BY <1>2, TakeHead
    <2> QED BY <2>1
  <1>3. Head(q) = t => \E j \in DOMAIN q : q[j] = t
    BY TakeHead
  <1> QED BY <1>1, <1>2, <1>3

\* In a queue without repetition the head is not in the tail, which has none.
LEMMA TailDistinct ==
  ASSUME NEW q \in Seq(Tasks), q # <<>>,
         \A i, j \in DOMAIN q : q[i] = q[j] => i = j
  PROVE  /\ \A i, j \in DOMAIN Tail(q) : Tail(q)[i] = Tail(q)[j] => i = j
         /\ \A i \in DOMAIN Tail(q) : Tail(q)[i] # Head(q)
  <1>1. ASSUME NEW i \in DOMAIN Tail(q)
        PROVE  i \in Int /\ i + 1 \in DOMAIN q /\ Tail(q)[i] = q[i + 1] /\ i + 1 # 1
    BY TakeHead
  <1>2. 1 \in DOMAIN q /\ Head(q) = q[1]
    BY TakeHead
  <1>3. ASSUME NEW i \in DOMAIN Tail(q), NEW j \in DOMAIN Tail(q),
               Tail(q)[i] = Tail(q)[j]
        PROVE  i = j
    <2>1. i + 1 = j + 1
      BY <1>1, <1>3
    <2> QED BY <1>1, <2>1
  <1> QED BY <1>1, <1>2, <1>3

LEMMA OnePlaceStep == TypeOK /\ Phases /\ OnePlace /\ [Next]_vars => OnePlace'
  <1> SUFFICES ASSUME TypeOK, Phases, OnePlace, [Next]_vars PROVE OnePlace'
    OBVIOUS
  <1>1. ASSUME UNCHANGED <<Task_assemble, held, future>> PROVE OnePlace'
    BY <1>1 DEF OnePlace
  <1>2. ASSUME NEW w \in Workers, Pop(w) PROVE OnePlace'
    <2> DEFINE q == Task_assemble
    <2>1. /\ q \in Seq(Tasks) /\ q # <<>> /\ q' = Tail(q)
          /\ held \in [Workers -> Tasks \cup {NoTask}]
          /\ held' = [held EXCEPT ![w] = Head(q)] /\ future' = future
      BY <1>2 DEF Pop, TypeOK
    <2>2. held[w] = NoTask
      BY <1>2 DEF Pop, Phases
    <2>3. Head(q) \in Tasks /\ \E i \in DOMAIN q : q[i] = Head(q)
      BY <2>1, TakeHead
    <2>4. \A v \in Workers : held'[v] = IF v = w THEN Head(q) ELSE held[v]
      BY <2>1
    <2>5. \A t \in Tasks :
            (\E v \in Workers : held'[v] = t) <=>
              t = Head(q) \/ \E v \in Workers : held[v] = t
      BY <2>2, <2>4, PoolAssumption
    <2>6. \A t \in Tasks :
            (\E i \in DOMAIN q : q[i] = t) <=>
              Head(q) = t \/ \E i \in DOMAIN q' : q'[i] = t
      BY <2>1, HeadOrTail
    <2>7. /\ \A i, j \in DOMAIN q' : q'[i] = q'[j] => i = j
          /\ \A i \in DOMAIN q' : q'[i] # Head(q)
      BY <2>1, TailDistinct DEF OnePlace
    <2>8. \A v \in Workers : held[v] # Head(q)
      BY <2>3 DEF OnePlace
    <2>9. \A v \in Workers, i \in DOMAIN q' : held[v] # q'[i]
      <3>1. \A i \in DOMAIN q' : \E j \in DOMAIN q : q[j] = q'[i]
        BY <2>1, HeadOrTail
      <3> QED BY <3>1 DEF OnePlace
    <2>10. \A t \in Tasks :
             future'[t] = "pending" <=>
               \/ \E i \in DOMAIN q' : q'[i] = t
               \/ \E v \in Workers : held'[v] = t
      BY <2>1, <2>5, <2>6 DEF OnePlace
    <2>11. \A u, v \in Workers : held'[u] = held'[v] /\ held'[u] # NoTask => u = v
      BY <2>4, <2>8 DEF OnePlace
    <2>12. \A v \in Workers, i \in DOMAIN q' : held'[v] # q'[i]
      BY <2>4, <2>7, <2>9
    <2> QED BY <2>7, <2>10, <2>11, <2>12 DEF OnePlace
  <1>3. ASSUME NEW w \in Workers, NEW o \in Outcomes, TaskEnds(w, o)
        PROVE OnePlace'
    <2>1. held[w] # NoTask /\ held[w] \in Tasks /\ o # "pending"
      BY <1>3 DEF TaskEnds, Phases, TypeOK, Outcomes
    <2>2. \A v \in Workers : held'[v] = IF v = w THEN NoTask ELSE held[v]
      BY <1>3 DEF TaskEnds, TypeOK
    <2>3. \A t \in Tasks : future'[t] = IF t = held[w] THEN o ELSE future[t]
      BY <1>3 DEF TaskEnds, TypeOK
    <2>4. UNCHANGED Task_assemble
      BY <1>3 DEF TaskEnds
    <2>5. \A i \in DOMAIN Task_assemble : Task_assemble[i] \in Tasks
      BY LenProperties DEF TypeOK
    <2> QED BY <2>1, <2>2, <2>3, <2>4, <2>5, PoolAssumption DEF OnePlace
  <1>4. ASSUME NEW t \in Tasks, Submit(t) PROVE OnePlace'
    <2> DEFINE q == Task_assemble
               n == Len(q) + 1
    <2>1. /\ q \in Seq(Tasks) /\ q' = Append(q, t) /\ future[t] = "none"
          /\ held' = held
          /\ \A u \in Tasks : future'[u] = IF u = t THEN "pending" ELSE future[u]
      BY <1>4 DEF Submit, TypeOK
    <2>2. /\ Len(q) \in Nat /\ DOMAIN q = 1 .. Len(q) /\ DOMAIN q' = 1 .. n
          /\ \A i \in 1 .. Len(q) : q'[i] = q[i]
          /\ q'[n] = t
      BY <2>1, AppendProperties, LenProperties
    <2>3. /\ \A i \in DOMAIN q : q[i] # t
          /\ \A v \in Workers : held[v] # t
      BY <2>1 DEF OnePlace
    <2>4. \A i \in DOMAIN q' :
            (i \in DOMAIN q /\ q'[i] = q[i]) \/ (i = n /\ q'[i] = t)
      BY <2>2
    <2>5. \A u \in Tasks :
            (\E i \in DOMAIN q' : q'[i] = u) <=> u = t \/ \E i \in DOMAIN q : q[i] = u
      BY <2>2, <2>4
    <2> HIDE DEF n
    <2> QED BY <2>1, <2>3, <2>4, <2>5 DEF OnePlace
  <1>5. CASE Drain
    <2> DEFINE q == Task_assemble
    <2>1. /\ q \in Seq(Tasks) /\ q # <<>> /\ q' = Tail(q) /\ held' = held
          /\ \A u \in Tasks :
               future'[u] = IF u = Head(q) THEN "broken" ELSE future[u]
      BY <1>5 DEF Drain, TypeOK
    <2>2. \E i \in DOMAIN q : q[i] = Head(q)
      BY <2>1, TakeHead
    <2>3. \A u :
            (\E i \in DOMAIN q : q[i] = u) <=>
              Head(q) = u \/ \E i \in DOMAIN q' : q'[i] = u
      BY <2>1, HeadOrTail
    <2>4. /\ \A i, j \in DOMAIN q' : q'[i] = q'[j] => i = j
          /\ \A i \in DOMAIN q' : q'[i] # Head(q)
      BY <2>1, TailDistinct DEF OnePlace
    <2>5. \A v \in Workers : held[v] # Head(q)
      BY <2>2 DEF OnePlace
    <2>6. \A v \in Workers, i \in DOMAIN q' : held[v] # q'[i]
      <3>1. ASSUME NEW i \in DOMAIN Tail(q)
            PROVE  \E j \in DOMAIN q : q[j] = Tail(q)[i]
        BY <2>1, HeadOrTail
      <3> QED BY <2>1, <3>1 DEF OnePlace
    <2>7. \A u \in Tasks :
            future'[u] = "pending" <=>
              \/ \E i \in DOMAIN q' : q'[i] = u
              \/ \E v \in Workers : held'[v] = u
      BY <2>1, <2>3, <2>4, <2>5 DEF OnePlace
    <2> QED BY <2>1, <2>4, <2>6, <2>7 DEF OnePlace
  <1>6. ASSUME NEW w \in Workers, WorkerMoves(w), ~Pop(w) PROVE OnePlace'
    BY <1>1, <1>6 DEF WorkerMoves, LoopTest, GetTask, SeeEmpty, SeeDone,
         SeeTask, Park, PopEmpty, CountBusy, CountIdle
  <1>7. ASSUME NEW w \in Workers, SpuriousWake(w) PROVE OnePlace'
    BY <1>1, <1>7 DEF SpuriousWake
  <1>8. CASE PoolSet \/ Closed \/ Drained \/ NotifyAll \/ Join
    BY <1>1, <1>8 DEF PoolSet, Closed, Drained, NotifyAll, Join
  <1>9. CASE UNCHANGED vars
    BY <1>1, <1>9 DEF vars
  <1> QED BY <1>2, <1>3, <1>4, <1>5, <1>6, <1>7, <1>8, <1>9
          DEF Next, Destructor

-------------------------------------------------------------------------------
(* The end, and the theorems. *)

LEMMA QuietStep ==
  TypeOK /\ Phases /\ OnePlace /\ QuietWhenGone /\ [Next]_vars => QuietWhenGone'
  <1> SUFFICES ASSUME TypeOK, Phases, OnePlace, QuietWhenGone, [Next]_vars
               PROVE  QuietWhenGone'
    OBVIOUS
  <1>1. ASSUME NEW w \in Workers, WorkerMoves(w) PROVE QuietWhenGone'
    BY <1>1 DEF QuietWhenGone, WorkerMoves, LoopTest, GetTask, SeeEmpty,
         SeeDone, SeeTask, Park, Pop, PopEmpty, CountBusy, CountIdle, Goto
  <1>2. ASSUME NEW w \in Workers, NEW o \in Outcomes, TaskEnds(w, o)
        PROVE QuietWhenGone'
    BY <1>2 DEF QuietWhenGone, TaskEnds, Goto
  <1>3. ASSUME NEW w \in Workers, SpuriousWake(w) PROVE QuietWhenGone'
    BY <1>3 DEF QuietWhenGone, SpuriousWake, Goto
  <1>4. ASSUME mpc' # "gone" PROVE QuietWhenGone'
    BY <1>4 DEF QuietWhenGone
  <1>5. ASSUME NEW t \in Tasks, Submit(t) PROVE QuietWhenGone'
    BY <1>4, <1>5 DEF Submit
  <1>6. CASE PoolSet \/ Closed \/ Drain \/ Drained \/ NotifyAll
    BY <1>4, <1>6 DEF PoolSet, Closed, Drain, Drained, NotifyAll
  <1>7. CASE Join
    <2>1. \A w \in Workers : held[w] = NoTask
      BY <1>7 DEF Join, Phases
    <2>2. DOMAIN Task_assemble = {}
      BY <1>7, EmptySeq DEF Join, Phases
    <2>3. \A t \in Tasks : future[t] # "pending"
      BY <2>1, <2>2, PoolAssumption DEF OnePlace
    <2> QED BY <1>7, <2>3 DEF Join, QuietWhenGone
  <1>8. CASE UNCHANGED vars
    BY <1>8 DEF vars, QuietWhenGone
  <1> QED BY <1>1, <1>2, <1>3, <1>5, <1>6, <1>7, <1>8 DEF Next, Destructor

LEMMA IndInit == Init => IndInv
  <1> SUFFICES ASSUME Init PROVE IndInv
    OBVIOUS
  <1>1. TypeOK
    BY TypeInit
  <1>2. MutexHeld
    BY PoolAssumption DEF Init, MutexHeld, InCritical
  <1>3. DOMAIN Task_assemble = {} /\ Task_assemble = <<>>
    BY EmptySeq DEF Init
  <1>4. OnePlace
    BY <1>3, PoolAssumption DEF Init, OnePlace
  <1>5. At(wpc, {"unborn"}) # {}
    <2>1. PICK w \in Workers : w # First
      BY PoolAssumption
    <2> QED BY <2>1 DEF Init, At
  <1>6. CountIsOneShort
    BY <1>5 DEF Init, CountIsOneShort
  <1>7. NoTaskStranded
    BY DEF Init, NoTaskStranded, Sleepers, At
  <1>8. QuietWhenGone
    BY DEF Init, QuietWhenGone
  <1>9. Phases
    BY <1>3, <1>5 DEF Init, Phases, At
  <1> QED BY <1>1, <1>2, <1>4, <1>6, <1>7, <1>8, <1>9 DEF IndInv

LEMMA IndStep == IndInv /\ [Next]_vars => IndInv'
  BY TypeStep, MutexStep, OnePlaceStep, IdleStep, StrandedStep, QuietStep,
     PhasesStep
  DEF IndInv

\* The variables always have the types the code gives them: the queue holds
\* submitted tasks, each worker and the owner are at a known program point.
THEOREM PoolTypeOK == SafeSpec => []TypeOK
  <1>1. IndInv => TypeOK
    BY DEF IndInv
  <1> QED BY <1>1, IndInit, IndStep, PTL DEF SafeSpec

\* The pool's inductive invariant holds of every behaviour.
THEOREM PoolInvariant == SafeSpec => []IndInv
  BY IndInit, IndStep, PTL DEF SafeSpec

\* getTask's critical section is exclusive, whatever the number of workers.
THEOREM PoolMutex == SafeSpec => []MutexHeld
  <1>1. IndInv => MutexHeld
    BY DEF IndInv
  <1> QED BY <1>1, PoolInvariant, PTL

\* No task that Submit accepted is lost or handed to two workers.
THEOREM PoolOnePlace == SafeSpec => []OnePlace
  <1>1. IndInv => OnePlace
    BY DEF IndInv
  <1> QED BY <1>1, PoolInvariant, PTL

\* "Return the current idle_threads", the comment of Thread_count, is never what
\* the open pool does: of the workers outside a task it counts one too few, and
\* -1 of none, which the queries read as an unsigned number.
THEOREM ThreadCountIsShort ==
  SafeSpec =>
    [](mpc = "open" => Thread_count = Cardinality(Workers \ At(wpc, Counted)) - 1)
  <1>1. ASSUME IndInv, mpc = "open"
        PROVE  Thread_count = Cardinality(Workers \ At(wpc, Counted)) - 1
    <2>1. IsFiniteSet(Workers) /\ At(wpc, Counted) \subseteq Workers
      BY PoolAssumption DEF At
    <2>2. /\ Cardinality(Workers) \in Nat
          /\ Cardinality(At(wpc, Counted)) \in Nat
          /\ Cardinality(Workers \ At(wpc, Counted))
               = Cardinality(Workers) - Cardinality(At(wpc, Counted))
      <3>1. Workers \cap At(wpc, Counted) = At(wpc, Counted)
        BY <2>1
      <3>2. IsFiniteSet(At(wpc, Counted))
        BY <2>1, FS_Subset
      <3>3. Cardinality(Workers) \in Nat /\ Cardinality(At(wpc, Counted)) \in Nat
        BY <2>1, <3>2, FS_CardinalityType
      <3>4. /\ IsFiniteSet(Workers \ At(wpc, Counted))
            /\ Cardinality(Workers \ At(wpc, Counted))
                 = Cardinality(Workers) - Cardinality(Workers \cap At(wpc, Counted))
        BY <2>1, FS_Difference
      <3> QED BY <3>1, <3>3, <3>4, FS_CardinalityType
    <2>3. At(wpc, {"unborn"}) = {}
      BY <1>1 DEF IndInv, Phases
    <2>4. idleThreadNum = Cardinality(Workers) - 1 - Cardinality(At(wpc, Counted))
      BY <1>1, <2>3 DEF IndInv, CountIsOneShort
    <2> QED BY <2>2, <2>4 DEF Thread_count
  <1>2. IndInv => (mpc = "open" => Thread_count = Cardinality(Workers \ At(wpc, Counted)) - 1)
    BY <1>1
  <1> QED BY <1>2, PoolInvariant, PTL

\* notify_one is enough: no queued task is left to workers that all sleep.
THEOREM PoolNoTaskStranded == SafeSpec => []NoTaskStranded
  <1>1. IndInv => NoTaskStranded
    BY DEF IndInv
  <1> QED BY <1>1, PoolInvariant, PTL

\* When the destructor has returned, no worker and no waiting future is left.
THEOREM PoolQuietWhenGone == SafeSpec => []QuietWhenGone
  <1>1. IndInv => QuietWhenGone
    BY DEF IndInv
  <1> QED BY <1>1, PoolInvariant, PTL

-------------------------------------------------------------------------------
(* The pool implements Executor. *)

\* A future that is completed or broken never changes again: get() of a
\* completed future is stable, and no task completes twice.
THEOREM PoolFutureIsFinal == SafeSpec => FutureIsFinal
  <1> DEFINE Final == \A t \in Tasks :
               future[t] \in Outcomes \cup {"broken"} => future'[t] = future[t]
  <1>1. ASSUME IndInv, [Next]_vars PROVE Final
    <2> USE <1>1 DEF Outcomes
    <2>1. TypeOK /\ Phases /\ OnePlace
      BY DEF IndInv
    <2>2. UNCHANGED future => Final
      OBVIOUS
    <2>3. ASSUME NEW w \in Workers, NEW o \in Outcomes, TaskEnds(w, o) PROVE Final
      <3>1. held[w] \in Tasks
        BY <2>1, <2>3 DEF TaskEnds, Phases, TypeOK
      <3>2. future[held[w]] = "pending"
        BY <2>1, <3>1 DEF OnePlace
      <3> QED BY <2>1, <2>3, <3>1, <3>2 DEF TaskEnds, TypeOK
    <2>4. ASSUME NEW t \in Tasks, Submit(t) PROVE Final
      BY <2>1, <2>4 DEF Submit, TypeOK
    <2>5. CASE Drain
      <3>1. /\ Head(Task_assemble) \in Tasks
            /\ \E i \in DOMAIN Task_assemble : Task_assemble[i] = Head(Task_assemble)
        BY <2>1, <2>5, TakeHead DEF Drain, TypeOK
      <3>2. future[Head(Task_assemble)] = "pending"
        BY <2>1, <3>1 DEF OnePlace
      <3> QED BY <2>1, <2>5, <3>1, <3>2 DEF Drain, TypeOK
    <2>6. ASSUME NEW w \in Workers, WorkerMoves(w) PROVE Final
      BY <2>2, <2>6 DEF WorkerMoves, LoopTest, GetTask, SeeEmpty, SeeDone,
         SeeTask, Park, Pop, PopEmpty, CountBusy, CountIdle
    <2>7. ASSUME NEW w \in Workers, SpuriousWake(w) PROVE Final
      BY <2>2, <2>7 DEF SpuriousWake
    <2>8. CASE PoolSet \/ Closed \/ Drained \/ NotifyAll \/ Join
      BY <2>2, <2>8 DEF PoolSet, Closed, Drained, NotifyAll, Join
    <2>9. CASE UNCHANGED vars
      BY <2>2, <2>9 DEF vars
    <2> QED BY <2>3, <2>4, <2>5, <2>6, <2>7, <2>8, <2>9 DEF Next, Destructor
  <1>2. ASSUME IndInv, [Next]_vars PROVE [Final]_vars
    BY <1>1, <1>2
  <1> QED BY <1>2, PoolInvariant, PTL DEF SafeSpec, FutureIsFinal

\* A step of the pool is a step of Executor or changes nothing it can see.
LEMMA ImplementsStep == IndInv /\ [Next]_vars => [Contract!Next]_(Contract!vars)
  <1> SUFFICES ASSUME IndInv, [Next]_vars PROVE [Contract!Next]_(Contract!vars)
    OBVIOUS
  <1> DEFINE running == {held[w] : w \in Workers} \ {NoTask}
  <1>1. TypeOK /\ Phases /\ OnePlace
    BY DEF IndInv
  <1>2. ASSUME UNCHANGED <<Task_assemble, held, future, done>>
        PROVE  UNCHANGED Contract!vars
    BY <1>2 DEF Contract!vars
  <1>3. ASSUME NEW w \in Workers, Pop(w) PROVE Contract!Start
    <2>1. Head(Task_assemble) \in Tasks /\ held[w] = NoTask
      BY <1>1, <1>3, TakeHead DEF Pop, Phases, TypeOK
    <2>2. \A v \in Workers :
            held'[v] = IF v = w THEN Head(Task_assemble) ELSE held[v]
      BY <1>1, <1>3 DEF Pop, TypeOK
    <2>3. running' = running \cup {Head(Task_assemble)}
      BY <2>1, <2>2, PoolAssumption
    <2> QED BY <1>3, <2>3 DEF Pop, Contract!Start
  <1>4. ASSUME NEW w \in Workers, NEW o \in Outcomes, TaskEnds(w, o)
        PROVE  \E t \in Tasks : Contract!Finish(t)
    <2>1. held[w] \in Tasks /\ held[w] # NoTask
      BY <1>1, <1>4 DEF TaskEnds, Phases, TypeOK
    <2>2. ASSUME NEW t \in Tasks, t = held[w] PROVE Contract!Finish(t)
      <3>1. \A v \in Workers : held'[v] = IF v = w THEN NoTask ELSE held[v]
        BY <1>1, <1>4 DEF TaskEnds, TypeOK
      <3>2. running' = running \ {t}
        BY <1>1, <2>1, <2>2, <3>1, PoolAssumption DEF OnePlace
      <3>3. t \in running
        BY <2>1, <2>2
      <3>4. o \in Contract!Outcomes
        BY DEF Outcomes, Contract!Outcomes
      <3> QED BY <1>4, <2>2, <3>2, <3>3, <3>4 DEF TaskEnds, Contract!Finish
    <2> QED BY <2>1, <2>2
  <1>5. ASSUME NEW t \in Tasks, Submit(t) PROVE Contract!Submit(t)
    <2>1. ~done
      BY <1>1, <1>5 DEF Submit, Phases
    <2> QED BY <1>5, <2>1 DEF Submit, Contract!Submit
  <1>6. ASSUME Closed PROVE Contract!Close
    BY <1>6 DEF Closed, Contract!Close
  <1>7. ASSUME Drain PROVE Contract!Discard
    <2>1. done
      BY <1>1, <1>7 DEF Drain, Phases
    <2> QED BY <1>7, <2>1 DEF Drain, Contract!Discard
  <1>8. ASSUME NEW w \in Workers, WorkerMoves(w), ~Pop(w)
        PROVE  UNCHANGED Contract!vars
    BY <1>2, <1>8 DEF WorkerMoves, LoopTest, GetTask, SeeEmpty, SeeDone,
         SeeTask, Park, PopEmpty, CountBusy, CountIdle
  <1>9. ASSUME NEW w \in Workers, SpuriousWake(w) PROVE UNCHANGED Contract!vars
    BY <1>2, <1>9 DEF SpuriousWake
  <1>10. CASE PoolSet \/ Drained \/ NotifyAll \/ Join
    BY <1>2, <1>10 DEF PoolSet, Drained, NotifyAll, Join
  <1>11. CASE UNCHANGED vars
    BY <1>2, <1>11 DEF vars
  <1> QED BY <1>3, <1>4, <1>5, <1>6, <1>7, <1>8, <1>9, <1>10, <1>11
          DEF Next, Destructor, Contract!Next

\* Thread_Pool keeps the promises of Executor: tasks start in submission order,
\* at most once, and complete their future once; closing drops the others.
THEOREM PoolImplementsExecutor == SafeSpec => Contract!SafeSpec
  <1>1. Init => Contract!Init
    <2> SUFFICES ASSUME Init PROVE Contract!Init
      OBVIOUS
    <2>1. {held[w] : w \in Workers} \ {NoTask} = {}
      BY DEF Init
    <2> QED BY <2>1 DEF Init, Contract!Init
  <1> QED BY <1>1, ImplementsStep, PoolInvariant, PTL
          DEF SafeSpec, Contract!SafeSpec
===============================================================================
