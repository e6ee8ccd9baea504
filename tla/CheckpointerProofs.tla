------------------------- MODULE CheckpointerProofs -------------------------
(***************************************************************************)
(* Checkpoints that are committed stay complete, and the restore point      *)
(* never goes back, for any number of processes, steps, runs and failed     *)
(* removals.  Order is the reason: every save is of a later step than all   *)
(* that is committed, and what the collection removes is older than a       *)
(* committed checkpoint it keeps.  And what it gives up to thin the kept    *)
(* ones out comes close after one it keeps.                                 *)
(***************************************************************************)
EXTENDS Checkpointer, FiniteSetTheorems, WellFoundedInduction, TLAPS

\* What is being saved is newer than what is committed.
SaveOrder ==
  /\ saving # NoStep =>
       /\ saving <= step /\ saving \in dirs
       /\ \A c \in index : c < saving
       /\ \A p \in Processes \ todo : data[saving][p] = run
  /\ pc \in {"policy", "previous"} => \A c \in index \cup ({saving} \ {NoStep}) : c < step
  /\ pc # "restore" => \A c \in index : c <= step
  /\ pc = "restore" => saving = NoStep
  /\ pc \in {"restore", "enter"} => gc = "off"
  /\ pc = "previous" => step \in dirs

\* What is being removed is older than a checkpoint that stays.
GcOrder ==
  /\ gc = "check" => committed \subseteq index /\ doomed = {}
  /\ gc \in {"off", "idle"} => doomed = {}
  /\ doomed # {} => \E k \in index \ doomed : \A d \in doomed : d < k
  /\ gc = "rmtree" => target \notin index

Inv == TypeOK /\ CommittedComplete /\ SaveOrder /\ GcOrder

\* The sentinel is not a step.
LEMMA NoStepIsNoStep == NoStep \notin Steps
  BY CkptAssumption DEF CkptAssumption, NoStep, Steps

\* A set of steps that is not empty has a newest one.
LEMMA NewestExists ==
  ASSUME NEW S, S \subseteq Steps, S # {}
  PROVE  Newest(S) \in S /\ \A t \in S : t <= Newest(S)
<1> DEFINE Above(m) == {t \in S : t > m}
          A == {Above(m) : m \in S}
<1>1. S \subseteq Int
  BY CkptAssumption DEF CkptAssumption, Steps
<1>2. IsFiniteSet(S)
  <2>1. IsFiniteSet(Steps)
    BY FS_Interval, CkptAssumption DEF CkptAssumption, Steps
  <2> QED
    BY <2>1, FS_Subset
<1>3. A \subseteq FiniteSubsetsOf(S) /\ A # {}
  <2>1. FiniteSubsetsOf(S) = SUBSET S
    BY <1>2, FS_FiniteSubsetsOfFinite
  <2>2. A \subseteq SUBSET S /\ A # {}
    OBVIOUS
  <2> QED
    BY <2>1, <2>2
<1>4. PICK m \in S : \A a \in A : ~ (<<a, Above(m)>> \in StrictSubsetOrdering(S))
  <2>1. \E x \in A : \A y \in A : ~ (<<y, x>> \in StrictSubsetOrdering(S))
    <3> HIDE DEF A
    <3> QED
      BY <1>3, FS_StrictSubsetOrderingWellFounded, WFMin
  <2> QED
    BY <2>1
<1>5. \A t \in S : t <= m
  <2> SUFFICES ASSUME NEW t \in S, ~ (t <= m)
               PROVE  FALSE
    OBVIOUS
  <2>1. Above(t) \subseteq Above(m) /\ t \in Above(m) /\ t \notin Above(t)
    <3>1. t \in Int /\ m \in Int /\ t > m
      BY <1>1
    <3>2. ASSUME NEW x \in Above(t) PROVE x \in Above(m)
      <4>1. x \in S /\ x > t
        OBVIOUS
      <4>2. x > m
        BY <3>1, <4>1, <1>1
      <4> QED
        BY <4>1, <4>2
    <3>3. t \in Above(m)
      BY <3>1
    <3>4. t \notin Above(t)
      BY <3>1
    <3> HIDE DEF Above
    <3> QED
      BY <3>2, <3>3, <3>4
  <2>2. Above(t) # Above(m) /\ Above(t) \in SUBSET S /\ Above(m) \in SUBSET S
    BY <2>1
  <2>3. <<Above(t), Above(m)>> \in StrictSubsetOrdering(S)
    BY <2>1, <2>2 DEF StrictSubsetOrdering
  <2> QED
    BY <1>4, <2>3
<1> QED
  BY <1>5 DEF Newest

\* The collection does not give up the newest committed checkpoint, nor what is
\* newer than it.
LEMMA RemainingKeepsNewest ==
  ASSUME NEW all, NEW com, com \subseteq all, all \subseteq Steps
  PROVE  all \ Remaining(all, com) # {} =>
           \E k \in com : /\ k \in Remaining(all, com)
                          /\ \A d \in all \ Remaining(all, com) : d < k
<1> SUFFICES ASSUME all \ Remaining(all, com) # {}
             PROVE  \E k \in com : /\ k \in Remaining(all, com)
                                   /\ \A d \in all \ Remaining(all, com) : d < k
  OBVIOUS
<1>1. com # {}
  BY DEF Remaining, Head
<1>2. PICK k \in com : \A t \in com : t <= k
  BY <1>1, NewestExists
<1>3. k \in Remaining(all, com)
  <2>1. {d \in com : d > k} = {}
    <3> SUFFICES ASSUME NEW d \in com, d > k
                 PROVE  FALSE
      OBVIOUS
    <3>1. d \in Int /\ k \in Int /\ d <= k
      BY <1>2, CkptAssumption DEF CkptAssumption, Steps
    <3> QED
      BY <3>1
  <2>2. Cardinality({d \in com : d > k}) = 0
    BY <2>1, FS_EmptySet
  <2> QED
    BY <2>2, <1>2, CkptAssumption DEF CkptAssumption, Remaining, Last
<1>4. ASSUME NEW d \in all \ Remaining(all, com)
      PROVE  d < k
  <2>1. PICK c \in com : ~ (c < d)
    BY <1>4 DEF Remaining, Head
  <2>2. d # k
    BY <1>3
  <2> QED
    BY <2>1, <2>2, <1>2, CkptAssumption DEF CkptAssumption, Steps
<1> QED
  BY <1>2, <1>3, <1>4

\* The storage is empty at first.
LEMMA TypeCorrectInit == Init => TypeOK
BY CkptAssumption DEF CkptAssumption, Init, TypeOK, Steps, NoParts

\* Every step keeps the types, and removes an index file before its directory.
LEMMA TypeCorrectStep == TypeOK /\ [Next]_vars => TypeOK'
<1> SUFFICES ASSUME TypeOK, [Next]_vars
             PROVE  TypeOK'
  OBVIOUS
<1> USE CkptAssumption, NoStepIsNoStep DEF CkptAssumption, TypeOK, storage, round
<1>1. CASE Restore
  <2>1. step' \in Steps
    <3>1. CASE index = {}
      BY <1>1, <3>1 DEF Restore, Steps
    <3>2. CASE index # {}
      BY <1>1, <3>2, NewestExists DEF Restore
    <3> QED
      BY <3>1, <3>2
  <2> QED
    BY <1>1, <2>1 DEF Restore, writer
<1>2. CASE Enter \/ SkipSave \/ StopTraining \/ Flush \/ Join
  BY <1>2 DEF Enter, SkipSave, StopTraining, Flush, Join, Continue, writer
<1>3. CASE TrainStep
  BY <1>3 DEF TrainStep, writer, Steps
<1>4. CASE BeginSave
  BY <1>4 DEF BeginSave, writer, NoParts
<1>5. CASE Serialize
  BY <1>5 DEF Serialize, Continue
<1>6. CASE \E q \in Processes : WritePart(q)
  <2>1. PICK q \in Processes : WritePart(q)
    BY <1>6
  <2>2. saving \in Steps
    BY <2>1 DEF WritePart
  <2> QED
    BY <2>1, <2>2 DEF WritePart, trainer
<1>7. CASE Commit
  BY <1>7 DEF Commit, trainer
<1>8. CASE GcList \/ GcEnd \/ \E s \in Steps : GcCheck(s)
  <2>1. CASE GcList
    BY <2>1 DEF GcList, trainer, writer
  <2>2. CASE GcEnd
    BY <2>2 DEF GcEnd, trainer, writer
  <2>3. CASE \E s \in Steps : GcCheck(s)
    BY <2>3 DEF GcCheck, trainer, writer
  <2> QED
    BY <1>8, <2>1, <2>2, <2>3
<1>9. CASE GcPlan
  BY <1>9 DEF GcPlan, trainer, writer
<1>10. CASE \E s \in Steps : RemoveIndex(s)
  BY <1>10 DEF RemoveIndex, trainer, writer
<1>11. CASE \E q \in Processes : RemovePart(q)
  BY <1>11 DEF RemovePart, trainer, writer
<1>12. CASE RemoveDir
  BY <1>12 DEF RemoveDir, trainer, writer
<1>13. CASE RemovalFails
  BY <1>13 DEF RemovalFails, trainer, writer
<1>14. CASE Crash
  BY <1>14 DEF Crash, Steps
<1>15. CASE Finished \/ UNCHANGED vars
  BY <1>15 DEF Finished, vars, trainer, writer
<1> QED
  BY <1>1, <1>2, <1>3, <1>4, <1>5, <1>6, <1>7, <1>8, <1>9, <1>10, <1>11, <1>12, <1>13,
     <1>14, <1>15 DEF Next, Trainer, Serialization, Gc

\* TypeOK holds in every state: the directories, the threads and the round of the
\* collection keep their types, and an index file is never left without directory.
THEOREM TypeCorrect == Spec => []TypeOK
<1>1. Init => TypeOK
  BY TypeCorrectInit
<1>2. TypeOK /\ [Next]_vars => TypeOK'
  BY TypeCorrectStep
<1> QED
  BY <1>1, <1>2, PTL DEF Spec

\* The collection only touches what is older than a committed checkpoint.
LEMMA DoomedOlder ==
  ASSUME Inv
  PROVE  /\ saving # NoStep => \A d \in doomed : d < saving
         /\ pc \in {"policy", "previous"} => \A d \in doomed : d < step
<1>1. ASSUME NEW d \in doomed
      PROVE  \E k \in index : d < k
  BY <1>1 DEF Inv, GcOrder
<1>2. ASSUME NEW d \in doomed, NEW k \in index, d < k, NEW n \in Steps, k < n
      PROVE  d < n
  BY <1>2, CkptAssumption DEF CkptAssumption, Inv, TypeOK, Steps
<1>3. ASSUME saving # NoStep, NEW d \in doomed
      PROVE  d < saving
  <2>1. saving \in Steps /\ \A c \in index : c < saving
    BY <1>3 DEF Inv, TypeOK, SaveOrder
  <2> QED
    BY <1>1, <1>2, <1>3, <2>1
<1>4. ASSUME pc \in {"policy", "previous"}, NEW d \in doomed
      PROVE  d < step
  <2>1. step \in Steps /\ \A c \in index : c < step
    BY <1>4 DEF Inv, TypeOK, SaveOrder
  <2> QED
    BY <1>1, <1>2, <1>4, <2>1
<1> QED
  BY <1>3, <1>4

\* Nothing is committed, saved or doomed at first.
LEMMA InvInit == Init => Inv
<1> SUFFICES ASSUME Init
             PROVE  Inv
  OBVIOUS
<1>1. TypeOK
  BY TypeCorrectInit
<1>2. CommittedComplete /\ SaveOrder /\ GcOrder
  BY DEF Init, CommittedComplete, SaveOrder, GcOrder
<1> QED
  BY <1>1, <1>2 DEF Inv

\* Every step keeps the order of what is committed, saved and doomed.
LEMMA InvStep == Inv /\ [Next]_vars => Inv'
<1> SUFFICES ASSUME Inv, [Next]_vars
             PROVE  CommittedComplete' /\ SaveOrder' /\ GcOrder'
  BY TypeCorrectStep DEF Inv
<1>0. TypeOK /\ CommittedComplete /\ SaveOrder /\ GcOrder
  BY DEF Inv
<1>a. /\ index \subseteq Steps /\ dirs \subseteq Steps /\ doomed \subseteq Steps
      /\ step \in Steps /\ Steps \subseteq Int
      /\ data \in [Steps -> [Processes -> 0..MaxRuns]] /\ run \in 1..MaxRuns
      /\ MaxRuns \in Nat
  BY <1>0, CkptAssumption DEF CkptAssumption, TypeOK, Steps
<1> USE NoStepIsNoStep
<1>1. CASE Restore
  <2>1. index # {} => step' \in index /\ \A c \in index : c <= step'
    BY <1>a, <1>1, NewestExists DEF Restore
  <2>2. pc' # "restore" /\ pc' # "previous" /\ (pc' = "policy" => index = {})
    BY <1>1 DEF Restore
  <2> QED
    BY <1>0, <1>1, <2>1, <2>2
    DEF Restore, storage, writer, round, CommittedComplete, SaveOrder, GcOrder
<1>2. CASE Enter
  <2>1. pc # "restore" /\ gc = "off" /\ pc' = "train"
    BY <1>0, <1>2 DEF Enter, SaveOrder
  <2> QED
    BY <1>0, <1>2 DEF Enter, storage, writer, round, CommittedComplete, SaveOrder, GcOrder
<1>3. CASE TrainStep
  <2>1. step' = step + 1 /\ pc' = "policy"
    BY <1>3 DEF TrainStep
  <2>2. \A c \in index : c < step'
    BY <1>0, <1>3, <1>a, <2>1 DEF TrainStep, SaveOrder
  <2>3. saving # NoStep => saving < step' /\ saving <= step'
    BY <1>0, <1>3, <1>a, <2>1 DEF TrainStep, SaveOrder, TypeOK
  <2> QED
    BY <1>0, <1>3, <1>a, <2>1, <2>2, <2>3
    DEF TrainStep, storage, writer, round, CommittedComplete, SaveOrder, GcOrder
<1>4. CASE SkipSave \/ StopTraining \/ Flush
  <2>1. index' = index /\ data' = data /\ dirs' = dirs /\ run' = run /\ step' = step
    BY <1>4 DEF SkipSave, StopTraining, Flush, storage
  <2>2. /\ pc # "restore" /\ pc' \notin {"restore", "policy", "previous"}
        /\ pc' = "enter" => gc' = "off"
    BY <1>4 DEF SkipSave, StopTraining, Flush, Continue
  <2> QED
    BY <1>0, <1>4, <2>1, <2>2
    DEF SkipSave, StopTraining, Flush, writer, round, CommittedComplete, SaveOrder, GcOrder
<1>5. CASE Join
  BY <1>0, <1>5 DEF Join, storage, writer, round, CommittedComplete, SaveOrder, GcOrder
<1>6. CASE BeginSave
  <2>1. step \notin index /\ (saving # NoStep => saving # step)
    BY <1>0, <1>6, <1>a DEF BeginSave, SaveOrder
  <2>2. \A s \in Steps : s # step => data'[s] = data[s]
    BY <1>6, <1>a DEF BeginSave
  <2>3. CommittedComplete'
    BY <1>0, <1>6, <1>a, <2>1, <2>2 DEF BeginSave, CommittedComplete
  <2>4. SaveOrder'
    <3>1. saving \in Steps \cup {NoStep}
      BY <1>0 DEF TypeOK
    <3> QED
      BY <1>0, <1>6, <1>a, <2>1, <2>2, <3>1 DEF BeginSave, SaveOrder, writer
  <2>5. GcOrder'
    BY <1>0, <1>6 DEF BeginSave, GcOrder, round
  <2> QED
    BY <2>3, <2>4, <2>5
<1>7. CASE Serialize
  <2>1. /\ saving' = step /\ todo' = Processes /\ pc' \in {"enter", "train"}
        /\ pc' = "enter" => gc' = "off"
    BY <1>7 DEF Serialize, Continue
  <2>2. step \in dirs /\ \A c \in index : c < step
    BY <1>0, <1>7 DEF Serialize, SaveOrder
  <2>3. SaveOrder'
    BY <1>7, <1>a, <2>1, <2>2 DEF Serialize, SaveOrder, storage
  <2> QED
    BY <1>0, <1>7, <2>3 DEF Serialize, CommittedComplete, GcOrder, storage, round
<1>8. CASE \E q \in Processes : WritePart(q)
  <2>1. PICK q \in Processes : WritePart(q)
    BY <1>8
  <2>2. saving # NoStep /\ saving \in Steps /\ saving \notin index
    <3>1. saving # NoStep /\ saving \in Steps
      BY <1>0, <2>1 DEF WritePart, TypeOK
    <3> QED
      BY <1>0, <1>a, <3>1 DEF SaveOrder
  <2>3. /\ \A s \in Steps : s # saving => data'[s] = data[s]
        /\ \A x \in Processes : data'[saving][x] = IF x = q THEN run ELSE data[saving][x]
    BY <1>a, <2>1, <2>2 DEF WritePart
  <2>4. CommittedComplete'
    BY <1>0, <1>a, <2>1, <2>2, <2>3 DEF WritePart, CommittedComplete
  <2>5. SaveOrder'
    BY <1>0, <2>1, <2>2, <2>3 DEF WritePart, SaveOrder, trainer
  <2>6. GcOrder'
    BY <1>0, <2>1 DEF WritePart, GcOrder, round
  <2> QED
    BY <2>4, <2>5, <2>6
<1>9. CASE Commit
  <2>1. saving \in Steps /\ saving # NoStep /\ todo = {}
    BY <1>0, <1>9 DEF Commit, TypeOK
  <2>2. \A x \in Processes : data[saving][x] = run
    BY <1>0, <2>1 DEF SaveOrder
  <2>3. CommittedComplete'
    BY <1>0, <1>9, <1>a, <2>2 DEF Commit, CommittedComplete
  <2>4. SaveOrder'
    BY <1>0, <1>9, <1>a, <2>1 DEF Commit, SaveOrder, trainer
  <2>5. GcOrder'
    <3>1. saving \notin doomed
      BY DoomedOlder, <2>1, <1>a
    <3>2. gc = "rmtree" => target # saving
      BY <1>0, <3>1 DEF TypeOK
    <3> QED
      BY <1>0, <1>9, <3>2 DEF Commit, GcOrder, round
  <2> QED
    BY <2>3, <2>4, <2>5
<1>10. CASE GcList
  BY <1>0, <1>10
  DEF GcList, storage, trainer, writer, CommittedComplete, SaveOrder, GcOrder
<1>11. CASE \E s \in Steps : GcCheck(s)
  BY <1>0, <1>11
  DEF GcCheck, storage, trainer, writer, CommittedComplete, SaveOrder, GcOrder
<1>12. CASE GcPlan
  <2>1. committed \subseteq index /\ committed \subseteq listed /\ listed \subseteq Steps
    BY <1>0, <1>12 DEF GcPlan, GcOrder, TypeOK
  <2>2. doomed' # {} => \E k \in committed \ doomed' : \A d \in doomed' : d < k
    BY <1>12, <2>1, RemainingKeepsNewest DEF GcPlan
  <2>3. GcOrder'
    BY <1>12, <2>1, <2>2 DEF GcPlan, GcOrder, storage
  <2> QED
    BY <1>0, <1>12, <2>3 DEF GcPlan, storage, trainer, writer, CommittedComplete, SaveOrder
<1>13. CASE \E s \in Steps : RemoveIndex(s)
  <2>1. PICK s \in doomed : RemoveIndex(s)
    BY <1>13 DEF RemoveIndex
  <2>2. GcOrder'
    BY <1>0, <2>1 DEF RemoveIndex, GcOrder
  <2> QED
    BY <1>0, <2>1, <2>2 DEF RemoveIndex, trainer, writer, CommittedComplete, SaveOrder
<1>14. CASE \E q \in Processes : RemovePart(q)
  <2>1. target \in doomed /\ target \notin index /\ target \in Steps
    BY <1>0, <1>14 DEF RemovePart, TypeOK, GcOrder
  <2>2. \A s \in Steps : s # target => data'[s] = data[s]
    BY <1>14, <1>a DEF RemovePart
  <2>3. saving # NoStep => saving \in Steps /\ saving # target
    BY <1>0, <1>a, <2>1, DoomedOlder DEF TypeOK
  <2>4. CommittedComplete'
    BY <1>0, <1>14, <1>a, <2>1, <2>2 DEF RemovePart, CommittedComplete
  <2>5. SaveOrder'
    BY <1>0, <1>14, <2>2, <2>3 DEF RemovePart, SaveOrder, trainer, writer
  <2> QED
    BY <1>0, <1>14, <2>4, <2>5 DEF RemovePart, GcOrder, round
<1>15. CASE RemoveDir
  <2>1. target \in doomed /\ target \notin index /\ target \in Steps
    BY <1>0, <1>15 DEF RemoveDir, TypeOK, GcOrder
  <2>2. (saving # NoStep => saving # target) /\ (pc = "previous" => step # target)
    BY <1>0, <1>a, <2>1, DoomedOlder DEF TypeOK
  <2>3. index' = index
    BY <1>15, <2>1 DEF RemoveDir
  <2>4. SaveOrder'
    BY <1>0, <1>15, <2>2, <2>3 DEF RemoveDir, SaveOrder, trainer, writer
  <2>5. GcOrder'
    BY <1>0, <1>15, <2>3 DEF RemoveDir, GcOrder
  <2> QED
    BY <1>0, <1>15, <2>3, <2>4, <2>5 DEF RemoveDir, CommittedComplete
<1>16. CASE RemovalFails
  <2>1. doomed' \subseteq doomed /\ gc \in {"remove", "rmtree"}
    BY <1>16 DEF RemovalFails
  <2>2. GcOrder'
    BY <1>0, <1>16, <2>1 DEF RemovalFails, GcOrder, storage
  <2> QED
    BY <1>0, <1>16, <2>2
    DEF RemovalFails, storage, trainer, writer, CommittedComplete, SaveOrder
<1>17. CASE GcEnd
  BY <1>0, <1>17
  DEF GcEnd, storage, trainer, writer, round, CommittedComplete, SaveOrder, GcOrder
<1>18. CASE Crash
  <2>1. \A s \in index : \E r \in 1..run' : \A x \in Processes : data[s][x] = r
    <3> SUFFICES ASSUME NEW s \in index
                 PROVE  \E r \in 1..run' : \A x \in Processes : data[s][x] = r
      OBVIOUS
    <3>1. PICK r \in 1..run : \A x \in Processes : data[s][x] = r
      BY <1>0 DEF CommittedComplete
    <3>2. r \in 1..run'
      BY <1>18, <1>a DEF Crash
    <3> QED
      BY <3>1, <3>2
  <2> QED
    BY <1>18, <2>1 DEF Crash, storage, CommittedComplete, SaveOrder, GcOrder
<1>19. CASE Finished \/ UNCHANGED vars
  BY <1>0, <1>19
  DEF Finished, vars, storage, trainer, writer, round, CommittedComplete, SaveOrder, GcOrder
<1> QED
  BY <1>1, <1>2, <1>3, <1>4, <1>5, <1>6, <1>7, <1>8, <1>9, <1>10, <1>11, <1>12, <1>13,
     <1>14, <1>15, <1>16, <1>17, <1>18, <1>19 DEF Next, Trainer, Serialization, Gc

\* The invariant holds in every state.
LEMMA InvAlways == Spec => []Inv
<1>1. Init => Inv
  BY InvInit
<1>2. Inv /\ [Next]_vars => Inv'
  BY InvStep
<1> QED
  BY <1>1, <1>2, PTL DEF Spec

\* Every checkpoint with an index file is complete and of one run, in every state a
\* crash may leave behind: what restore returns is a checkpoint.
THEOREM CommittedIsComplete == Spec => []CommittedComplete
<1>1. Inv => CommittedComplete
  BY DEF Inv
<1> QED
  BY <1>1, InvAlways, PTL

\* The garbage collection never removes a checkpoint that is being written.
THEOREM SaveNotCollected == Spec => []InProgressKept
<1>1. ASSUME Inv
      PROVE  InProgressKept
  <2>1. /\ index \subseteq Steps /\ Steps \subseteq Int /\ doomed \subseteq Steps
        /\ step \in Steps /\ saving \in Steps \cup {NoStep}
    BY <1>1, CkptAssumption DEF CkptAssumption, Inv, TypeOK, Steps
  <2>2. saving # NoStep => saving \in dirs /\ saving \notin doomed
    BY <1>1, <2>1, DoomedOlder DEF Inv, SaveOrder
  <2>3. pc = "previous" => step \in dirs /\ step \notin doomed
    BY <1>1, <2>1, DoomedOlder DEF Inv, SaveOrder
  <2> QED
    BY <1>1, <2>2, <2>3 DEF Inv, SaveOrder, InProgressKept, InProgress
<1> QED
  BY <1>1, InvAlways, PTL

\* What restore would return never goes back, whatever is collected and whenever
\* the job dies.
THEOREM RestorePointKept == Spec => RestorePointAdvances
<1> DEFINE Advances == index # {} => index' # {} /\ Newest(index') >= Newest(index)
<1>1. ASSUME Inv, Inv', [Next]_vars
      PROVE  [Advances]_vars
  <2> SUFFICES ASSUME index # {}
               PROVE  index' # {} /\ Newest(index') >= Newest(index)
    OBVIOUS
  <2>1. index \subseteq Steps /\ index' \subseteq Steps /\ Steps \subseteq Int
    <3>1. Steps \subseteq Int
      BY CkptAssumption DEF CkptAssumption, Steps
    <3>2. index \subseteq Steps /\ index' \subseteq Steps
      BY <1>1 DEF Inv, TypeOK
    <3> QED
      BY <3>1, <3>2
  <2>2. Newest(index) \in index /\ \A t \in index : t <= Newest(index)
    BY <2>1, NewestExists
  <2>3. Newest(index) \in index'
    <3>1. CASE \E s \in Steps : RemoveIndex(s)
      <4>1. PICK s \in doomed : index' = index \ {s}
        BY <3>1 DEF RemoveIndex
      <4>2. PICK k \in index : s < k
        BY <1>1 DEF Inv, GcOrder
      <4>3. k <= Newest(index) /\ s \in Int /\ k \in Int /\ Newest(index) \in Int
        BY <1>1, <2>1, <2>2, <4>2 DEF Inv, TypeOK
      <4>4. s # Newest(index)
        BY <4>2, <4>3
      <4> QED
        BY <2>2, <4>1, <4>4
    <3>2. CASE RemoveDir
      BY <1>1, <2>2, <3>2 DEF RemoveDir, Inv, GcOrder
    <3>3. CASE Commit
      BY <2>2, <3>3 DEF Commit
    <3>4. CASE ~ RemoveDir /\ ~ Commit /\ ~ \E s \in Steps : RemoveIndex(s)
      BY <1>1, <2>2, <3>4
      DEF Next, Trainer, Serialization, Gc, Restore, Enter, TrainStep, SkipSave, BeginSave,
          Serialize, StopTraining, Flush, Join, WritePart, GcList, GcCheck, GcPlan,
          RemovePart, RemovalFails, GcEnd, Crash, Finished, vars, storage
    <3> QED
      BY <3>1, <3>2, <3>3, <3>4
  <2>4. Newest(index') \in index' /\ \A t \in index' : t <= Newest(index')
    BY <2>1, <2>3, NewestExists
  <2> QED
    BY <2>1, <2>2, <2>3, <2>4
<1> QED
  BY <1>1, InvAlways, PTL DEF Spec, RestorePointAdvances

----------------------------------------------------------------------------
(* The checkpoints that are kept every KeepEveryN steps. *)

\* What holds of 0, and of n + 1 when it holds of n, holds of every number.
LEMMA EveryNumber ==
  ASSUME NEW G, 0 \in G, \A n \in Nat : n \in G => n + 1 \in G
  PROVE  Nat \subseteq G
<1> DEFINE B == Nat \ G
<1> SUFFICES ASSUME B # {} PROVE FALSE
  OBVIOUS
<1>1. PICK n \in B : \A x \in B : ~(x < n)
  <2>0. B \subseteq Nat
    OBVIOUS
  <2> HIDE DEF B
  <2>1. PICK n \in B : \A x \in B : <<x, n>> \notin OpToRel(<, Nat)
    BY <2>0, WFMin, NatLessThanWellFounded, Zenon
  <2>2. \A x, y \in Nat : x < y => <<x, y>> \in OpToRel(<, Nat)
    BY Zenon DEF OpToRel
  <2> QED
    BY <2>0, <2>1, <2>2, Zenon
<1>2. n \in Nat /\ n # 0 /\ n \notin G
  BY <1>1
<1>3. n - 1 \in Nat /\ n - 1 < n /\ (n - 1) + 1 = n
  BY <1>2
<1>4. n - 1 \in G
  BY <1>1, <1>3
<1> QED
  BY <1>2, <1>3, <1>4

\* s is far enough behind what T has of S before it.
Apart(S, T, s) == \A k \in S : k < s /\ k \in T => s - k >= KeepEveryN

\* The rule can be applied from the oldest step on.
LEMMA SpacingExists ==
  ASSUME NEW S \in SUBSET Steps
  PROVE  \E T \in SUBSET S : \A s \in S : s \in T <=> Apart(S, T, s)
<1> DEFINE Good(n, T) == \A s \in S : s < n => (s \in T <=> Apart(S, T, s))
           G == {n \in Nat : \E T \in SUBSET S : Good(n, T)}
<1>1. S \subseteq Nat /\ MaxStep \in Nat /\ \A s \in S : s < MaxStep + 1
  BY CkptAssumption DEF CkptAssumption, Steps
<1>2. 0 \in G
  <2>1. Good(0, {})
    BY <1>1
  <2> QED
    BY <2>1
<1>3. ASSUME NEW n \in Nat, n \in G PROVE n + 1 \in G
  <2>1. PICK T \in SUBSET S : Good(n, T)
    BY <1>3
  <2> DEFINE U == {s \in S : (s < n /\ s \in T) \/ (s = n /\ Apart(S, T, s))}
  <2>2. \A s \in S : s < n => (s \in U <=> s \in T)
    BY <1>1
  <2>3. \A s \in S : s <= n => (Apart(S, U, s) <=> Apart(S, T, s))
    BY <1>1, <2>2 DEF Apart
  <2>4. n \in S => (n \in U <=> Apart(S, T, n))
    BY <1>1
  <2>5. \A s \in S : s < n + 1 => s < n \/ s = n
    BY <1>1
  <2> HIDE DEF U
  <2>6. Good(n + 1, U)
    <3> SUFFICES ASSUME NEW s \in S, s < n + 1 PROVE s \in U <=> Apart(S, U, s)
      OBVIOUS
    <3>1. s <= n
      BY <1>1
    <3>2. CASE s < n
      BY <2>1, <2>2, <2>3, <3>1, <3>2
    <3>3. CASE s = n
      BY <2>3, <2>4, <3>1, <3>3
    <3> QED
      BY <2>5, <3>2, <3>3
  <2>7. U \in SUBSET S
    BY DEF U
  <2> HIDE DEF Good
  <2> QED
    BY <2>6, <2>7
<1>4. MaxStep + 1 \in G
  <2>1. MaxStep + 1 \in Nat
    BY <1>1
  <2> HIDE DEF G
  <2> QED
    BY <1>2, <1>3, <2>1, EveryNumber
<1>5. PICK T \in SUBSET S : Good(MaxStep + 1, T)
  BY <1>4
<1> QED
  BY <1>1, <1>5

\* A step is kept if and only if it is far enough behind those kept before it.
LEMMA SpacedRule ==
  ASSUME NEW S \in SUBSET Steps, KeepEveryN > 0, NEW s \in S
  PROVE  s \in Spaced(S) <=> Apart(S, Spaced(S), s)
<1> DEFINE Rule(f) == f = [t \in S |-> \A k \in S : k < t /\ f[k] => t - k >= KeepEveryN]
           kept == CHOOSE f : Rule(f)
<1>1. PICK T \in SUBSET S : \A t \in S : t \in T <=> Apart(S, T, t)
  BY SpacingExists
<1>2. Rule([t \in S |-> t \in T])
  <2> DEFINE f == [t \in S |-> t \in T]
  <2>1. ASSUME NEW t \in S PROVE f[t] = \A k \in S : k < t /\ f[k] => t - k >= KeepEveryN
    <3> DEFINE far == \A k \in S : k < t /\ f[k] => t - k >= KeepEveryN
    <3>1. \A k \in S : f[k] <=> k \in T
      OBVIOUS
    <3>2. far <=> Apart(S, T, t)
      <4> HIDE DEF f
      <4> QED
        BY <3>1 DEF Apart
    <3>3. f[t] <=> far
      <4> HIDE DEF f, far
      <4> QED
        BY <1>1, <3>1, <3>2
    <3>4. f[t] \in BOOLEAN /\ far \in BOOLEAN
      <4>1. f[t] = (t \in T)
        OBVIOUS
      <4>2. (t \in T) \in BOOLEAN
        OBVIOUS
      <4>3. far \in BOOLEAN
        <5> HIDE DEF f
        <5> QED
          OBVIOUS
      <4> QED
        BY <4>1, <4>2, <4>3
    <3>5. f[t] = far
      <4> HIDE DEF f, far
      <4> QED
        BY <3>3, <3>4
    <3> QED
      BY <3>5
  <2> QED
    BY <2>1
<1>3. Rule(kept)
  <2> HIDE DEF Rule
  <2> QED
    BY <1>2
<1>4. Spaced(S) = {t \in S : KeepEveryN > 0 /\ kept[t]}
  BY DEF Spaced
<1>5. \A t \in S : kept[t] = \A k \in S : k < t /\ kept[k] => t - k >= KeepEveryN
  BY <1>3
<1> HIDE DEF kept, Rule
<1>6. \A t \in S : t \in Spaced(S) <=> kept[t]
  BY <1>4
<1> QED
  BY <1>5, <1>6 DEF Apart

\* A committed checkpoint is only given up if one that is kept comes at most
\* keep_every_n_steps - 1 steps before it, whatever is in the listing.
THEOREM SpacingIsKept == Spec => SpacingKept
<1> DEFINE Kept == gc = "check" /\ gc' = "remove" /\ KeepEveryN > 0 =>
                     \A c \in committed \cap doomed' :
                       \E k \in committed \ doomed' : k <= c /\ c - k < KeepEveryN
<1>1. ASSUME TypeOK, [Next]_vars
      PROVE  [Kept]_vars
  <2> SUFFICES ASSUME gc = "check", gc' = "remove", KeepEveryN > 0,
                      NEW c \in committed, c \in doomed'
               PROVE  \E k \in committed \ doomed' : k <= c /\ c - k < KeepEveryN
    OBVIOUS
  <2>1. GcPlan
    BY <1>1
    DEF Next, Trainer, Serialization, Gc, Restore, Enter, TrainStep, SkipSave, BeginSave,
        Serialize, StopTraining, Flush, Join, Commit, WritePart, GcList, GcCheck, RemoveIndex,
        RemoveDir,
        RemovePart, RemovalFails, GcEnd, Crash, Finished, vars, storage
  <2> DEFINE S == committed \ Last(listed, committed)
  <2>2. /\ doomed' = listed \ Remaining(listed, committed)
        /\ committed \subseteq listed /\ listed \subseteq Steps /\ S \in SUBSET Steps
    BY <1>1, <2>1 DEF GcPlan, TypeOK
  <2>3. c \in S /\ c \notin Spaced(S)
    BY <2>2 DEF Remaining
  <2>4. PICK k \in S : k < c /\ k \in Spaced(S) /\ ~(c - k >= KeepEveryN)
    <3> HIDE DEF S
    <3> QED
      BY <2>2, <2>3, SpacedRule DEF Apart
  <2>5. k \in committed \ doomed'
    BY <2>2, <2>4 DEF Remaining
  <2>6. k \in Int /\ c \in Int /\ KeepEveryN \in Int
    BY <2>2, CkptAssumption DEF CkptAssumption, Steps
  <2> QED
    BY <2>4, <2>5, <2>6
<1> QED
  BY <1>1, TypeCorrect, PTL DEF Spec, SpacingKept
=============================================================================
