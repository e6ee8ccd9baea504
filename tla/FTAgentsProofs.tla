--------------------------- MODULE FTAgentsProofs ---------------------------
(* Theorems about FTAgents, for every set of workers, every number of restarts and of
   faults of every kind. *)
EXTENDS FTAgents, TLAPS

\* A request for a restart is only sent in an attempt the agent may still repeat.
RequestsBounded ==
  \A m \in net : m.kind = "RequestGlobalRestart" => m.count <= MaxRestarts

\* What agents and managers send is a message.
LEMMA MessageTypes ==
  /\ \A w \in Workers : Head[w] \in Workers
  /\ \A n \in Counts : RestartReplicas(n) \subseteq Messages
  /\ \A w \in Workers, n \in Counts : RestartWorker(w, n) \in Messages
  /\ Replicas \subseteq Workers
  /\ 0 \in Counts
BY FTAssumption
   DEF FTAssumption, RestartReplicas, RestartWorker, Replicas, Messages, Counts

\* What an agent asks for is a message within the bound of restarts.
LEMMA RequestType ==
  ASSUME TypeOK, NEW w \in Workers, pc[w] = "report"
  PROVE  GlobalRequest(w) \in Messages /\ GlobalRequest(w).count <= MaxRestarts
<1>1. count[w] \in Counts /\ count[w] <= MaxRestarts
  BY FTAssumption DEF TypeOK, FTAssumption, Counts
<1> QED
  BY <1>1, FTAssumption DEF GlobalRequest, Messages, FTAssumption

\* Agents start with the types, and nothing is in flight.
LEMMA TypeInit == Init => TypeOK /\ RequestsBounded
BY FTAssumption DEF Init, TypeOK, RequestsBounded, FTAssumption, Counts

\* The steps of an agent keep the types.
LEMMA TypeAgent ==
  ASSUME TypeOK, RequestsBounded, NEW w \in Workers, Agent(w)
  PROVE  TypeOK' /\ RequestsBounded'
<1> USE FTAssumption DEF FTAssumption, Counts, TypeOK, Ended, Leaving, Fault, process
<1>1. CASE Spawn(w)
  BY <1>1 DEF Spawn, RequestsBounded, controller
<1>2. CASE SpawnFails(w)
  BY <1>2 DEF SpawnFails, RequestsBounded
<1>3. CASE SetProcess(w)
  BY <1>3 DEF SetProcess, RequestsBounded
<1>4. CASE ReadLine(w)
  BY <1>4 DEF ReadLine, RequestsBounded
<1>5. CASE EndOfOutput(w)
  BY <1>5 DEF EndOfOutput, RequestsBounded, controller
<1>6. CASE ClearProcess(w)
  BY <1>6 DEF ClearProcess, RequestsBounded
<1>7. CASE Handle(w)
  BY <1>7 DEF Handle, Leaves, Goes, NextAttempt, RequestsBounded
<1>8. CASE Report(w)
  <2>1. GlobalRequest(w) \in Messages /\ GlobalRequest(w).count <= MaxRestarts
    BY <1>8, RequestType DEF Report
  <2>2. net' \subseteq Messages /\ RequestsBounded'
    BY <1>8, <2>1 DEF Report, RequestsBounded
  <2> HIDE DEF Fault
  <2> QED
    BY <1>8, <2>2 DEF Report, Leaves, Goes, NextAttempt, controller
<1>9. CASE TrainerGone(w)
  BY <1>9 DEF TrainerGone, Goes, NextAttempt, RequestsBounded, controller
<1>10. CASE SigtermExits(w)
  BY <1>10 DEF SigtermExits, Terminates, Kills, FailsToKill, RequestsBounded
<1>11. CASE ReadFails(w)
  BY <1>11 DEF ReadFails, RequestsBounded
<1> QED
  BY <1>1, <1>2, <1>3, <1>4, <1>5, <1>6, <1>7, <1>8, <1>9, <1>10, <1>11
     DEF Agent, Proceeds

\* So does the delivery of a message.
LEMMA TypeDeliver ==
  ASSUME TypeOK, RequestsBounded, NEW m \in net, Deliver(m)
  PROVE  TypeOK' /\ RequestsBounded'
<1>1. /\ m \in Messages /\ m.count \in Counts /\ m.to \in Workers /\ m.from \in Workers
      /\ net \ {m} \subseteq Messages
  BY DEF TypeOK, Messages
<1>2. \A n \in Counts : \A x \in RestartReplicas(n) : x.kind # "RequestGlobalRestart"
  BY DEF RestartReplicas
<1>3. \A n \in Counts, w \in Workers : RestartWorker(w, n).kind # "RequestGlobalRestart"
  BY DEF RestartWorker
<1>4. UNCHANGED <<agent, controller, faults, asked>>
  BY DEF Deliver
<1>5. /\ net' \subseteq Messages /\ RequestsBounded'
      /\ global' \in Counts /\ queue' \in [Workers -> SUBSET Counts]
  <2>1. CASE RequestGlobalRestart(m)
    <3>1. m.count + 1 \in Counts
      BY <1>1, <2>1, FTAssumption DEF RequestGlobalRestart, RequestsBounded, Counts, FTAssumption
    <3> QED
      BY <1>1, <1>2, <2>1, <3>1, MessageTypes
         DEF RequestGlobalRestart, RequestsBounded, TypeOK
  <2>2. CASE RestartReplicaTraining(m)
    BY <1>1, <1>3, <2>2, MessageTypes DEF RestartReplicaTraining, RequestsBounded, TypeOK
  <2>3. CASE RestartTraining(m)
    BY <1>1, <2>3 DEF RestartTraining, RequestsBounded, TypeOK
  <2>4. CASE ReportPodShutdown(m)
    BY <1>1, <1>2, <1>3, <2>4, MessageTypes DEF ReportPodShutdown, RequestsBounded, TypeOK
  <2> QED
    BY <2>1, <2>2, <2>3, <2>4 DEF Deliver
<1> QED
  BY <1>4, <1>5 DEF TypeOK, agent, controller, process

\* And every other step.
LEMMA TypeNext == TypeOK /\ RequestsBounded /\ [Next]_vars => TypeOK' /\ RequestsBounded'
<1> SUFFICES ASSUME TypeOK, RequestsBounded, [Next]_vars PROVE TypeOK' /\ RequestsBounded'
  OBVIOUS
<1>1. ASSUME NEW w \in Workers, Agent(w) PROVE TypeOK' /\ RequestsBounded'
  BY <1>1, TypeAgent
<1>2. ASSUME NEW m \in net, Deliver(m) PROVE TypeOK' /\ RequestsBounded'
  BY <1>2, TypeDeliver
<1>3. ASSUME NEW w \in Workers, Sigterm(w) PROVE TypeOK' /\ RequestsBounded'
  <2>1. [kind |-> "PodShutdown", to |-> Manager, from |-> w, count |-> 0] \in Messages
    BY FTAssumption, MessageTypes DEF FTAssumption, Messages
  <2>2. net' \subseteq Messages /\ RequestsBounded'
    BY <1>3, <2>1 DEF Sigterm, TypeOK, RequestsBounded
  <2> QED
    BY <1>3, <2>2, FTAssumption
       DEF Sigterm, Fault, Alive, TypeOK, controller, process, Ended, Leaving, FTAssumption, Counts
<1>4. ASSUME NEW w \in Workers, Retry(w) PROVE TypeOK' /\ RequestsBounded'
  <2>1. net' \subseteq Messages /\ RequestsBounded'
    BY <1>4, RequestType DEF Retry, TypeOK, RequestsBounded
  <2> QED
    BY <1>4, <2>1, FTAssumption DEF Retry, Fault, TypeOK, agent, process, controller, FTAssumption
<1>5. ASSUME NEW w \in Workers, TerminateTraining(w) PROVE TypeOK' /\ RequestsBounded'
  BY <1>5, FTAssumption DEF TerminateTraining, Terminates, Kills, FailsToKill, Fault, process,
                            TypeOK, RequestsBounded, FTAssumption
<1>6. ASSUME NEW w \in Workers, NEW how \in {"ok", "failed"}, TrainerEnds(w, how)
      PROVE TypeOK' /\ RequestsBounded'
  BY <1>6, FTAssumption DEF TrainerEnds, Fault, TypeOK, RequestsBounded, controller, FTAssumption
<1>7. ASSUME NEW m \in net, Refuse(m) \/ Lose(m) PROVE TypeOK' /\ RequestsBounded'
  BY <1>7, FTAssumption
     DEF Refuse, Lose, Fault, TypeOK, RequestsBounded, agent, process, controller, FTAssumption
<1>8. CASE HangDetected
  <2>1. net' \subseteq Messages
    BY <1>8, MessageTypes DEF HangDetected, TypeOK
  <2>2. RequestsBounded'
    BY <1>8 DEF HangDetected, RequestsBounded, RestartReplicas
  <2> QED
    BY <1>8, <2>1, <2>2, FTAssumption
       DEF HangDetected, Fault, TypeOK, agent, process, controller, FTAssumption
<1>9. CASE UNCHANGED vars
  BY <1>9 DEF vars, agent, process, controller, TypeOK, RequestsBounded
<1>10. ASSUME NEW w \in Workers, ChildrenEnd(w) PROVE TypeOK' /\ RequestsBounded'
  BY <1>10 DEF ChildrenEnd, TypeOK, RequestsBounded, controller
<1> QED
  BY <1>1, <1>2, <1>3, <1>4, <1>5, <1>6, <1>7, <1>8, <1>9, <1>10 DEF Next, Quiet

\* Types; an agent beyond its last restart has left, so no request exceeds the bound.
THEOREM TypeCorrect == Spec => [](TypeOK /\ RequestsBounded)
BY TypeInit, TypeNext, PTL DEF Spec

----------------------------------------------------------------------------
(* Trainers and termination requests of one agent. *)

\* Where a trainer may run, and where the controller knows it or holds a request.
Attempt ==
  \A w \in Workers :
    /\ trainer[w] = "running" =>
         /\ pc[w] \notin {"spawn", "handle", "exit_0"}
         /\ pc[w] = "exit_1" => asked[w] = "survived" \/ ~proc[w]
    /\ pc[w] \in {"spawn", "register", "handle", "broken", "report", "again"} => ~proc[w]
    /\ pc[w] \in {"spawn", "register", "report", "again"} => ~flag[w]
    /\ flag[w] => asked[w] # "none" /\ (trainer[w] = "running" => asked[w] = "survived")

\* No agent is in an attempt at first.
LEMMA AttemptInit == Init => Attempt
BY DEF Init, Attempt

\* Every step keeps the program counter, the trainer, the handle and the flag in line.
LEMMA AttemptNext == TypeOK /\ Attempt /\ [Next]_vars => Attempt'
<1> SUFFICES ASSUME TypeOK, Attempt, [Next]_vars PROVE Attempt'
  OBVIOUS
<1> USE DEF Attempt, TypeOK, process
<1>1. ASSUME NEW w \in Workers, Agent(w) PROVE Attempt'
  <2>1. CASE Spawn(w)
    BY <2>1 DEF Spawn, controller
  <2>2. CASE SpawnFails(w)
    BY <2>2 DEF SpawnFails
  <2>3. CASE SetProcess(w)
    BY <2>3 DEF SetProcess
  <2>4. CASE ReadLine(w) \/ ReadFails(w) \/ EndOfOutput(w) \/ ClearProcess(w)
    BY <2>4 DEF ReadLine, ReadFails, EndOfOutput, ClearProcess, controller
  <2>5. CASE Handle(w)
    BY <2>5 DEF Handle, Leaves, Goes, NextAttempt
  <2>6. CASE Report(w)
    BY <2>6 DEF Report, Leaves, Goes, NextAttempt, controller
  <2>7. CASE TrainerGone(w)
    BY <2>7 DEF TrainerGone, Goes, NextAttempt, Leaving, controller
  <2>8. CASE SigtermExits(w)
    BY <2>8 DEF SigtermExits, Terminates, Kills, FailsToKill
  <2> QED
    BY <1>1, <2>1, <2>2, <2>3, <2>4, <2>5, <2>6, <2>7, <2>8 DEF Agent, Proceeds
<1>2. ASSUME NEW w \in Workers, Sigterm(w) PROVE Attempt'
  BY <1>2 DEF Sigterm, controller
<1>3. ASSUME NEW w \in Workers, TerminateTraining(w) PROVE Attempt'
  BY <1>3 DEF TerminateTraining, Terminates, Kills, FailsToKill
<1>4. ASSUME NEW w \in Workers, NEW how \in {"ok", "failed"}, TrainerEnds(w, how) PROVE Attempt'
  BY <1>4 DEF TrainerEnds, controller
<1>5. ASSUME NEW w \in Workers, ChildrenEnd(w) PROVE Attempt'
  BY <1>5 DEF ChildrenEnd, controller
<1>6. ASSUME UNCHANGED <<agent, controller, asked>> PROVE Attempt'
  BY <1>6 DEF agent, controller
<1> QED
  BY <1>1, <1>2, <1>3, <1>4, <1>5, <1>6
     DEF Next, Deliver, Refuse, Lose, Retry, HangDetected, Quiet, vars

\* A pod never has two trainers, and an agent that left leaves one behind only if it
\* failed to kill it or SIGTERM cut short the wait for one it had no handle on.
THEOREM TrainersLeaveToo == Spec => []NoOrphan
<1>1. Attempt => NoOrphan
  BY DEF Attempt, NoOrphan, Alive, Ended
<1> QED
  BY <1>1, AttemptInit, AttemptNext, TypeCorrect, PTL DEF Spec

\* No termination request of one attempt is still there when the next trainer runs, and
\* one that is there while a trainer runs is for this trainer, which survived it.
THEOREM RequestsStayInTheirAttempt == Spec => []FlagFresh
<1>1. Attempt => FlagFresh
  BY DEF Attempt, FlagFresh
<1> QED
  BY <1>1, AttemptInit, AttemptNext, TypeCorrect, PTL DEF Spec

----------------------------------------------------------------------------
(* Generations. *)

\* Worker w lost the attempt before generation n, or is beyond it.
Lost(w, n) == \/ count[w] >= n
              \/ count[w] = n - 1 /\ GaveUp(w)

\* Every generation in circulation, and every one that is asked for, has a worker
\* that lost the attempt before it.
Backed ==
  /\ \A n \in Generations \ {0} : n <= global /\ \E w \in Workers : Lost(w, n)
  /\ \A m \in net : m.kind = "RequestGlobalRestart" => \E w \in Workers : Lost(w, m.count + 1)

\* Generations circulate in the counter of the manager, in the executors and in the
\* requests that restart a replica or a worker.
LEMMA InCirculation ==
  /\ \A n : n \in Generations <=>
              \/ n = global \/ \E w \in Workers : n \in queue[w]
              \/ \E m \in net : m.kind \in {"RestartReplica", "Restart"} /\ m.count = n
  /\ \A n : n \in Generations' <=>
              \/ n = global' \/ \E w \in Workers : n \in queue'[w]
              \/ \E m \in net' : m.kind \in {"RestartReplica", "Restart"} /\ m.count = n
<1>1. ASSUME NEW n
      PROVE  n \in Generations <=>
              \/ n = global \/ \E w \in Workers : n \in queue[w]
              \/ \E m \in net : m.kind \in {"RestartReplica", "Restart"} /\ m.count = n
  <2> DEFINE Queued == UNION {queue[w] : w \in Workers}
             Sent   == {m.count : m \in {x \in net : x.kind \in {"RestartReplica", "Restart"}}}
  <2>1. n \in Queued <=> \E w \in Workers : n \in queue[w]
    OBVIOUS
  <2>2. n \in Sent <=> \E m \in net : m.kind \in {"RestartReplica", "Restart"} /\ m.count = n
    OBVIOUS
  <2>3. Generations = {global} \cup Queued \cup Sent
    BY DEF Generations
  <2> HIDE DEF Queued, Sent
  <2> QED
    BY <2>1, <2>2, <2>3
<1>2. ASSUME NEW n
      PROVE  n \in Generations' <=>
              \/ n = global' \/ \E w \in Workers : n \in queue'[w]
              \/ \E m \in net' : m.kind \in {"RestartReplica", "Restart"} /\ m.count = n
  <2> DEFINE Queued == UNION {queue'[w] : w \in Workers}
             Sent   == {m.count : m \in {x \in net' : x.kind \in {"RestartReplica", "Restart"}}}
  <2>1. n \in Queued <=> \E w \in Workers : n \in queue'[w]
    OBVIOUS
  <2>2. n \in Sent <=> \E m \in net' : m.kind \in {"RestartReplica", "Restart"} /\ m.count = n
    OBVIOUS
  <2>3. Generations' = {global'} \cup Queued \cup Sent
    BY DEF Generations
  <2> HIDE DEF Queued, Sent
  <2> QED
    BY <2>1, <2>2, <2>3
<1> QED
  BY <1>1, <1>2

\* No restart is in circulation at first.
LEMMA BackedInit == Init => Backed
BY DEF Init, Backed, Generations

\* A worker that lost an attempt never takes it back.
LEMMA LostForGood ==
  ASSUME TypeOK, [Next]_vars, NEW w \in Workers, NEW n \in Nat, Lost(w, n)
  PROVE  Lost(w, n)'
<1> USE FTAssumption DEF FTAssumption, Lost, GaveUp, Leaving, TypeOK, Counts
<1>1. ASSUME NEW x \in Workers, Agent(x) PROVE Lost(w, n)'
  <2>1. CASE Handle(x)
    BY <2>1 DEF Handle, Leaves, Goes, NextAttempt
  <2>2. CASE Report(x)
    BY <2>2 DEF Report, Leaves, Goes, NextAttempt
  <2>3. CASE SpawnFails(x)
    BY <2>3 DEF SpawnFails
  <2>4. CASE TrainerGone(x)
    BY <2>4 DEF TrainerGone, Goes, NextAttempt
  <2>5. CASE SigtermExits(x)
    BY <2>5 DEF SigtermExits
  <2>6. CASE Spawn(x) \/ SetProcess(x) \/ ReadLine(x) \/ ReadFails(x) \/ EndOfOutput(x)
             \/ ClearProcess(x)
    BY <2>6 DEF Spawn, SetProcess, ReadLine, ReadFails, EndOfOutput, ClearProcess
  <2> QED
    BY <1>1, <2>1, <2>2, <2>3, <2>4, <2>5, <2>6 DEF Agent, Proceeds
<1>2. ASSUME NEW x \in Workers, Sigterm(x) PROVE Lost(w, n)'
  BY <1>2 DEF Sigterm, Alive, Ended
<1>3. ASSUME UNCHANGED <<pc, count>> PROVE Lost(w, n)'
  BY <1>3
<1> QED
  BY <1>1, <1>2, <1>3 DEF Next, Deliver, Refuse, Lose, Retry, HangDetected, TerminateTraining,
                          TrainerEnds, ChildrenEnd, Quiet, vars, agent

\* A restart count comes into circulation only through an agent that has lost its attempt.
LEMMA BackedNext ==
  TypeOK /\ TypeOK' /\ RequestsBounded /\ Backed /\ [Next]_vars => Backed'
<1> SUFFICES ASSUME TypeOK, TypeOK', RequestsBounded, Backed, [Next]_vars PROVE Backed'
  OBVIOUS
\* It is enough that a generation that is new in circulation, and a request that is
\* new on the network, are backed now.
<1>1. ASSUME \A n \in Generations' \ (Generations \cup {0}) :
                n \in Nat /\ n <= global' /\ \E w \in Workers : Lost(w, n),
             \A m \in net' \ net : m.kind = "RequestGlobalRestart" =>
                \E w \in Workers : Lost(w, m.count + 1),
             global <= global'
      PROVE  Backed'
  <2>1. ASSUME NEW n \in Generations' \ {0}
        PROVE  n <= global' /\ \E w \in Workers : Lost(w, n)'
    <3>1. n \in Nat
      BY <2>1, InCirculation, FTAssumption DEF TypeOK, Messages, Counts, FTAssumption
    <3>2. n <= global' /\ \E w \in Workers : Lost(w, n)
      <4>1. CASE n \in Generations
        <5>1. n <= global /\ \E w \in Workers : Lost(w, n)
          BY <2>1, <4>1 DEF Backed
        <5> QED
          BY <1>1, <3>1, <5>1, FTAssumption DEF TypeOK, Counts, FTAssumption
      <4>2. CASE n \notin Generations
        BY <1>1, <2>1, <4>2
      <4> QED
        BY <4>1, <4>2
    <3> QED
      BY <3>1, <3>2, LostForGood
  <2>2. ASSUME NEW m \in net', m.kind = "RequestGlobalRestart"
        PROVE  \E w \in Workers : Lost(w, m.count + 1)'
    <3>1. m.count + 1 \in Nat
      BY FTAssumption DEF TypeOK, Messages, Counts, FTAssumption
    <3>2. \E w \in Workers : Lost(w, m.count + 1)
      BY <1>1, <2>2 DEF Backed
    <3> QED
      BY <3>1, <3>2, LostForGood
  <2> QED
    BY <2>1, <2>2 DEF Backed
<1>2. ASSUME NEW m \in net, Deliver(m) PROVE Backed'
  <2>0. m \in Messages /\ m.count \in Nat /\ global \in Nat
    BY FTAssumption DEF TypeOK, Messages, Counts, FTAssumption
  <2>1. CASE RequestGlobalRestart(m)
    <3>1. CASE NewGeneration(m)
      <4>1. global' = m.count + 1 /\ net' = (net \ {m}) \cup RestartReplicas(m.count + 1)
            /\ queue' = queue
        BY <2>1, <3>1 DEF RequestGlobalRestart
      <4>2. Generations' \subseteq Generations \cup {m.count + 1}
        BY <4>1, InCirculation DEF RestartReplicas
      <4>3. \E w \in Workers : Lost(w, m.count + 1)
        BY <2>1 DEF RequestGlobalRestart, Backed
      <4>4. \A x \in net' \ net : x.kind # "RequestGlobalRestart"
        BY <4>1 DEF RestartReplicas
      <4>5. global <= global' /\ m.count + 1 <= global' /\ m.count + 1 \in Nat
        BY <2>0, <3>1, <4>1 DEF NewGeneration
      <4> QED
        BY <1>1, <4>2, <4>3, <4>4, <4>5
    <3>2. CASE ~NewGeneration(m)
      BY <1>1, <2>0, <2>1, <3>2 DEF RequestGlobalRestart, Generations
    <3> QED
      BY <3>1, <3>2
  <2>2. CASE RestartReplicaTraining(m)
    <3>1. Generations' \subseteq Generations
      BY <2>2 DEF RestartReplicaTraining, Generations, RestartWorker
    <3>2. \A x \in net' \ net : x.kind # "RequestGlobalRestart"
      BY <2>2 DEF RestartReplicaTraining, RestartWorker
    <3> QED
      BY <1>1, <2>0, <2>2, <3>1, <3>2 DEF RestartReplicaTraining
  <2>3. CASE RestartTraining(m)
    <3>1. Generations' \subseteq Generations
      BY <2>3, InCirculation DEF RestartTraining, TypeOK
    <3> QED
      BY <1>1, <2>0, <2>3, <3>1 DEF RestartTraining
  <2>4. CASE ReportPodShutdown(m)
    <3>1. Generations' \subseteq Generations \cup {0}
      BY <2>4, InCirculation DEF ReportPodShutdown, RestartWorker, RestartReplicas
    <3>2. \A x \in net' \ net : x.kind # "RequestGlobalRestart"
      BY <2>4 DEF ReportPodShutdown, RestartWorker, RestartReplicas
    <3> QED
      BY <1>1, <2>0, <2>4, <3>1, <3>2 DEF ReportPodShutdown
  <2> QED
    BY <1>2, <2>1, <2>2, <2>3, <2>4 DEF Deliver
<1>3. ASSUME NEW w \in Workers, Report(w) \/ Retry(w) PROVE Backed'
  <2>1. net' = net \cup {GlobalRequest(w)} /\ queue' = queue /\ global' = global /\ pc[w] = "report"
    BY <1>3 DEF Report, Retry
  <2>2. Generations' = Generations
    BY <2>1 DEF Generations, GlobalRequest
  <2>3. Lost(w, GlobalRequest(w).count + 1) /\ global \in Nat
    BY <2>1, FTAssumption DEF GlobalRequest, Lost, GaveUp, TypeOK, Counts, FTAssumption
  <2> QED
    BY <1>1, <2>1, <2>2, <2>3
<1>4. ASSUME NEW w \in Workers, Sigterm(w) PROVE Backed'
  <2>1. Generations' = Generations /\ global' = global
    BY <1>4 DEF Sigterm, Generations
  <2>2. \A x \in net' \ net : x.kind # "RequestGlobalRestart"
    BY <1>4 DEF Sigterm
  <2> QED
    BY <1>1, <2>1, <2>2, FTAssumption DEF TypeOK, Counts, FTAssumption
<1>5. CASE HangDetected
  <2>1. Generations' \subseteq Generations \cup {0} /\ global' = global
    BY <1>5, InCirculation DEF HangDetected, RestartReplicas
  <2>2. \A x \in net' \ net : x.kind # "RequestGlobalRestart"
    BY <1>5 DEF HangDetected, RestartReplicas
  <2> QED
    BY <1>1, <2>1, <2>2, FTAssumption DEF TypeOK, Counts, FTAssumption
<1>6. ASSUME global' = global, net' \subseteq net,
             \A w \in Workers : queue'[w] \subseteq queue[w]
      PROVE  Backed'
  <2>1. Generations' \subseteq Generations
    BY <1>6 DEF Generations
  <2> QED
    BY <1>1, <1>6, <2>1, FTAssumption DEF TypeOK, Counts, FTAssumption
<1>7. \/ \E m \in net : Deliver(m)
      \/ \E w \in Workers : Report(w) \/ Retry(w) \/ Sigterm(w)
      \/ HangDetected
      \/ global' = global /\ net' \subseteq net /\ \A w \in Workers : queue'[w] \subseteq queue[w]
  BY DEF Next, Agent, Proceeds, Spawn, SpawnFails, SetProcess, ReadLine, ReadFails, EndOfOutput,
         ClearProcess, Handle, TrainerGone, SigtermExits, TerminateTraining, TrainerEnds,
         ChildrenEnd, Refuse, Lose, Quiet, vars, TypeOK
<1> QED
  BY <1>2, <1>3, <1>4, <1>5, <1>6, <1>7

\* Every restart generation in circulation was asked for by an agent that lost the
\* attempt before it, and the global manager knows of it: nobody restarts without cause.
THEOREM NoRestartWithoutCause == Spec => []GenerationBacked
<1>1. Backed => GenerationBacked
  BY DEF Backed, GenerationBacked, Lost, GaveUp
<1> QED
  BY <1>1, BackedInit, BackedNext, TypeCorrect, PTL DEF Spec
=============================================================================
