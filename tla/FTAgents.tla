------------------------------ MODULE FTAgents ------------------------------
(***************************************************************************)
(* Fault tolerant training (axlearn/ft).  In every pod an agent runs the    *)
(* trainer in a subprocess and restarts it; the managers in the agents      *)
(* propagate a failure so that all trainers restart together.  The worker   *)
(* of replica 0, worker 0 is the global manager; worker 0 of a replica is   *)
(* its replica manager.                                                     *)
(*                                                                          *)
(* Three threads of an agent meet here: the main thread (agent.py, with     *)
(* monitor_training_process), the gRPC handlers (manager_server.py) and the *)
(* termination executor.  They share TrainerProcessController (utils.py),   *)
(* whose methods run under its lock and are atomic steps.                   *)
(*                                                                          *)
(* Abstracted: an RPC is a message that is handled or refused, and its      *)
(* caller goes on at any time after sending, as after the client timeout;   *)
(* the fan-out to the replicas, sequential in the code, is sent at once and *)
(* handled in any order.  When a pod fails the JobSet recreates all of them *)
(* and a new behaviour begins.                                              *)
(***************************************************************************)
EXTENDS Naturals, FiniteSets

CONSTANTS
  Workers,
  Manager,      \* the global manager
  Head,         \* the replica manager of each worker
  MaxRestarts,  \* --max_restarts
  FaultKinds,   \* the faults this instance allows
  MaxFaults     \* bound: faults per behaviour

ASSUME FTAssumption ==
  /\ Manager \in Workers
  /\ Head \in [Workers -> Workers]
  /\ \A w \in Workers : Head[Head[w]] = Head[w]
  /\ Head[Manager] = Manager
  /\ MaxRestarts \in Nat
  /\ MaxFaults \in Nat

VARIABLES
  pc,       \* where the main thread of each agent is
  count,    \* restart_count of run_ft_agent
  trainer,  \* the trainer subprocess
  held,     \* agents whose trainer left children behind that hold its output pipe
  proc,     \* controller.current_process is set
  flag,     \* controller.termination_requested
  local,    \* controller.restart_count
  queue,    \* restart counts of the terminations given to the executor
  global,   \* _global_restart_count of the global manager
  net,      \* requests on their way
  faults,   \* faults so far
  asked     \* history: how terminations of this attempt through the controller ended

process    == <<trainer, held>>
agent      == <<pc, count, process>>
controller == <<proc, flag, local>>
vars == <<agent, controller, queue, global, net, faults, asked>>

\* Leaving the Popen block of an attempt, which waits for the trainer.
Leaving == {"again", "give_up"}
Ended == {"exit_0", "exit_1"}
Alive(w) == pc[w] \notin Ended
Counts == 0..MaxRestarts + 1

Messages ==
  [kind : {"RequestGlobalRestart", "RestartReplica", "Restart", "PodShutdown"},
   to : Workers, from : Workers, count : Counts]

Init ==
  /\ pc = [w \in Workers |-> "spawn"]
  /\ count = [w \in Workers |-> 0]
  /\ trainer = [w \in Workers |-> "none"]
  /\ proc = [w \in Workers |-> FALSE]
  /\ flag = [w \in Workers |-> FALSE]
  /\ local = [w \in Workers |-> 0]
  /\ queue = [w \in Workers |-> {}]
  /\ global = 0
  /\ net = {}
  /\ faults = 0
  /\ held = {}
  /\ asked = [w \in Workers |-> "none"]

Fault(kind) == kind \in FaultKinds /\ faults < MaxFaults /\ faults' = faults + 1

----------------------------------------------------------------------------
(* The trainer subprocess, and children of it (data loaders) that may outlive it. *)

TrainerEnds(w, how) ==
  /\ trainer[w] = "running"
  /\ trainer' = [trainer EXCEPT ![w] = how]
  /\ \/ UNCHANGED <<held, faults>>
     \/ Fault("children") /\ held' = held \cup {w}
  /\ UNCHANGED <<pc, count, controller, queue, global, net, asked>>

ChildrenEnd(w) ==
  /\ w \in held
  /\ held' = held \ {w}
  /\ UNCHANGED <<pc, count, trainer, controller, queue, global, net, faults, asked>>

----------------------------------------------------------------------------
(* The main thread: _run_single_attempt and the loop of run_ft_agent. *)

\* Popen; the controller does not know the process yet.
Spawn(w) ==
  /\ pc[w] = "spawn"
  /\ trainer' = [trainer EXCEPT ![w] = "running"]
  /\ held' = held \ {w}
  /\ pc' = [pc EXCEPT ![w] = "register"]
  /\ asked' = [asked EXCEPT ![w] = "none"]
  /\ UNCHANGED <<count, controller, queue, global, net, faults>>

\* Popen raises OSError.
SpawnFails(w) ==
  /\ pc[w] = "spawn"
  /\ Fault("spawn")
  /\ proc' = [proc EXCEPT ![w] = FALSE]
  /\ IF count[w] < MaxRestarts
     THEN count' = [count EXCEPT ![w] = @ + 1] /\ UNCHANGED pc
     ELSE pc' = [pc EXCEPT ![w] = "exit_1"] /\ UNCHANGED count
  /\ UNCHANGED <<process, flag, local, queue, global, net, asked>>

SetProcess(w) ==
  /\ pc[w] = "register"
  /\ proc' = [proc EXCEPT ![w] = TRUE]
  /\ flag' = [flag EXCEPT ![w] = FALSE]
  /\ local' = [local EXCEPT ![w] = count[w]]
  /\ pc' = [pc EXCEPT ![w] = "watch"]
  /\ UNCHANGED <<count, process, queue, global, net, faults, asked>>

\* A line of output while a termination is requested: check_termination_requested
\* resets the flag, and the loop is left.
ReadLine(w) ==
  /\ pc[w] = "watch"
  /\ flag[w]
  /\ flag' = [flag EXCEPT ![w] = FALSE]
  /\ pc' = [pc EXCEPT ![w] = "wait"]
  /\ UNCHANGED <<count, process, proc, local, queue, global, net, faults, asked>>

\* The pipe is closed by everyone who held it.
EndOfOutput(w) ==
  /\ pc[w] = "watch"
  /\ trainer[w] # "running" /\ w \notin held
  /\ pc' = [pc EXCEPT ![w] = "wait"]
  /\ UNCHANGED <<count, process, controller, queue, global, net, faults, asked>>

\* An exception while reading counts as return code 1, whatever the trainer does.
ReadFails(w) ==
  /\ pc[w] = "watch"
  /\ Fault("read")
  /\ proc' = [proc EXCEPT ![w] = FALSE]
  /\ pc' = [pc EXCEPT ![w] = "broken"]
  /\ UNCHANGED <<count, process, flag, local, queue, global, net, asked>>

\* Mutant: the process stays registered after it ended.
KeepProcess(w) ==
  /\ pc[w] = "wait"
  /\ trainer[w] # "running"
  /\ pc' = [pc EXCEPT ![w] = "handle"]
  /\ UNCHANGED <<count, process, controller, queue, global, net, faults, asked>>

\* process.wait() and clear_process.
ClearProcess(w) ==
  /\ pc[w] = "wait"
  /\ trainer[w] # "running"
  /\ proc' = [proc EXCEPT ![w] = FALSE]
  /\ pc' = [pc EXCEPT ![w] = "handle"]
  /\ UNCHANGED <<count, process, flag, local, queue, global, net, faults, asked>>

\* Mutant: an off-by-one in the condition of the while loop.
OneMoreAttempt(w) ==
  /\ count' = [count EXCEPT ![w] = @ + 1]
  /\ pc' = [pc EXCEPT ![w] = IF count[w] <= MaxRestarts THEN "spawn" ELSE "exit_0"]

\* restart_count += 1, and the condition of the while loop.
NextAttempt(w) ==
  /\ count' = [count EXCEPT ![w] = @ + 1]
  /\ pc' = [pc EXCEPT ![w] = IF count[w] + 1 <= MaxRestarts THEN "spawn" ELSE "exit_0"]

\* The attempt is over, for another one ("again") or for sys.exit(1) ("give_up").
Goes(w, how) ==
  \/ how = "again" /\ NextAttempt(w)
  \/ how = "give_up" /\ pc' = [pc EXCEPT ![w] = "exit_1"] /\ UNCHANGED count

\* Mutant: Popen without the with block, so that nobody waits for the trainer.
GoesAtOnce(w, how) == Goes(w, how)

\* Popen.__exit__ waits for the trainer if it still runs.
Leaves(w, how) ==
  IF trainer[w] = "running"
  THEN pc' = [pc EXCEPT ![w] = how] /\ UNCHANGED count
  ELSE Goes(w, how)

\* _handle_termination_request, then the return code.  A request of the SIGTERM handler
\* is never seen here: the handler does not return.
Handle(w) ==
  /\ pc[w] \in {"handle", "broken"}
  /\ flag' = [flag EXCEPT ![w] = FALSE]
  /\ \/ flag[w] /\ Leaves(w, "again")
     \/ /\ ~flag[w] /\ pc[w] = "handle" /\ trainer[w] = "ok"
        /\ pc' = [pc EXCEPT ![w] = "exit_0"]
        /\ UNCHANGED count
     \/ /\ ~flag[w] /\ (pc[w] = "broken" \/ trainer[w] = "failed")
        /\ pc' = [pc EXCEPT ![w] = "report"]
        /\ UNCHANGED count
  /\ UNCHANGED <<process, proc, local, queue, global, net, faults, asked>>

\* The end of the wait in Popen.__exit__.
TrainerGone(w) ==
  /\ pc[w] \in Leaving
  /\ trainer[w] # "running"
  /\ Goes(w, pc[w])
  /\ UNCHANGED <<process, controller, queue, global, net, faults, asked>>

\* Mutant: the request carries the attempt that comes next.
NextRequest(w) ==
  [kind |-> "RequestGlobalRestart", to |-> Manager, from |-> w,
   count |-> IF count[w] < MaxRestarts THEN count[w] + 1 ELSE count[w]]

GlobalRequest(w) ==
  [kind |-> "RequestGlobalRestart", to |-> Manager, from |-> w, count |-> count[w]]

\* Mutant: a client without timeout and without handling of errors.
ReportBlocks(w) ==
  /\ pc[w] = "report"
  /\ Alive(Manager)
  /\ net' = net \cup {GlobalRequest(w)}
  /\ Leaves(w, IF count[w] < MaxRestarts THEN "again" ELSE "give_up")
  /\ UNCHANGED <<process, controller, queue, global, faults, asked>>

\* request_global_restart, whose errors and whose answer are ignored.
Report(w) ==
  /\ pc[w] = "report"
  /\ net' = net \cup {GlobalRequest(w)}
  /\ Leaves(w, IF count[w] < MaxRestarts THEN "again" ELSE "give_up")
  /\ UNCHANGED <<process, controller, queue, global, faults, asked>>

\* SIGTERM: the handler interrupts the main thread and reports the shutdown.
Sigterm(w) ==
  /\ Alive(w) /\ pc[w] \notin {"sigterm", "sigterm_leaving"}
  /\ Fault("evict")
  /\ net' = net \cup {[kind |-> "PodShutdown", to |-> Manager, from |-> w, count |-> 0]}
  /\ pc' = [pc EXCEPT ![w] = IF pc[w] \in Leaving THEN "sigterm_leaving" ELSE "sigterm"]
  /\ UNCHANGED <<count, process, controller, queue, global, asked>>

\* _do_terminate: SIGKILL to the process group, the children of the trainer included.
Kills(w) ==
  /\ asked' = [asked EXCEPT ![w] = "killed"]
  /\ trainer' = IF trainer[w] = "running" THEN [trainer EXCEPT ![w] = "failed"] ELSE trainer
  /\ held' = held \ {w}
  /\ UNCHANGED faults

\* The wait after SIGKILL times out, or an exception is caught: the trainer runs on.
FailsToKill(w) ==
  /\ trainer[w] = "running"
  /\ Fault("kill")
  /\ asked' = [asked EXCEPT ![w] = "survived"]
  /\ UNCHANGED process

\* terminate_training, if the controller has a process.
Terminates(w) ==
  /\ flag' = [flag EXCEPT ![w] = @ \/ proc[w]]
  /\ IF proc[w]
     THEN Kills(w) \/ FailsToKill(w)
     ELSE UNCHANGED <<process, faults, asked>>

\* The rest of the handler.  Its SystemExit leaves the Popen block in the usual way,
\* but cuts the wait short when it interrupts one.
SigtermExits(w) ==
  /\ Terminates(w)
  /\ \/ pc[w] = "sigterm" /\ trainer'[w] = "running" /\ pc' = [pc EXCEPT ![w] = "give_up"]
     \/ pc[w] = "sigterm" /\ trainer'[w] # "running" /\ pc' = [pc EXCEPT ![w] = "exit_1"]
     \/ pc[w] = "sigterm_leaving" /\ pc' = [pc EXCEPT ![w] = "exit_1"]
  /\ UNCHANGED <<count, proc, local, queue, global, net>>

\* The steps of the main thread that wait for nobody but the trainer.
Proceeds(w) ==
  \/ Spawn(w) \/ SetProcess(w) \/ EndOfOutput(w) \/ ClearProcess(w) \/ Handle(w)
  \/ Report(w) \/ TrainerGone(w) \/ SigtermExits(w)

Agent(w) == Proceeds(w) \/ SpawnFails(w) \/ ReadLine(w) \/ ReadFails(w)

----------------------------------------------------------------------------
(* The gRPC handlers. *)

Replicas == {Head[w] : w \in Workers}

RestartReplicas(n) ==
  {[kind |-> "RestartReplica", to |-> h, from |-> Manager, count |-> n] : h \in Replicas}
RestartWorker(w, n) == [kind |-> "Restart", to |-> w, from |-> Head[w], count |-> n]

\* A failure of a new generation, or one that another worker reported already.
NewGeneration(m) == m.count + 1 > global

RequestGlobalRestart(m) ==
  /\ m.kind = "RequestGlobalRestart"
  /\ IF NewGeneration(m)
     THEN /\ global' = m.count + 1
          /\ net' = (net \ {m}) \cup RestartReplicas(m.count + 1)
     ELSE /\ net' = net \ {m}
          /\ UNCHANGED global
  /\ UNCHANGED queue

\* _forward_restart_to_workers, one thread for each worker.
RestartReplicaTraining(m) ==
  /\ m.kind = "RestartReplica"
  /\ net' = (net \ {m}) \cup {RestartWorker(w, m.count) : w \in {x \in Workers : Head[x] = m.to}}
  /\ UNCHANGED <<global, queue>>

Stale(m) == m.count > 0 /\ m.count <= local[m.to]

\* The request is discarded, or the executor gets the termination.
RestartTraining(m) ==
  /\ m.kind = "Restart"
  /\ net' = net \ {m}
  /\ queue' = IF Stale(m) THEN queue ELSE [queue EXCEPT ![m.to] = @ \cup {m.count}]
  /\ UNCHANGED global

\* The affected worker first, then every replica.
ReportPodShutdown(m) ==
  /\ m.kind = "PodShutdown"
  /\ net' = (net \ {m}) \cup {RestartWorker(m.from, 0)} \cup RestartReplicas(0)
  /\ UNCHANGED <<global, queue>>

Deliver(m) ==
  /\ Alive(m.to)
  /\ \/ RequestGlobalRestart(m) \/ RestartReplicaTraining(m)
     \/ RestartTraining(m) \/ ReportPodShutdown(m)
  /\ UNCHANGED <<agent, controller, faults, asked>>

\* No server answers: the client gives up.
Refuse(m) ==
  /\ ~Alive(m.to)
  /\ net' = net \ {m}
  /\ UNCHANGED <<agent, controller, queue, global, faults, asked>>

Lose(m) ==
  /\ Fault("lose")
  /\ net' = net \ {m}
  /\ UNCHANGED <<agent, controller, queue, global, asked>>

\* The request of a client that timed out and tried again.
Retry(w) ==
  /\ pc[w] = "report"
  /\ Fault("retry")
  /\ net' = net \cup {GlobalRequest(w)}
  /\ UNCHANGED <<agent, controller, queue, global, asked>>

\* The global manager misses the status of a replica for too long, which it takes
\* for a hang: it restarts every replica, outside of the generations.
HangDetected ==
  /\ Alive(Manager)
  /\ Fault("hang")
  /\ net' = net \cup RestartReplicas(0)
  /\ UNCHANGED <<agent, controller, queue, global, asked>>

----------------------------------------------------------------------------
(* The termination executor: one thread, after the handler has answered. *)

TerminateTraining(w) ==
  /\ Alive(w)
  /\ \E n \in queue[w] : queue' = [queue EXCEPT ![w] = @ \ {n}]
  /\ Terminates(w)
  /\ UNCHANGED <<pc, count, proc, local, global, net>>

Quiet == /\ \A w \in Workers : pc[w] \in Ended
         /\ net = {}
         /\ UNCHANGED vars

Next ==
  \/ \E w \in Workers :
       Agent(w) \/ ChildrenEnd(w) \/ Sigterm(w) \/ Retry(w) \/ TerminateTraining(w)
  \/ \E w \in Workers, how \in {"ok", "failed"} : TrainerEnds(w, how)
  \/ \E m \in net : Deliver(m) \/ Refuse(m) \/ Lose(m)
  \/ HangDetected
  \/ Quiet

\* The main threads run.  Nothing is asked of the trainers and their children, of the
\* network, of the servers and of the executors.
Fairness == \A w \in Workers : WF_vars(Proceeds(w))

Spec == Init /\ [][Next]_vars
FairSpec == Spec /\ Fairness

----------------------------------------------------------------------------
(* Properties *)

TypeOK ==
  /\ pc \in [Workers -> {"spawn", "register", "watch", "wait", "handle", "broken", "report",
                         "sigterm", "sigterm_leaving"} \cup Leaving \cup Ended]
  /\ count \in [Workers -> Counts]
  /\ \A w \in Workers : count[w] > MaxRestarts => pc[w] = "exit_0"
  /\ trainer \in [Workers -> {"none", "running", "ok", "failed"}]
  /\ proc \in [Workers -> BOOLEAN] /\ flag \in [Workers -> BOOLEAN]
  /\ local \in [Workers -> 0..MaxRestarts]
  /\ queue \in [Workers -> SUBSET Counts]
  /\ global \in Counts
  /\ net \subseteq Messages
  /\ faults \in 0..MaxFaults
  /\ held \subseteq Workers
  /\ asked \in [Workers -> {"none", "killed", "survived"}]

\* A pod never has two trainers, and an agent that left leaves one behind only if it
\* failed to kill it, or if SIGTERM cut short the wait for one it had no handle on.
NoOrphan ==
  \A w \in Workers :
    trainer[w] = "running" =>
      /\ pc[w] # "spawn"
      /\ ~Alive(w) => asked[w] = "survived" \/ ~proc[w]

\* A termination request is one of the attempt that ended: no request of an earlier
\* attempt is still there when the next trainer runs, and one that is there while a
\* trainer runs is for this trainer, which was to be killed and survived.
FlagFresh ==
  \A w \in Workers :
    flag[w] => asked[w] # "none" /\ (trainer[w] = "running" => asked[w] = "survived")

Generations ==
  {global} \cup (UNION {queue[w] : w \in Workers})
           \cup {m.count : m \in {x \in net : x.kind \in {"RestartReplica", "Restart"}}}

\* The attempt of w is lost: it was reported, or w leaves it.
GaveUp(w) == pc[w] \in {"report", "sigterm", "sigterm_leaving", "exit_1"} \cup Leaving

\* Every restart generation in circulation was asked for by an agent that lost
\* the attempt before it, and the global manager knows of it.
GenerationBacked ==
  \A n \in Generations \ {0} :
    /\ n <= global
    /\ \E w \in Workers :
         \/ count[w] >= n
         \/ count[w] = n - 1 /\ GaveUp(w)

\* No agent sits for ever on a failed trainer, unless children of the trainer keep its
\* output open: it starts the next attempt or exits, also when the manager is gone.
Settles ==
  \A w \in Workers :
    []<>~(trainer[w] = "failed" /\ Alive(w) /\ ~(pc[w] = "watch" /\ w \in held))

\* "Discard stale restart requests": the request of a generation does not kill
\* the trainer of that generation.
NoStaleKill ==
  [][\A w \in Workers : \A n \in queue[w] \ queue'[w] :
       n > 0 /\ trainer[w] = "running" /\ trainer'[w] # "running" => local[w] < n]_vars

\* An agent that exits with code 0 has a trainer that completed.
ExitZeroCompleted == \A w \in Workers : pc[w] = "exit_0" => trainer[w] = "ok"
============================================================================
