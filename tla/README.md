# axlearn: a verification project

axlearn is a library for training large models together with the cloud tools that run the training.
Most of its code is numeric (layers, attention, kernels, losses). What can go wrong in ways that a
unit test hardly reaches is its *control* code: the bastion that queues and runs jobs, the agents that
restart trainers together, the checkpointer that must survive a crash at any moment, the scheduler
that divides the accelerators, the process that keeps a job's JobSet in step with what the bastion
wants. This directory holds TLA+ models of that code, TLC runs over small instances, and proofs
checked by TLAPS.

- [1. The system](#1-the-system)
- [2. The modules and the code](#2-the-modules-and-the-code)
- [3. Runs, bounds, what they show](#3-runs-bounds-what-they-show)
- [4. Fairness](#4-fairness)
- [5. Proofs](#5-proofs)
- [6. Where the code and its documentation disagree](#6-where-the-code-and-its-documentation-disagree)
- [7. What is not modelled](#7-what-is-not-modelled)
- [8. Plan](#8-plan)

To repeat a result, in this directory: `tlc -workers 2 -config BastionFaults.cfg MCBastion`,
`tlapm BastionProofs.tla`. `PROJECT.json` lists the components, the runs, for each property a mutant of
the model that breaks it, for each definition the lines of code it stands for, and the hazards.

## 1. The system

| component | state | operations | meets |
|---|---|---|---|
| **bastion** `cloud/common/bastion.py` | job table in memory, child processes, files in cloud storage (`jobs/active`, `states`, `user_states`, `complete`) | one loop: sync, schedule, update each job, collect; an exception kills the children and ends the process, whose restart is left to its host | clients through storage; scheduler, cleaner, replica manager by call; runners by `Popen` and signals |
| **bastion clients** (`BastionDirectory`, CLI) | none | submit, cancel, update: check a file, write a file | the bastion, through storage, without a lock |
| **scheduler** `cloud/common/scheduler.py` | none between calls | sort per project, order projects by usage, admit into tiers, expand and collapse elastic slots | called by the bastion and by `UnschedulableCleaner` |
| **cleaners, replica manager, uploader** | a child process (uploader) | `sweep`; desired and granted replicas; poll | called by the bastion |
| **event queue** `cloud/common/event_queue.py` | one connection | publish with reconnection and retry | called by bastion and runners |
| **GKE runner** `cloud/gcp/runners/gke.py` | the JobSet in Kubernetes, node pools | a loop over the JobSet's status: submit, patch, update, reschedule, return | child of the bastion: is killed and started again when tier, topology or version change |
| **node pools, builders, bundlers** `cloud/gcp/` | cloud resources | API calls, construction of resources | the runner |
| **fault tolerance** `ft/` | per pod: restart count, trainer process, termination flag, executor queue; global restart count; status registries | retry loop, RPC handlers, termination executor, monitor thread | agents by gRPC; the trainer by a pipe and signals |
| **checkpointer** `common/checkpointer.py`, `array_serialization.py` | directories and index files in storage; serialization and collection threads | save, commit, collect, stop, restore | the trainer loop; jax serialization |
| **trainer loop** `common/trainer.py` | step, model state | restore, train, save, stop | checkpointer, evaler, inputs |
| **inputs, evaler, summary, measurement, status server** `common/` | iterators, writers | computation and reporting | the trainer |
| **numeric library, audio, vision, experiments** | tensors | numeric code | the trainer |

How they interact: users write jobspecs into the bastion's directory. The bastion reads them every
cycle, asks the scheduler which may run, starts a runner process for each, writes a state file per job,
and at the end asks the cleaner whose resources are gone and deletes their files. A runner submits a
JobSet whose pods each run an agent; the agent runs the trainer and restarts it, all agents together
when one fails; the trainer restores the newest checkpoint and saves new ones.

What is hard, and what makes each part correct:

- **bastion**: clients write between any two of its steps; it may die between any two writes; a file may be
  unreadable for a while; a job's name may be submitted again. Correct means: a job that is over has no
  running command; what storage says never goes back; a cancellation is not lost and ends the job; a
  running command was told the current tier, topology and version; resources of a job are only swept when
  its processes are gone; a flaky read does not kill a job; a jobspec that cannot be read as one harms no job
  but those it is mixed up with.
- **download of the job table**: exceptions part-way through an iteration, objects shared between jobs.
  Correct means that every readable job gets its own spec, state and status. A malformed jobspec gets those
  of jobs listed before it, and what that does to them is part of the model of the bastion.
- **fault tolerance**: three threads share a process controller; requests get lost, repeated, are late, and
  arrive at dead agents; a trainer may survive being killed, or leave children behind that keep its output
  open. Correct means: no request outlives its attempt; every restart generation has a failure behind it; a
  pod never has two trainers, and an agent that leaves takes its trainer with it unless it could not kill it;
  a failed trainer is started again or its agent exits.
- **hang detection**: reports of all agents in any order against a threshold. Correct means: no alarm
  without a hanging trainer or an unreachable replica manager, and an alarm when a replica is silent.
- **checkpointer**: collection and save run at once; a crash may leave anything. Correct means: whatever
  has an index file is complete; the restore point never goes back; a checkpoint being written is not
  collected; the ones kept are spaced as configured.
- **scheduler**: elastic jobs become slots that are sorted, demoted and admitted one by one and collapsed
  again; a job draws on several tiers. Correct means: no tier is overdrawn; what is told to run was charged,
  in full; a slot is only reached after its job; a project within its quota gets everything; a user's older
  and more important jobs are not passed over.
- **GKE runner**: the bastion kills it between any two calls and starts it with another tier, topology or
  version, so that it finds a JobSet and node pools half deleted or half created. Correct means: it submits
  only onto node pools that stand and match; it replaces a JobSet only for a cause, and so comes to rest.
- **event queue**: a reply that is lost is followed by another try.

## 2. The modules and the code

### Bastion (`Bastion.tla`, `MCBastion.tla`, `JobLife.tla`, `BastionProofs.tla`)

One action is one step between two accesses to remote storage, so that a crash or a client's write falls
between any two of them. `pc` is the place in the loop:

| `pc` | action | code |
|---|---|---|
| list, download | `SyncList`, `SyncDownload` | `download_job_batch`: names are listed first, files read later; any of them may be unreadable; a malformed jobspec is given what was read before it, or ends the bastion if nothing was |
| sync | `SyncNew`, `SyncUpdated`, `SyncMissing`, `SyncRemoved`, `SyncBreaks` | `_sync_jobs`, job by job in any order: missing jobs are counted and dropped at the orphan threshold; `SyncBreaks` is its `KeyError` |
| schedule | `Schedule` | first part of `_update_jobs`: any verdict for each schedulable job, status and metadata from it, restart in place for a new topology |
| update | `UpdatePending` ... `UpdateCompleted`, `CleaningBreaks` | `_update_single_job`, one branch per action; jobs in any order. `CleaningBreaks`: the assertion of the CLEANING branch fails, or the `Popen` of the cleanup command; neither is caught, and the bastion ends |
| upload, user_state | `UploadJobState`, `RemoveUserState` | the two writes that follow each branch |
| gc, delete | `Sweep`, `DeleteJobspec`, `DeleteState` | `_gc_jobs`: the cleaner's answer, then per job a thread that deletes the jobspec and then the state |
| any | `Crash` | memory is lost, the children die with the process, a new loop starts |
| any | `Check`, `WriteSubmit`, `WriteCancel`, `WriteUpdate` | the clients: the check and the write are two steps |

Decisions that matter when reading it:

- The scheduler and the cleaner answer anything their interfaces allow, so what holds here holds for every
  scheduler and for every cleaner.
- Listing the jobspecs and listing the user states is one step. Two clients that submit the same name at
  the same moment are not modelled (the storage's own copy operation would have to be).
- `SpecOf`, `StateOf` and `UserOf` say whose jobspec, state and user state a job is given. They are its own
  unless its jobspec is malformed: the handler of `ValidationError` falls through, and the job shares the
  jobspec and the `JobState` *object* of jobs listed before it, perhaps of two different ones. So jobs are
  not independent. `lname` is the name in a job's jobspec, under which its files are written and deleted;
  `peers` are the jobs whose state is the same object; `Struck` are the objects that are set to CANCELLING.
  The loop that computes all this is module `JobBatch`, whose `OwnEntry` is the same mapping.
- `mixed` is a history variable: the jobs that a malformed jobspec made share something. The code breaks its
  own promises for these (section 6); the properties are about all others, and say that it breaks them for
  no others. `CancelKept` holds of `mixed` jobs, too.
- Of a job's metadata the model keeps tier, topology and the `updated` flag; `env` remembers what the
  running command was told when it was started.
- A user state other than CANCELLING is ignored by the code and absent here. `userSeen` is cleared at the
  end of the update step, where the code has no further use for it.
- Whether the local copy of a jobspec exists is left out, and so are logs, history files and metrics.
- `absent` is a history variable for `OrphanPatience`.

`JobLife` is the abstract specification of what a bastion promises about a job: storage shows it open,
cancelling, ending or over and only goes forward; its command starts only while it is open, and stops and
starts again until then; a job ends, and gives its name back, without a command. `Bastion` implements it
under `phase[j] <- PhaseOf(state[j].status)`, `runs[j] <- the command of j runs`, `stray <- mixed` and
`Reliable <- "update" \notin FaultKinds` (`KeepsLife`). A name is given back by a job that is over. Only where
the upload of a state can be abandoned (`~Reliable`) storage may still say an earlier phase when that happens.

### JobBatch (`JobBatch.tla`, `JobBatchProofs.tla`)

The loop of `download_job_batch`, statement by statement: its local variables keep the values of an
earlier iteration when an exception jumps over their assignment, and `JobState` is a mutable object
(`heap`), so that two jobs may share one. `OwnEntry` says whose jobspec and state every job is returned with,
the malformed ones included.

### FTAgents (`FTAgents.tla`, `MCFTAgents.tla`, `FTAgentsProofs.tla`)

The main thread of each agent is a `pc`: `Spawn`, `SetProcess`, `ReadLine`/`EndOfOutput`/`ReadFails`,
`ClearProcess`, `Handle`, `Report` are `_run_single_attempt` with `monitor_training_process` and
`_handle_termination_request`; `NextAttempt` is the end of the retry loop of `run_ft_agent`. The gRPC
handlers (`RequestGlobalRestart`, `RestartReplicaTraining`, `RestartTraining`, `ReportPodShutdown`) take a
message from `net`; `TerminateTraining` is the executor, which acts after its handler has answered.
`Sigterm` and `SigtermExits` are the signal handler.

- `TerminateTraining` and `SigtermExits` end in `Kills`, or in `FailsToKill`: the wait after SIGKILL timed out
  or an exception was caught, and the trainer runs on with the termination flag set.
- An exception while reading output counts as return code 1 with the trainer still running (`broken`).
- `Popen` is a context manager: whoever leaves the block of an attempt waits for the trainer (`Leaves`,
  `again`, `give_up`, `TrainerGone`). A SIGTERM that arrives during this wait cuts it short
  (`sigterm_leaving`), since its handler raises `SystemExit` inside of `__exit__`.
- `held` are the agents whose trainer left children behind that hold the pipe: the output only ends when they
  have ended too. SIGKILL goes to the process group and ends them.
- The methods of the process controller run under its lock and are atomic.
- A client may go on at any time after it has sent its request, as after its timeout; a message is
  handled, refused (the agent is gone) or lost. The fan-out, sequential in the code, is sent at once and
  handled in any order. Terminations given to the executor are a set.
- When a pod fails, the JobSet (BlockingRecreate) recreates all of them: that is a new behaviour from `Init`.
- The branch for a pod-shutdown prefix in the trainer's output is dead code: the SIGTERM handler has left
  the process by then. It has no action.
- Restarts for a hang or a pod shutdown carry count 0 and are never stale, as in the code.

### FTHang (`FTHang.tla`, `MCFTHang.tla`, `FTHangProofs.tla`)

`Round(w)` is one pass of `monitor_loop`: report to the replica manager, forward the registry, check. Time
is counted in report intervals; `age` and `seen` are the ticks since `last_update` at the replica manager
and at the global manager. `last_update` is stamped by the receiver at every report, whatever the trainer
does, and so is `age`.

### Checkpointer (`Checkpointer.tla`, `MCCheckpointer.tla`, `CheckpointerProofs.tla`)

The main threads of all processes run in lockstep (collectives, barriers) and are one `pc`: `Restore`,
`Enter`, `TrainStep`, `SkipSave` or `BeginSave`, `Serialize`, then `StopTraining`, `Flush`, `Join`. Beside
it: `WritePart(p)` and `Commit` (the background serialization, and the index file written by process 0
after the barrier), and the collection thread of process 0, one action per access to storage: `GcList`,
`GcCheck(s)`, `GcPlan`, `RemoveIndex`, `RemovePart`, `RemoveDir`. `Crash` ends all processes anywhere.

- The save policy answers anything. `data[s][p]` is the number of the run that wrote the part of `p`, so
  that a mixture of two runs in one directory would be visible.
- An index file appears at once, as an object in a bucket does.
- A failed serialization ends the run like a crash: `stop(has_exception=True)` does not wait for it.
- `RemovalFails` is an exception of the storage, which the collection logs and skips.
- `restore` with a given step, the content of index files, validation and state filters are left out.

### Scheduler (`Scheduler.tla`, `MCScheduler.tla`, `SchedulerProofs.tla`, `SchedulerSharesProofs.tla`)

A behaviour is one call of `JobScheduler.schedule`, whose local variables are the state. An item is
`<<job, spec, replica>>`: the job itself or one expansion slot of it.

| `step` | actions | code |
|---|---|---|
| sort | `Sort(p)`, `Sorted` | `_expand_elastic_jobs` (`Expanded`), then `ProjectJobSorter.sort`: the next item of a project, by priority and age within a user, by usage between users; `_demote_unschedulable_jobs` puts what can never fit at the end (`back`), a slot together with its job |
| pick | `RejectSlot(p)`, `RejectOver(p)`, `Admit(p)` | `TierScheduler.schedule`: the project with the smallest usage ratio has its turn; the parent gate, the limits |
| forward | `Forward` | `_traverse_tiers`: find the last tier that is needed |
| backward | `Backward` | the same from that tier upwards, acquiring |
| done | `Collapse` | `_collapse_expansion_verdicts`, and the dry run |

Quotas are proportions written as integers, and usage ratios are compared as fractions. `within`, `paid`
and `from` are history. Topologies, the reporting scheduler and the quota file are left out.

### GKERunner (`GKERunner.tla`, `GKERunnerProofs.tla`)

One action is one call to the cluster or to the queue, because the bastion may kill the process between
any two of them (`Restart`, with another environment) and any of them may fail (`CallFails`: an exception,
which `execute` of `cloud/common/job.py` answers with a clean-up and another try; of the build, any exception
but `RuntimeError`, for which `Build` has a branch).

| `pc` | action | code |
|---|---|---|
| poll | `Poll` | `_execute` with `_get_status`, whose order of tests `Status` keeps, and the event of a new status |
| reschedule, list, remove | `Reschedule`, `List`, `Visit`, `Round` | `_reschedule`: delete the JobSet, then the node pools of the wrong kind |
| update, patch | `Update`, `Patch` | the UPDATING branch; `_patch_topology` |
| build, preprovision, clear, provision | `Build`, `List`, `Visit`, `Round` | the bundler; `_pre_provision` with the rounds of `delete_node_pools` and `create_node_pools`, whose time limit is `TimesOut` |
| submit | `Submit`, `SubmitFails` | the inner `execute`: its tries, and the deletion of the JobSet when they are used up; a call may take effect and its reply be lost |
| announce | `Announce` | `_publish_event` and `EventQueueClient.publish` |
| cleanup, drain, gone | `Cleanup`, `Visit`, `Round` | `_delete`, when the tries of the outer `execute` are used up |

JobSet and node pools are external: `Advance`, `Finish`, `Preempt`, `Deleted`, `PoolAdvances` are what the
runner's code expects of them. `jobset.tier` is history. The job has a reservation, runs on TPUs and is
provisioned by the pre-provisioner.

### Proof modules

`XProofs` extends `X` and holds the theorems about it; `SchedulerSharesProofs` extends `SchedulerProofs`. See
section 5.

## 3. Runs, bounds, what they show

| run | expects | states | properties |
|---|---|---|---|
| `bastion_faults` | pass | 2.0 M | `TypeOK` `CommandStopped` `CleanupAlone` `RunnerCurrent` `SweepIdle` `NoWayBack` `CancelKept` `OrphanPatience` `KeepsLife` |
| `bastion_malformed` | pass | 717 k | `LifeCycle` `KeepsLife` |
| `bastion_liveness` | pass | 179 k | `CancelEnds` |
| `job_batch` | pass | 266 k | `OwnEntry` `StatusChosen` |
| `job_batch_malformed` | violation | | `KeepStatus` |
| `ft_restarts` | pass | 1.5 M | `TypeOK` `NoOrphan` `FlagFresh` `GenerationBacked` `Settles` |
| `ft_stale_kill` | violation | | `NoStaleKill` |
| `ft_hang` | pass | 8 k | `NoFalseAlarm` `CopiesLag` `SilenceNoticed` |
| `checkpointer` | pass | 2.9 M | `TypeOK` `CommittedComplete` `InProgressKept` `RestorePointAdvances` `SpacingKept` |
| `scheduler` | pass | 172 k | `TypeOK` `ParentFirst` `ChargedInFull` `QuotaGuaranteed` `Seniority` `GrantsCharged` |
| `gke_runner` | pass | 348 k | `TypeOK` `StartsPlaced` `ReplacedForCause` `Converges` |
| `gke_failed_retried` | violation | | `FailedNotRetried` |

**Bounds, and why they are enough.**

- *Bastion.* One job name with `MaxSubmits = 2`: a second life of the name, which is what resurrected jobspecs
  and left-over state files need. Without malformed jobspecs, jobs share no state in the loop except its
  phases, and the proofs hold for any set of jobs. Two versions, one tier, one topology and their absence:
  every comparison with "changed" and "the same". `OrphanThreshold = 2` instead of 10: the counter is reached,
  reset and passed. `MaxPending = 1` client call between its check and its write. `MaxFaults = 2` out of
  crash, unreadable files, failed deletion and change of membership: a fault during the recovery from a fault.
  `bastion_malformed` has three jobs of one submission each, because a malformed one may take its jobspec from
  one job and its state from another; two faults are a malformed jobspec and an unreadable state file of the
  job in between, or two malformed jobspecs. Its orphan threshold is 1 and nobody cancels but the malformed
  jobspec itself. `bastion_liveness` also lets the `Popen` of the cleanup command fail, and the update of a
  job be abandoned after its transition (fault `"update"`). With that fault `RunnerCurrent`, `CleanupAlone`
  and `SweepIdle` do *not* hold, and they are therefore checked without it: the loop catches `RuntimeError`
  and `CalledProcessError` of `_update_single_job`, but nothing that it calls raises them today. It is listed
  as a hazard.
- *JobBatch.* Three listed jobs, each readable, rejected, malformed or unreadable, in every combination and
  with two statuses (one that may be cancelled, one that may not): an exception has a job before it and
  one after it.
- *FTAgents.* One replica of two workers, so that requests reach one worker through the other and the manager
  may be gone (`ft_stale_kill`: two replicas), `MaxRestarts = 1`: a first, a second and a refused attempt. One
  fault of any of eight kinds, which is a fault on top of trainers that fail at any time by themselves. The
  proofs hold for any number of faults; the instances with two faults out of `read` and `evict`, of `kill` and
  `evict`, and of `read`, `kill` and `children` were also run.
- *FTHang.* Three workers in two replicas, threshold of two intervals. One alarm (`MaxAlarms`) is enough to
  be noticed or to be false.
- *Checkpointer.* Two processes, so that a checkpoint can be written by half; steps 0 to 4, keep the last
  one, keep one every two steps: a directory can be first, spaced, last, abandoned or in progress. Two runs
  and one failed removal. The processes are symmetric: only the writing of the parts distinguishes them.
- *Scheduler.* Two tiers (a job can draw on one or both, or not fit), three jobs: the first may be elastic,
  with none or one replica of its own and up to three in all, the other two compete with it as jobs of the
  same user, of the same project or of another one, older or younger, more or less important, within the
  limits or too large for all of them. Two resource types, of which some jobs use one; three quotas, one of
  which leaves the second tier empty, and shares of zero.
- *GKERunner.* Two node pools (all, some or none stand), tiers 0 and 1 (a reservation is asked for or not),
  two topologies and two versions, two tries of either loop, two restarts by the bastion (a restart during
  the recovery from a restart) and one fault.

**What the properties say.** The comments above their definitions state each; the ones that a reviewer of
the code would want to know:

- `CommandStopped` is the assertion in the CLEANING branch of the bastion, and more: it also covers what
  storage says, which is what the next bastion believes after a crash. It excepts the `mixed` jobs, for which
  the assertion does fail (`CleaningBreaks`).
- `RunnerCurrent` is about restarts that are forgotten: after the update step, the command of an ACTIVE job
  was started with the jobspec version, tier and topology that the bastion has now.
- `CancelEnds` starts from a user state *or* from a recorded CANCELLING or later status at the start of a
  cycle. Within a cycle it would not hold: a client may write a jobspec between the two deletions of the
  old one.
- `NoOrphan` excepts two cases, which are the code's: an agent that was to kill its trainer and could not,
  and one that was sent SIGTERM while it waited for a trainer that its controller had given up already.
- `GenerationBacked` is what makes coordinated restarts converge: nobody restarts for a generation that no
  failure caused.
- `NoFalseAlarm` is about an alarm while no trainer hangs: neither the order of the reports nor a silent
  worker that is not the first of its replica raises one. Whether a hang raises one is another question, and
  the answer is no (section 6).
- `RestorePointAdvances` holds although the collection reads index files one by one while saves commit: the
  newest committed checkpoint is safe. With `keep_last_n = 2` that is all that is safe: if a checkpoint
  commits after its own existence check and the next one before its check, the older one counts as
  abandoned and is removed although it is among the last two (TLC finds this, against the comment in lines
  1161-1162 of `checkpointer.py`; it is listed as a hazard).
- `ParentFirst` is why the `RuntimeError` of `_check_parent_dependency` cannot happen: users, ages and
  demotion all reorder a project's queue, and never put a slot before its job.
- `ChargedInFull`: the backward pass starts at the tier where the forward pass stopped and finds there and
  above everything the forward pass found. With `[:final_tier]` for `[:final_tier + 1]` it would not.
- `GrantsCharged`: the replicas an elastic job is told to run with are the ones its project was charged for.
- `ReplacedForCause` and `Converges`: the tier is read from the environment in four places, with different
  defaults, by the status check, the provisioner and the builder of the JobSet. If two of them disagreed, the
  runner would replace its own JobSet for ever. A version is a cause only if it is newer.

## 4. Fairness

| module | assumed | because |
|---|---|---|
| Bastion | the loop takes steps (`WF` of `BastionStep`) | it is one thread that never stops; when it is pre-empted or dies, it is meant to be started again (docstring, `bastion.py:73-74`), outside of this code |
| | a command that got SIGTERM exits, a cleanup command exits | `send_signal` reaches the whole process tree; a command that was not told to stop promises nothing |
| | a cleaner asked again and again reports a completed job (`SF`) | `sweep` is called in every cycle and non-blocking cleaners answer in a later one |
| FTAgents | the main thread of each agent takes the steps that wait for nobody but its trainer (`WF` of `Proceeds`) | it is one thread, and its only request has a timeout; nothing is asked of trainers and their children, of the network, of the servers and of the executors |
| FTHang | every agent's monitor loop runs, and time passes | `monitor_loop` is a daemon thread with a period |
| GKERunner | the process takes steps (`WF` of `Process`) | it is one thread that polls |
| | the time limit of a round is reached again and again while it is open (`SF` of `TimesOut`) | `wait_timeout` of `create_node_pools` and `delete_node_pools` is finite, and a round that is not done counts towards it |
| | the cluster gets on with creations and deletions (`WF` of `Advance`, `Deleted`, `PoolAdvances`) | external; a JobSet need not finish, and need not fail |

Clients, faults and trainers have no fairness. Safety properties rest on no
fairness.

## 5. Proofs

`tlapm` checks 7930 obligations in eight modules. The constants are arbitrary under the assumptions named
in the modules: `BastionAssumption` (sentinels differ from values, storage lists the jobs in some order, the
cleanup jobs are jobs, clients make the calls there are, the bounds are numbers, the orphan threshold is
positive), `CkptAssumption` (finitely many processes, at least one; a
positive number of steps, kept checkpoints and runs), the assumptions of `JobBatch`, `FTAgents`, `FTHang` and
`GKERunner` (the manager is one of finitely many workers, bounds are numbers, tiers are the strings the code
compares with), `SchedulerAssumption` (what a request and a quota look like; `upto` are the sums of
`limits`; jobs, projects, elastic specs and resources are keys of dicts, so finitely many; the limit put for
1e-8 of a unit, `Huge`, is more than 1). TLC evaluates them in every run. Where a theorem needs more, its
statement says so.

**BastionProofs** (any number of jobs, versions, tiers, faults of all kinds, the abandoned update and malformed
jobspecs included):

| theorem | states |
|---|---|
| `TypeCorrect` | `TypeOK` |
| `CommandStopsFirst` | `CommandStopped` |
| `StorageNeverGoesBack` | `NoWayBack` |
| `CancellationKept` | `CancelKept` |
| `MemoryNotBehind` | `LifeCycle` |
| `LifeImplemented` | `KeepsLife`: `Bastion` implements `JobLife` |

`TypeOK` is proved together with `Phases`: what each phase of the loop takes for granted (a listed jobspec
is still there when it is read, because only the bastion deletes jobspecs). The safety theorems rest on
`LifeCycle == NotBehind /\ CommandStopped /\ CancelSeen`. `CommandStopped` alone is not inductive: a
scheduler step could make a job ACTIVE in memory while storage says CLEANING. `NotBehind` excludes it: the
memory of a job is never behind its state file. It survives a crash because the memory is then read from
the file, and it survives an abandoned upload because the file is only left further behind. `CancelSeen`
is what `CancelKept` needs: when the bastion is about to remove a user state, it has written the
cancellation, and so has a job that goes by another one's name, because whoever got another job's jobspec is
being cancelled. `Apart` keeps the damage of a malformed jobspec within `mixed`: the entry of any other job has
its own name and a state object of its own, and no entry elsewhere writes under that name.
`bastion_malformed` checks `LifeCycle` by TLC too. `LifeImplemented` shows that every step of
the bastion, of a child, of a client or of a fault is a step of `JobLife` or a stutter; that a job only ends
without a command is where it needs `CommandStopped`. That a name is given back by a job that storage, too,
shows to be over needs `Processes` (below), and only holds where storage is `Reliable`.

The second half of the module relates a job's processes to what the bastion knows (the same generality; the
last three for `"update" \notin FaultKinds`, see section 3):

| theorem | states |
|---|---|
| `UnreadableKept` | `OrphanPatience` |
| `RunnersCurrent` | `RunnerCurrent` |
| `CleanupRunsAlone` | `CleanupAlone` |
| `SweptWhenIdle` | `SweepIdle` |

`Patience`: the bastion's count of missed downloads of a job it tracks is the real one, a job it does not track
has no process, and one that is over has no command. For the
other three, `Processes == Flushed /\ CleanupStage /\ Started /\ Unstarted`: what the bastion is done with is
in storage, a cleanup runs only in the stage of a job that has one, a command was started with what the
bastion holds unless a flag says that it has to be restarted, and a job without a verdict has no command.
Each of the three properties is one corner of it, and none is inductive without the rest, because the
condition that keeps a command and a cleanup apart is written in one cycle, goes to storage, and is read
back in the next.

**JobBatchProofs** (any number of listed jobs, any contents): `EveryOneItsOwn` states `OwnEntry`: a job's own
jobspec and state, or, for a malformed one, those that were read last before it. `StatusAsPromised` states
`StatusChosen`. The invariant of the loop (`Loop`) bounds what the
local variables of Python may hold after an exception: jobs before the current one are settled, up to a
malformed one listed after them, and those from the current one on are untouched.

**FTAgentsProofs** (any workers and grouping into replicas, any restarts and faults):

| theorem | states |
|---|---|
| `TypeCorrect` | `TypeOK`, and the bound of the requests in flight |
| `TrainersLeaveToo` | `NoOrphan` |
| `RequestsStayInTheirAttempt` | `FlagFresh` |
| `NoRestartWithoutCause` | `GenerationBacked` |

`Attempt` ties the program counter of an agent to its trainer, its process handle and its termination flag:
that a flag cannot survive into the next attempt needs all of it, and that it is there while a trainer runs
only when that trainer has survived a SIGKILL. `Backed` says of each restart count in
circulation, and of each that is asked for, that some agent has lost the attempt before it.

**FTHangProofs**: `CopiesOnlyLag` states `CopiesLag`; `NobodyFalselyAccused` states `NoFalseAlarm` for a
`Threshold` of at least two report intervals: an alarm has a hanging trainer or an unreachable replica
manager behind it. `Heard`: as long as the managers of the replicas can be reached, a replica that is known
at all is known through its own manager, whose record is from this interval or, until it has reported, from
the one before.

**SchedulerProofs** (any jobs, projects, users, resources, tiers and quotas):

| theorem | states |
|---|---|
| `NothingOverdrawn` | `TypeOK`, in which what is left of each tier and in all is a natural number |
| `AdmittedInFull` | `ChargedInFull` |
| `ParentsFirst` | `ParentFirst` |
| `SeniorsFirst` | `Seniority` |

`Books`: what is left in all is the sum of what the tiers have left. `Queued`: an item waits in one place
and has no verdict yet, so that nothing is charged twice. `Ahead`: when the forward pass leaves a tier, what
is missing is the demand less all that the tiers so far have, and no less than what is missing after `final`.
`Back`: when the backward pass comes to a tier, that tier and those above it still have what is missing. The
step from one to the other is the claim that starting at `final` is enough.

`Ordered` carries the sort through the call: the two queues of a project are in the order of the sort key
for each of its users, what is not sorted yet comes after what is, and what was demoted is in the rear
queue. `Considered`: an item without a verdict waits or is being admitted. Together (`ConsideredBefore`):
when an item is at the head of its queue, everything that is senior to it and not demoted behind it has a
verdict. From there, `ParentRuns` and `SeniorFirst` say of items in hand what `ParentFirst` and `Seniority`
say of admitted ones: the invariants must cover the steps between the decision to admit and the charge.
`SeniorFirst` also needs `Answers`: nothing is refused that would still fit. As what remains only shrinks, a
senior job that asks for no more and was refused earlier rules out the junior one now.

**SchedulerSharesProofs** (the same generality):

| theorem | states |
|---|---|
| `QuotasGuaranteed` | `QuotaGuaranteed` |
| `GrantsAreCharged` | `GrantsCharged` |
| `BooksBalance` | `Accounts`: charges, usage and what remains agree |
| `RefusedForCause` | `NothingWasted`: what is refused would not fit into what remains at the end |
| `CallGoesOn` | `GoesOn`: before the end exactly one item is sorted next, or exactly one project has the turn |
| `EveryStepCounts` | `Nearer`: every step makes a measure of the call smaller |

Both compare sums over sets of items and of projects. The sums are `SumFunction` of the community module
`Functions`, a fold over subsets in an order that `CHOOSE` fixes; the first part of the module derives from
that definition what is needed of them: a sum exists, does not depend on the order, follows the change of one
term, is monotone, and can be split by the classes of its indices. The induction over subsets is written
out (`EveryFiniteSet`, from the well-foundedness of `<` on the numbers), since the library's induction
theorems have an operator as parameter.

`Accounts`: a project has used what its items paid, and what all projects have used and what remains is the
total. `Guarded`, for a project that asks for no more of any resource than its share: nothing of it was
refused, and while one of its items waits no project is above its share, the item in hand included.
`TurnInShare` is the reason it is inductive: the project whose turn it is has the smallest usage ratio after
its next item, the modest project's own ratio is at most 1, so the other one's is, too, and that is to say
it stays in its share. `ShareRemains` turns this around: if nobody is above its share, the next item of a
modest project still fits. The comparison of ratios is by cross-multiplication, as in the model; `Huge`
stands for the ratio of a positive demand to a share of 0, and must not pass for a ratio of at most 1.
`GrantsAreCharged` needs `Finished` (no item is without a verdict at the end) and `Reported` (the result is
collapsed from the verdicts), and that an elastic job's granted replicas are its minimum plus its running
slots.

`RefusedForCause` follows from `Answers`, `Finished` and `Orphaned`: a slot that is turned down without being
measured is one of a refused job.

`CallGoesOn` is that the heap of projects has one least element and the sort key has no ties: `Before` and the
keys are strict total orders on finite sets (`LeastExists`), down to the job id. So a call cannot be stuck
where TLC would report a deadlock, which the run does not check because a call does end; and it depends
on its arguments alone. `EveryStepCounts` gives the variant of its loops. Together they say that
every call ends, except that the step from there to a liveness property needs `ENABLED`, which the
prover does not have.

**GKERunnerProofs** (any node pools, versions, topologies, tries, restarts and faults; for
`"unset" \notin Tiers`, because the bastion sets the tier of a job it has
admitted, except in a dry run of its scheduler):

| theorem | states |
|---|---|
| `TypeCorrect` | `TypeOK` |
| `OnlyForCause` | `ReplacedForCause` |
| `SubmittedOntoPools` | `StartsPlaced` |

`Caused`: the JobSet asks for the reservation exactly when it was submitted for tier 0, so the status check
and the builder agree. `Provisioned` is what the rounds have reached: node pools that were visited in a round
in which nothing was missing are gone, or run, and nothing but this process touches them.

**CheckpointerProofs** (any processes, steps, `keep_last_n`, `keep_every_n_steps`, runs, failed removals):

| theorem | states |
|---|---|
| `TypeCorrect` | `TypeOK` |
| `CommittedIsComplete` | `CommittedComplete` |
| `SaveNotCollected` | `InProgressKept` |
| `RestorePointKept` | `RestorePointAdvances` |
| `SpacingIsKept` | `SpacingKept` |

The invariant is `TypeOK /\ CommittedComplete /\ SaveOrder /\ GcOrder`. `SaveOrder`: what is being saved is
newer than everything committed, because a run starts from the newest committed step and the steps grow.
`GcOrder`: at every moment of a round, what is doomed is older than a committed checkpoint that stays.
Together they say why neither the newest checkpoint nor the one being written can be collected. That a
finite nonempty set of steps has a newest member (`NewestExists`) is derived from the well-foundedness of
strict inclusion on finite sets.

`SpacingIsKept` is about the recursive function that picks what `keep_every_n_steps` keeps. `SpacingExists`
constructs a set of steps that obeys the rule (a step is kept if it is far enough after every kept one before
it), one step number at a time; so the function that the definition chooses obeys it too (`SpacedRule`), and
a step that is given up has a kept one close before it. The step from the plan of a round to the property
then holds whatever is in the listing.

**Only model-checked:** the liveness properties (`CancelEnds`, `Settles`, `SilenceNoticed`, `Converges`),
since liveness under fairness is out of the prover's reach. Every safety and action property of a passing run
is stated by a theorem above; six of them have a hypothesis on the constants (`"update"`, `"unset"`, the
threshold of `NobodyFalselyAccused`), which the runs of their properties satisfy, too.

## 6. Where the code and its documentation disagree

Each of these is a run that TLC refutes; the finding in `PROJECT.json` quotes the line.

- `job_batch_malformed`: a malformed jobspec cancels the job that was listed before it, because the handler
  falls through with that job's variables. If it is listed first, the download raises. In `Bastion` the rest
  follows: the malformed job has no command of its own, so its update sets the shared state to CLEANING and
  writes it under the other job's name while that job's command still runs, and the assertion of the CLEANING
  branch may then end the bastion; with an unreadable state file in between, a third job's COMPLETED is
  overwritten, or its running command recorded as completed. These are the behaviours that `mixed` excepts.
- `ft_stale_kill`: a restart request is checked for staleness when it arrives and executed later; by then it
  kills the attempt that it should not touch.
- `gke_failed_retried`: a JobSet that has failed is deleted and submitted again when the bastion starts the
  runner for another tier or version, since the status check looks at tier and version first. The comment
  says that a failed job is not retried.

Others are definitions in the modules that TLC refutes when they are added to the run named, or were met
while the models were written; they have no run of their own.

- `CompleteCopied` (`BastionFaults.cfg`): a job that completes and is reported clean in the same cycle is
  deleted from `jobs/active/` without its copy in `jobs/complete/`.
- `ExitZeroCompleted` (`FTRestarts.cfg`): an agent that is told to restart in its last attempt exits with 0.
- `HangNoticed` (`FTHang.cfg`): a trainer without progress is not noticed as long as its agent reports.
- `ElasticTier` (`Scheduler.cfg`): an elastic job runs under the tier of its own item, though its slots were
  admitted in lower tiers.
- Without `BASTION_TIER` the status check takes a job for tier 0, while provisioner and builder take it for
  no tier: with `"unset"` among the tiers `StartsPlaced` does not hold. The bastion sets the variable for
  all that it admits; only the verdicts of a dry run carry no tier.
- When the reply to the creation of a JobSet is lost, the tries that follow are refused because it exists,
  and the inner `execute` deletes a healthy JobSet, although its docstring asks for idempotent commands
  (`job.py:64`).
- `NoOrphan` without its exceptions (`FTRestarts.cfg` with two faults or more): SIGTERM during the wait of
  `Popen.__exit__` ends the agent while a trainer runs that its controller has no handle on any more, or that
  survived SIGKILL.
- `Popen` of a job's cleanup command is not in a `try` as that of its command is: an `OSError` ends the bastion
  with all commands it runs.
- `EventQueueClient.publish` with `num_tries` tries `num_tries + 1` times.
- A crash between the two deletions of a collected job leaves a state file that the next job of that name
  inherits. The `updated` flag reaches storage although a comment says it is not persisted. A restart
  request between `Popen` and `set_process` is lost, and the repeated one is skipped as redundant. The
  collection race with `keep_last_n = 2` of section 3.

## 7. What is not modelled

About four lines out of five of the repository are numeric or configure numeric code: layers, attention,
kernels, losses, optimizers, audio, vision, experiments and their configurations. What makes them correct
are equations over real tensors, which TLC does not compute with, and they have no interleaving, failure or
protocol that a model of their control would show. The configuration system, the builders of Kubernetes
resources, the bundlers, the tools around launching and the CLI construct values or run one command after
another. The share of all lines that the map covers is therefore small and will stay so: the models cover
the control code.

Within the modelled parts:

- *bastion*: what its cleaners, replica manager, uploader and scheduler decide (each answers anything), two
  clients that submit one name at the same moment, the copies on the local disk.
- *scheduler*: topologies, the reporting scheduler, the quota file, and the replica manager's policy.
- *GKE runner*: the LeaderWorkerSet and Flink runners, clusters with their own auto-provisioner, the elastic
  provisioner, and what a JobSet consists of.
- *fault tolerance*: the lock of the process controller (a signal handler that takes it can block against
  its own thread, see the hazards) and straggler detection.
- *checkpointer*: save policies and their memory, restoring a given step, validation, and how arrays are cut
  and limited.
- *trainer loop, evaler, inputs*: one thread that calls the others in order. Of the trainer, what the
  checkpointer sees of it is part of `Checkpointer`.

`PROJECT.json` gives the reason for each component.

## 8. Plan

Done, in this order: `Bastion` with its proofs; `JobBatch`; `FTAgents` and `FTHang`; `Checkpointer` with its
proofs; `Scheduler`; `GKERunner`, with node pools, retries and events; `JobLife` and the refinement; the
proofs about `JobBatch`, `FTAgents`, `FTHang`, `Scheduler`, `GKERunner` and the runners of the bastion; the
proofs about the order, the shares and the accounts of `Scheduler` and the spacing of `Checkpointer`;
malformed jobspecs in `Bastion`; trainers that survive and pipes that stay open in `FTAgents`.

What would come next:

1. A composition of bastion, scheduler and quota: resources that are given away while a cancelled job still
   runs.
2. The lock of the process controller as a variable of `FTAgents`.
3. Save policies with the metrics they remember, in `Checkpointer`.
4. The LeaderWorkerSet runner beside the JobSet runner, with its status from a list of pods.
5. A theorem on two calls of the scheduler in a row: what a change of the quota may take from a job that runs.
