------------------------------ MODULE Bastion ------------------------------
(***************************************************************************)
(* The bastion of cloud/common/bastion.py: one process that polls a cloud   *)
(* storage directory, keeps a local copy of every job, asks a scheduler     *)
(* which jobs may run, drives each job through its life cycle and collects  *)
(* the completed ones; and the clients (BastionDirectory) that write to the *)
(* same directory without any lock.                                         *)
(*                                                                          *)
(* One action is one step between two accesses to remote storage, so that   *)
(* a crash or a client's write can fall between any two of them.            *)
(*                                                                          *)
(* Abstracted: the scheduler and the cleaner answer anything their          *)
(* interfaces allow; job metadata keeps the tier, the topology assignment   *)
(* and the "updated" flag; user states are CANCELLING (others are ignored   *)
(* by the code); logs, history and metrics are left out.                    *)
(*                                                                          *)
(* A jobspec that deserialize_jobspec rejects makes download_job_batch give *)
(* its job the jobspec and the JobState object of jobs listed before it, so *)
(* that jobs are not independent: two entries of the table may be updated   *)
(* through one object, and a job may write and delete what belongs to       *)
(* another.  The history variable `mixed` holds the jobs this happened to.  *)
(***************************************************************************)
EXTENDS Naturals, FiniteSets

CONSTANTS
  Jobs,              \* job names
  Rank,              \* the order in which storage lists them
  NoJob,             \* "no job is being updated"
  Versions,          \* values of spec.metadata.version
  NoVersion,         \* the environment of a command that does not exist
  Tiers, NoTier,     \* values of state.metadata["tier"], and its absence
  Topos, NoTopo,     \* values of "topology_assignment", and its absence
  CleanupJobs,       \* jobs whose spec has a cleanup_command
  OrphanThreshold,   \* _ORPHAN_MISSING_COUNT_THRESHOLD
  Calls,             \* the calls that clients make in this instance
  MaxSubmits,        \* bound: submissions per job name
  MaxPending,        \* bound: concurrent client calls
  FaultKinds,        \* the faults this instance allows
  MaxFaults          \* bound: faults per behaviour

ASSUME BastionAssumption ==
  /\ NoJob \notin Jobs
  /\ Rank \in [Jobs -> Nat] /\ \A i, j \in Jobs : Rank[i] = Rank[j] => i = j
  /\ NoVersion \notin Versions
  /\ NoTier \notin Tiers
  /\ NoTopo \notin Topos
  /\ CleanupJobs \subseteq Jobs
  /\ OrphanThreshold \in Nat \ {0}
  /\ Calls \subseteq {"submit", "cancel", "update"}
  /\ MaxSubmits \in Nat
  /\ MaxPending \in Nat
  /\ MaxFaults \in Nat

VARIABLES
  \* Cloud storage.
  spec,        \* jobs/active/: the jobspec of each job, or NoSpec
  state,       \* jobs/states/: the state of each job, or NoState
  ustate,      \* jobs/user_states/: the jobs with a CANCELLING user state
  complete,    \* jobs/complete/: the submission copied there for each job, or 0
  \* The bastion process.
  pc,          \* the next step of its loop
  listed,      \* names in jobs/active/ when it was last listed
  listedUser,  \* names in jobs/user_states/ when it was last listed
  userSeen,    \* _jobs_with_user_states
  batch,       \* what the last download returned for each job, until it is synced
  lspec,       \* _active_jobs[j].spec, or NoSpec when j is not tracked
  lname,       \* its name, which is j unless j's own jobspec was malformed
  lstate,      \* _active_jobs[j].state, or NoState
  peers,       \* the jobs whose state is the same JobState object, j among them
  cmd,         \* _active_jobs[j].command_proc
  env,         \* what the running command was told when it was started
  cleanup,     \* _active_jobs[j].cleanup_proc
  missing,     \* _job_missing_counts
  todo,        \* jobs that _sync_jobs, or the update loop, has not reached yet
  cur,         \* the job whose state is being flushed, or NoJob
  delSpec,     \* completed jobs whose jobspec is still to be deleted
  delState,    \* ... whose jobspec is deleted and whose state is not
  \* The environment.
  invalid,     \* jobs that fail validation (their owner lost project membership)
  pending,     \* client calls that passed their check and have not written yet
  submits,     \* submissions made so far for each name
  faults,      \* faults so far
  absent,      \* history: consecutive downloads that returned no such job
  mixed        \* history: jobs that shared a jobspec or a state with another one

remote == <<spec, state, ustate, complete>>
tables == <<lspec, lname, lstate, peers, missing>>
procs  == <<cmd, env, cleanup>>
loop   == <<pc, listed, listedUser, userSeen, batch, todo, cur, delSpec, delState>>
world  == <<invalid, pending, submits, faults, absent, mixed>>
vars   == <<remote, tables, procs, loop, world>>

Statuses == {"PENDING", "ACTIVE", "CANCELLING", "CLEANING", "COMPLETED"}
Live     == {"running", "terminating"}

NoSpec  == [inc |-> 0, ver |-> NoVersion, ok |-> FALSE]
NoState == [status |-> "NONE", tier |-> NoTier, topo |-> NoTopo, updated |-> FALSE]
NoEnv   == [ver |-> NoVersion, tier |-> NoTier, topo |-> NoTopo]
NoEntry == [spec |-> NoSpec, name |-> NoJob, state |-> NoState]

Active   == {j \in Jobs : lspec[j] # NoSpec}
Env(j)   == [ver |-> lspec[j].ver, tier |-> lstate[j].tier, topo |-> lstate[j].topo]
Verdicts == [run : BOOLEAN, tier : Tiers \cup {NoTier}, topo : Topos \cup {NoTopo}]

Init ==
  /\ spec = [j \in Jobs |-> NoSpec]
  /\ state = [j \in Jobs |-> NoState]
  /\ ustate = {}
  /\ complete = [j \in Jobs |-> 0]
  /\ pc = "list"
  /\ listed = {} /\ listedUser = {} /\ userSeen = {}
  /\ batch = [j \in Jobs |-> NoEntry]
  /\ lspec = [j \in Jobs |-> NoSpec]
  /\ lname = [j \in Jobs |-> j]
  /\ lstate = [j \in Jobs |-> NoState]
  /\ peers = [j \in Jobs |-> {j}]
  /\ cmd = [j \in Jobs |-> "none"]
  /\ env = [j \in Jobs |-> NoEnv]
  /\ cleanup = [j \in Jobs |-> "none"]
  /\ missing = [j \in Jobs |-> 0]
  /\ todo = {} /\ cur = NoJob
  /\ delSpec = {} /\ delState = {}
  /\ invalid = {} /\ pending = {}
  /\ submits = [j \in Jobs |-> 0]
  /\ faults = 0
  /\ absent = [j \in Jobs |-> 0]
  /\ mixed = {}

Fault(kind) == kind \in FaultKinds /\ faults < MaxFaults /\ faults' = faults + 1

\* An exception leaves the loop, or the process is pre-empted: the children die with
\* it, and the next bastion starts from nothing.
Ends ==
  /\ pc' = "list"
  /\ listed' = {} /\ listedUser' = {} /\ userSeen' = {}
  /\ batch' = [j \in Jobs |-> NoEntry]
  /\ lspec' = [j \in Jobs |-> NoSpec]
  /\ lname' = [j \in Jobs |-> j]
  /\ lstate' = [j \in Jobs |-> NoState]
  /\ peers' = [j \in Jobs |-> {j}]
  /\ cmd' = [j \in Jobs |-> "none"]
  /\ env' = [j \in Jobs |-> NoEnv]
  /\ cleanup' = [j \in Jobs |-> "none"]
  /\ missing' = [j \in Jobs |-> 0]
  /\ absent' = [j \in Jobs |-> 0]
  /\ todo' = {} /\ cur' = NoJob /\ delSpec' = {} /\ delState' = {}
  /\ UNCHANGED <<remote, invalid, pending, submits, mixed>>

----------------------------------------------------------------------------
(* _sync_jobs: list, download, reconcile. *)

SyncList ==
  /\ pc = "list"
  /\ listed' = {j \in Jobs : spec[j] # NoSpec}
  /\ listedUser' = ustate
  /\ pc' = "download"
  /\ UNCHANGED <<remote, tables, procs, world, userSeen, batch, todo, cur, delSpec, delState>>

\* Mutant: a missing state file is not read as PENDING.
NoDefaultState(s) == s

\* A missing state file reads as PENDING with no metadata.
DownloadJobState(s) ==
  IF s = NoState
  THEN [status |-> "PENDING", tier |-> NoTier, topo |-> NoTopo, updated |-> FALSE] ELSE s

\* Where reading the files of a listed job fails, with anything but a ValidationError.
Failures == {"none", "spec", "state", "user"}

\* The jobs that the loop over the listed ones binds its variables `spec`, `state` and
\* `user_state` to, when reading fails as `fails` says, and those it cannot deserialize.
SpecRead(fails)  == {j \in listed : spec[j].ok /\ fails[j] # "spec"}
StateRead(fails) == {j \in SpecRead(fails) : fails[j] # "state"}
AllRead(fails)   == {j \in StateRead(fails) : fails[j] # "user"}
Malformed(fails) == {j \in listed : ~spec[j].ok /\ fails[j] # "spec"}

\* The last of the jobs js that is listed before j.
Before(js, j) == {i \in js : Rank[i] < Rank[j]}
Last(js, j)   == CHOOSE i \in Before(js, j) : \A h \in Before(js, j) : Rank[h] <= Rank[i]

\* The job whose jobspec, state and user state j is given: its own, unless it is
\* malformed, for the handler of ValidationError falls through.
SpecOf(fails, j)  == IF spec[j].ok THEN j ELSE Last(SpecRead(fails), j)
StateOf(fails, j) == IF spec[j].ok THEN j ELSE Last(StateRead(fails), j)
UserOf(fails, j)  == IF spec[j].ok THEN j ELSE Last(AllRead(fails), j)

\* Mutant: the handler of ValidationError does not cancel the job at hand.
StruckByUser(fails) == AllRead(fails) \cap (listedUser \cup invalid)

\* The jobs whose JobState object is to be cancelled: by their user or their own
\* validation, or because a malformed job was given it.
Struck(fails) ==
  (AllRead(fails) \cap (listedUser \cup invalid)) \cup {StateOf(fails, j) : j \in Malformed(fails)}

\* Mutant: a user state cancels a job that is being cleaned, or is over.
CancelAlways(fails, j) ==
  LET s == DownloadJobState(state[j])
  IN  IF j \in Struck(fails) THEN [s EXCEPT !.status = "CANCELLING"] ELSE s

\* Mutant: a user state cancels only a job that is queued.
CancelQueuedOnly(fails, j) ==
  LET s == DownloadJobState(state[j])
  IN  IF s.status = "PENDING" /\ j \in Struck(fails) THEN [s EXCEPT !.status = "CANCELLING"] ELSE s

\* The JobState object that the loop makes of the state file of j.
DownloadedState(fails, j) ==
  LET s == DownloadJobState(state[j])
  IN  IF s.status \in {"CLEANING", "COMPLETED"} \/ j \notin Struck(fails)
      THEN s
      ELSE [s EXCEPT !.status = "CANCELLING"]

\* The history counts no further than the threshold.
Another(n) == IF n < OrphanThreshold THEN n + 1 ELSE n

\* download_job_batch. A malformed job before which no job was read in full raises
\* UnboundLocalError.
SyncDownload(fails) ==
  LET got == AllRead(fails) \cup Malformed(fails)
  IN  /\ pc = "download"
      /\ IF \A j \in listed : fails[j] = "none" THEN UNCHANGED faults ELSE Fault("lost")
      /\ \/ (\E j \in Malformed(fails) : Before(AllRead(fails), j) = {}) /\ Ends
         \/ /\ \A j \in Malformed(fails) : Before(AllRead(fails), j) # {}
            /\ batch' = [j \in Jobs |->
                 IF j \in got
                 THEN [spec |-> spec[SpecOf(fails, j)], name |-> SpecOf(fails, j),
                       state |-> DownloadedState(fails, StateOf(fails, j))]
                 ELSE NoEntry]
            /\ peers' = [j \in Jobs |->
                 IF j \in got THEN {i \in got : StateOf(fails, i) = StateOf(fails, j)}
                 ELSE peers[j] \ got]
            /\ userSeen' = {j \in got : UserOf(fails, j) \in listedUser}
            /\ mixed' = mixed \cup UNION {{j, SpecOf(fails, j), StateOf(fails, j)} :
                                           j \in Malformed(fails)}
            /\ absent' = [j \in Jobs |-> IF j \in Active \ got THEN Another(absent[j]) ELSE 0]
            /\ todo' = got \cup Active
            /\ listed' = {} /\ listedUser' = {}
            /\ pc' = IF todo' = {} THEN "schedule" ELSE "sync"
            /\ UNCHANGED <<remote, lspec, lname, lstate, missing, procs, cur, delSpec, delState,
                           invalid, pending, submits>>

\* _sync_jobs reaches job j; the names come from a set, in any order.
Sync(j) ==
  /\ pc = "sync" /\ j \in todo
  /\ todo' = todo \ {j}
  /\ pc' = IF todo = {j} THEN "schedule" ELSE "sync"
  /\ batch' = IF todo = {j} THEN [i \in Jobs |-> NoEntry] ELSE batch
  /\ UNCHANGED <<remote, world, peers, listed, listedUser, userSeen, cur, delSpec, delState>>

\* The table gets the downloaded entry of j, with state s.
Enter(j, s) ==
  /\ lspec' = [lspec EXCEPT ![j] = batch[j].spec]
  /\ lname' = [lname EXCEPT ![j] = batch[j].name]
  /\ lstate' = [lstate EXCEPT ![j] = s]
  /\ UNCHANGED procs

SyncNew(j) ==
  /\ Sync(j) /\ j \notin Active /\ batch[j] # NoEntry
  /\ Enter(j, batch[j].state)
  /\ UNCHANGED missing

\* A tracked job whose remote version differs is flagged "updated". (So is a job that
\* shares the object; it is being cancelled, and nobody reads the flag.)
SyncedState(j) ==
  [batch[j].state EXCEPT !.updated = @ \/ batch[j].spec.ver # lspec[j].ver]

\* Mutant: a job that is back keeps its count.
MissingNotReset(j) == missing

\* _job_missing_counts of a job that is back.
MissingReset(j) == [missing EXCEPT ![j] = 0]

SyncUpdated(j) ==
  /\ Sync(j) /\ j \in Active /\ batch[j] # NoEntry
  /\ Enter(j, SyncedState(j))
  /\ missing' = MissingReset(j)

\* A tracked job that the download did not return is removed when it is over, or has
\* been missing too often.
ToRemove(j) ==
  /\ j \in Active /\ batch[j] = NoEntry
  /\ lstate[j].status = "COMPLETED" \/ missing[j] + 1 >= OrphanThreshold

SyncMissing(j) ==
  /\ Sync(j) /\ j \in Active /\ batch[j] = NoEntry /\ ~ToRemove(j)
  /\ missing' = [missing EXCEPT ![j] = @ + 1]
  /\ UNCHANGED <<lspec, lname, lstate, procs>>

\* _remove_local_job kills the processes of j and deletes the entry under its jobspec's
\* name. If that is another job's, the processes of that job are lost sight of.
SyncRemoved(j) ==
  LET n == lname[j]
  IN  /\ Sync(j) /\ ToRemove(j) /\ n \in Active
      /\ lspec' = [lspec EXCEPT ![n] = NoSpec]
      /\ lname' = [lname EXCEPT ![n] = n]
      /\ lstate' = [lstate EXCEPT ![n] = NoState]
      /\ missing' = [missing EXCEPT ![j] = 0]
      /\ cmd' = [cmd EXCEPT ![j] = "none", ![n] = "none"]
      /\ env' = [env EXCEPT ![j] = NoEnv, ![n] = NoEnv]
      /\ cleanup' = [cleanup EXCEPT ![j] = "none", ![n] = "none"]

\* KeyError: the entry to delete, or the one that was deleted on behalf of another job
\* and was not downloaded, is not there.
SyncBreaks(j) ==
  /\ pc = "sync" /\ j \in todo
  /\ \/ ToRemove(j) /\ lname[j] \notin Active
     \/ j \notin Active /\ batch[j] = NoEntry
  /\ Ends /\ UNCHANGED faults

SyncJob(j) ==
  SyncNew(j) \/ SyncUpdated(j) \/ SyncMissing(j) \/ SyncRemoved(j) \/ SyncBreaks(j)

----------------------------------------------------------------------------
(* _update_jobs: apply the verdicts, then update the jobs one by one. *)

Schedulable == {j \in Active : lstate[j].status \in {"PENDING", "ACTIVE"}}

\* Mutant: the runner of a job whose topology changed is left alone.
NoRestart(j, v) == FALSE

\* The topology alone changed: the runner is restarted in place.
RestartInPlace(j, v) ==
  /\ v.run /\ ~lstate[j].updated
  /\ lstate[j].status = "ACTIVE"
  /\ v.tier = lstate[j].tier /\ v.topo # lstate[j].topo

ScheduledStatus(j, v) ==
  IF v.run
  THEN IF /\ ~lstate[j].updated
          /\ lstate[j].status = "PENDING" \/ v.tier = lstate[j].tier
       THEN "ACTIVE" ELSE "PENDING"
  ELSE IF cmd[j] = "exited" THEN "ACTIVE" ELSE "PENDING"

\* The metadata is the verdict's; a job left queued keeps no tier or topology.
ScheduledState(j, v) ==
  LET keep == v.run \/ cmd[j] = "exited"
  IN  [status  |-> ScheduledStatus(j, v),
       tier    |-> IF keep THEN v.tier ELSE NoTier,
       topo    |-> IF keep THEN v.topo ELSE NoTopo,
       updated |-> FALSE]

Schedule ==
  /\ pc = "schedule"
  /\ \E verdict \in [Schedulable -> Verdicts] :
       LET restart == {j \in Schedulable : RestartInPlace(j, verdict[j])}
       IN  /\ lstate' = [j \in Jobs |-> IF j \in Schedulable
                                        THEN ScheduledState(j, verdict[j]) ELSE lstate[j]]
           /\ cmd' = [j \in Jobs |-> IF j \in restart THEN "none" ELSE cmd[j]]
           /\ env' = [j \in Jobs |-> IF j \in restart THEN NoEnv ELSE env[j]]
  /\ todo' = Active
  /\ pc' = "update"
  /\ UNCHANGED <<remote, lspec, lname, peers, missing, cleanup, world, listed, listedUser,
                 userSeen, batch, cur, delSpec, delState>>

\* _update_single_job reaches job j, whose local status is s; a flush follows.
Reach(j, s) ==
  /\ pc = "update" /\ j \in todo /\ lstate[j].status = s
  /\ pc' = "upload" /\ cur' = j /\ todo' = todo \ {j}
  /\ UNCHANGED <<lspec, lname, peers, missing, listed, listedUser, userSeen, batch, delSpec,
                 delState, world>>

\* Mutant: all jobs refer to one JobState object.
SetEveryStatus(j, s) ==
  lstate' = [i \in Jobs |-> IF i \in Active THEN [lstate[i] EXCEPT !.status = s] ELSE lstate[i]]

\* All jobs that refer to the JobState object of j see its new status.
SetStatus(j, s) ==
  lstate' = [i \in Jobs |-> IF i \in peers[j] \cap Active THEN [lstate[i] EXCEPT !.status = s]
                            ELSE lstate[i]]
SetCmd(j, c, e) == cmd' = [cmd EXCEPT ![j] = c] /\ env' = [env EXCEPT ![j] = e]

\* Mutant: a pre-empted command is not killed.
PreemptLater(j) == Reach(j, "PENDING") /\ UNCHANGED <<remote, lstate, procs>>

UpdatePending(j) ==
  /\ Reach(j, "PENDING")
  /\ SetCmd(j, "none", NoEnv)
  /\ UNCHANGED <<remote, lstate, cleanup>>

\* Start the command; it may fail to start, or exit before it is polled.
StartCommand(j) ==
  /\ Reach(j, "ACTIVE") /\ cmd[j] = "none"
  /\ \/ SetCmd(j, "running", Env(j)) /\ UNCHANGED lstate
     \/ SetCmd(j, "exited", Env(j)) /\ SetStatus(j, "CLEANING")
     \/ UNCHANGED <<cmd, env>> /\ SetStatus(j, "CLEANING")
  /\ UNCHANGED <<remote, cleanup>>

\* The command is there already: poll it.
PollCommand(j) ==
  /\ Reach(j, "ACTIVE") /\ cmd[j] # "none"
  /\ IF cmd[j] = "exited" THEN SetStatus(j, "CLEANING") ELSE UNCHANGED lstate
  /\ UNCHANGED <<remote, procs>>

\* Mutant: SIGTERM is taken for the end of the command.
CancelAtOnce(j) ==
  /\ Reach(j, "CANCELLING")
  /\ cmd' = [cmd EXCEPT ![j] = IF @ \in Live THEN "terminating" ELSE @]
  /\ SetStatus(j, "CLEANING")
  /\ UNCHANGED <<remote, env, cleanup>>

\* Mutant: a cancelled job without a command waits for one to exit.
CancelWaits(j) ==
  /\ Reach(j, "CANCELLING")
  /\ cmd' = [cmd EXCEPT ![j] = IF @ \in Live THEN "terminating" ELSE @]
  /\ IF cmd[j] = "exited" THEN SetStatus(j, "CLEANING") ELSE UNCHANGED lstate
  /\ UNCHANGED <<remote, env, cleanup>>

UpdateCancelling(j) ==
  /\ Reach(j, "CANCELLING")
  /\ IF cmd[j] \in Live
     THEN cmd' = [cmd EXCEPT ![j] = "terminating"] /\ UNCHANGED lstate
     ELSE SetStatus(j, "CLEANING") /\ UNCHANGED cmd
  /\ UNCHANGED <<remote, env, cleanup>>

\* The cleanup command may end before it is polled.
UpdateCleaning(j) ==
  /\ Reach(j, "CLEANING")
  /\ cmd[j] \notin Live
  /\ SetCmd(j, "none", NoEnv)
  /\ \/ /\ \/ cleanup[j] = "running"
           \/ cleanup[j] = "none" /\ lname[j] \in CleanupJobs
        /\ cleanup' = [cleanup EXCEPT ![j] = "running"]
        /\ UNCHANGED lstate
     \/ /\ cleanup[j] # "running"
        /\ cleanup' = [cleanup EXCEPT ![j] = "none"]
        /\ SetStatus(j, "COMPLETED")
  /\ UNCHANGED remote

\* The assertion that the command is gone fails, or the Popen of the cleanup command
\* does; neither exception is caught.
CleaningBreaks(j) ==
  /\ pc = "update" /\ j \in todo /\ lstate[j].status = "CLEANING"
  /\ \/ cmd[j] \in Live /\ UNCHANGED faults
     \/ cmd[j] \notin Live /\ cleanup[j] = "none" /\ lname[j] \in CleanupJobs /\ Fault("popen")
  /\ Ends

\* The jobspec is copied to jobs/complete/.
UpdateCompleted(j) ==
  /\ Reach(j, "COMPLETED")
  /\ complete' = [complete EXCEPT ![lname[j]] = lspec[j].inc]
  /\ UNCHANGED <<spec, state, ustate, lstate, procs>>

UpdateSingleJob(j) ==
  \/ UpdatePending(j) \/ StartCommand(j) \/ PollCommand(j)
  \/ UpdateCancelling(j) \/ UpdateCleaning(j) \/ UpdateCompleted(j)

\* Mutant: the state is not flushed while the cleanup command runs.
UploadUnlessCleaning ==
  /\ pc = "upload"
  /\ state' = IF lstate[cur].status = "CLEANING" THEN state
              ELSE [state EXCEPT ![lname[cur]] = lstate[cur]]
  /\ pc' = IF lname[cur] \in userSeen THEN "user_state" ELSE "update"
  /\ cur' = IF lname[cur] \in userSeen THEN cur ELSE NoJob
  /\ UNCHANGED <<spec, ustate, complete, tables, procs, world, listed, listedUser, userSeen,
                 batch, todo, delSpec, delState>>

\* The state goes to the file under the name of the jobspec.
UploadJobState ==
  /\ pc = "upload"
  /\ state' = [state EXCEPT ![lname[cur]] = lstate[cur]]
  /\ pc' = IF lname[cur] \in userSeen THEN "user_state" ELSE "update"
  /\ cur' = IF lname[cur] \in userSeen THEN cur ELSE NoJob
  /\ UNCHANGED <<spec, ustate, complete, tables, procs, world, listed, listedUser, userSeen,
                 batch, todo, delSpec, delState>>

\* A RuntimeError from the update of one job is logged and the loop goes on.
UpdateJobFails ==
  /\ pc = "upload" /\ Fault("update")
  /\ pc' = "update" /\ cur' = NoJob
  /\ UNCHANGED <<remote, tables, procs, listed, listedUser, userSeen, batch, todo, delSpec,
                 delState, invalid, pending, submits, absent, mixed>>

RemoveUserState ==
  /\ pc = "user_state"
  /\ ustate' = ustate \ {lname[cur]}
  /\ pc' = "update" /\ cur' = NoJob
  /\ UNCHANGED <<spec, state, complete, tables, procs, world, listed, listedUser, userSeen,
                 batch, todo, delSpec, delState>>

UpdateDone ==
  /\ pc = "update" /\ todo = {}
  /\ pc' = "gc" /\ userSeen' = {}
  /\ UNCHANGED <<remote, tables, procs, world, listed, listedUser, batch, todo, cur, delSpec,
                 delState>>

----------------------------------------------------------------------------
(* _gc_jobs: ask the cleaner, then delete the completed jobs it cleaned. *)

IdleJobs ==
  {j \in Active : \/ lstate[j].status = "COMPLETED"
                  \/ lstate[j].status = "PENDING" /\ lstate[j].tier = NoTier}

Sweep(cleaned) ==
  /\ pc = "gc"
  /\ delSpec' = {j \in cleaned : lstate[j].status = "COMPLETED"}
  /\ pc' = "delete"
  /\ UNCHANGED <<remote, tables, procs, world, listed, listedUser, userSeen, batch, todo, cur,
                 delState>>

DeleteJobspec(j) ==
  /\ j \in delSpec
  /\ spec' = [spec EXCEPT ![j] = NoSpec]
  /\ delSpec' = delSpec \ {j} /\ delState' = delState \cup {j}
  /\ UNCHANGED <<state, ustate, complete, tables, procs, world, pc, listed, listedUser,
                 userSeen, batch, todo, cur>>

DeleteState(j) ==
  /\ j \in delState
  /\ state' = [state EXCEPT ![j] = NoState]
  /\ delState' = delState \ {j}
  /\ UNCHANGED <<spec, ustate, complete, tables, procs, world, pc, listed, listedUser,
                 userSeen, batch, todo, cur, delSpec>>

\* An exception in a deletion thread ends that thread; nobody reads its result.
DeleteFails(j) ==
  /\ j \in delSpec \cup delState /\ Fault("delete")
  /\ delSpec' = delSpec \ {j} /\ delState' = delState \ {j}
  /\ UNCHANGED <<remote, tables, procs, pc, listed, listedUser, userSeen, batch, todo, cur,
                 invalid, pending, submits, absent, mixed>>

GcDone ==
  /\ pc = "delete" /\ delSpec = {} /\ delState = {}
  /\ pc' = "list"
  /\ UNCHANGED <<remote, tables, procs, world, listed, listedUser, userSeen, batch, todo, cur,
                 delSpec, delState>>

----------------------------------------------------------------------------
(* The bastion is pre-empted, or storage raises an exception that nobody catches. *)

Crash == Fault("crash") /\ Ends

(* Child processes end; a user's project membership changes. *)

CommandExits(j) ==
  /\ cmd[j] \in Live
  /\ cmd' = [cmd EXCEPT ![j] = "exited"]
  /\ UNCHANGED <<remote, tables, env, cleanup, loop, world>>

CleanupExits(j) ==
  /\ cleanup[j] = "running"
  /\ cleanup' = [cleanup EXCEPT ![j] = "exited"]
  /\ UNCHANGED <<remote, tables, cmd, env, loop, world>>

MembershipChanges(j) ==
  /\ Fault("membership")
  /\ invalid' = IF j \in invalid THEN invalid \ {j} ELSE invalid \cup {j}
  /\ UNCHANGED <<remote, tables, procs, loop, pending, submits, absent, mixed>>

----------------------------------------------------------------------------
(* BastionDirectory: each call checks that the jobspec exists, then writes. *)

Check(op, j) ==
  /\ Cardinality(pending) < MaxPending /\ <<op, j>> \notin pending
  /\ IF op = "submit" THEN spec[j] = NoSpec /\ submits[j] < MaxSubmits ELSE spec[j] # NoSpec
  /\ pending' = pending \cup {<<op, j>>}
  /\ UNCHANGED <<remote, tables, procs, loop, invalid, submits, faults, absent, mixed>>

Finish(op, j) ==
  /\ <<op, j>> \in pending
  /\ pending' = pending \ {<<op, j>>}
  /\ UNCHANGED <<state, complete, tables, procs, loop, invalid, absent, mixed>>

\* A jobspec appears, which this bastion may not be able to deserialize: submit_job
\* copies any file, and either call may come from a newer version of the tools.
WriteJobspec(j, n) ==
  \E v \in Versions, ok \in BOOLEAN :
    /\ spec' = [spec EXCEPT ![j] = [inc |-> n, ver |-> v, ok |-> ok]]
    /\ IF ok THEN UNCHANGED faults ELSE Fault("malformed")

\* The copy does not overwrite: it fails when the jobspec exists by now.
WriteSubmit(j) ==
  /\ Finish("submit", j)
  /\ UNCHANGED ustate
  /\ IF spec[j] = NoSpec
     THEN submits' = [submits EXCEPT ![j] = @ + 1] /\ WriteJobspec(j, submits[j] + 1)
     ELSE UNCHANGED <<spec, submits, faults>>

WriteCancel(j) ==
  /\ Finish("cancel", j)
  /\ ustate' = ustate \cup {j}
  /\ UNCHANGED <<spec, submits, faults>>

\* The copy overwrites, and so creates the jobspec again if it is gone by now.
WriteUpdate(j) ==
  /\ Finish("update", j)
  /\ WriteJobspec(j, submits[j])
  /\ UNCHANGED <<ustate, submits>>

----------------------------------------------------------------------------
BastionStep ==
  \/ SyncList
  \/ \E fails \in [listed -> Failures] : SyncDownload(fails)
  \/ \E j \in Jobs : SyncJob(j)
  \/ Schedule
  \/ \E j \in Jobs : UpdateSingleJob(j) \/ CleaningBreaks(j)
  \/ UploadJobState \/ RemoveUserState \/ UpdateDone
  \/ \E cleaned \in SUBSET IdleJobs : Sweep(cleaned)
  \/ \E j \in Jobs : DeleteJobspec(j) \/ DeleteState(j)
  \/ GcDone

FaultStep == UpdateJobFails \/ Crash \/ \E j \in Jobs : DeleteFails(j) \/ MembershipChanges(j)

ProcStep == \E j \in Jobs : CommandExits(j) \/ CleanupExits(j)

ClientStep ==
  \E j \in Jobs : \/ \E op \in Calls : Check(op, j)
                  \/ WriteSubmit(j) \/ WriteCancel(j) \/ WriteUpdate(j)

Next == BastionStep \/ FaultStep \/ ProcStep \/ ClientStep

Spec == Init /\ [][Next]_vars

(* The bastion's loop never stops; a command that got SIGTERM and a cleanup
   command exit; a cleaner asked again and again reports a completed job in the
   end. A command that was not told to stop, and a client, promise nothing. *)
Fairness ==
  /\ WF_vars(BastionStep)
  /\ \A j \in Jobs :
       /\ WF_vars(cmd[j] = "terminating" /\ CommandExits(j))
       /\ WF_vars(CleanupExits(j))
       /\ SF_vars(\E cleaned \in SUBSET IdleJobs : j \in cleaned /\ Sweep(cleaned))

FairSpec == Spec /\ Fairness
----------------------------------------------------------------------------
(* Properties. *)

States == [status : Statuses, tier : Tiers \cup {NoTier}, topo : Topos \cup {NoTopo},
           updated : BOOLEAN]
Specs  == [inc : 1..MaxSubmits, ver : Versions, ok : BOOLEAN]
Envs   == [ver : Versions, tier : Tiers \cup {NoTier}, topo : Topos \cup {NoTopo}]
Steps  == {"list", "download", "sync", "schedule", "update", "upload", "user_state", "gc", "delete"}

\* The type of every variable; a job is tracked with a spec and a state or not at
\* all, and has processes only while it is tracked.
TypeOK ==
  /\ spec \in [Jobs -> Specs \cup {NoSpec}]
  /\ state \in [Jobs -> States \cup {NoState}]
  /\ ustate \subseteq Jobs
  /\ complete \in [Jobs -> 0..MaxSubmits]
  /\ pc \in Steps
  /\ listed \subseteq Jobs /\ listedUser \subseteq Jobs /\ userSeen \subseteq Jobs
  /\ batch \in [Jobs -> [spec : Specs, name : Jobs, state : States] \cup {NoEntry}]
  /\ lspec \in [Jobs -> Specs \cup {NoSpec}]
  /\ lname \in [Jobs -> Jobs]
  /\ lstate \in [Jobs -> States \cup {NoState}]
  /\ peers \in [Jobs -> SUBSET Jobs]
  /\ cmd \in [Jobs -> Live \cup {"none", "exited"}]
  /\ env \in [Jobs -> Envs \cup {NoEnv}]
  /\ cleanup \in [Jobs -> {"none", "running", "exited"}]
  /\ missing \in [Jobs -> Nat] /\ absent \in [Jobs -> 0..OrphanThreshold]
  /\ todo \subseteq Jobs /\ cur \in Jobs \cup {NoJob}
  /\ delSpec \subseteq Jobs /\ delState \subseteq Jobs
  /\ invalid \subseteq Jobs /\ pending \subseteq Calls \X Jobs
  /\ submits \in [Jobs -> 0..MaxSubmits] /\ faults \in 0..MaxFaults
  /\ mixed \subseteq Jobs
  /\ \A j \in Jobs : (lspec[j] = NoSpec) <=> (lstate[j] = NoState)

Ended == {"CLEANING", "COMPLETED"}
Stopping == {"CANCELLING"} \cup Ended

\* What each phase of the loop may take for granted: files to be deleted are only
\* known in the deletion phase, and a jobspec that was listed is still there when it
\* is read, for nobody but the bastion deletes jobspecs; a client that writes passed
\* its check.
Phases ==
  /\ delSpec \cup delState # {} => pc = "delete"
  /\ pc = "download" => \A j \in listed : spec[j] # NoSpec
  /\ pc # "sync" => \A j \in Jobs : batch[j] = NoEntry
  /\ pc \in {"upload", "user_state"} => cur \in Jobs /\ lspec[cur] # NoSpec
  /\ \A j \in Jobs : <<"submit", j>> \in pending => submits[j] < MaxSubmits
  /\ \A j \in Jobs : spec[j] # NoSpec \/ <<"update", j>> \in pending => submits[j] > 0

\* The assertion of _update_single_job's CLEANING branch, and more: once a job is
\* CLEANING or COMPLETED, in the bastion's memory or in storage, its command does
\* not run. This must survive crashes, unreadable files, failed updates and
\* resubmissions. (A malformed jobspec breaks it for the jobs it is mixed up with;
\* that it breaks it for no other job is part of the property.)
CommandStopped ==
  \A j \in Jobs \ mixed :
    cmd[j] \in Live => lstate[j].status \notin Ended /\ state[j].status \notin Ended

\* A command and its job's cleanup command never run together, though the state that
\* separates them goes through storage and back between two cycles. (Only where the
\* update of a job cannot be abandoned after its transition: see UpdateJobFails.)
CleanupAlone == \A j \in Jobs \ mixed : cmd[j] \in Live => cleanup[j] # "running"

\* The bastion's memory of a job is never behind what storage says of it.
NotBehind ==
  \A j \in Jobs \ mixed : lstate[j] # NoState =>
    /\ state[j].status = "CANCELLING" => lstate[j].status \in Stopping
    /\ state[j].status = "CLEANING"   => lstate[j].status \in Ended
    /\ state[j].status = "COMPLETED"  => lstate[j].status = "COMPLETED"

\* A job whose user state was seen is being cancelled, or over, and so is a job that
\* got another one's jobspec; when a user state is about to be removed, storage says
\* that its job is cancelled too.
CancelSeen ==
  /\ pc # "sync" => \A j \in userSeen \cap Active : lstate[j].status \in Stopping
  /\ \A j \in Active : lname[j] # j => lstate[j].status \in Stopping
  /\ pc = "user_state" => lname[cur] \in userSeen /\ state[lname[cur]] = lstate[cur]

\* The inductive invariant behind CommandStopped, NoWayBack and CancelKept.
LifeCycle == NotBehind /\ CommandStopped /\ CancelSeen

\* The jobs the update loop is done with in this cycle.
Updated == IF pc \in {"gc", "delete", "list", "download"} THEN Active
           ELSE IF pc \in {"update", "upload", "user_state"} THEN Active \ todo
           ELSE IF pc = "sync" THEN Active \cap todo
           ELSE {}

\* A command reads its version, tier and topology from its environment, once, when
\* it starts. After the update step the command of an ACTIVE job is one that was
\* started with the jobspec and the assignment the bastion has now: the changes
\* that require a restart all led to one.
RunnerCurrent ==
  \A j \in Updated \ mixed :
    lstate[j].status = "ACTIVE" /\ cmd[j] = "running" => env[j] = Env(j)

\* The cleaner is only asked about jobs none of whose processes is left.
SweepIdle ==
  pc = "gc" => \A j \in IdleJobs \ mixed : cmd[j] \notin Live /\ cleanup[j] # "running"

\* What storage says of a job never goes back: not from CLEANING to anything but
\* COMPLETED, and not from COMPLETED except by deletion; a CANCELLING job is never
\* scheduled again.
NoWayBack ==
  [][\A j \in Jobs \ mixed :
       /\ state[j].status = "CANCELLING" => state'[j].status \in Stopping \cup {"NONE"}
       /\ state[j].status = "CLEANING"   => state'[j].status \in Ended \cup {"NONE"}
       /\ state[j].status = "COMPLETED"  => state'[j].status \in {"COMPLETED", "NONE"}]_vars

\* A cancellation is not lost: the bastion removes a user state only once storage
\* says that the job is cancelling, or further. (This holds of every job, malformed
\* ones and those mixed up with them too.)
CancelKept == [][\A j \in ustate \ ustate' : state[j].status \in Stopping]_vars

\* Files that cannot be read for a while do not kill a running command: a sync
\* stops tracking a job only after OrphanThreshold consecutive downloads without it.
OrphanPatience ==
  [][\A j \in Jobs \ mixed :
       pc = "sync" /\ pc' \in {"sync", "schedule"} /\ cmd[j] # "none" /\ cmd'[j] = "none"
         => absent[j] >= OrphanThreshold]_vars

\* The files to be deleted are those of completed jobs.
Doomed == \A j \in delSpec \cup delState : lstate[j].status = "COMPLETED"

PhaseOf(status) ==
  CASE status = "CANCELLING" -> "cancelling"
    [] status = "CLEANING"   -> "ending"
    [] status = "COMPLETED"  -> "over"
    [] OTHER                 -> "open"

Life == INSTANCE JobLife WITH phase <- [j \in Jobs |-> PhaseOf(state[j].status)],
                              runs  <- [j \in Jobs |-> cmd[j] \in Live],
                              stray <- mixed,
                              Reliable <- "update" \notin FaultKinds

\* The bastion implements JobLife: what storage says of a job and whether its command
\* runs keep step, although one is written to storage and the other is a process that
\* dies with the bastion.
KeepsLife == Life!Spec

\* A cancelled job ends: a user state the loop finds when it starts a cycle, or the
\* CANCELLING or later state storage has for the job by then, leads to the removal of
\* its jobspec, whichever of the bounded faults happen in between. (Within a cycle the
\* premise would not do: a client may write a jobspec between the two deletions of the
\* old one.)
CancelEnds ==
  \A j \in Jobs :
    (/\ pc = "list" /\ spec[j] # NoSpec
     /\ j \in ustate \/ state[j].status \in Stopping)
      ~> (spec[j] = NoSpec)

\* Said by the module's docstring: the jobspec of a completed job is moved from
\* jobs/active/ to jobs/complete/, so when it is deleted here it is there.
CompleteCopied ==
  [][\A j \in Jobs : spec[j] # NoSpec /\ spec'[j] = NoSpec => complete[j] = spec[j].inc]_vars
=============================================================================
