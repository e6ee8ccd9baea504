------------------------------ MODULE GKERunner ------------------------------
(***************************************************************************)
(* The process that bastion starts for a TPU job on GKE: GKERunnerJob       *)
(* (axlearn/cloud/gcp/runners/gke.py), the JobSet it submits                *)
(* (axlearn/cloud/gcp/job.py), the node pools it provisions                 *)
(* (node_pool.py, node_pool_provisioner.py) and the retries around both     *)
(* (axlearn/cloud/common/job.py).                                           *)
(*                                                                          *)
(* The job has a reservation and is provisioned by the pre-provisioner.     *)
(* Each action is one call to the cluster.  Bastion may kill the process    *)
(* between any two and start it anew for another placement or version; a    *)
(* call may fail.  What the cluster does is external.                       *)
(***************************************************************************)
EXTENDS Integers, FiniteSets

CONSTANTS
  Pools,       \* the node pools of the job, one per replica
  Tiers,       \* values of BASTION_TIER; "unset" when bastion gives none
  Topologies,  \* slice assignments (the slice-selection annotation)
  MaxVersion,  \* bound: versions of the jobspec are 1..MaxVersion
  MaxTries,    \* max_tries of the runner and of the job it submits
  MaxChanges,  \* bound: times bastion restarts the process
  MaxFaults    \* bound: calls that fail, timeouts, preemptions

ASSUME GKERunnerAssumption ==
  /\ IsFiniteSet(Pools) /\ Pools # {}
  /\ Tiers \subseteq {"0", "1", "disabled", "unset"}
  /\ MaxVersion \in Nat /\ MaxTries \in Nat \ {0}
  /\ MaxChanges \in Nat /\ MaxFaults \in Nat

Versions == 1..MaxVersion
Env == [tier : Tiers, version : Versions, topology : Topologies]

NoJobSet == [phase |-> "absent"]
Phases == {"new", "suspended", "pending", "ready", "completed", "failed"}
\* "tier" is history: the tier the JobSet was submitted for.
JobSet ==
  [phase : Phases, reserved : BOOLEAN, version : Versions, topology : Topologies,
   deleting : BOOLEAN, tier : Tiers]

NoPool == [status |-> "none"]
Pool == [status : {"provisioning", "running", "error", "stopping"}, reserved : BOOLEAN]

VARIABLES
  pc,       \* where the process is; "gone" when it has exited
  env,      \* its environment: what bastion wants of the job
  tries,    \* attempt of execute()
  attempt,  \* attempt of the inner execute(), which submits the JobSet
  names,    \* node pools the loop of delete_node_pools or create_node_pools is over
  unseen,   \* those not visited in this round
  behind,   \* one of those visited is not as it should be
  last,     \* last_job_status
  jobset,   \* the JobSet in the cluster
  pools,    \* the node pools in the cluster
  event,    \* the last event that reached the queue
  changes,  \* bounds
  faults

cluster == <<jobset, pools>>
loop    == <<names, unseen, behind>>
bounds  == <<changes, faults>>
vars == <<pc, env, tries, attempt, loop, last, cluster, event, bounds>>

Fault == faults < MaxFaults /\ faults' = faults + 1
Fine == UNCHANGED faults

---------------------------------------------------------------------------
(* What the environment asks for. *)

\* os.environ.get("BASTION_TIER", 0), then str(tier)
TierSeen == IF env.tier = "unset" THEN "0" ELSE env.tier

\* _get_job_provisioning_config, where the default 0 is compared with "0"
PoolReserved == env.tier = "0"

\* BaseReplicatedJob: the default is None
JobSetReserved == env.tier = "0"

\* Mutant: a pending job of tier 0 is recreated, reserved or not.
RecreateAny(pending) ==
  \/ TierSeen \notin {"0", "disabled"} /\ jobset.reserved
  \/ TierSeen = "0" /\ pending

\* should_recreate_job of a TPU job
ShouldRecreate(pending) ==
  \/ TierSeen \notin {"0", "disabled"} /\ jobset.reserved
  \/ TierSeen = "0" /\ ~jobset.reserved /\ pending

\* _get_status, in its order
Status ==
  IF jobset = NoJobSet THEN "NOT_STARTED"
  ELSE IF ShouldRecreate(FALSE) THEN "RESCHEDULED"
  ELSE IF jobset.topology # env.topology THEN "PATCHED"
  ELSE IF env.version > jobset.version THEN "UPDATING"
  ELSE IF jobset.phase = "new" THEN "UNKNOWN"
  ELSE IF jobset.phase = "pending" /\ ShouldRecreate(TRUE) THEN "RESCHEDULED"
  ELSE jobset.phase

\* Mutant: node pools that are still being created are overlooked.
MismatchedRunning ==
  {p \in Pools : pools[p].status = "running" /\ (TierSeen = "0" <=> ~pools[p].reserved)}

\* _get_mismatched_node_pools, and the same test in _reschedule
Mismatched ==
  {p \in Pools : pools[p] # NoPool /\ (TierSeen = "0" <=> ~pools[p].reserved)}

---------------------------------------------------------------------------
(* Retries and events. *)

\* Mutant: _with_retry counts its attempts from 0.
RaiseOneMore ==
  \/ /\ tries <= MaxTries
     /\ tries' = tries + 1 /\ pc' = "poll" /\ last' = "none"
  \/ /\ tries > MaxTries
     /\ pc' = "cleanup" /\ UNCHANGED <<tries, last>>

\* An exception leaves _execute: execute() tries again, or cleans up.
Raise ==
  \/ /\ tries < MaxTries
     /\ tries' = tries + 1 /\ pc' = "poll" /\ last' = "none"
  \/ /\ tries = MaxTries
     /\ pc' = "cleanup" /\ UNCHANGED <<tries, last>>

\* publish gives up after num_tries and drops the event.
Publish(e) == \/ event' = e /\ Fine
              \/ event' = event /\ Fault

\* GKEJob._delete: a request, that is not waited for
DeleteJobSet ==
  jobset' = IF jobset = NoJobSet THEN NoJobSet ELSE [jobset EXCEPT !.deleting = TRUE]

---------------------------------------------------------------------------
(* _execute *)

\* Mutant: a JobSet with another topology is left as it is.
AfterNoPatch(status) ==
  CASE status = "NOT_STARTED" -> "build"
    [] status = "RESCHEDULED" -> "reschedule"
    [] status = "UPDATING" -> "update"
    [] status \in {"failed", "completed"} -> "gone"
    [] OTHER -> "poll"

After(status) ==
  CASE status = "NOT_STARTED" -> "build"
    [] status = "RESCHEDULED" -> "reschedule"
    [] status = "PATCHED" -> "patch"
    [] status = "UPDATING" -> "update"
    [] status \in {"failed", "completed"} -> "gone"
    [] OTHER -> "poll"

Poll ==
  /\ pc = "poll"
  /\ pc' = After(Status)
  /\ \/ Status = "failed" /\ Publish("FAILED") /\ UNCHANGED last
     \/ Status = "completed" /\ Publish("SUCCEEDED") /\ UNCHANGED last
     \/ Status = "ready" /\ last # "ready" /\ Publish("RUNNING") /\ last' = "ready"
     \/ Status = "pending" /\ last # "pending" /\ Publish("STARTING") /\ last' = "pending"
     \/ /\ Status \notin {"failed", "completed"}
        /\ Status \in {"ready", "pending"} => last = Status
        /\ Fine /\ UNCHANGED <<last, event>>
  /\ UNCHANGED <<env, tries, attempt, loop, cluster, changes>>

\* _reschedule: first the JobSet
Reschedule ==
  /\ pc = "reschedule"
  /\ DeleteJobSet
  /\ pc' = "list"
  /\ Fine /\ UNCHANGED <<env, tries, attempt, loop, last, pools, event, changes>>

Update ==
  /\ pc = "update"
  /\ DeleteJobSet
  /\ pc' = "poll"
  /\ Fine /\ UNCHANGED <<env, tries, attempt, loop, last, pools, event, changes>>

\* _patch_topology: failures are logged
Patch ==
  /\ pc = "patch"
  /\ \/ jobset # NoJobSet /\ jobset' = [jobset EXCEPT !.topology = env.topology] /\ Fine
     \/ jobset = NoJobSet /\ Fine /\ UNCHANGED jobset
     \/ Fault /\ UNCHANGED jobset
  /\ pc' = "poll"
  /\ UNCHANGED <<env, tries, attempt, loop, last, pools, event, changes>>

\* wait_until_finished; a build that failed (RuntimeError) ends the process, any other
\* exception is one of execute()
Build ==
  /\ pc = "build"
  /\ \/ Publish("STARTING") /\ pc' = "preprovision"
     \/ Fault /\ pc' = "gone" /\ UNCHANGED event
  /\ UNCHANGED <<env, tries, attempt, loop, last, cluster, changes>>

---------------------------------------------------------------------------
(* delete_node_pools and create_node_pools: rounds over the node pools, each *)
(* asking for what is missing, until a round finds nothing missing.          *)

Start(S, next) == pc' = next /\ names' = S /\ unseen' = S /\ behind' = FALSE

\* then the node pools that do not match: in _reschedule, and in _pre_provision
List ==
  /\ \/ pc = "list" /\ Start(Mismatched, IF Mismatched = {} THEN "poll" ELSE "remove")
     \/ /\ pc = "preprovision"
        /\ IF Mismatched = {} THEN Start(Pools, "provision") ELSE Start(Mismatched, "clear")
  /\ Fine /\ UNCHANGED <<env, tries, attempt, last, cluster, event, changes>>

Deleting == pc \in {"remove", "clear", "drain"}
Done(p) == IF Deleting THEN pools[p] = NoPool ELSE pools[p].status = "running"

\* delete_node_pool and create_node_pool are fire and forget; creating what
\* exists and deleting what is being created or deleted is refused
Requested(p) ==
  IF Deleting
  THEN [pools EXCEPT ![p] =
          IF @.status \in {"running", "error"} THEN [@ EXCEPT !.status = "stopping"] ELSE @]
  ELSE [pools EXCEPT ![p] =
          IF @ = NoPool THEN [status |-> "provisioning", reserved |-> PoolReserved] ELSE @]

Visit(p) ==
  /\ Deleting \/ pc = "provision"
  /\ p \in unseen
  /\ unseen' = unseen \ {p}
  /\ behind' = (behind \/ ~Done(p))
  /\ \/ Done(p) /\ Fine /\ UNCHANGED pools
     \/ ~Done(p) /\ Fine /\ pools' = Requested(p)
     \/ ~Done(p) /\ Fault /\ UNCHANGED pools
  /\ UNCHANGED <<pc, env, tries, attempt, names, last, jobset, event, changes>>

Round ==
  /\ Deleting \/ pc = "provision"
  /\ unseen = {}
  /\ \/ /\ ~behind
        /\ \/ pc = "remove" /\ pc' = "poll" /\ UNCHANGED <<loop, attempt>>
           \/ pc = "clear" /\ Start(Pools, "provision") /\ UNCHANGED attempt
           \/ pc = "provision" /\ pc' = "submit" /\ attempt' = 1 /\ UNCHANGED loop
           \/ pc = "drain" /\ pc' = "gone" /\ UNCHANGED <<loop, attempt>>
     \/ /\ behind
        /\ Start(names, pc) /\ UNCHANGED attempt
  /\ Fine /\ UNCHANGED <<env, tries, last, cluster, event, changes>>

\* The inner execute() submits the JobSet.  A JobSet that exists is refused.
Submit ==
  /\ pc = "submit"
  /\ \/ /\ jobset = NoJobSet
        /\ jobset' = [phase |-> "new", reserved |-> JobSetReserved, version |-> env.version,
                      topology |-> env.topology, deleting |-> FALSE, tier |-> env.tier]
        /\ \/ pc' = "announce" /\ Fine /\ UNCHANGED attempt
           \/ Fault /\ attempt' = attempt + 1 /\ UNCHANGED pc   \* the reply is lost
     \/ /\ attempt' = attempt + 1 /\ UNCHANGED <<pc, jobset>>
        /\ \/ jobset # NoJobSet /\ Fine
           \/ jobset = NoJobSet /\ Fault
  /\ attempt <= MaxTries
  /\ UNCHANGED <<env, tries, loop, last, pools, event, changes>>

\* It has used up its tries: the JobSet is deleted and the exception passed on.
SubmitFails ==
  /\ pc = "submit" /\ attempt > MaxTries
  /\ DeleteJobSet
  /\ Raise
  /\ Fine /\ UNCHANGED <<env, attempt, loop, pools, event, changes>>

Announce ==
  /\ pc = "announce"
  /\ pc' = "poll"
  /\ Publish("STARTING")
  /\ UNCHANGED <<env, tries, attempt, loop, last, cluster, changes>>

\* GKERunnerJob._delete, when the tries of execute() are used up
Cleanup ==
  /\ pc = "cleanup"
  /\ DeleteJobSet
  /\ Start(Pools, "drain")
  /\ Fine /\ UNCHANGED <<env, tries, attempt, last, pools, event, changes>>

\* The exception of a call: to execute(), or out of its cleanup.
Escapes ==
  \/ pc \notin {"cleanup", "drain"} /\ Raise
  \/ pc \in {"cleanup", "drain"} /\ pc' = "gone" /\ UNCHANGED <<tries, last>>

\* Reads, deletions and the wait for the build raise when they fail, and so does an
\* event queue that refuses the credentials.
CallFails ==
  /\ \/ pc \in {"poll", "reschedule", "update", "build", "list", "preprovision",
                "announce", "cleanup"}
     \/ (Deleting \/ pc = "provision") /\ unseen # {}
  /\ Escapes
  /\ Fault /\ UNCHANGED <<env, attempt, loop, cluster, event, changes>>

\* wait_timeout is over after a round that found something missing.
TimesOut ==
  /\ Deleting \/ pc = "provision"
  /\ unseen = {} /\ behind
  /\ Escapes
  /\ Fine /\ UNCHANGED <<env, attempt, loop, cluster, event, changes>>

---------------------------------------------------------------------------
(* Bastion kills the process and starts it again: because the tier, the      *)
(* topology or the version changed, or because bastion itself died.  It does *)
(* so too when the process has exited and it has not looked yet.             *)

Restart ==
  /\ changes < MaxChanges /\ changes' = changes + 1
  /\ env' \in {e \in Env : e.version >= env.version}
  /\ pc' = "poll" /\ tries' = 1 /\ attempt' = 1 /\ last' = "none"
  /\ names' = {} /\ unseen' = {} /\ behind' = FALSE
  /\ Fine /\ UNCHANGED <<cluster, event>>

---------------------------------------------------------------------------
(* The cluster. *)

Placed == \A p \in Pools : pools[p].status = "running" /\ pools[p].reserved = jobset.reserved

Becomes(phase) == jobset' = [jobset EXCEPT !.phase = phase]

\* The JobSet makes progress, or its pods are preempted and retried.
Advance ==
  /\ jobset # NoJobSet /\ ~jobset.deleting
  /\ \/ jobset.phase = "new" /\ (Becomes("suspended") \/ Becomes("pending"))
     \/ jobset.phase = "suspended" /\ Becomes("pending")
     \/ jobset.phase = "pending" /\ Placed /\ Becomes("ready")
  /\ Fine /\ UNCHANGED <<pc, env, tries, attempt, loop, last, pools, event, changes>>

Finish ==
  /\ jobset # NoJobSet /\ ~jobset.deleting
  /\ \/ jobset.phase = "ready" /\ (Becomes("completed") \/ Becomes("failed"))
     \/ jobset.phase = "pending" /\ Becomes("failed")
  /\ Fine /\ UNCHANGED <<pc, env, tries, attempt, loop, last, pools, event, changes>>

Preempt ==
  /\ jobset.phase = "ready" /\ Becomes("pending")
  /\ Fault /\ UNCHANGED <<pc, env, tries, attempt, loop, last, pools, event, changes>>

Deleted ==
  /\ jobset # NoJobSet /\ jobset.deleting
  /\ jobset' = NoJobSet
  /\ Fine /\ UNCHANGED <<pc, env, tries, attempt, loop, last, pools, event, changes>>

PoolAdvances(p) ==
  /\ \/ /\ pools[p].status = "provisioning"
        /\ \/ pools' = [pools EXCEPT ![p].status = "running"] /\ Fine
           \/ pools' = [pools EXCEPT ![p].status = "error"] /\ Fault
     \/ pools[p].status = "stopping" /\ pools' = [pools EXCEPT ![p] = NoPool] /\ Fine
  /\ UNCHANGED <<pc, env, tries, attempt, loop, last, jobset, event, changes>>

---------------------------------------------------------------------------
Init ==
  /\ pc = "poll" /\ env \in Env /\ tries = 1 /\ attempt = 1 /\ last = "none"
  /\ names = {} /\ unseen = {} /\ behind = FALSE
  /\ jobset = NoJobSet /\ pools = [p \in Pools |-> NoPool]
  /\ event = "none" /\ changes = 0 /\ faults = 0

Process ==
  \/ Poll \/ Reschedule \/ Update \/ Patch \/ Build \/ List \/ Round
  \/ Submit \/ SubmitFails \/ Announce \/ Cleanup
  \/ \E p \in Pools : Visit(p)

Next ==
  \/ Process \/ CallFails \/ TimesOut \/ Restart
  \/ Advance \/ Finish \/ Preempt \/ Deleted \/ \E p \in Pools : PoolAdvances(p)

Spec == Init /\ [][Next]_vars

\* The process runs and its clock too, and the cluster gets on with what it was
\* asked for.
FairSpec ==
  /\ Spec
  /\ WF_vars(Process) /\ SF_vars(TimesOut)
  /\ WF_vars(Advance) /\ WF_vars(Deleted)
  /\ \A p \in Pools : WF_vars(PoolAdvances(p))

---------------------------------------------------------------------------
(* Properties. *)

TypeOK ==
  /\ pc \in {"poll", "reschedule", "list", "remove", "update", "patch", "build",
             "preprovision", "clear", "provision", "submit", "announce",
             "cleanup", "drain", "gone"}
  /\ env \in Env /\ tries \in 1..MaxTries /\ attempt \in 1..MaxTries + 1
  /\ names \subseteq Pools /\ unseen \subseteq names /\ behind \in BOOLEAN
  /\ last \in {"none", "pending", "ready"}
  /\ jobset \in JobSet \cup {NoJobSet}
  /\ pools \in [Pools -> Pool \cup {NoPool}]
  /\ event \in {"none", "STARTING", "RUNNING", "SUCCEEDED", "FAILED"}
  /\ changes \in 0..MaxChanges /\ faults \in 0..MaxFaults

\* Whatever the processes before it left behind, half deleted or half created,
\* a process submits a JobSet only when every node pool of the job runs and is of
\* the kind that the JobSet will ask for: "to ensure the job starts on a node
\* pool matching the current bastion tier" (_pre_provision).
StartsPlaced ==
  pc = "submit" =>
    \A p \in Pools : pools[p].status = "running" /\ pools[p].reserved = JobSetReserved

\* A JobSet is torn down to be submitted again only because bastion wants
\* another tier or a newer version than it was submitted for: what the runner and the
\* provisioner make of the tier does not disagree with what the status checks make
\* of it, in which case each JobSet would be replaced by one just like it.
ReplacedForCause ==
  pc \in {"reschedule", "update"} /\ jobset # NoJobSet =>
    jobset.tier # env.tier \/ env.version > jobset.version

\* When bastion and the cluster leave it alone, the process exits or the job
\* runs as bastion wants it: a fitting version, topology and placement.
Settled ==
  /\ pc = "poll" /\ jobset # NoJobSet
  /\ jobset.phase = "ready" /\ ~jobset.deleting
  /\ jobset.version = env.version /\ jobset.topology = env.topology
  /\ ~ShouldRecreate(FALSE)
Converges == <>[](pc = "gone" \/ Settled)

\* "Don't retry if FAILED, since we ask GKE to handle retries" (_execute).  This
\* is false: see README.
FailedNotRetried ==
  [][pc = "poll" /\ jobset.phase = "failed" => pc' \notin {"reschedule", "update"}]_vars
=============================================================================
