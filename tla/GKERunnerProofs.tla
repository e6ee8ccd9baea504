--------------------------- MODULE GKERunnerProofs ---------------------------
(***************************************************************************)
(* Proofs about GKERunner, for any node pools, tiers, versions, tries,      *)
(* restarts and failures.                                                   *)
(***************************************************************************)
EXTENDS GKERunner, TLAPS

\* The sentinels are not JobSets or node pools.
LEMMA Sentinels ==
  /\ NoJobSet \notin JobSet /\ NoJobSet.phase = "absent"
  /\ NoPool \notin Pool /\ NoPool.status = "none"
BY DEF NoJobSet, JobSet, Phases, NoPool, Pool

\* What becomes of a JobSet is a JobSet or none.
LEMMA JobSetTyped ==
  ASSUME TypeOK,
         \/ DeleteJobSet \/ jobset' = jobset \/ jobset' = NoJobSet
         \/ jobset # NoJobSet /\ \E ph \in Phases : Becomes(ph)
         \/ jobset # NoJobSet /\ jobset' = [jobset EXCEPT !.topology = env.topology]
  PROVE  jobset' \in JobSet \cup {NoJobSet}
BY DEF TypeOK, JobSet, DeleteJobSet, Becomes, Env

\* A node pool that changes its status is one.
LEMMA ShapeOfPool ==
  ASSUME NEW p \in Pool, NEW s \in {"provisioning", "running", "error", "stopping"}
  PROVE  [p EXCEPT !.status = s] \in Pool
BY DEF Pool

\* Every behaviour keeps the types: counters within their bounds, a JobSet and node pools
\* that the cluster knows.
THEOREM TypeCorrect == Spec => []TypeOK
<1>1. Init => TypeOK
  <2> SUFFICES ASSUME Init PROVE TypeOK
    OBVIOUS
  <2>1. tries \in 1..MaxTries /\ attempt \in 1..MaxTries + 1 /\ changes \in 0..MaxChanges
        /\ faults \in 0..MaxFaults
    BY GKERunnerAssumption DEF GKERunnerAssumption, Init
  <2>2. pools \in [Pools -> Pool \cup {NoPool}]
    BY DEF Init
  <2> QED
    BY <2>1, <2>2 DEF Init, TypeOK
<1>2. TypeOK /\ [Next]_vars => TypeOK'
  <2> SUFFICES ASSUME TypeOK, [Next]_vars PROVE TypeOK'
    OBVIOUS
  <2> USE GKERunnerAssumption DEF GKERunnerAssumption
  <2>0. faults' \in 0..MaxFaults \/ ~(Fine \/ Fault)
    BY DEF TypeOK, Fine, Fault
  <2>1. CASE Poll
    <3>1. pc' \in {"build", "reschedule", "patch", "update", "gone", "poll"}
      BY <2>1 DEF Poll, After
    <3> QED
      BY <2>1, <3>1 DEF TypeOK, Poll, Publish, Fault, Fine, loop, cluster
  <2>2. CASE Reschedule \/ Update
    BY <2>2, JobSetTyped DEF TypeOK, Reschedule, Update, Fine, loop
  <2>3. CASE Patch
    BY <2>0, <2>3, JobSetTyped DEF TypeOK, Patch, loop
  <2>4. CASE Build \/ Announce
    BY <2>4 DEF TypeOK, Build, Announce, Publish, Fine, Fault, loop, cluster
  <2>5. CASE List
    BY <2>5 DEF TypeOK, List, Start, Mismatched, Fine, cluster
  <2>6. CASE Round
    <3>1. CASE ~behind
      <4>1. tries' = tries /\ attempt' \in 1..MaxTries + 1 /\ faults' = faults
        BY <2>6, <3>1 DEF TypeOK, Round, Start, loop, Fine
      <4>2. /\ pc' \in {"poll", "provision", "submit", "gone"}
            /\ names' \subseteq Pools /\ unseen' \subseteq names' /\ behind' \in BOOLEAN
        BY <2>6, <3>1 DEF TypeOK, Round, Start, loop
      <4> QED
        BY <2>6, <4>1, <4>2 DEF TypeOK, Round, cluster
    <3>2. CASE behind
      BY <2>6, <3>2 DEF TypeOK, Round, Start, Deleting, Fine, cluster
    <3> QED
      BY <3>1, <3>2
  <2>7. CASE Submit
    <3>1. jobset' \in JobSet \cup {NoJobSet}
      <4>1. [phase |-> "new", reserved |-> JobSetReserved, version |-> env.version,
             topology |-> env.topology, deleting |-> FALSE, tier |-> env.tier] \in JobSet
        BY DEF TypeOK, JobSet, Phases, JobSetReserved, Env
      <4> QED
        BY <2>7, <4>1 DEF TypeOK, Submit
    <3>2. pc' \in {"submit", "announce"} /\ attempt' \in 1..MaxTries + 1 /\ (Fine \/ Fault)
      BY <2>7 DEF TypeOK, Submit
    <3> QED
      BY <2>0, <2>7, <3>1, <3>2 DEF TypeOK, Submit, loop
  <2>8. CASE SubmitFails
    BY <2>8, JobSetTyped DEF TypeOK, SubmitFails, Raise, Fine, loop
  <2>9. CASE Cleanup
    BY <2>9, JobSetTyped DEF TypeOK, Cleanup, Start, Fine, loop
  <2>10. ASSUME NEW p \in Pools, Visit(p) PROVE TypeOK'
    <3>1. Requested(p) \in [Pools -> Pool \cup {NoPool}]
      <4>1. pools[p] \in Pool => [pools[p] EXCEPT !.status = "stopping"] \in Pool
        BY ShapeOfPool
      <4>2. [status |-> "provisioning", reserved |-> PoolReserved] \in Pool
        BY DEF Pool, PoolReserved
      <4> QED
        BY <4>1, <4>2, Sentinels DEF TypeOK, Requested
    <3>2. pools' \in [Pools -> Pool \cup {NoPool}]
      BY <2>10, <3>1 DEF TypeOK, Visit
    <3> QED
      BY <2>0, <2>10, <3>2 DEF TypeOK, Visit
  <2>11. CASE CallFails \/ TimesOut
    BY <2>11 DEF TypeOK, CallFails, TimesOut, Escapes, Raise, Fine, Fault, loop, cluster
  <2>12. CASE Restart
    <3>1. changes' \in 0..MaxChanges /\ env' \in Env
      BY <2>12 DEF TypeOK, Restart
    <3> QED
      <4>1. tries' \in 1..MaxTries /\ attempt' \in 1..MaxTries + 1 /\ faults' = faults
        BY <2>12 DEF Restart, Fine
      <4>2. /\ pc' = "poll" /\ last' = "none"
            /\ names' \subseteq Pools /\ unseen' \subseteq names' /\ behind' \in BOOLEAN
        BY <2>12 DEF Restart
      <4> QED
        BY <2>12, <3>1, <4>1, <4>2 DEF TypeOK, Restart, cluster
  <2>13. CASE Advance \/ Finish
    <3>1. jobset' \in JobSet \cup {NoJobSet}
      BY <2>13, JobSetTyped DEF Advance, Finish, Phases
    <3> QED
      BY <2>13, <3>1 DEF TypeOK, Advance, Finish, Fine, loop
  <2>14. CASE Preempt
    <3>1. jobset' \in JobSet \cup {NoJobSet}
      BY <2>14, JobSetTyped, Sentinels DEF Preempt, Phases
    <3> QED
      BY <2>0, <2>14, <3>1 DEF TypeOK, Preempt, loop
  <2>15. CASE Deleted
    BY <2>15 DEF TypeOK, Deleted, Fine, loop
  <2>16. ASSUME NEW p \in Pools, PoolAdvances(p) PROVE TypeOK'
    <3>0. pools[p].status # "none" => pools[p] \in Pool
      BY Sentinels DEF TypeOK
    <3>1. pools' \in [Pools -> Pool \cup {NoPool}]
      <4>1. pools[p] \in Pool => /\ [pools[p] EXCEPT !.status = "running"] \in Pool
                                /\ [pools[p] EXCEPT !.status = "error"] \in Pool
        BY ShapeOfPool
      <4> QED
        BY <2>16, <3>0, <4>1 DEF TypeOK, PoolAdvances
    <3> QED
      BY <2>0, <2>16, <3>1 DEF TypeOK, PoolAdvances, loop
  <2>17. CASE UNCHANGED vars
    BY <2>17 DEF TypeOK, vars, loop, cluster, bounds
  <2> QED
    BY <2>1, <2>2, <2>3, <2>4, <2>5, <2>6, <2>7, <2>8, <2>9, <2>10, <2>11, <2>12, <2>13,
       <2>14, <2>15, <2>16, <2>17 DEF Next, Process
<1> QED
  BY <1>1, <1>2, PTL DEF Spec

----------------------------------------------------------------------------
(* Why a JobSet is torn down. *)

\* A JobSet asks for the reservation if it was submitted for tier 0, and only then;
\* until it is deleted, what made the runner tear it down remains true.
Caused ==
  /\ jobset # NoJobSet => jobset.reserved = (jobset.tier = "0")
  /\ ReplacedForCause

\* ReplacedForCause: a JobSet is torn down only because bastion wants another tier or
\* a newer version than it was submitted for.  It needs that bastion always sets a tier.
THEOREM OnlyForCause == "unset" \notin Tiers /\ Spec => []ReplacedForCause
<1> SUFFICES ASSUME "unset" \notin Tiers PROVE Spec => []ReplacedForCause
  OBVIOUS
<1>1. Init => Caused
  BY DEF Init, Caused, ReplacedForCause
<1>2. TypeOK /\ TypeOK' /\ Caused /\ [Next]_vars => Caused'
  <2> SUFFICES ASSUME TypeOK, TypeOK', Caused, [Next]_vars PROVE Caused'
    OBVIOUS
  <2>1. CASE Poll
    <3>1. jobset' = jobset /\ env' = env
      BY <2>1 DEF Poll, cluster
    <3>2. ASSUME Status \in {"RESCHEDULED", "UPDATING"}, jobset # NoJobSet
          PROVE  jobset.tier # env.tier \/ env.version > jobset.version
      <4>1. TierSeen = env.tier
        BY DEF TypeOK, Env, TierSeen
      <4>2. CASE ShouldRecreate(FALSE) \/ ShouldRecreate(TRUE)
        BY <3>2, <4>1, <4>2 DEF ShouldRecreate, Caused
      <4>3. CASE env.version > jobset.version
        BY <4>3
      <4>4. jobset.phase \in Phases
        BY <3>2 DEF TypeOK, JobSet
      <4> QED
        BY <3>2, <4>2, <4>3, <4>4 DEF Status, Phases
    <3>3. pc' = "reschedule" => Status = "RESCHEDULED"
      BY <2>1 DEF Poll, After
    <3>4. pc' = "update" => Status = "UPDATING"
      BY <2>1 DEF Poll, After
    <3> QED
      BY <3>1, <3>2, <3>3, <3>4 DEF Caused, ReplacedForCause
  <2>2. CASE Submit
    <3>1. pc' \notin {"reschedule", "update"}
      BY <2>2 DEF Submit
    <3>2. CASE jobset' = jobset
      BY <3>1, <3>2 DEF Caused, ReplacedForCause
    <3>3. CASE jobset' # jobset
      BY <2>2, <3>1, <3>3 DEF Submit, JobSetReserved, Caused, ReplacedForCause
    <3> QED
      BY <3>2, <3>3
  <2>3. ASSUME \/ DeleteJobSet \/ UNCHANGED jobset \/ jobset' = NoJobSet
               \/ jobset # NoJobSet /\ \E ph \in Phases : Becomes(ph)
               \/ jobset # NoJobSet /\ jobset' = [jobset EXCEPT !.topology = env.topology],
               pc' \notin {"reschedule", "update"} \/ UNCHANGED <<pc, env>>
        PROVE  Caused'
    <3>1. CASE jobset' = NoJobSet
      BY <3>1 DEF Caused, ReplacedForCause
    <3>2. CASE jobset' # NoJobSet
      <4>1. jobset # NoJobSet
        BY <2>3, <3>2 DEF DeleteJobSet
      <4>2. /\ jobset'.reserved = jobset.reserved /\ jobset'.tier = jobset.tier
            /\ jobset'.version = jobset.version
        BY <2>3, <3>2, <4>1 DEF DeleteJobSet, Becomes, TypeOK, JobSet
      <4> QED
        BY <2>3, <4>1, <4>2 DEF Caused, ReplacedForCause
    <3> QED
      BY <3>1, <3>2
  <2>4. CASE Reschedule \/ Update \/ Patch \/ Build \/ Announce \/ Cleanup
    BY <2>3, <2>4, Sentinels DEF Reschedule, Update, Patch, Build, Announce, Cleanup, Start, cluster
  <2>5. CASE List \/ Round \/ SubmitFails
    BY <2>3, <2>5 DEF List, Round, SubmitFails, Raise, Start, Deleting, cluster
  <2>6. CASE \E p \in Pools : Visit(p)
    BY <2>3, <2>6 DEF Visit
  <2>7. CASE CallFails \/ TimesOut \/ Restart
    BY <2>3, <2>7 DEF CallFails, TimesOut, Escapes, Raise, Restart, cluster
  <2>8. CASE Advance \/ Finish \/ Preempt \/ Deleted
    BY <2>3, <2>8, Sentinels DEF Advance, Finish, Preempt, Deleted, Phases
  <2>9. CASE (\E p \in Pools : PoolAdvances(p)) \/ UNCHANGED vars
    BY <2>3, <2>9 DEF PoolAdvances, vars, cluster
  <2> QED
    BY <2>1, <2>2, <2>4, <2>5, <2>6, <2>7, <2>8, <2>9 DEF Next, Process
<1>3. Caused => ReplacedForCause
  BY DEF Caused
<1> QED
  BY <1>1, <1>2, <1>3, TypeCorrect, PTL DEF Spec

----------------------------------------------------------------------------
(* What a JobSet is submitted onto. *)

\* The node pool is missing or of the kind bastion wants.
Fits(p) == pools[p] = NoPool \/ pools[p].reserved = PoolReserved

\* What the rounds have reached: of the node pools that did not fit, those visited in a
\* round with nothing missing are gone; those to be provisioned run.
Provisioned ==
  /\ pc = "clear" => \A p \in Pools :
       /\ p \notin names => Fits(p)
       /\ p \in names \ unseen /\ ~behind => pools[p] = NoPool
  /\ pc = "provision" => names = Pools /\ \A p \in Pools :
       Fits(p) /\ (p \notin unseen /\ ~behind => pools[p].status = "running")
  /\ pc = "submit" => \A p \in Pools : Fits(p) /\ pools[p].status = "running"

\* Node pools that are not found to mismatch fit what the job asks for.
LEMMA MismatchedPools ==
  ASSUME TypeOK, "unset" \notin Tiers
  PROVE  \A p \in Pools : p \notin Mismatched => Fits(p)
<1> SUFFICES ASSUME NEW p \in Pools, p \notin Mismatched, pools[p] # NoPool
             PROVE  pools[p].reserved = PoolReserved
  BY DEF Fits
<1>1. TierSeen = env.tier
  BY DEF TypeOK, Env, TierSeen
<1>2. pools[p].reserved \in BOOLEAN
  BY DEF TypeOK, Pool
<1> QED
  BY <1>1, <1>2 DEF Mismatched, PoolReserved

\* StartsPlaced: a JobSet is submitted only when every node pool runs and is of the kind
\* it asks for, whatever earlier processes left behind; again with a tier that is set.
THEOREM SubmittedOntoPools == "unset" \notin Tiers /\ Spec => []StartsPlaced
<1> SUFFICES ASSUME "unset" \notin Tiers PROVE Spec => []StartsPlaced
  OBVIOUS
<1>1. Init => Provisioned
  BY DEF Init, Provisioned
<1>2. TypeOK /\ TypeOK' /\ Provisioned /\ [Next]_vars => Provisioned'
  <2> SUFFICES ASSUME TypeOK, TypeOK', Provisioned, [Next]_vars PROVE Provisioned'
    OBVIOUS
  <2>1. CASE pc' \notin {"clear", "provision", "submit"}
    BY <2>1 DEF Provisioned
  <2>2. CASE UNCHANGED <<pc, env, loop, pools>>
    BY <2>2 DEF Provisioned, Fits, PoolReserved, loop
  <2>3. CASE List
    BY <2>3, MismatchedPools DEF List, Start, Provisioned, Fits, PoolReserved, cluster
  <2>4. CASE Round
    <3>1. CASE pc = "clear" /\ ~behind
      BY <2>4, <3>1 DEF Round, Start, Provisioned, Fits, PoolReserved, cluster, TypeOK
    <3>2. CASE pc = "provision" /\ ~behind
      BY <2>4, <3>2 DEF Round, Start, Provisioned, Fits, PoolReserved, cluster
    <3>3. CASE behind
      BY <2>4, <3>3 DEF Round, Start, Provisioned, Fits, PoolReserved, cluster, Deleting
    <3> QED
      BY <2>1, <2>4, <3>1, <3>2, <3>3 DEF Round
  <2>5. ASSUME NEW q \in Pools, Visit(q) PROVE Provisioned'
    <3>1. \A p \in Pools : p # q => pools'[p] = pools[p]
      BY <2>5 DEF Visit, Requested, TypeOK
    <3>2. pools[q] = NoPool \/ pools[q] \in Pool
      BY DEF TypeOK
    <3>3. CASE pc = "clear"
      <4>1. q \in names
        BY <2>5 DEF Visit, TypeOK
      <4>2. ~behind' /\ q \notin unseen' => pools'[q] = NoPool
        BY <2>5, <3>3 DEF Visit, Done, Deleting
      <4> QED
        BY <2>5, <3>1, <3>3, <4>1, <4>2 DEF Visit, Provisioned, Fits, PoolReserved, TypeOK
    <3>4. CASE pc = "provision"
      <4>1. Fits(q)'
        BY <2>5, <3>2, <3>4 DEF Visit, Requested, Deleting, Provisioned, Fits, PoolReserved, TypeOK
      <4>2. ~behind' => pools'[q].status = "running" /\ ~behind
        BY <2>5, <3>4 DEF Visit, Done, Deleting
      <4> QED
        BY <2>5, <3>1, <3>4, <4>1, <4>2 DEF Visit, Provisioned, Fits, PoolReserved
    <3> QED
      BY <2>1, <2>5, <3>3, <3>4 DEF Visit, Deleting
  <2>6. CASE Submit
    BY <2>6 DEF Submit, Provisioned, Fits, PoolReserved, loop
  <2>7. ASSUME NEW q \in Pools, PoolAdvances(q) PROVE Provisioned'
    <3>1. \A p \in Pools : p # q => pools'[p] = pools[p]
      BY <2>7 DEF PoolAdvances, TypeOK
    <3>2. pools[q].status \in {"provisioning", "stopping"}
      BY <2>7 DEF PoolAdvances
    <3>3. pools[q] \in Pool
      BY <3>2, Sentinels DEF TypeOK
    <3>4. pools'[q] = NoPool \/ pools'[q].reserved = pools[q].reserved
      BY <2>7, <3>3 DEF PoolAdvances, TypeOK, Pool
    <3>5. Fits(q) => Fits(q)'
      BY <2>7, <3>3, <3>4, Sentinels DEF Fits, PoolReserved, PoolAdvances
    <3>6. UNCHANGED <<pc, env, loop>>
      BY <2>7 DEF PoolAdvances
    <3> QED
      BY <3>1, <3>2, <3>3, <3>5, <3>6, Sentinels DEF Provisioned, Fits, PoolReserved, loop
  <2>8. CASE Process
    BY <2>1, <2>2, <2>3, <2>4, <2>5, <2>6, <2>8
       DEF Process, Poll, After, Reschedule, Update, Patch, Build, SubmitFails, Raise, Announce,
           Cleanup, Start
  <2>9. CASE CallFails \/ TimesOut \/ Restart
    BY <2>1, <2>9 DEF CallFails, TimesOut, Escapes, Raise, Restart
  <2>10. CASE Advance \/ Finish \/ Preempt \/ Deleted \/ UNCHANGED vars
    BY <2>2, <2>10 DEF Advance, Finish, Preempt, Deleted, vars, cluster
  <2> QED
    BY <2>7, <2>8, <2>9, <2>10 DEF Next
<1>3. Provisioned => StartsPlaced
  BY Sentinels DEF Provisioned, StartsPlaced, Fits, PoolReserved, JobSetReserved
<1> QED
  BY <1>1, <1>2, <1>3, TypeCorrect, PTL DEF Spec
=============================================================================
