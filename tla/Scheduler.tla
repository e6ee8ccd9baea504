----------------------------- MODULE Scheduler -----------------------------
(***************************************************************************)
(* One call of JobScheduler.schedule (axlearn/cloud/common/scheduler.py):   *)
(* elastic jobs are expanded into slots, the jobs of each project are       *)
(* sorted, projects take turns in the order of their usage, each admitted   *)
(* job acquires resources tier by tier, and the verdicts of the slots are   *)
(* collapsed into those of their jobs.  A call keeps nothing, so a          *)
(* behaviour is one call.                                                   *)
(*                                                                          *)
(* An item is <<job, spec, replica>>: <<j, 0, 0>> is the job itself, any    *)
(* other one an expansion slot.  Jobs, specs and projects are numbers in    *)
(* the order of their names, which breaks ties.  Each action is one         *)
(* iteration of a loop.                                                     *)
(*                                                                          *)
(* Abstracted: quotas are proportions written as integers, and ratios are   *)
(* compared as fractions; topologies and the reporter are left out.         *)
(***************************************************************************)
EXTENDS Integers, FiniteSets, Sequences, Functions

CONSTANTS
  Jobs, Projects, Users, Specs, \* sets of numbers; Specs without 0
  Resources,    \* resource types
  LastTier,     \* tiers are 0..LastTier, the highest priority first
  MaxReplicas,  \* bound: replicas anyone may ask for
  Requests,     \* the jobs and their metadata a call may be given
  Quotas,       \* what the quota function may return
  FairShare,    \* use_user_usage of the sorter
  Huge          \* stands for the inverse of 1e-8

Tiers == 0..LastTier
NoTier == LastTier + 1
Amounts == [Resources -> Nat]

\* f maps some of S to values with property P.
Partial(f, S, P(_)) == DOMAIN f \subseteq S /\ \A x \in DOMAIN f : P(f[x])
IsNat(n) == n \in Nat
IsCount(n) == n \in 0..MaxReplicas

IsSpec(sp) ==
  sp.min \in 0..MaxReplicas /\ sp.max \in 0..MaxReplicas /\ Partial(sp.per, Resources, IsNat)

IsMetadata(md) ==
  /\ md.project \in Projects /\ md.user \in Users
  /\ md.priority \in Nat /\ md.created \in Nat
  /\ Partial(md.resources, Resources, IsNat)
  /\ Partial(md.scaling, Specs, IsSpec)
  /\ Partial(md.desired, Specs, IsCount)

\* A quota: limits per tier, their sums over the tiers up to each, and shares.
Quota ==
  [limits : [Tiers -> Amounts], upto : [Tiers -> Amounts],
   share : [Projects -> [Resources -> Nat]]]

ASSUME SchedulerAssumption ==
  /\ Jobs \subseteq Nat /\ Projects \subseteq Nat /\ Specs \subseteq Nat \ {0}
  /\ IsFiniteSet(Jobs) /\ IsFiniteSet(Projects) /\ IsFiniteSet(Specs) /\ IsFiniteSet(Resources)
  /\ LastTier \in Nat /\ MaxReplicas \in Nat
  /\ Huge \in Nat /\ Huge > 1
  /\ \A m \in Requests : Partial(m, Jobs, IsMetadata)
  /\ Quotas \subseteq Quota
  /\ \A q \in Quotas, r \in Resources :
        /\ q.upto[0][r] = q.limits[0][r]
        /\ \A t \in 1..LastTier : q.upto[t][r] = q.upto[t - 1][r] + q.limits[t][r]
  /\ FairShare \in BOOLEAN

Items == Jobs \X (Specs \cup {0}) \X (0..MaxReplicas)

VARIABLES
  step,     \* where the call is
  meta,     \* argument: metadata, and desired replicas of job_state_metadata
  quota,    \* what the quota function returned
  dryRun,   \* argument
  unsorted, \* items of each project that are not in its queue yet
  spent,    \* usage of each user, as the sorter adds it up
  front,    \* queue of each project: schedulable items
  back,     \* and behind them the ones too large for all limits together
  unused,   \* resource_limits: what is left in each tier
  remaining,\* remaining_limits over all tiers
  usage,    \* project_usages
  verdict,  \* job_verdicts
  tier,     \* metadata["tier"] of a verdict
  item,     \* the item being admitted
  left,     \* demands that no tier has met yet
  at,       \* the tier being visited
  final,    \* final_tier
  result,   \* the verdicts after collapsing
  within,   \* history: sums of unused over the tiers up to each
  paid,     \* history: what an admitted item was charged
  from      \* history: and which tiers it was charged to

inputs == <<meta, quota, dryRun>>
order  == <<unsorted, spent>>
queues == <<front, back>>
limits == <<unused, remaining, usage, within>>
cursor == <<item, left, at, final>>
history == <<paid, from>>
vars == <<step, inputs, order, queues, limits, verdict, tier, cursor, result, history>>

---------------------------------------------------------------------------
(* Items and what they ask for. *)

Base(j) == <<j, 0, 0>>
IsSlot(x) == x[2] # 0
Parent(x) == Base(x[1])
MetaOf(x) == meta[x[1]]

MinOf(a, b) == IF a < b THEN a ELSE b

\* _get_expansion_target
Target(md, s) ==
  MinOf(IF s \in DOMAIN md.desired THEN md.desired[s] ELSE md.scaling[s].min,
        md.scaling[s].max)

\* _expand_elastic_jobs: min_replicas are the job's own, the rest are slots
Expanded(m) ==
  {x \in Items :
     /\ x[1] \in DOMAIN m
     /\ \/ x = Base(x[1])
        \/ /\ x[2] \in DOMAIN m[x[1]].scaling
           /\ x[3] \in m[x[1]].scaling[x[2]].min..Target(m[x[1]], x[2]) - 1}

Wants(x) == IF IsSlot(x) THEN MetaOf(x).scaling[x[2]].per ELSE MetaOf(x).resources
Amount(f) == [r \in Resources |-> IF r \in DOMAIN f THEN f[r] ELSE 0]
Demand(x) == Amount(Wants(x))

---------------------------------------------------------------------------
(* ProjectJobSorter.sort and _demote_unschedulable_jobs *)

LexLess(a, b) ==
  \E i \in DOMAIN a : a[i] < b[i] /\ \A k \in DOMAIN a : k < i => a[k] = b[k]

\* Mutant: the creation time of a user's jobs goes before their priority.
KeyByAge(x) == <<MetaOf(x).created, MetaOf(x).priority, x[1], x[2], x[3]>>

\* within a user: by priority, creation time, id
Key(x) == <<MetaOf(x).priority, MetaOf(x).created, x[1], x[2], x[3]>>
UserFirst(p, x) ==
  /\ x \in unsorted[p]
  /\ \A y \in unsorted[p] :
        y # x /\ MetaOf(y).user = MetaOf(x).user => LexLess(Key(x), Key(y))

\* between users: by priority, usage, creation time, id
UserKey(p, x) ==
  <<MetaOf(x).priority, spent[p][MetaOf(x).user], MetaOf(x).created, x[1], x[2], x[3]>>
ProjectFirst(p, x) ==
  /\ UserFirst(p, x)
  /\ \A y \in unsorted[p] :
        y # x /\ UserFirst(p, y) => LexLess(UserKey(p, x), UserKey(p, y))

TooLarge(x) == \E r \in Resources : Demand(x)[r] > quota.upto[LastTier][r]
\* Mutant: a slot is not demoted with its oversized job.
DemotedAlone(x) == TooLarge(x)

Demoted(x) == TooLarge(x) \/ (IsSlot(x) /\ TooLarge(Parent(x)))

\* The next item of a project goes to its queue, behind all schedulable ones
\* if it cannot be scheduled.
Sort(p) ==
  /\ step = "sort"
  /\ \A q \in Projects : q < p => unsorted[q] = {}
  /\ \E x \in unsorted[p] :
       /\ ProjectFirst(p, x)
       /\ unsorted' = [unsorted EXCEPT ![p] = @ \ {x}]
       /\ spent' = IF FairShare
                   THEN [spent EXCEPT ![p][MetaOf(x).user] = @ + SumFunction(Demand(x))]
                   ELSE spent
       /\ \/ Demoted(x) /\ back' = [back EXCEPT ![p] = Append(@, x)] /\ UNCHANGED front
          \/ ~Demoted(x) /\ front' = [front EXCEPT ![p] = Append(@, x)] /\ UNCHANGED back
  /\ UNCHANGED <<step, inputs, limits, verdict, tier, cursor, result, history>>

Sorted ==
  /\ step = "sort"
  /\ \A p \in Projects : unsorted[p] = {}
  /\ step' = "pick"
  /\ UNCHANGED <<inputs, order, queues, limits, verdict, tier, cursor, result, history>>

---------------------------------------------------------------------------
(* TierScheduler.schedule *)

Waiting == {p \in Projects : front[p] # <<>> \/ back[p] # <<>>}
NextOf(p) == IF front[p] # <<>> THEN Head(front[p]) ELSE Head(back[p])

\* _normalize_quotas, and the usage ratio for one resource as a fraction
ShareSum(r) == SumFunction([p \in Projects |-> quota.share[p][r]])
\* Mutant: the ratio of a project does not count its next job.
UsedRatioOf(p, x, r) ==
  LET due == quota.share[p][r] * quota.upto[LastTier][r]
  IN IF due = 0 THEN <<usage[p][r] * Huge, 1>> ELSE <<usage[p][r] * ShareSum(r), due>>

RatioOf(p, x, r) ==
  LET need == usage[p][r] + Demand(x)[r]
      due == quota.share[p][r] * quota.upto[LastTier][r]
  IN IF due = 0 THEN <<need * Huge, 1>> ELSE <<need * ShareSum(r), due>>
AtMost(a, b) == a[1] * b[2] <= b[1] * a[2]

\* project_queue_item
Ratio(p) ==
  LET ratios == {<<0, 1>>} \cup {RatioOf(p, NextOf(p), r) : r \in DOMAIN Wants(NextOf(p))}
  IN CHOOSE a \in ratios : \A b \in ratios : AtMost(b, a)
Before(p, q) ==
  LET a == Ratio(p)
      b == Ratio(q)
  IN \/ ~AtMost(b, a)
     \/ /\ AtMost(a, b)
        /\ LexLess(<<MetaOf(NextOf(p)).created, p>>, <<MetaOf(NextOf(q)).created, q>>)

Turn(p) == step = "pick" /\ p \in Waiting /\ \A q \in Waiting \ {p} : Before(p, q)

Pop(p) ==
  \/ /\ front[p] # <<>>
     /\ front' = [front EXCEPT ![p] = Tail(@)]
     /\ UNCHANGED back
  \/ /\ front[p] = <<>>
     /\ back' = [back EXCEPT ![p] = Tail(@)]
     /\ UNCHANGED front

\* _check_parent_dependency lets an item pass
Gate(x) == IsSlot(x) => verdict[Parent(x)] = "run"
Fits(x) == \A r \in Resources : Demand(x)[r] <= remaining[r]

RejectSlot(p) ==
  LET x == NextOf(p) IN
  /\ Turn(p)
  /\ IsSlot(x) /\ verdict[Parent(x)] \in {"over", "unmet"}
  /\ Pop(p)
  /\ verdict' = [verdict EXCEPT ![x] = "unmet"]
  /\ UNCHANGED <<step, inputs, order, limits, tier, cursor, result, history>>

RejectOver(p) ==
  LET x == NextOf(p) IN
  /\ Turn(p)
  /\ Gate(x) /\ ~Fits(x)
  /\ Pop(p)
  /\ verdict' = [verdict EXCEPT ![x] = "over"]
  /\ UNCHANGED <<step, inputs, order, limits, tier, cursor, result, history>>

Admit(p) ==
  LET x == NextOf(p) IN
  /\ Turn(p)
  /\ Gate(x) /\ Fits(x)
  /\ Pop(p)
  /\ item' = x /\ left' = Demand(x) /\ at' = 0 /\ final' = 0
  /\ step' = "forward"
  /\ UNCHANGED <<inputs, order, limits, verdict, tier, result, history>>

\* Mutant: a tier gives what is asked, not what it has.
GiveAll(r) == left[r]

\* traverse_tiers: what the tier gives
Take(r) == MinOf(left[r], unused[at][r])
LeftOver == [r \in Resources |-> left[r] - Take(r)]
Met == \A r \in Resources : LeftOver[r] = 0
Used == \E r \in Resources : Take(r) > 0

\* Mutant: resource_limits[:final_tier], without the + 1.
ForwardShort ==
  /\ step = "forward"
  /\ final' = IF Used THEN at ELSE final
  /\ \/ /\ Met \/ at = LastTier
        /\ step' = "backward" /\ left' = Demand(item)
        /\ at' = IF final' > 0 THEN final' - 1 ELSE 0
     \/ /\ ~Met /\ at < LastTier
        /\ at' = at + 1 /\ left' = LeftOver
        /\ UNCHANGED step
  /\ UNCHANGED <<inputs, order, queues, limits, verdict, tier, item, result, history>>

\* The forward pass finds the last tier that is needed.
Forward ==
  /\ step = "forward"
  /\ final' = IF Used THEN at ELSE final
  /\ \/ /\ Met \/ at = LastTier
        /\ step' = "backward" /\ at' = final' /\ left' = Demand(item)
     \/ /\ ~Met /\ at < LastTier
        /\ at' = at + 1 /\ left' = LeftOver
        /\ UNCHANGED step
  /\ UNCHANGED <<inputs, order, queues, limits, verdict, tier, item, result, history>>

\* The backward pass acquires the resources, from that tier up.
Backward ==
  LET p == MetaOf(item).project IN
  /\ step = "backward"
  /\ unused' = [unused EXCEPT ![at] = [r \in Resources |-> @[r] - Take(r)]]
  /\ within' = [t \in Tiers |-> IF t < at THEN within[t]
                                ELSE [r \in Resources |-> within[t][r] - Take(r)]]
  /\ remaining' = [r \in Resources |-> remaining[r] - Take(r)]
  /\ usage' = [usage EXCEPT ![p] = [r \in Resources |-> @[r] + Take(r)]]
  /\ paid' = [paid EXCEPT ![item] = [r \in Resources |-> @[r] + Take(r)]]
  /\ from' = IF Used THEN [from EXCEPT ![item] = @ \cup {at}] ELSE from
  /\ left' = LeftOver
  /\ \/ /\ Met \/ at = 0
        /\ verdict' = [verdict EXCEPT ![item] = "run"]
        /\ tier' = [tier EXCEPT ![item] = final]
        /\ step' = "pick"
        /\ UNCHANGED at
     \/ /\ ~Met /\ at > 0
        /\ at' = at - 1
        /\ UNCHANGED <<verdict, tier, step>>
  /\ UNCHANGED <<inputs, order, queues, item, final, result>>

---------------------------------------------------------------------------
(* JobScheduler.schedule: _collapse_expansion_verdicts and the dry run *)

\* Mutant: every slot that was made counts as granted.
GrantedAll(j, s) ==
  meta[j].scaling[s].min + Cardinality({x \in Expanded(meta) : x[1] = j /\ x[2] = s})

Granted(j, s) ==
  meta[j].scaling[s].min
    + Cardinality({x \in Expanded(meta) : x[1] = j /\ x[2] = s /\ verdict[x] = "run"})

Refused == [run |-> FALSE, tier |-> NoTier, granted |-> <<>>]
Collapsed(j) ==
  IF dryRun THEN [run |-> TRUE, tier |-> NoTier, granted |-> <<>>]
  ELSE IF verdict[Base(j)] = "run"
       THEN [run |-> TRUE, tier |-> tier[Base(j)],
             granted |-> [s \in DOMAIN meta[j].scaling |-> Granted(j, s)]]
       ELSE Refused

Collapse ==
  /\ step = "pick"
  /\ Waiting = {}
  /\ result' = [j \in DOMAIN meta |-> Collapsed(j)]
  /\ step' = "done"
  /\ UNCHANGED <<inputs, order, queues, limits, verdict, tier, cursor, history>>

Zero == [r \in Resources |-> 0]

Init ==
  /\ step = "sort"
  /\ meta \in Requests /\ quota \in Quotas /\ dryRun \in BOOLEAN
  /\ unsorted = [p \in Projects |-> {x \in Expanded(meta) : MetaOf(x).project = p}]
  /\ spent = [p \in Projects |-> [u \in Users |-> 0]]
  /\ front = [p \in Projects |-> <<>>]
  /\ back = [p \in Projects |-> <<>>]
  /\ unused = quota.limits /\ within = quota.upto /\ remaining = quota.upto[LastTier]
  /\ usage = [p \in Projects |-> Zero]
  /\ verdict = [x \in Expanded(meta) |-> "none"]
  /\ tier = [x \in Expanded(meta) |-> NoTier]
  /\ item = <<0, 0, 0>> /\ left = Zero /\ at = 0 /\ final = 0
  /\ result = <<>>
  /\ paid = [x \in Expanded(meta) |-> Zero]
  /\ from = [x \in Expanded(meta) |-> {}]

Next ==
  \/ \E p \in Projects : Sort(p) \/ RejectSlot(p) \/ RejectOver(p) \/ Admit(p)
  \/ Sorted \/ Forward \/ Backward \/ Collapse

Spec == Init /\ [][Next]_vars

---------------------------------------------------------------------------
(* Properties. *)

\* Types; that no tier and no total is ever overdrawn is part of them.
TypeOK ==
  /\ step \in {"sort", "pick", "forward", "backward", "done"}
  /\ Partial(meta, Jobs, IsMetadata) /\ quota \in Quotas /\ dryRun \in BOOLEAN
  /\ unsorted \in [Projects -> SUBSET Expanded(meta)]
  /\ front \in [Projects -> Seq(Expanded(meta))]
  /\ back \in [Projects -> Seq(Expanded(meta))]
  /\ unused \in [Tiers -> Amounts] /\ within \in [Tiers -> Amounts]
  /\ remaining \in Amounts
  /\ usage \in [Projects -> Amounts]
  /\ verdict \in [Expanded(meta) -> {"none", "over", "unmet", "run"}]
  /\ tier \in [Expanded(meta) -> Tiers \cup {NoTier}]
  /\ left \in Amounts /\ at \in Tiers /\ final \in Tiers
  /\ paid \in [Expanded(meta) -> Amounts]
  /\ from \in [Expanded(meta) -> SUBSET Tiers]

\* When a slot's turn comes, its job has been considered, whatever the order of
\* users, priorities and sizes and although oversized jobs are moved to the end:
\* the RuntimeError of _check_parent_dependency is never raised.  No slot is
\* admitted unless its job is.
ParentFirst ==
  /\ step = "pick" =>
       \A p \in Waiting : IsSlot(NextOf(p)) => verdict[Parent(NextOf(p))] # "none"
  /\ \A x \in Expanded(meta) : IsSlot(x) /\ verdict[x] = "run" => verdict[Parent(x)] = "run"

\* What runs was charged in full, and its tier is the lowest-priority one that
\* contributed (assumption 3 of TierScheduler): the backward pass, which starts
\* at the tier the forward pass found, never comes out short.
ChargedInFull ==
  \A x \in Expanded(meta) : verdict[x] = "run" =>
     /\ paid[x] = Demand(x)
     /\ tier[x] \in Tiers
     /\ \A t \in from[x] : t <= tier[x]
     /\ from[x] # {} => tier[x] \in from[x]

\* A project whose jobs and slots all together stay within its quota gets all of
\* them admitted, whatever the other projects ask for.
QuotaGuaranteed ==
  step = "done" =>
    \A p \in Projects :
      LET mine == {x \in Expanded(meta) : MetaOf(x).project = p} IN
      (\A r \in Resources :
          LET needs == SumFunction([x \in mine |-> Demand(x)[r]]) IN
          IF ShareSum(r) = 0 THEN needs = 0
          ELSE needs * ShareSum(r) <= quota.share[p][r] * quota.upto[LastTier][r])
        => \A x \in mine : verdict[x] = "run"

\* A user's job is not refused when one of the same user that is behind it
\* (lower priority or younger) and asks for as much is admitted.
Seniority ==
  step = "done" =>
    \A j, k \in DOMAIN meta :
      /\ meta[j].project = meta[k].project /\ meta[j].user = meta[k].user
      /\ \/ meta[j].priority < meta[k].priority
         \/ meta[j].priority = meta[k].priority /\ meta[j].created < meta[k].created
      /\ \A r \in Resources : Demand(Base(j))[r] <= Demand(Base(k))[r]
      /\ verdict[Base(k)] = "run"
      => verdict[Base(j)] = "run"

\* The books balance: what a project is charged is what its jobs are told to
\* run with, replicas granted to elastic jobs included.
GrantsCharged ==
  step = "done" /\ ~dryRun =>
    \A p \in Projects, r \in Resources :
      LET running == {j \in DOMAIN meta : meta[j].project = p /\ result[j].run}
          slots(j) == [s \in DOMAIN meta[j].scaling |->
                         (result[j].granted[s] - meta[j].scaling[s].min)
                           * Amount(meta[j].scaling[s].per)[r]]
      IN usage[p][r] =
           SumFunction([j \in running |-> Amount(meta[j].resources)[r] + SumFunction(slots(j))])

\* "A job can be scheduled with resources across multiple tiers with an SLO
\* corresponding to the lowest-SLO tier used for the job" (quota.py).  Of an
\* elastic job this is false: see README.
ElasticTier ==
  step = "done" /\ ~dryRun =>
    \A x \in Expanded(meta) :
      verdict[x] = "run" => \A t \in from[x] : t <= result[x[1]].tier
=============================================================================
