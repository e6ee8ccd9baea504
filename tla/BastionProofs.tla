--------------------------- MODULE BastionProofs ---------------------------
(* Theorems about Bastion, for every value of its constants.  Three at the end, about
   which command runs, what it was told and when a cleaner may be asked, need that the
   update of a job is never abandoned after its transition ("update" \notin FaultKinds):
   the state file may then be older than the memory of a job for a whole cycle.  So does
   the part of LifeImplemented that says when a name is given back. *)
EXTENDS Bastion, TLAPS, WellFoundedInduction

\* What a download returns of a job.
Entries == [spec : Specs, name : Jobs, state : States]

\* The sentinels lie outside the sets of real jobspecs, states and entries.
LEMMA Sentinels ==
  /\ NoSpec \notin Specs /\ NoState \notin States /\ NoEntry \notin Entries
  /\ \A s \in States : s.status \in Statuses /\ s # NoState
  /\ NoState.status = "NONE"
BY BastionAssumption
   DEF NoSpec, NoState, NoEntry, Specs, States, Statuses, Entries, BastionAssumption

\* A bastion starts with the types, and with nothing listed; and so does the next one.
LEMMA TypeInit == Init => TypeOK /\ Phases
<1> SUFFICES ASSUME Init PROVE TypeOK /\ Phases
  OBVIOUS
<1> QED
  BY BastionAssumption DEF Init, TypeOK, Phases, Steps, Live, BastionAssumption

\* The next bastion starts with nothing listed, and its types are right too.
LEMMA TypeEnds ==
  ASSUME TypeOK, Phases, Ends, faults' \in 0..MaxFaults
  PROVE  TypeOK' /\ Phases'
BY BastionAssumption DEF Ends, TypeOK, Phases, Steps, remote, BastionAssumption

\* Of some jobs listed before another one there is a last one.
LEMMA LastExists ==
  ASSUME NEW js \in SUBSET Jobs, NEW j \in Jobs, Before(js, j) # {}
  PROVE  Last(js, j) \in js
<1> DEFINE S == Before(js, j)
           T == {Rank[j] - Rank[h] : h \in S}
<1>1. /\ S \subseteq js /\ S \subseteq Jobs /\ S # {}
      /\ Rank[j] \in Nat /\ \A h \in S : Rank[h] \in Nat /\ Rank[h] < Rank[j]
  BY BastionAssumption DEF Before, BastionAssumption
<1>2. PICK n \in T : \A m \in T : ~(m < n)
  <2>1. T \subseteq Nat /\ T # {}
    <3>1. \A h \in S : Rank[j] - Rank[h] \in Nat
      BY <1>1
    <3> QED
      BY <1>1, <3>1
  <2> HIDE DEF T
  <2>2. PICK n \in T : \A m \in T : <<m, n>> \notin OpToRel(<, Nat)
    BY <2>1, WFMin, NatLessThanWellFounded, Zenon
  <2>3. \A x, y \in Nat : x < y => <<x, y>> \in OpToRel(<, Nat)
    BY Zenon DEF OpToRel
  <2> QED
    BY <2>1, <2>2, <2>3, Zenon
<1>3. PICK i \in S : n = Rank[j] - Rank[i]
  BY <1>2
<1>4. \A h \in S : Rank[h] <= Rank[i]
  <2> SUFFICES ASSUME NEW h \in S PROVE Rank[h] <= Rank[i]
    OBVIOUS
  <2>1. ~(Rank[j] - Rank[h] < Rank[j] - Rank[i])
    BY <1>2, <1>3
  <2> QED
    BY <1>1, <2>1
<1>5. Last(js, j) \in S
  <2> HIDE DEF S
  <2>1. \E i1 \in S : \A h \in S : Rank[h] <= Rank[i1]
    BY <1>4
  <2> QED
    BY <2>1, Zenon DEF Last, S
<1> QED
  BY <1>1, <1>5

\* What a download makes of a state file is a state, and it is CLEANING or COMPLETED
\* exactly when the file says so; it differs by a cancellation at most.
LEMMA DownloadedType ==
  ASSUME TypeOK, NEW fails, NEW j \in Jobs
  PROVE  LET s == DownloadedState(fails, j)
         IN  /\ s \in States
             /\ state[j].status \in Ended \/ s.status \in Ended => s.status = state[j].status
             /\ state[j].status = "CANCELLING" \/ j \in Struck(fails) => s.status \in Stopping
             /\ state[j].status = "CANCELLING" => s.status = "CANCELLING"
             /\ s.status = "ACTIVE" => state[j].status = "ACTIVE"
             /\ s.status = "PENDING" => state[j].status = "PENDING" \/ state[j] = NoState
             /\ state[j] # NoState => s.tier = state[j].tier /\ s.topo = state[j].topo
<1> DEFINE f == DownloadJobState(state[j])
           s == DownloadedState(fails, j)
<1>1. /\ f \in States
      /\ state[j] # NoState => f = state[j]
      /\ state[j] = NoState => f.status = "PENDING" /\ state[j].status = "NONE"
  <2>1. CASE state[j] = NoState
    <3>1. f = [status |-> "PENDING", tier |-> NoTier, topo |-> NoTopo, updated |-> FALSE]
      BY <2>1 DEF DownloadJobState
    <3> QED
      BY <2>1, <3>1, Sentinels DEF States, Statuses
  <2>2. CASE state[j] # NoState
    BY <2>2 DEF TypeOK, DownloadJobState
  <2> QED
    BY <2>1, <2>2
<1> HIDE DEF f
<1>2. s = IF f.status \in Ended \/ j \notin Struck(fails) THEN f
          ELSE [f EXCEPT !.status = "CANCELLING"]
  BY DEF DownloadedState, f, Ended
<1> HIDE DEF s
<1>3. CASE f.status \in Ended \/ j \notin Struck(fails)
  BY <1>1, <1>2, <1>3, Sentinels DEF Ended, Stopping, Statuses, s
<1>4. CASE f.status \notin Ended /\ j \in Struck(fails)
  <2>1. s = [f EXCEPT !.status = "CANCELLING"]
    BY <1>2, <1>4
  <2>2. s \in States /\ s.status = "CANCELLING" /\ s.tier = f.tier /\ s.topo = f.topo
    BY <1>1, <2>1 DEF States, Statuses
  <2> QED
    BY <1>1, <1>4, <2>2 DEF Ended, Stopping, s
<1> QED
  BY <1>3, <1>4 DEF s

\* A verdict leaves a job PENDING or ACTIVE.
LEMMA ScheduledType ==
  ASSUME TypeOK, NEW j \in Jobs, NEW v \in Verdicts
  PROVE  /\ ScheduledState(j, v) \in States
         /\ ScheduledState(j, v).status \in {"PENDING", "ACTIVE"}
BY DEF ScheduledState, ScheduledStatus, States, Statuses, Verdicts

----------------------------------------------------------------------------
(* What a job may share with another one. *)

\* A job that no malformed jobspec was mixed up with has its own jobspec and its own
\* JobState object, and nobody else has them.
Apart ==
  \A j \in Jobs :
    /\ lname[j] = j \/ {j, lname[j]} \subseteq mixed
    /\ batch[j] # NoEntry => batch[j].name = j \/ {j, batch[j].name} \subseteq mixed
    /\ j \in peers[j] /\ (peers[j] = {j} \/ peers[j] \subseteq mixed)

\* What was read of a job's state file, and is not synced yet, is what the file says but
\* for a cancellation.
Read ==
  \A j \in Jobs \ mixed : batch[j] # NoEntry =>
    /\ state[j].status \in Ended \/ batch[j].state.status \in Ended
         => batch[j].state.status = state[j].status
    /\ state[j].status = "CANCELLING" => batch[j].state.status = "CANCELLING"
    /\ batch[j].state.status = "ACTIVE" => state[j].status = "ACTIVE"
    /\ batch[j].state.status = "PENDING" => state[j].status = "PENDING" \/ state[j] = NoState
    /\ state[j] # NoState => batch[j].state.tier = state[j].tier /\ batch[j].state.topo = state[j].topo

\* A download cancels the jobs with a user state and those that got the jobspec of
\* another job, before the sync reaches them.
Seen ==
  \A j \in Jobs :
    /\ batch[j] # NoEntry /\ (j \in userSeen \/ batch[j].name # j)
         => batch[j].state.status \in Stopping
    /\ pc = "sync" /\ j \in userSeen
         => IF j \in todo THEN batch[j] # NoEntry
            ELSE j \in Active => lstate[j].status \in Stopping

\* The jobs a listed one is given the files of are listed, and its own unless it is
\* malformed; a malformed one, and those it is given the files of, are mixed up.
LEMMA GivenType ==
  ASSUME TypeOK, NEW fails \in [listed -> Failures],
         \A j \in Malformed(fails) : Before(AllRead(fails), j) # {},
         NEW j \in AllRead(fails) \cup Malformed(fails)
  PROVE  /\ SpecOf(fails, j) \in listed /\ StateOf(fails, j) \in listed
         /\ j \notin Malformed(fails) =>
              /\ SpecOf(fails, j) = j /\ StateOf(fails, j) = j /\ UserOf(fails, j) = j
              /\ j \in AllRead(fails)
         /\ j \in Malformed(fails) => StateOf(fails, j) \in Struck(fails)
<1>1. /\ AllRead(fails) \subseteq StateRead(fails) /\ StateRead(fails) \subseteq SpecRead(fails)
      /\ SpecRead(fails) \subseteq listed /\ listed \subseteq Jobs
      /\ Malformed(fails) \subseteq listed
  BY DEF AllRead, StateRead, SpecRead, Malformed, TypeOK
<1>2. CASE j \notin Malformed(fails)
  BY <1>1, <1>2 DEF AllRead, StateRead, SpecRead, SpecOf, StateOf, UserOf
<1>3. CASE j \in Malformed(fails)
  <2>1. ~spec[j].ok /\ j \in Jobs
    BY <1>1, <1>3 DEF Malformed
  <2>2. Before(SpecRead(fails), j) # {} /\ Before(StateRead(fails), j) # {}
    BY <1>1, <1>3 DEF Before
  <2>3. Last(SpecRead(fails), j) \in SpecRead(fails) /\ Last(StateRead(fails), j) \in StateRead(fails)
    BY <1>1, <2>1, <2>2, LastExists
  <2> QED
    BY <1>1, <1>3, <2>1, <2>3 DEF SpecOf, StateOf, Struck
<1> QED
  BY <1>2, <1>3

\* A download brings states and jobspecs of their types; it mixes up no other jobs than
\* those it says, reads what the files say, and cancels what it has to.
LEMMA DownloadType ==
  ASSUME TypeOK, Phases, Apart, NEW fails \in [listed -> Failures], SyncDownload(fails), ~Ends
  PROVE  TypeOK' /\ Phases' /\ Apart' /\ Read' /\ Seen'
<1> DEFINE got == AllRead(fails) \cup Malformed(fails)
           made(j) == [spec |-> spec[SpecOf(fails, j)], name |-> SpecOf(fails, j),
                       state |-> DownloadedState(fails, StateOf(fails, j))]
<1>1. /\ pc = "download" /\ pc' = IF todo' = {} THEN "schedule" ELSE "sync"
      /\ \A j \in Malformed(fails) : Before(AllRead(fails), j) # {}
      /\ batch' = [j \in Jobs |-> IF j \in got THEN made(j) ELSE NoEntry]
      /\ peers' = [j \in Jobs |-> IF j \in got
                     THEN {i \in got : StateOf(fails, i) = StateOf(fails, j)} ELSE peers[j] \ got]
      /\ userSeen' = {j \in got : UserOf(fails, j) \in listedUser}
      /\ mixed' = mixed \cup UNION {{j, SpecOf(fails, j), StateOf(fails, j)} : j \in Malformed(fails)}
      /\ absent' = [j \in Jobs |-> IF j \in Active \ got THEN Another(absent[j]) ELSE 0]
      /\ todo' = got \cup Active /\ listed' = {} /\ listedUser' = {}
      /\ faults' = faults \/ Fault("lost")
      /\ UNCHANGED <<remote, lspec, lname, lstate, missing, procs, cur, delSpec, delState,
                     invalid, pending, submits>>
  BY DEF SyncDownload
<1>2. /\ \A j \in got : /\ SpecOf(fails, j) \in listed /\ StateOf(fails, j) \in listed
                        /\ j \notin Malformed(fails) =>
                              /\ SpecOf(fails, j) = j /\ StateOf(fails, j) = j
                              /\ UserOf(fails, j) = j /\ j \in AllRead(fails)
                        /\ j \in Malformed(fails) => StateOf(fails, j) \in Struck(fails)
      /\ got \subseteq listed /\ listed \subseteq Jobs
  BY <1>1, GivenType DEF TypeOK, AllRead, StateRead, SpecRead, Malformed
<1>3. mixed \subseteq mixed' /\ mixed' \subseteq Jobs
      /\ \A j \in Malformed(fails) : {j, SpecOf(fails, j), StateOf(fails, j)} \subseteq mixed'
  BY <1>1, <1>2 DEF TypeOK
<1>4. \A j \in got : made(j) \in Entries /\ made(j) # NoEntry
  BY <1>1, <1>2, DownloadedType, Sentinels DEF TypeOK, Phases, Entries
<1>5. Read'
  <2> SUFFICES ASSUME NEW j \in Jobs \ mixed', batch'[j] # NoEntry
               PROVE  /\ state[j].status \in Ended \/ batch'[j].state.status \in Ended
                           => batch'[j].state.status = state[j].status
                      /\ state[j].status = "CANCELLING" => batch'[j].state.status = "CANCELLING"
                      /\ batch'[j].state.status = "ACTIVE" => state[j].status = "ACTIVE"
                      /\ batch'[j].state.status = "PENDING"
                           => state[j].status = "PENDING" \/ state[j] = NoState
                      /\ state[j] # NoState => /\ batch'[j].state.tier = state[j].tier
                                               /\ batch'[j].state.topo = state[j].topo
    BY <1>1 DEF Read, remote
  <2>1. j \in got /\ j \notin Malformed(fails)
    BY <1>1, <1>3
  <2>2. batch'[j].state = DownloadedState(fails, j)
    BY <1>1, <1>2, <2>1
  <2> QED
    BY <2>2, DownloadedType
<1>6. Seen'
  <2>1. ASSUME NEW j \in Jobs, batch'[j] # NoEntry, j \in userSeen' \/ batch'[j].name # j
        PROVE  batch'[j].state.status \in Stopping
    <3>1. j \in got /\ batch'[j].name = SpecOf(fails, j)
          /\ batch'[j].state = DownloadedState(fails, StateOf(fails, j))
      BY <1>1, <2>1
    <3>2. StateOf(fails, j) \in Struck(fails)
      BY <1>1, <1>2, <2>1, <3>1 DEF Struck
    <3> QED
      BY <1>2, <3>1, <3>2, DownloadedType
  <2>2. ASSUME NEW j \in Jobs, j \in userSeen' PROVE j \in todo' /\ batch'[j] # NoEntry
    BY <1>1, <1>4, <2>2
  <2> QED
    BY <2>1, <2>2 DEF Seen
<1>7. Apart'
  <2> SUFFICES ASSUME NEW j \in Jobs
               PROVE  /\ batch'[j] # NoEntry => \/ batch'[j].name = j
                                                \/ {j, batch'[j].name} \subseteq mixed'
                      /\ j \in peers'[j] /\ (peers'[j] = {j} \/ peers'[j] \subseteq mixed')
    BY <1>1, <1>3 DEF Apart
  <2>1. batch'[j] # NoEntry => batch'[j].name = j \/ {j, batch'[j].name} \subseteq mixed'
    BY <1>1, <1>2, <1>3
  <2>2. CASE j \notin got
    <3>1. peers'[j] = peers[j] \ got
      BY <1>1, <2>2
    <3> QED
      BY <1>3, <2>1, <2>2, <3>1 DEF Apart
  <2>3. CASE j \in got
    <3>1. peers'[j] = {i \in got : StateOf(fails, i) = StateOf(fails, j)}
      BY <1>1, <2>3
    <3>2. CASE j \in Malformed(fails)
      <4>1. \A i \in peers'[j] : i \in mixed'
        <5> SUFFICES ASSUME NEW i \in got, StateOf(fails, i) = StateOf(fails, j) PROVE i \in mixed'
          BY <3>1
        <5>1. CASE i \in Malformed(fails)
          BY <1>3, <5>1
        <5>2. CASE i \notin Malformed(fails)
          BY <1>2, <1>3, <3>2, <5>2
        <5> QED
          BY <5>1, <5>2
      <4> QED
        BY <2>1, <2>3, <3>1, <4>1
    <3>3. CASE j \notin Malformed(fails) /\ \E i \in Malformed(fails) : StateOf(fails, i) = j
      <4>1. \A i \in peers'[j] : i \in mixed'
        <5> SUFFICES ASSUME NEW i \in got, StateOf(fails, i) = StateOf(fails, j) PROVE i \in mixed'
          BY <3>1
        <5>1. CASE i \in Malformed(fails)
          BY <1>3, <5>1
        <5>2. CASE i \notin Malformed(fails)
          BY <1>2, <1>3, <2>3, <3>3, <5>2
        <5> QED
          BY <5>1, <5>2
      <4> QED
        BY <2>1, <2>3, <3>1, <4>1
    <3>4. CASE j \notin Malformed(fails) /\ ~\E i \in Malformed(fails) : StateOf(fails, i) = j
      <4>1. \A i \in peers'[j] : i = j
        BY <1>2, <2>3, <3>1, <3>4
      <4> QED
        BY <2>1, <2>3, <3>1, <4>1
    <3> QED
      BY <3>2, <3>3, <3>4
  <2> QED
    BY <2>2, <2>3
<1>8. /\ batch' \in [Jobs -> Entries \cup {NoEntry}] /\ peers' \in [Jobs -> SUBSET Jobs]
      /\ todo' \subseteq Jobs /\ userSeen' \subseteq Jobs /\ pc' \in Steps
      /\ absent' \in [Jobs -> 0..OrphanThreshold] /\ faults' \in 0..MaxFaults
  <2>1. \A j \in Jobs : peers'[j] \subseteq Jobs
    BY <1>1, <1>2 DEF TypeOK
  <2>2. \A j \in Jobs : Another(absent[j]) \in 0..OrphanThreshold /\ 0 \in 0..OrphanThreshold
    BY BastionAssumption DEF TypeOK, Another, BastionAssumption
  <2>3. faults' \in 0..MaxFaults
    BY <1>1, BastionAssumption DEF Fault, TypeOK, BastionAssumption
  <2>4. DOMAIN peers' = Jobs /\ peers' = [j \in Jobs |-> peers'[j]]
    BY <1>1
  <2> QED
    BY <1>1, <1>2, <1>4, <2>1, <2>2, <2>3, <2>4 DEF Steps, Active
<1>9. TypeOK'
  BY <1>1, <1>3, <1>8 DEF TypeOK, remote, procs, Entries
<1>10. Phases'
  <2>1. pc' # "sync" => \A j \in Jobs : batch'[j] = NoEntry
    BY <1>1
  <2> QED
    BY <1>1, <2>1 DEF Phases, remote
<1> QED
  BY <1>5, <1>6, <1>7, <1>9, <1>10

----------------------------------------------------------------------------
(* Types. *)

\* So does the sync of a job.
LEMMA SyncType ==
  ASSUME TypeOK, Phases, NEW j \in Jobs, SyncJob(j)
  PROVE  TypeOK' /\ Phases'
<1> USE BastionAssumption DEF BastionAssumption
<1>1. CASE SyncBreaks(j)
  BY <1>1, TypeEnds DEF SyncBreaks, TypeOK
<1>2. CASE ~SyncBreaks(j)
  <2>1. Sync(j)
    BY <1>2 DEF SyncJob, SyncNew, SyncUpdated, SyncMissing, SyncRemoved
  <2>2. /\ pc' \in Steps /\ todo' \subseteq Jobs
        /\ batch' = batch \/ batch' = [i \in Jobs |-> NoEntry]
        /\ pc' # "sync" => batch' = [i \in Jobs |-> NoEntry]
        /\ pc' \in {"sync", "schedule"}
    BY <2>1 DEF Sync, TypeOK, Steps
  <2>3. batch[j] # NoEntry =>
          /\ batch[j].spec \in Specs /\ batch[j].name \in Jobs
          /\ batch[j].state \in States /\ SyncedState(j) \in States
    <3> SUFFICES ASSUME batch[j] # NoEntry
                 PROVE  /\ batch[j].spec \in Specs /\ batch[j].name \in Jobs
                        /\ batch[j].state \in States /\ SyncedState(j) \in States
      OBVIOUS
    <3>1. batch[j] \in [spec : Specs, name : Jobs, state : States]
      BY DEF TypeOK
    <3>2. \A s \in States, b \in BOOLEAN : [s EXCEPT !.updated = s.updated \/ b] \in States
      BY DEF States
    <3> QED
      BY <3>1, <3>2 DEF SyncedState
  <2>4. /\ lspec' \in [Jobs -> Specs \cup {NoSpec}] /\ lstate' \in [Jobs -> States \cup {NoState}]
        /\ lname' \in [Jobs -> Jobs] /\ missing' \in [Jobs -> Nat]
        /\ \A i \in Jobs : (lspec'[i] = NoSpec) <=> (lstate'[i] = NoState)
    <3>1. CASE SyncNew(j)
      BY <2>3, <3>1, Sentinels DEF SyncNew, Enter, TypeOK
    <3>2. CASE SyncUpdated(j)
      BY <2>3, <3>2, Sentinels DEF SyncUpdated, Enter, MissingReset, TypeOK
    <3>3. CASE SyncMissing(j)
      BY <3>3 DEF SyncMissing, TypeOK
    <3>4. CASE SyncRemoved(j)
      BY <3>4 DEF SyncRemoved, TypeOK
    <3> QED
      BY <1>2, <3>1, <3>2, <3>3, <3>4 DEF SyncJob
  <2>5. /\ cmd' \in [Jobs -> Live \cup {"none", "exited"}]
        /\ env' \in [Jobs -> Envs \cup {NoEnv}]
        /\ cleanup' \in [Jobs -> {"none", "running", "exited"}]
    <3>1. /\ cmd \in [Jobs -> Live \cup {"none", "exited"}]
          /\ env \in [Jobs -> Envs \cup {NoEnv}]
          /\ cleanup \in [Jobs -> {"none", "running", "exited"}]
      BY DEF TypeOK
    <3>2. CASE SyncRemoved(j)
      BY <3>1, <3>2 DEF SyncRemoved
    <3>3. CASE ~SyncRemoved(j)
      BY <1>2, <3>1, <3>3 DEF SyncJob, SyncNew, SyncUpdated, SyncMissing, Enter, procs
    <3> QED
      BY <3>2, <3>3
  <2>6. TypeOK'
    BY <2>1, <2>2, <2>4, <2>5 DEF Sync, TypeOK, remote, world
  <2> QED
    BY <2>1, <2>2, <2>6 DEF Sync, Phases, remote, world
<1> QED
  BY <1>1, <1>2

\* So does a call of the scheduler.
LEMMA ScheduleType ==
  ASSUME TypeOK, Phases, Schedule
  PROVE  TypeOK' /\ Phases'
<1>1. Schedulable \subseteq Jobs /\ \A j \in Schedulable : lspec[j] # NoSpec
  BY DEF Schedulable, Active
<1>2. PICK verdict \in [Schedulable -> Verdicts] :
        /\ lstate' = [j \in Jobs |-> IF j \in Schedulable
                                     THEN ScheduledState(j, verdict[j]) ELSE lstate[j]]
        /\ \A j \in Jobs : cmd'[j] \in {"none", cmd[j]} /\ env'[j] \in {NoEnv, env[j]}
        /\ DOMAIN cmd' = Jobs /\ DOMAIN env' = Jobs
        /\ cmd' = [j \in Jobs |-> cmd'[j]] /\ env' = [j \in Jobs |-> env'[j]]
  BY DEF Schedule
<1>3. \A j \in Schedulable : ScheduledState(j, verdict[j]) \in States
  BY <1>1, <1>2, ScheduledType
<1>4. /\ lstate' \in [Jobs -> States \cup {NoState}]
      /\ \A j \in Jobs : (lspec[j] = NoSpec) <=> (lstate'[j] = NoState)
  BY <1>1, <1>2, <1>3, Sentinels DEF TypeOK
<1>5. cmd' \in [Jobs -> Live \cup {"none", "exited"}] /\ env' \in [Jobs -> Envs \cup {NoEnv}]
  BY <1>2 DEF TypeOK
<1> QED
  BY <1>4, <1>5 DEF Schedule, TypeOK, Phases, Active, remote, world, Steps

\* The environment of a command that is started is made of values of the job.
LEMMA EnvType ==
  ASSUME TypeOK, NEW j \in Jobs, lspec[j] # NoSpec
  PROVE  Env(j) \in Envs
BY Sentinels DEF TypeOK, Env, Envs, Specs, States

\* A status is set in the JobState object of a job and of nobody that owns another one.
LEMMA StatusSet ==
  ASSUME TypeOK, Apart, NEW j \in Active, NEW s \in Statuses, SetStatus(j, s)
  PROVE  /\ lstate' \in [Jobs -> States \cup {NoState}]
         /\ lstate'[j].status = s /\ lstate'[j] \in States
         /\ \A i \in Jobs : lstate'[i] = lstate[i] \/ (i \in Active /\ lstate'[i] \in States
                                                         /\ lstate'[i].status = s)
         /\ \A i \in Jobs \ mixed : i # j => lstate'[i] = lstate[i]
<1>1. \A i \in Active : lstate[i] \in States
  BY DEF Active, TypeOK
<1>2. \A i \in Active : /\ [lstate[i] EXCEPT !.status = s] \in States
                        /\ [lstate[i] EXCEPT !.status = s].status = s
  BY <1>1 DEF States
<1>3. \A i \in Jobs : lstate'[i] = IF i \in peers[j] /\ i \in Active
                                   THEN [lstate[i] EXCEPT !.status = s] ELSE lstate[i]
  BY DEF SetStatus
<1>4. j \in peers[j] /\ j \in Jobs /\ (peers[j] = {j} \/ peers[j] \subseteq mixed)
  BY DEF Apart, Active
<1>5. lstate' = [i \in Jobs |-> lstate'[i]]
  BY DEF SetStatus
<1>6. \A i \in Jobs : lstate'[i] \in States \cup {NoState}
  <2>1. \A i \in Jobs : lstate[i] \in States \cup {NoState}
    BY DEF TypeOK
  <2> QED
    BY <1>2, <1>3, <2>1
<1> QED
  BY <1>2, <1>3, <1>4, <1>5, <1>6

\* What the update of a job leaves alone, and what it may do.
LEMMA UpdateShape ==
  ASSUME TypeOK, Apart, NEW j \in Jobs, UpdateSingleJob(j)
  PROVE  /\ j \in Active /\ j \in todo /\ lstate[j] \in States
         /\ pc = "update" /\ pc' = "upload" /\ cur' = j /\ todo' = todo \ {j}
         /\ UNCHANGED <<spec, state, ustate, lspec, lname, peers, missing, listed, listedUser,
                        userSeen, batch, delSpec, delState, world>>
         /\ lstate' \in [Jobs -> States \cup {NoState}]
         /\ \A i \in Jobs : (lspec[i] = NoSpec) <=> (lstate'[i] = NoState)
         /\ \A i \in Jobs \ {j} : cmd'[i] = cmd[i] /\ env'[i] = env[i] /\ cleanup'[i] = cleanup[i]
         /\ \A i \in Jobs \ mixed : i # j => lstate'[i] = lstate[i]
         /\ \A i \in Jobs : lstate[i].status \in Stopping => lstate'[i].status \in Stopping
<1>1. PICK s \in Statuses : Reach(j, s)
  BY DEF UpdateSingleJob, UpdatePending, StartCommand, PollCommand, UpdateCancelling,
         UpdateCleaning, UpdateCompleted, Statuses
<1>2. lstate[j] # NoState
  BY <1>1, Sentinels DEF Reach, Statuses
<1>3. UNCHANGED <<spec, state, ustate>>
  BY DEF UpdateSingleJob, UpdatePending, StartCommand, PollCommand, UpdateCancelling,
         UpdateCleaning, UpdateCompleted, remote
<1>4. j \in Active /\ lstate[j] \in States
  BY <1>2 DEF Active, TypeOK
<1>5. lstate' = lstate \/ SetStatus(j, "CLEANING") \/ SetStatus(j, "COMPLETED")
  BY DEF UpdateSingleJob, UpdatePending, StartCommand, PollCommand, UpdateCancelling,
         UpdateCleaning, UpdateCompleted, procs
<1>6. \A i \in Jobs \ {j} : cmd'[i] = cmd[i] /\ env'[i] = env[i] /\ cleanup'[i] = cleanup[i]
  BY DEF UpdateSingleJob, UpdatePending, StartCommand, PollCommand, UpdateCancelling,
         UpdateCleaning, UpdateCompleted, SetCmd, TypeOK, procs
<1>7. /\ lstate' \in [Jobs -> States \cup {NoState}]
      /\ \A i \in Jobs : (lspec[i] = NoSpec) <=> (lstate'[i] = NoState)
      /\ \A i \in Jobs \ mixed : i # j => lstate'[i] = lstate[i]
      /\ \A i \in Jobs : lstate[i].status \in Stopping => lstate'[i].status \in Stopping
  <2>1. CASE lstate' = lstate
    BY <2>1 DEF TypeOK
  <2>2. ASSUME NEW t \in {"CLEANING", "COMPLETED"}, SetStatus(j, t)
        PROVE  /\ lstate' \in [Jobs -> States \cup {NoState}]
               /\ \A i \in Jobs : (lspec[i] = NoSpec) <=> (lstate'[i] = NoState)
               /\ \A i \in Jobs \ mixed : i # j => lstate'[i] = lstate[i]
               /\ \A i \in Jobs : lstate[i].status \in Stopping => lstate'[i].status \in Stopping
    <3>1. t \in Statuses /\ t \in Stopping
      BY DEF Statuses, Stopping, Ended
    <3>2. \A i \in Jobs : lstate'[i] = lstate[i] \/ (i \in Active /\ lstate'[i] \in States
                                                       /\ lstate'[i].status = t)
      BY <1>4, <2>2, <3>1, StatusSet
    <3>3. lstate' \in [Jobs -> States \cup {NoState}] /\ \A i \in Jobs \ mixed : i # j => lstate'[i] = lstate[i]
      BY <1>4, <2>2, <3>1, StatusSet
    <3>4. \A i \in Jobs : (lspec[i] = NoSpec) <=> (lstate'[i] = NoState)
      BY <3>2, Sentinels DEF TypeOK, Active
    <3> QED
      BY <3>1, <3>2, <3>3, <3>4
  <2> QED
    BY <1>5, <2>1, <2>2
<1> QED
  BY <1>1, <1>3, <1>4, <1>6, <1>7 DEF Reach

\* And the update of a job.
LEMMA UpdateType ==
  ASSUME TypeOK, Phases, Apart, NEW j \in Jobs, UpdateSingleJob(j)
  PROVE  TypeOK' /\ Phases'
<1>1. /\ lspec[j] # NoSpec /\ pc = "update" /\ pc' = "upload" /\ cur' = j /\ todo' = todo \ {j}
      /\ UNCHANGED <<spec, state, ustate, lspec, lname, peers, missing, listed, listedUser,
                     userSeen, batch, delSpec, delState, world>>
      /\ lstate' \in [Jobs -> States \cup {NoState}]
      /\ \A i \in Jobs : (lspec[i] = NoSpec) <=> (lstate'[i] = NoState)
  BY UpdateShape DEF Active
<1>2. /\ cmd' \in [Jobs -> Live \cup {"none", "exited"}]
      /\ env' \in [Jobs -> Envs \cup {NoEnv}]
      /\ cleanup' \in [Jobs -> {"none", "running", "exited"}]
  <2>1. /\ cmd \in [Jobs -> Live \cup {"none", "exited"}]
        /\ env \in [Jobs -> Envs \cup {NoEnv}]
        /\ cleanup \in [Jobs -> {"none", "running", "exited"}]
        /\ Env(j) \in Envs
    BY <1>1, EnvType DEF TypeOK
  <2>2. CASE UpdatePending(j) \/ PollCommand(j) \/ UpdateCompleted(j) \/ UpdateCancelling(j)
    BY <2>1, <2>2 DEF UpdatePending, PollCommand, UpdateCompleted, UpdateCancelling, SetCmd, procs,
       Live
  <2>3. CASE StartCommand(j)
    BY <2>1, <2>3 DEF StartCommand, SetCmd, Live
  <2>4. CASE UpdateCleaning(j)
    BY <2>1, <2>4 DEF UpdateCleaning, SetCmd
  <2> QED
    BY <2>2, <2>3, <2>4 DEF UpdateSingleJob
<1>3. complete' \in [Jobs -> 0..MaxSubmits]
  BY <1>1, BastionAssumption
     DEF UpdateSingleJob, UpdatePending, StartCommand, PollCommand, UpdateCancelling,
         UpdateCleaning, UpdateCompleted, TypeOK, remote, Specs, BastionAssumption
<1> QED
  BY <1>1, <1>2, <1>3 DEF TypeOK, Phases, Steps, world

\* What is exclusive at first is mixed up by a download only.
LEMMA ApartInit == Init => Apart /\ Read /\ Seen
BY DEF Init, Apart, Read, Seen

\* A sync enters what was downloaded, or makes a job forget what it had.
LEMMA ApartSync ==
  ASSUME TypeOK, Apart, NEW j \in Jobs, SyncJob(j)
  PROVE  Apart'
<1>1. CASE SyncBreaks(j)
  BY <1>1 DEF SyncBreaks, Ends, Apart
<1>2. CASE ~SyncBreaks(j)
  <2>1. /\ mixed' = mixed /\ peers' = peers
        /\ batch' = batch \/ batch' = [i \in Jobs |-> NoEntry]
    BY <1>2 DEF SyncJob, SyncNew, SyncUpdated, SyncMissing, SyncRemoved, Sync, world
  <2>2. \A i \in Jobs : lname'[i] \in {lname[i], i} \/ (batch[i] # NoEntry /\ lname'[i] = batch[i].name)
    BY <1>2 DEF SyncJob, SyncNew, SyncUpdated, SyncMissing, SyncRemoved, Enter, TypeOK
  <2> QED
    BY <2>1, <2>2 DEF Apart
<1> QED
  BY <1>1, <1>2

\* The steps that change what Apart is about.
LEMMA ApartNext == TypeOK /\ Phases /\ Apart /\ [Next]_vars => Apart'
<1> SUFFICES ASSUME TypeOK, Phases, Apart, [Next]_vars PROVE Apart'
  OBVIOUS
<1>1. ASSUME NEW fails \in [listed -> Failures], SyncDownload(fails) PROVE Apart'
  <2>1. CASE Ends
    BY <2>1 DEF Ends, Apart
  <2> QED
    BY <1>1, <2>1, DownloadType
<1>2. ASSUME NEW j \in Jobs, SyncJob(j) PROVE Apart'
  BY <1>2, ApartSync
<1>3. CASE Ends
  BY <1>3 DEF Ends, Apart
<1>4. CASE UNCHANGED <<lname, batch, peers, mixed>>
  BY <1>4 DEF Apart
<1>5. \/ UNCHANGED <<lname, batch, peers, mixed>> \/ Ends
      \/ (\E fails \in [listed -> Failures] : SyncDownload(fails)) \/ \E j \in Jobs : SyncJob(j)
  <2>1. CASE BastionStep
    BY <2>1 DEF BastionStep, SyncList, Schedule, UpdateSingleJob, UpdatePending, StartCommand,
       PollCommand, UpdateCancelling, UpdateCleaning, UpdateCompleted, Reach, CleaningBreaks,
       UploadJobState, RemoveUserState, UpdateDone, Sweep, DeleteJobspec, DeleteState, GcDone,
       tables, world
  <2>2. CASE FaultStep
    BY <2>2 DEF FaultStep, UpdateJobFails, DeleteFails, MembershipChanges, Crash, tables, loop
  <2>3. CASE ProcStep \/ ClientStep
    BY <2>3 DEF ProcStep, ClientStep, CommandExits, CleanupExits, Check, WriteSubmit, WriteCancel,
       WriteUpdate, Finish, tables, loop, world
  <2>4. CASE UNCHANGED vars
    BY <2>4 DEF vars, tables, loop, world
  <2> QED
    BY <2>1, <2>2, <2>3, <2>4 DEF Next
<1> QED
  BY <1>1, <1>2, <1>3, <1>4, <1>5

\* The types of the variables are preserved by every step.
LEMMA TypeNext == TypeOK /\ Phases /\ Apart /\ [Next]_vars => TypeOK' /\ Phases'
<1> SUFFICES ASSUME TypeOK, Phases, Apart, [Next]_vars PROVE TypeOK' /\ Phases'
  OBVIOUS
<1> USE BastionAssumption DEF BastionAssumption
<1>0. faults \in 0..MaxFaults /\ \A kind : Fault(kind) => faults' \in 0..MaxFaults
  BY DEF TypeOK, Fault
<1>1. CASE SyncList
  BY <1>1 DEF SyncList, TypeOK, Phases, remote, tables, procs, world, Steps
<1>2. ASSUME NEW fails \in [listed -> Failures], SyncDownload(fails) PROVE TypeOK' /\ Phases'
  <2>1. CASE Ends
    BY <1>0, <1>2, <2>1, TypeEnds DEF SyncDownload
  <2> QED
    BY <1>2, <2>1, DownloadType
<1>21. ASSUME NEW j \in Jobs, SyncJob(j) PROVE TypeOK' /\ Phases'
  BY <1>21, SyncType
<1>3. CASE Schedule
  BY <1>3, ScheduleType
<1>4. ASSUME NEW j \in Jobs, UpdateSingleJob(j) PROVE TypeOK' /\ Phases'
  BY <1>4, UpdateType
<1>41. ASSUME NEW j \in Jobs, CleaningBreaks(j) PROVE TypeOK' /\ Phases'
  BY <1>0, <1>41, TypeEnds DEF CleaningBreaks
<1>5. CASE UploadJobState
  BY <1>5 DEF UploadJobState, TypeOK, Phases, tables, procs, world, Steps
<1>6. CASE RemoveUserState
  BY <1>6 DEF RemoveUserState, TypeOK, Phases, tables, procs, world, Steps
<1>7. CASE UpdateDone
  BY <1>7 DEF UpdateDone, TypeOK, Phases, remote, tables, procs, world, Steps
<1>8. ASSUME NEW cleaned \in SUBSET IdleJobs, Sweep(cleaned) PROVE TypeOK' /\ Phases'
  BY <1>8 DEF Sweep, IdleJobs, Active, TypeOK, Phases, remote, tables, procs, world, Steps
<1>9. ASSUME NEW j \in Jobs, DeleteJobspec(j) PROVE TypeOK' /\ Phases'
  BY <1>9 DEF DeleteJobspec, TypeOK, Phases, tables, procs, world
<1>10. ASSUME NEW j \in Jobs, DeleteState(j) PROVE TypeOK' /\ Phases'
  BY <1>10 DEF DeleteState, TypeOK, Phases, tables, procs, world
<1>11. CASE GcDone
  BY <1>11 DEF GcDone, TypeOK, Phases, remote, tables, procs, world, Steps
<1>12. CASE UpdateJobFails
  BY <1>12 DEF UpdateJobFails, Fault, TypeOK, Phases, remote, tables, procs, Steps
<1>13. CASE Crash
  BY <1>0, <1>13, TypeEnds DEF Crash
<1>14. ASSUME NEW j \in Jobs, DeleteFails(j) PROVE TypeOK' /\ Phases'
  BY <1>14 DEF DeleteFails, Fault, TypeOK, Phases, remote, tables, procs
<1>15. ASSUME NEW j \in Jobs, MembershipChanges(j) PROVE TypeOK' /\ Phases'
  BY <1>15 DEF MembershipChanges, Fault, TypeOK, Phases, remote, tables, procs, loop
<1>16. ASSUME NEW j \in Jobs, CommandExits(j) \/ CleanupExits(j) PROVE TypeOK' /\ Phases'
  <2>1. CASE CommandExits(j)
    BY <2>1 DEF CommandExits, TypeOK, Phases, remote, tables, loop, world
  <2>2. CASE CleanupExits(j)
    BY <2>2 DEF CleanupExits, TypeOK, Phases, remote, tables, loop, world
  <2> QED
    BY <1>16, <2>1, <2>2
<1>17. ASSUME NEW j \in Jobs, NEW op \in Calls, Check(op, j) PROVE TypeOK' /\ Phases'
  BY <1>17 DEF Check, TypeOK, Phases, remote, tables, procs, loop
<1>18. ASSUME NEW j \in Jobs, WriteSubmit(j) \/ WriteCancel(j) \/ WriteUpdate(j)
       PROVE TypeOK' /\ Phases'
  <2>1. ASSUME NEW n \in 1..MaxSubmits, WriteJobspec(j, n)
        PROVE  /\ spec' \in [Jobs -> Specs \cup {NoSpec}] /\ faults' \in 0..MaxFaults
               /\ spec'[j] # NoSpec /\ \A i \in Jobs \ {j} : spec'[i] = spec[i]
    BY <1>0, <2>1, Sentinels DEF WriteJobspec, Specs, TypeOK
  <2>2. ASSUME NEW op \in {"submit", "update"}, Finish(op, j), ustate' = ustate,
               NEW n \in 1..MaxSubmits, WriteJobspec(j, n),
               submits' \in [Jobs -> 0..MaxSubmits], submits'[j] > 0,
               \A i \in Jobs : /\ i = j \/ submits'[i] = submits[i]
                               /\ <<"submit", i>> \in pending' => submits'[i] < MaxSubmits
        PROVE  TypeOK' /\ Phases'
    <3>1. /\ pending' \subseteq pending
          /\ UNCHANGED <<state, complete, tables, procs, loop, invalid, absent, mixed>>
      BY <2>2 DEF Finish
    <3>2. TypeOK'
      BY <2>1, <2>2, <3>1 DEF TypeOK, tables, procs, loop
    <3>3. \A i \in Jobs : spec'[i] # NoSpec \/ <<"update", i>> \in pending' => submits'[i] > 0
      BY <2>1, <2>2, <3>1 DEF Phases
    <3>4. listed' = listed /\ listed \subseteq Jobs /\ pc' = pc
      BY <3>1 DEF TypeOK, loop
    <3>5. pc' = "download" => \A i \in listed' : spec'[i] # NoSpec
      BY <2>1, <2>2, <3>4 DEF Phases
    <3>6. /\ delSpec' \cup delState' # {} => pc' = "delete"
          /\ pc' # "sync" => \A i \in Jobs : batch'[i] = NoEntry
          /\ pc' \in {"upload", "user_state"} => cur' \in Jobs /\ lspec'[cur'] # NoSpec
      BY <3>1 DEF Phases, tables, loop
    <3> QED
      BY <2>2, <3>2, <3>3, <3>5, <3>6 DEF Phases
  <2>3. CASE WriteSubmit(j)
    <3>1. Finish("submit", j) /\ ustate' = ustate
      BY <2>3 DEF WriteSubmit
    <3>2. CASE spec[j] = NoSpec
      <4>1. /\ submits' = [submits EXCEPT ![j] = @ + 1]
            /\ WriteJobspec(j, submits[j] + 1)
        BY <2>3, <3>2 DEF WriteSubmit
      <4>2. submits \in [Jobs -> 0..MaxSubmits] /\ submits[j] < MaxSubmits
        BY <3>1 DEF Finish, TypeOK, Phases
      <4>3. /\ submits' \in [Jobs -> 0..MaxSubmits] /\ submits'[j] > 0
            /\ submits[j] + 1 \in 1..MaxSubmits
            /\ \A i \in Jobs : i = j \/ submits'[i] = submits[i]
        BY <4>1, <4>2
      <4>4. \A i \in Jobs : <<"submit", i>> \in pending' => submits'[i] < MaxSubmits
        BY <3>1, <4>3 DEF Finish, Phases
      <4> QED
        BY <2>2, <3>1, <4>1, <4>3, <4>4
    <3>3. CASE spec[j] # NoSpec
      <4>1. pending' \subseteq pending /\ UNCHANGED <<remote, tables, procs, loop>>
            /\ UNCHANGED <<invalid, submits, faults, absent, mixed>>
        BY <2>3, <3>3 DEF WriteSubmit, Finish, remote
      <4>2. TypeOK'
        BY <4>1 DEF TypeOK, remote, tables, procs, loop
      <4>3. Phases'
        BY <4>1 DEF Phases, remote, tables, procs, loop
      <4> QED
        BY <4>2, <4>3
    <3> QED
      BY <3>2, <3>3
  <2>4. CASE WriteCancel(j)
    BY <2>4 DEF WriteCancel, Finish, TypeOK, Phases, tables, procs, loop
  <2>5. CASE WriteUpdate(j)
    <3>1. /\ Finish("update", j) /\ ustate' = ustate /\ submits' = submits
          /\ WriteJobspec(j, submits[j])
      BY <2>5 DEF WriteUpdate
    <3>2. submits \in [Jobs -> 0..MaxSubmits] /\ submits[j] \in 1..MaxSubmits
      BY <3>1 DEF Finish, Phases, TypeOK
    <3>3. \A i \in Jobs : <<"submit", i>> \in pending' => submits'[i] < MaxSubmits
      BY <3>1 DEF Finish, Phases
    <3> QED
      BY <2>2, <3>1, <3>2, <3>3
  <2> QED
    BY <1>18, <2>3, <2>4, <2>5
<1>20. CASE UNCHANGED vars
  BY <1>20 DEF vars, remote, tables, procs, loop, world, TypeOK, Phases
<1> QED
  BY <1>1, <1>2, <1>21, <1>3, <1>4, <1>41, <1>5, <1>6, <1>7, <1>8, <1>9, <1>10, <1>11, <1>12,
     <1>13, <1>14, <1>15, <1>16, <1>17, <1>18, <1>20
     DEF Next, BastionStep, FaultStep, ProcStep, ClientStep

\* Every behaviour keeps the types, and what each phase of the loop takes for granted.
THEOREM TypeCorrect == Spec => [](TypeOK /\ Phases)
<1>1. TypeOK /\ Phases /\ Apart /\ [Next]_vars => TypeOK' /\ Phases' /\ Apart'
  BY TypeNext, ApartNext
<1> QED
  BY <1>1, TypeInit, ApartInit, PTL DEF Spec

----------------------------------------------------------------------------
(* The life cycle. *)

Batch == Read /\ Seen

\* The sync of a job uses up its entry.
LEMMA BatchSync ==
  ASSUME TypeOK, Phases, Batch, NEW j \in Jobs, SyncJob(j), ~Ends
  PROVE  /\ Batch'
         /\ \A i \in userSeen \cap Active' : i \notin todo' => lstate'[i].status \in Stopping
<1>1. Sync(j) /\ j \in Jobs
  BY DEF SyncJob, SyncNew, SyncUpdated, SyncMissing, SyncRemoved, SyncBreaks
<1>2. /\ pc = "sync" /\ j \in todo /\ todo' = todo \ {j} /\ userSeen' = userSeen
      /\ state' = state /\ mixed' = mixed
      /\ batch' = batch \/ batch' = [i \in Jobs |-> NoEntry]
      /\ pc' = "sync" => batch' = batch
  BY <1>1 DEF Sync, remote, world
<1>3. Read'
  BY <1>2 DEF Batch, Read
<1>4. \A i \in userSeen \cap Active' : i \notin todo' => lstate'[i].status \in Stopping
  <2> SUFFICES ASSUME NEW i \in userSeen \cap Active', i \notin todo'
               PROVE  lstate'[i].status \in Stopping
    OBVIOUS
  <2>0. i \in Jobs /\ (i = j \/ i \notin todo) /\ (i # j => i \notin todo)
    BY <1>2 DEF TypeOK
  <2>1. CASE SyncNew(j) \/ SyncUpdated(j)
    <3>1. CASE i = j
      <4>1. batch[j].state.status \in Stopping /\ batch[j].state \in States
        BY <1>2, <2>1, <3>1 DEF SyncNew, SyncUpdated, Batch, Seen, TypeOK
      <4>2. SyncedState(j).status = batch[j].state.status
        BY <4>1 DEF SyncedState, States
      <4> QED
        BY <2>1, <3>1, <4>1, <4>2 DEF SyncNew, SyncUpdated, Enter, TypeOK
    <3>2. CASE i # j
      <4>1. lstate'[i] = lstate[i] /\ lspec'[i] = lspec[i]
        BY <2>0, <2>1, <3>2 DEF SyncNew, SyncUpdated, Enter, TypeOK
      <4> QED
        BY <1>2, <2>0, <3>2, <4>1 DEF Batch, Seen, Active
    <3> QED
      BY <3>1, <3>2
  <2>2. CASE SyncMissing(j)
    BY <1>2, <2>0, <2>2 DEF SyncMissing, Batch, Seen, Active
  <2>3. CASE SyncRemoved(j)
    <3>1. i \in Active /\ lstate'[i] = lstate[i]
      BY <2>0, <2>3 DEF SyncRemoved, Active, TypeOK
    <3>2. j \notin userSeen
      BY <1>2, <2>3 DEF SyncRemoved, ToRemove, Batch, Seen
    <3> QED
      BY <1>2, <2>0, <3>1, <3>2 DEF Batch, Seen
  <2> QED
    BY <2>1, <2>2, <2>3 DEF SyncJob, SyncBreaks
<1>5. Seen'
  <2>1. ASSUME NEW i \in Jobs, batch'[i] # NoEntry, i \in userSeen' \/ batch'[i].name # i
        PROVE  batch'[i].state.status \in Stopping
    BY <1>2, <2>1 DEF Batch, Seen
  <2>2. ASSUME NEW i \in Jobs, pc' = "sync", i \in userSeen', i \in todo'
        PROVE  batch'[i] # NoEntry
    BY <1>2, <2>2 DEF Batch, Seen
  <2> QED
    BY <1>2, <1>4, <2>1, <2>2 DEF Seen
<1> QED
  BY <1>3, <1>4, <1>5 DEF Batch

\* Every other step either leaves the entries and what they are compared with alone, or
\* leaves no entries.
LEMMA BatchNext == TypeOK /\ Phases /\ Apart /\ Batch /\ [Next]_vars => Batch'
<1> SUFFICES ASSUME TypeOK, Phases, Apart, Batch, [Next]_vars PROVE Batch'
  OBVIOUS
<1>1. CASE Ends
  BY <1>1 DEF Ends, Batch, Read, Seen
<1>2. ASSUME NEW fails \in [listed -> Failures], SyncDownload(fails), ~Ends PROVE Batch'
  BY <1>2, DownloadType DEF Batch
<1>3. ASSUME NEW j \in Jobs, SyncJob(j), ~Ends PROVE Batch'
  BY <1>3, BatchSync
<1>4. CASE pc \notin {"download", "sync"} /\ UNCHANGED batch /\ pc' # "sync"
  BY <1>4 DEF Batch, Read, Seen, Phases
<1>5. CASE UNCHANGED <<pc, state, lspec, lstate, batch, userSeen, todo, mixed>>
  BY <1>5 DEF Batch, Read, Seen, Active
<1>6. \/ Ends \/ (\E fails \in [listed -> Failures] : SyncDownload(fails))
      \/ (\E j \in Jobs : SyncJob(j))
      \/ pc \notin {"download", "sync"} /\ UNCHANGED batch /\ pc' # "sync"
      \/ UNCHANGED <<pc, state, lspec, lstate, batch, userSeen, todo, mixed>>
  <2>1. CASE BastionStep
    <3>1. CASE SyncList \/ Schedule \/ UploadJobState \/ RemoveUserState \/ UpdateDone \/ GcDone
      BY <3>1 DEF SyncList, Schedule, UploadJobState, RemoveUserState, UpdateDone, GcDone
    <3>2. CASE \E j \in Jobs : UpdateSingleJob(j) \/ CleaningBreaks(j)
      BY <3>2 DEF UpdateSingleJob, UpdatePending, StartCommand, PollCommand, UpdateCancelling,
         UpdateCleaning, UpdateCompleted, Reach, CleaningBreaks
    <3>3. CASE \E cleaned \in SUBSET IdleJobs : Sweep(cleaned)
      BY <3>3 DEF Sweep
    <3>4. CASE \E j \in Jobs : DeleteJobspec(j) \/ DeleteState(j)
      BY <3>4 DEF DeleteJobspec, DeleteState, Phases
    <3> QED
      BY <2>1, <3>1, <3>2, <3>3, <3>4 DEF BastionStep
  <2>2. CASE FaultStep
    BY <2>2 DEF FaultStep, UpdateJobFails, DeleteFails, MembershipChanges, Crash, tables, loop,
       remote, Phases
  <2>3. CASE ProcStep \/ ClientStep
    BY <2>3 DEF ProcStep, ClientStep, CommandExits, CleanupExits, Check, WriteSubmit, WriteCancel,
       WriteUpdate, Finish, tables, loop, world, remote
  <2>4. CASE UNCHANGED vars
    BY <2>4 DEF vars, tables, loop, world, remote
  <2> QED
    BY <2>1, <2>2, <2>3, <2>4 DEF Next
<1> QED
  BY <1>1, <1>2, <1>3, <1>4, <1>5, <1>6

\* Nothing is remembered and nothing runs at first.
LEMMA LifeCycleInit == Init => LifeCycle /\ Batch
<1>1. Init => LifeCycle
  BY Sentinels DEF Init, LifeCycle, NotBehind, CommandStopped, CancelSeen, Live, Ended, Active
<1> QED
  BY <1>1, ApartInit DEF Batch

\* The next bastion remembers nothing.
LEMMA LifeCycleEnds ==
  ASSUME Ends PROVE LifeCycle'
BY DEF Ends, LifeCycle, NotBehind, CommandStopped, CancelSeen, Live, Active

\* A download leaves the memory alone.
LEMMA LifeCycleDownload ==
  ASSUME TypeOK, Phases, Apart, LifeCycle, NEW fails \in [listed -> Failures],
         SyncDownload(fails), ~Ends
  PROVE  LifeCycle'
<1>1. /\ UNCHANGED <<remote, lspec, lname, lstate, cmd>> /\ mixed \subseteq mixed'
      /\ userSeen' \subseteq todo' /\ Active \subseteq todo' /\ pc' \in {"sync", "schedule"}
      /\ pc' # "sync" => todo' = {}
  BY DEF SyncDownload, procs, AllRead
<1>2. NotBehind' /\ CommandStopped'
  BY <1>1 DEF LifeCycle, NotBehind, CommandStopped, remote
<1>3. CancelSeen'
  BY <1>1 DEF LifeCycle, CancelSeen, Active
<1> QED
  BY <1>2, <1>3 DEF LifeCycle

\* A sync cannot leave the memory behind: what it was given is what the file says.
LEMMA LifeCycleSync ==
  ASSUME TypeOK, Phases, Apart, Batch, LifeCycle, NEW j \in Jobs, SyncJob(j), ~Ends
  PROVE  LifeCycle'
<1>1. /\ pc = "sync" /\ state' = state /\ mixed' = mixed /\ pc' \in {"sync", "schedule"}
      /\ userSeen' = userSeen /\ (pc' # "sync" => todo' = {})
  BY DEF SyncJob, SyncNew, SyncUpdated, SyncMissing, SyncRemoved, SyncBreaks, Sync, remote, world
<1>2. ASSUME NEW i \in Jobs
      PROVE  /\ \/ lstate'[i] = lstate[i] /\ lspec'[i] = lspec[i] /\ lname'[i] = lname[i]
                \/ lstate'[i] = NoState /\ lspec'[i] = NoSpec /\ lname'[i] = i
                \/ /\ batch[i] # NoEntry /\ lstate'[i].status = batch[i].state.status
                   /\ lname'[i] = batch[i].name
             /\ cmd'[i] \in {"none", cmd[i]}
  <2>1. batch[j] # NoEntry => SyncedState(j).status = batch[j].state.status
    BY DEF TypeOK, SyncedState, States
  <2>2. CASE SyncNew(j) \/ SyncUpdated(j)
    BY <2>1, <2>2 DEF SyncNew, SyncUpdated, Enter, procs, TypeOK
  <2>3. CASE SyncMissing(j)
    BY <2>3 DEF SyncMissing, procs
  <2>4. CASE SyncRemoved(j)
    <3>1. /\ lspec \in [Jobs -> Specs \cup {NoSpec}] /\ lstate \in [Jobs -> States \cup {NoState}]
          /\ lname \in [Jobs -> Jobs] /\ cmd \in [Jobs -> Live \cup {"none", "exited"}]
      BY DEF TypeOK
    <3> QED
      BY <2>4, <3>1 DEF SyncRemoved
  <2> QED
    BY <2>2, <2>3, <2>4 DEF SyncJob, SyncBreaks
<1>3. NotBehind'
  <2> SUFFICES ASSUME NEW i \in Jobs \ mixed, lstate'[i] # NoState
               PROVE  /\ state[i].status = "CANCELLING" => lstate'[i].status \in Stopping
                      /\ state[i].status = "CLEANING"   => lstate'[i].status \in Ended
                      /\ state[i].status = "COMPLETED"  => lstate'[i].status = "COMPLETED"
    BY <1>1 DEF NotBehind
  <2>1. CASE lstate'[i] = lstate[i]
    BY <2>1 DEF LifeCycle, NotBehind
  <2>2. CASE batch[i] # NoEntry /\ lstate'[i].status = batch[i].state.status
    BY <2>2 DEF Batch, Read, Ended, Stopping
  <2> QED
    BY <1>2, <2>1, <2>2
<1>4. CommandStopped'
  <2> SUFFICES ASSUME NEW i \in Jobs \ mixed, cmd'[i] \in Live
               PROVE  lstate'[i].status \notin Ended /\ state[i].status \notin Ended
    BY <1>1 DEF CommandStopped
  <2>1. lstate[i].status \notin Ended /\ state[i].status \notin Ended
    BY <1>2 DEF Live, LifeCycle, CommandStopped
  <2> QED
    BY <1>2, <2>1, Sentinels DEF Batch, Read, Ended
<1>5. CancelSeen'
  <2>1. pc' # "sync" => \A i \in userSeen' \cap Active' : lstate'[i].status \in Stopping
    BY <1>1, BatchSync
  <2>2. \A i \in Active' : lname'[i] # i => lstate'[i].status \in Stopping
    BY <1>2 DEF LifeCycle, CancelSeen, Batch, Seen, Active
  <2> QED
    BY <1>1, <2>1, <2>2 DEF CancelSeen
<1> QED
  BY <1>3, <1>4, <1>5 DEF LifeCycle

\* A verdict only concerns jobs that are open in memory, and so in storage.
LEMMA LifeCycleSchedule ==
  ASSUME TypeOK, Phases, LifeCycle, Schedule
  PROVE  LifeCycle'
<1>1. PICK verdict \in [Schedulable -> Verdicts] :
        /\ \A j \in Jobs : lstate'[j] = IF j \in Schedulable
                                        THEN ScheduledState(j, verdict[j]) ELSE lstate[j]
        /\ \A j \in Jobs : cmd'[j] \in {"none", cmd[j]}
  BY DEF Schedule
<1>2. \A j \in Schedulable : /\ lstate[j].status \in {"PENDING", "ACTIVE"} /\ j \in Jobs
                             /\ ScheduledState(j, verdict[j]).status \in {"PENDING", "ACTIVE"}
  BY <1>1, ScheduledType DEF Schedulable, Active
<1>3. UNCHANGED <<state, userSeen, lspec, lname, mixed>> /\ pc = "schedule" /\ pc' = "update"
  BY DEF Schedule, remote, world
<1>4. NotBehind'
  BY <1>1, <1>2, <1>3, Sentinels
     DEF LifeCycle, NotBehind, Ended, Stopping, TypeOK, Schedulable, Active
<1>5. CommandStopped'
  BY <1>1, <1>2, <1>3 DEF LifeCycle, CommandStopped, Live, Ended
<1>6. CancelSeen'
  BY <1>1, <1>2, <1>3 DEF LifeCycle, CancelSeen, Ended, Stopping, TypeOK, Active
<1> QED
  BY <1>4, <1>5, <1>6 DEF LifeCycle

\* An update moves a job forward, and stops its command before it ends; what it does to
\* others that share its state, no job does that has one of its own.
LEMMA LifeCycleUpdate ==
  ASSUME TypeOK, Phases, Apart, LifeCycle, NEW j \in Jobs, UpdateSingleJob(j)
  PROVE  LifeCycle'
<1>1. /\ j \in Active /\ lstate[j] \in States /\ pc = "update" /\ pc' = "upload"
      /\ UNCHANGED <<state, lspec, lname, userSeen, mixed>>
      /\ \A i \in Jobs \ {j} : cmd'[i] = cmd[i]
      /\ \A i \in Jobs \ mixed : i # j => lstate'[i] = lstate[i]
      /\ \A i \in Jobs : lstate[i].status \in Stopping => lstate'[i].status \in Stopping
  BY UpdateShape DEF world
<1>2. ASSUME NEW s \in Statuses, SetStatus(j, s)
      PROVE  lstate'[j].status = s /\ lstate'[j] # NoState
  BY <1>1, <1>2, StatusSet, Sentinels
<1>3. CancelSeen'
  BY <1>1 DEF LifeCycle, CancelSeen, Active
<1>4. j \notin mixed =>
        /\ state[j].status = "CANCELLING" => lstate'[j].status \in Stopping
        /\ state[j].status = "CLEANING"   => lstate'[j].status \in Ended
        /\ state[j].status = "COMPLETED"  => lstate'[j].status = "COMPLETED"
        /\ cmd'[j] \in Live => lstate'[j].status \notin Ended /\ state[j].status \notin Ended
  <2> SUFFICES ASSUME j \notin mixed
               PROVE  /\ state[j].status = "CANCELLING" => lstate'[j].status \in Stopping
                      /\ state[j].status = "CLEANING"   => lstate'[j].status \in Ended
                      /\ state[j].status = "COMPLETED"  => lstate'[j].status = "COMPLETED"
                      /\ cmd'[j] \in Live =>
                           lstate'[j].status \notin Ended /\ state[j].status \notin Ended
    OBVIOUS
  <2>1. /\ lstate[j] # NoState /\ cmd \in [Jobs -> Live \cup {"none", "exited"}]
        /\ state[j].status = "CANCELLING" => lstate[j].status \in Stopping
        /\ state[j].status = "CLEANING"   => lstate[j].status \in Ended
        /\ state[j].status = "COMPLETED"  => lstate[j].status = "COMPLETED"
        /\ cmd[j] \in Live => lstate[j].status \notin Ended /\ state[j].status \notin Ended
    BY <1>1, Sentinels DEF LifeCycle, NotBehind, CommandStopped, TypeOK
  <2> USE DEF Reach, SetCmd, Ended, Stopping, Live, Statuses
  <2>3. CASE UpdatePending(j)
    BY <2>1, <2>3 DEF UpdatePending
  <2>4. CASE StartCommand(j)
    BY <1>2, <2>1, <2>4 DEF StartCommand
  <2>5. CASE PollCommand(j)
    BY <1>2, <2>1, <2>5 DEF PollCommand, procs
  <2>6. CASE UpdateCancelling(j)
    BY <1>2, <2>1, <2>6 DEF UpdateCancelling
  <2>7. CASE UpdateCleaning(j)
    BY <1>2, <2>1, <2>7 DEF UpdateCleaning
  <2>8. CASE UpdateCompleted(j)
    BY <2>1, <2>8 DEF UpdateCompleted, procs
  <2> QED
    BY <2>3, <2>4, <2>5, <2>6, <2>7, <2>8 DEF UpdateSingleJob
<1>5. NotBehind' /\ CommandStopped'
  BY <1>1, <1>4 DEF LifeCycle, NotBehind, CommandStopped
<1> QED
  BY <1>3, <1>5 DEF LifeCycle

\* Every step keeps the life cycle, whatever fails.
LEMMA LifeCycleNext ==
  TypeOK /\ Phases /\ Apart /\ Batch /\ LifeCycle /\ [Next]_vars => LifeCycle'
<1> SUFFICES ASSUME TypeOK, Phases, Apart, Batch, LifeCycle, [Next]_vars PROVE LifeCycle'
  OBVIOUS
<1> USE DEF LifeCycle, NotBehind, CommandStopped, CancelSeen, Active
<1>0. CASE Ends
  BY <1>0, LifeCycleEnds
<1>1. CASE SyncList
  BY <1>1 DEF SyncList, remote, tables, procs, world
<1>2. ASSUME NEW fails \in [listed -> Failures], SyncDownload(fails) PROVE LifeCycle'
  BY <1>0, <1>2, LifeCycleDownload
<1>21. ASSUME NEW j \in Jobs, SyncJob(j) PROVE LifeCycle'
  BY <1>0, <1>21, LifeCycleSync
<1>3. CASE Schedule
  BY <1>3, LifeCycleSchedule
<1>4. ASSUME NEW j \in Jobs, UpdateSingleJob(j) PROVE LifeCycle'
  BY <1>4, LifeCycleUpdate
<1>41. ASSUME NEW j \in Jobs, CleaningBreaks(j) PROVE LifeCycle'
  BY <1>0, <1>41 DEF CleaningBreaks
<1>5. CASE UploadJobState
  <2>1. /\ cur \in Jobs /\ lname[cur] \in Jobs /\ lstate[cur] # NoState /\ pc = "upload"
        /\ lname[cur] = cur \/ {cur, lname[cur]} \subseteq mixed
        /\ state' = [state EXCEPT ![lname[cur]] = lstate[cur]]
        /\ pc' \in {"user_state", "update"} /\ UNCHANGED <<tables, cmd, userSeen, mixed>>
        /\ pc' = "user_state" => cur' = cur /\ lname[cur] \in userSeen
    BY <1>5 DEF UploadJobState, Phases, TypeOK, Apart, procs, world
  <2>2. \A i \in Jobs \ mixed : state'[i] = IF i = cur THEN lstate[cur] ELSE state[i]
    BY <2>1 DEF TypeOK
  <2>3. NotBehind'
    BY <2>1, <2>2 DEF tables, Stopping, Ended
  <2>4. CommandStopped'
    BY <2>1, <2>2 DEF tables
  <2>5. CancelSeen'
    BY <2>1 DEF tables, TypeOK
  <2> QED
    BY <2>3, <2>4, <2>5
<1>6. CASE RemoveUserState
  BY <1>6 DEF RemoveUserState, tables, procs, world
<1>7. CASE UpdateDone
  BY <1>7 DEF UpdateDone, remote, tables, procs, world
<1>8. ASSUME NEW cleaned \in SUBSET IdleJobs, Sweep(cleaned) PROVE LifeCycle'
  BY <1>8 DEF Sweep, remote, tables, procs, world
<1>9. ASSUME NEW j \in Jobs, DeleteJobspec(j) PROVE LifeCycle'
  BY <1>9 DEF DeleteJobspec, tables, procs, world
<1>10. ASSUME NEW j \in Jobs, DeleteState(j) PROVE LifeCycle'
  BY <1>10, Sentinels DEF DeleteState, tables, procs, world, TypeOK, Phases, Ended
<1>11. CASE GcDone
  BY <1>11 DEF GcDone, remote, tables, procs, world
<1>12. CASE UpdateJobFails
  BY <1>12 DEF UpdateJobFails, remote, tables, procs
<1>13. CASE Crash
  BY <1>0, <1>13 DEF Crash
<1>14. ASSUME NEW j \in Jobs, DeleteFails(j) PROVE LifeCycle'
  BY <1>14 DEF DeleteFails, remote, tables, procs
<1>15. ASSUME NEW j \in Jobs, MembershipChanges(j) PROVE LifeCycle'
  BY <1>15 DEF MembershipChanges, remote, tables, procs, loop
<1>16. ASSUME NEW j \in Jobs, CommandExits(j) \/ CleanupExits(j) PROVE LifeCycle'
  BY <1>16 DEF CommandExits, CleanupExits, remote, tables, loop, world, Live, TypeOK
<1>17. ASSUME NEW j \in Jobs, NEW op \in Calls, Check(op, j) PROVE LifeCycle'
  BY <1>17 DEF Check, remote, tables, procs, loop
<1>18. ASSUME NEW j \in Jobs, WriteSubmit(j) \/ WriteCancel(j) \/ WriteUpdate(j)
       PROVE LifeCycle'
  BY <1>18 DEF WriteSubmit, WriteCancel, WriteUpdate, Finish, tables, procs, loop
<1>19. CASE UNCHANGED vars
  BY <1>19 DEF vars, remote, tables, procs, loop, world
<1> QED
  BY <1>1, <1>2, <1>21, <1>3, <1>4, <1>41, <1>5, <1>6, <1>7, <1>8, <1>9, <1>10, <1>11, <1>12,
     <1>13, <1>14, <1>15, <1>16, <1>17, <1>18, <1>19
     DEF Next, BastionStep, FaultStep, ProcStep, ClientStep

\* The invariants of the life cycle hold together.
LEMMA LifeCycleHolds == Spec => [](TypeOK /\ Phases /\ Apart /\ Batch /\ LifeCycle)
<1>1. TypeOK /\ Phases /\ Apart /\ Batch /\ LifeCycle /\ [Next]_vars =>
        TypeOK' /\ Phases' /\ Apart' /\ Batch' /\ LifeCycle'
  BY TypeNext, ApartNext, BatchNext, LifeCycleNext
<1> QED
  BY <1>1, TypeInit, ApartInit, LifeCycleInit, PTL DEF Spec

\* The memory of a job that no malformed jobspec was mixed up with is never behind what
\* storage says of it, whatever fails; and any job whose user state was seen is being
\* cancelled or over.
THEOREM MemoryNotBehind == Spec => []LifeCycle
BY LifeCycleHolds, PTL

\* In every behaviour, for any number of jobs and of faults of every kind, a job that is
\* CLEANING or COMPLETED, in memory or in storage, has no command that runs, unless a
\* malformed jobspec was mixed up with it: malformed jobspecs harm no other jobs, and
\* nothing else makes the assertion of _update_single_job fail.
THEOREM CommandStopsFirst == Spec => []CommandStopped
<1>1. LifeCycle => CommandStopped
  BY DEF LifeCycle
<1> QED
  BY <1>1, LifeCycleHolds, PTL

\* The steps that change what storage says of the state of a job.
LEMMA StateWriters ==
  [Next]_vars => UploadJobState \/ (\E i \in Jobs : DeleteState(i)) \/ state' = state
<1>1. CASE BastionStep
  BY <1>1 DEF BastionStep, SyncList, SyncDownload, SyncJob, SyncNew, SyncUpdated, SyncMissing,
     SyncRemoved, SyncBreaks, Sync, Ends, Schedule, UpdateSingleJob, UpdatePending, StartCommand,
     PollCommand, UpdateCancelling, UpdateCleaning, UpdateCompleted, CleaningBreaks,
     RemoveUserState, UpdateDone, Sweep, DeleteJobspec, GcDone, remote
<1>2. CASE FaultStep \/ ProcStep \/ ClientStep \/ UNCHANGED vars
  BY <1>2 DEF FaultStep, ProcStep, ClientStep, UpdateJobFails, Crash, Ends, DeleteFails,
     MembershipChanges, CommandExits, CleanupExits, Check, WriteSubmit, WriteCancel, WriteUpdate,
     Finish, remote, vars
<1> QED
  BY <1>1, <1>2 DEF Next

\* What storage says of a job that no malformed jobspec was mixed up with never goes back.
THEOREM StorageNeverGoesBack == Spec => NoWayBack
<1>1. TypeOK /\ Phases /\ Apart /\ LifeCycle /\ [Next]_vars =>
        [\A j \in Jobs \ mixed :
           /\ state[j].status = "CANCELLING" => state'[j].status \in Stopping \cup {"NONE"}
           /\ state[j].status = "CLEANING"   => state'[j].status \in Ended \cup {"NONE"}
           /\ state[j].status = "COMPLETED"  => state'[j].status \in {"COMPLETED", "NONE"}]_vars
  <2> SUFFICES ASSUME TypeOK, Phases, Apart, LifeCycle, Next, NEW j \in Jobs \ mixed
               PROVE  /\ state[j].status = "CANCELLING" => state'[j].status \in Stopping \cup {"NONE"}
                      /\ state[j].status = "CLEANING"  => state'[j].status \in Ended \cup {"NONE"}
                      /\ state[j].status = "COMPLETED" => state'[j].status \in {"COMPLETED", "NONE"}
    BY DEF vars
  <2>1. CASE UploadJobState
    BY <2>1 DEF UploadJobState, LifeCycle, NotBehind, TypeOK, Phases, Apart, Ended, Stopping
  <2>2. CASE \E i \in Jobs : DeleteState(i)
    BY <2>2, Sentinels DEF DeleteState, TypeOK, Ended, Stopping
  <2>3. CASE state' = state
    BY <2>3 DEF Ended, Stopping
  <2> QED
    BY <2>1, <2>2, <2>3, StateWriters
<1> QED
  BY <1>1, LifeCycleHolds, PTL DEF Spec, NoWayBack

\* A cancellation is not lost: a user state is removed only once storage has it; so it
\* is for the jobs that a malformed jobspec was mixed up with.
THEOREM CancellationKept == Spec => CancelKept
<1>1. TypeOK /\ Phases /\ LifeCycle /\ [Next]_vars =>
        [\A j \in ustate \ ustate' : state[j].status \in Stopping]_vars
  <2> SUFFICES ASSUME TypeOK, Phases, LifeCycle, Next, NEW j \in ustate \ ustate'
               PROVE  state[j].status \in Stopping
    BY DEF vars
  <2>1. RemoveUserState \/ ustate \subseteq ustate'
    <3>1. CASE BastionStep
      BY <3>1 DEF BastionStep, SyncList, SyncDownload, SyncJob, SyncNew, SyncUpdated, SyncMissing,
         SyncRemoved, SyncBreaks, Sync, Ends, Schedule, UpdateSingleJob, UpdatePending,
         StartCommand, PollCommand, UpdateCancelling, UpdateCleaning, UpdateCompleted,
         CleaningBreaks, UploadJobState, UpdateDone, Sweep, DeleteJobspec, DeleteState, GcDone,
         remote
    <3>2. CASE FaultStep \/ ProcStep \/ ClientStep
      BY <3>2 DEF FaultStep, ProcStep, ClientStep, UpdateJobFails, Crash, Ends, DeleteFails,
         MembershipChanges, CommandExits, CleanupExits, Check, WriteSubmit, WriteCancel,
         WriteUpdate, Finish, remote
    <3> QED
      BY <3>1, <3>2 DEF Next
  <2>2. RemoveUserState
    BY <2>1
  <2>3. /\ cur \in Active /\ j = lname[cur] /\ j \in userSeen /\ state[j] = lstate[cur]
        /\ pc = "user_state"
    BY <2>2 DEF RemoveUserState, LifeCycle, CancelSeen, Phases, Active
  <2> QED
    BY <2>3 DEF LifeCycle, CancelSeen
<1> QED
  BY <1>1, LifeCycleHolds, PTL DEF Spec, CancelKept

----------------------------------------------------------------------------
(* Patience with unreadable files, whatever fails. *)

\* A job that is not tracked has no process, one that is over has no command, and the
\* count of the bastion is the count of the downloads.
Untracked == \A j \in Jobs : lspec[j] = NoSpec => cmd[j] = "none" /\ cleanup[j] = "none"
Over      == \A j \in Jobs \ mixed : lstate[j].status = "COMPLETED" => cmd[j] = "none"
Counted ==
  \A j \in Jobs \ mixed :
    /\ j \notin Active => missing[j] = 0
    /\ j \in Active => missing[j] < OrphanThreshold
    /\ IF pc = "sync" /\ j \in todo
       THEN IF batch[j] # NoEntry THEN absent[j] = 0
            ELSE j \in Active => absent[j] = missing[j] + 1
       ELSE j \in Active => absent[j] = missing[j]
Patience  == Untracked /\ Over /\ Counted

\* Nothing is tracked or counted at first, nor by the next bastion.
LEMMA PatienceInit == Init => Patience
BY Sentinels, BastionAssumption
   DEF Init, Patience, Untracked, Over, Counted, Active, BastionAssumption

\* ... and when a bastion ends, whatever it counted.
LEMMA PatienceEnds == Ends => Patience'
BY Sentinels, BastionAssumption
   DEF Ends, Patience, Untracked, Over, Counted, Active, BastionAssumption

\* A download counts what it misses.
LEMMA PatienceDownload ==
  ASSUME TypeOK, Phases, Patience, NEW fails \in [listed -> Failures], SyncDownload(fails), ~Ends
  PROVE  Patience'
<1> DEFINE got == AllRead(fails) \cup Malformed(fails)
<1>1. /\ UNCHANGED <<lspec, lstate, missing, procs>> /\ mixed \subseteq mixed'
      /\ pc = "download" /\ pc' = IF todo' = {} THEN "schedule" ELSE "sync"
      /\ todo' = got \cup Active
      /\ \A j \in Jobs : absent'[j] = IF j \in Active \ got THEN Another(absent[j]) ELSE 0
      /\ \A j \in Jobs : batch'[j] # NoEntry => j \in got
  BY DEF SyncDownload
<1>2. \A j \in got : j \in Jobs => batch'[j] # NoEntry
  <2> SUFFICES ASSUME NEW j \in got, j \in Jobs PROVE batch'[j] # NoEntry
    OBVIOUS
  <2>1. /\ \A i \in Malformed(fails) : Before(AllRead(fails), i) # {}
        /\ batch'[j].spec = spec[SpecOf(fails, j)]
    BY DEF SyncDownload
  <2>2. SpecOf(fails, j) \in listed
    BY <2>1, GivenType
  <2> QED
    BY <1>1, <2>1, <2>2 DEF Phases, NoEntry
<1>3. Untracked' /\ Over'
  BY <1>1 DEF Patience, Untracked, Over, procs
<1>4. Counted'
  <2> SUFFICES ASSUME NEW j \in Jobs \ mixed'
               PROVE  /\ j \notin Active => missing[j] = 0
                      /\ j \in Active => missing[j] < OrphanThreshold
                      /\ IF pc' = "sync" /\ j \in todo'
                         THEN IF batch'[j] # NoEntry THEN absent'[j] = 0
                              ELSE j \in Active => absent'[j] = missing[j] + 1
                         ELSE j \in Active => absent'[j] = missing[j]
    BY <1>1 DEF Counted, Active
  <2>1. /\ j \notin Active => missing[j] = 0
        /\ j \in Active => missing[j] < OrphanThreshold /\ absent[j] = missing[j]
    BY <1>1 DEF Patience, Counted
  <2>2. missing[j] \in Nat /\ OrphanThreshold \in Nat
    BY BastionAssumption DEF TypeOK, BastionAssumption
  <2> QED
    BY <1>1, <1>2, <2>1, <2>2 DEF Another
<1> QED
  BY <1>3, <1>4 DEF Patience

\* A sync gives up what it removes.
LEMMA PatienceSync ==
  ASSUME TypeOK, Phases, Apart, Batch, LifeCycle, Patience, NEW j \in Jobs, SyncJob(j), ~Ends
  PROVE  Patience'
<1>1. /\ Sync(j) /\ pc = "sync" /\ j \in todo /\ todo' = todo \ {j}
      /\ UNCHANGED <<state, absent, mixed>>
      /\ IF pc' = "sync" THEN batch' = batch ELSE todo' = {}
  BY DEF SyncJob, SyncNew, SyncUpdated, SyncMissing, SyncRemoved, SyncBreaks, Sync, world, remote
<1>2. /\ lspec \in [Jobs -> Specs \cup {NoSpec}] /\ lstate \in [Jobs -> States \cup {NoState}]
      /\ cmd \in [Jobs -> Live \cup {"none", "exited"}] /\ missing \in [Jobs -> Nat]
      /\ cleanup \in [Jobs -> {"none", "running", "exited"}]
      /\ absent \in [Jobs -> 0..OrphanThreshold] /\ lname \in [Jobs -> Jobs]
      /\ OrphanThreshold \in Nat \ {0}
      /\ batch[j] # NoEntry => /\ batch[j].spec \in Specs /\ batch[j].state \in States
                               /\ SyncedState(j).status = batch[j].state.status
  BY BastionAssumption DEF TypeOK, BastionAssumption, SyncedState, States
<1>3. Untracked'
  <2>1. CASE SyncNew(j) \/ SyncUpdated(j)
    BY <1>2, <2>1, Sentinels DEF SyncNew, SyncUpdated, Enter, procs, Patience, Untracked
  <2>2. CASE SyncMissing(j)
    BY <2>2 DEF SyncMissing, procs, Patience, Untracked
  <2>3. CASE SyncRemoved(j)
    BY <1>2, <2>3 DEF SyncRemoved, Patience, Untracked
  <2> QED
    BY <2>1, <2>2, <2>3 DEF SyncJob, SyncBreaks
<1>4. Over'
  <2> SUFFICES ASSUME NEW i \in Jobs \ mixed, lstate'[i].status = "COMPLETED"
               PROVE  cmd'[i] = "none"
    BY <1>1 DEF Over
  <2>0. lstate[i].status = "COMPLETED" => cmd[i] = "none"
    BY DEF Patience, Over
  <2>1. CASE SyncNew(j) \/ SyncUpdated(j)
    <3>1. cmd' = cmd /\ (i # j => lstate'[i] = lstate[i]) /\ batch[j] # NoEntry
          /\ lstate'[j].status = batch[j].state.status
      BY <1>2, <2>1 DEF SyncNew, SyncUpdated, Enter, procs
    <3>2. CASE i = j
      <4>1. state[j].status = "COMPLETED"
        BY <3>1, <3>2 DEF Batch, Read, Ended
      <4>2. lspec[j] = NoSpec \/ lstate[j].status = "COMPLETED"
        BY <3>2, <4>1 DEF LifeCycle, NotBehind, TypeOK
      <4> QED
        BY <2>0, <3>1, <3>2, <4>2 DEF Patience, Untracked
    <3> QED
      BY <2>0, <3>1, <3>2
  <2>2. CASE SyncMissing(j)
    BY <2>0, <2>2 DEF SyncMissing, procs
  <2>3. CASE SyncRemoved(j)
    BY <1>2, <2>0, <2>3, Sentinels DEF SyncRemoved
  <2> QED
    BY <2>1, <2>2, <2>3 DEF SyncJob, SyncBreaks
<1>5. Counted'
  <2> SUFFICES ASSUME NEW i \in Jobs \ mixed
               PROVE  /\ i \notin Active' => missing'[i] = 0
                      /\ i \in Active' => missing'[i] < OrphanThreshold
                      /\ IF pc' = "sync" /\ i \in todo'
                         THEN IF batch'[i] # NoEntry THEN absent[i] = 0
                              ELSE i \in Active' => absent[i] = missing'[i] + 1
                         ELSE i \in Active' => absent[i] = missing'[i]
    BY <1>1 DEF Counted
  <2>0. /\ i \notin Active => missing[i] = 0
        /\ i \in Active => missing[i] < OrphanThreshold
        /\ i \in todo =>
             IF batch[i] # NoEntry THEN absent[i] = 0
             ELSE i \in Active => absent[i] = missing[i] + 1
        /\ i \notin todo /\ i \in Active => absent[i] = missing[i]
    BY <1>1 DEF Patience, Counted
  <2>1. CASE i # j
    <3>1. /\ missing'[i] = missing[i]
          /\ i \in Active' <=> i \in Active
      <4>1. CASE SyncNew(j) \/ SyncUpdated(j)
        BY <1>2, <2>1, <4>1 DEF SyncNew, SyncUpdated, Enter, MissingReset, Active
      <4>2. CASE SyncMissing(j)
        BY <1>2, <2>1, <4>2 DEF SyncMissing, Active
      <4>3. CASE SyncRemoved(j)
        <5>1. lname[j] # i
          BY <2>1 DEF Apart
        <5> QED
          BY <1>2, <2>1, <4>3, <5>1 DEF SyncRemoved, Active
      <4> QED
        BY <4>1, <4>2, <4>3 DEF SyncJob, SyncBreaks
    <3> QED
      BY <1>1, <2>0, <2>1, <3>1
  <2>2. CASE i = j
    <3>1. CASE SyncNew(j)
      BY <1>1, <1>2, <2>0, <2>2, <3>1, Sentinels DEF SyncNew, Enter, Active
    <3>2. CASE SyncUpdated(j)
      BY <1>1, <1>2, <2>0, <2>2, <3>2, Sentinels DEF SyncUpdated, Enter, MissingReset, Active
    <3>3. CASE SyncMissing(j)
      BY <1>1, <1>2, <2>0, <2>2, <3>3 DEF SyncMissing, ToRemove, Active
    <3>4. CASE SyncRemoved(j)
      <4>1. lname[j] = j
        BY <2>2 DEF Apart
      <4> QED
        BY <1>1, <1>2, <2>0, <2>2, <3>4, <4>1 DEF SyncRemoved, Active
    <3> QED
      BY <3>1, <3>2, <3>3, <3>4 DEF SyncJob, SyncBreaks
  <2> QED
    BY <2>1, <2>2
<1> QED
  BY <1>3, <1>4, <1>5 DEF Patience

\* An update ends the command of a job that it completes.
LEMMA PatienceUpdate ==
  ASSUME TypeOK, Phases, Apart, Patience, NEW j \in Jobs, UpdateSingleJob(j)
  PROVE  Patience'
<1>1. /\ pc = "update" /\ pc' = "upload"
      /\ UNCHANGED <<lspec, missing, absent, mixed>> /\ j \in Active /\ lstate[j] \in States
      /\ \A i \in Jobs \ {j} : cmd'[i] = cmd[i] /\ cleanup'[i] = cleanup[i]
      /\ \A i \in Jobs \ mixed : i # j => lstate'[i] = lstate[i]
  BY UpdateShape DEF world
<1>2. lstate'[j].status = "COMPLETED" => cmd'[j] = "none" \/ j \in mixed
  <2>1. \A s \in Statuses : SetStatus(j, s) => lstate'[j].status = s
    BY <1>1, StatusSet
  <2>2. CASE UpdateCleaning(j)
    BY <2>2 DEF UpdateCleaning, SetCmd, TypeOK
  <2>3. CASE UpdatePending(j) \/ StartCommand(j) \/ PollCommand(j) \/ UpdateCancelling(j)
    BY <2>1, <2>3 DEF UpdatePending, StartCommand, PollCommand, UpdateCancelling, Reach, Statuses
  <2>4. CASE UpdateCompleted(j)
    BY <1>1, <2>4 DEF UpdateCompleted, Patience, Over, procs
  <2> QED
    BY <2>2, <2>3, <2>4 DEF UpdateSingleJob
<1> QED
  BY <1>1, <1>2 DEF Patience, Untracked, Over, Counted, Active

\* Every step keeps the count right.
LEMMA PatienceNext ==
  TypeOK /\ Phases /\ Apart /\ Batch /\ LifeCycle /\ Patience /\ [Next]_vars => Patience'
<1> SUFFICES ASSUME TypeOK, Phases, Apart, Batch, LifeCycle, Patience, [Next]_vars PROVE Patience'
  OBVIOUS
<1>0. CASE Ends
  BY <1>0, PatienceEnds
<1>1. ASSUME NEW fails \in [listed -> Failures], SyncDownload(fails) PROVE Patience'
  BY <1>0, <1>1, PatienceDownload
<1>2. ASSUME NEW j \in Jobs, SyncJob(j) PROVE Patience'
  BY <1>0, <1>2, PatienceSync
<1>3. CASE Schedule
  <2>1. PICK verdict \in [Schedulable -> Verdicts] :
          /\ \A j \in Jobs : lstate'[j] = IF j \in Schedulable
                                          THEN ScheduledState(j, verdict[j]) ELSE lstate[j]
          /\ \A j \in Jobs : cmd'[j] \in {"none", cmd[j]}
    BY <1>3 DEF Schedule
  <2>2. \A j \in Schedulable : ScheduledState(j, verdict[j]).status # "COMPLETED"
    BY <2>1, ScheduledType DEF Schedulable, Active
  <2>3. /\ pc = "schedule" /\ pc' = "update"
        /\ UNCHANGED <<lspec, missing, absent, mixed, cleanup>>
    BY <1>3 DEF Schedule, world
  <2> QED
    BY <2>1, <2>2, <2>3 DEF Patience, Untracked, Over, Counted, Active
<1>4. ASSUME NEW j \in Jobs, UpdateSingleJob(j) PROVE Patience'
  BY <1>4, PatienceUpdate
<1>5. ASSUME NEW j \in Jobs, CommandExits(j) \/ CleanupExits(j) PROVE Patience'
  BY <1>5 DEF CommandExits, CleanupExits, tables, world, loop, Live, TypeOK, Patience, Untracked,
     Over, Counted, Active
<1>6. CASE /\ UNCHANGED <<lspec, lstate, missing, procs, absent, mixed>>
           /\ (pc # "sync" /\ pc' # "sync") \/ UNCHANGED <<pc, todo, batch>>
  BY <1>6 DEF Patience, Untracked, Over, Counted, Active, procs
<1>7. \/ /\ UNCHANGED <<lspec, lstate, missing, procs, absent, mixed>>
         /\ (pc # "sync" /\ pc' # "sync") \/ UNCHANGED <<pc, todo, batch>>
      \/ Ends \/ (\E fails \in [listed -> Failures] : SyncDownload(fails)) \/ Schedule
      \/ (\E j \in Jobs : SyncJob(j) \/ UpdateSingleJob(j))
      \/ \E j \in Jobs : CommandExits(j) \/ CleanupExits(j)
  <2>1. CASE BastionStep
    BY <2>1 DEF BastionStep, SyncList, CleaningBreaks, UploadJobState, RemoveUserState, UpdateDone,
       Sweep, DeleteJobspec, DeleteState, GcDone, tables, world
  <2>2. CASE FaultStep
    BY <2>2 DEF FaultStep, UpdateJobFails, Crash, DeleteFails, MembershipChanges, tables, loop
  <2>3. CASE ProcStep \/ ClientStep \/ UNCHANGED vars
    BY <2>3 DEF ProcStep, ClientStep, Check, WriteSubmit, WriteCancel, WriteUpdate, Finish, tables,
       loop, world, vars
  <2> QED
    BY <2>1, <2>2, <2>3 DEF Next
<1> QED
  BY <1>0, <1>1, <1>2, <1>3, <1>4, <1>5, <1>6, <1>7

\* Files that cannot be read for a while do not kill a running command, for any
\* threshold and whatever fails: a sync drops a job that has a command only after
\* OrphanThreshold consecutive downloads without it, unless a malformed jobspec was
\* mixed up with it.
THEOREM UnreadableKept == Spec => OrphanPatience
<1>1. TypeOK /\ Apart /\ Patience /\ [Next]_vars =>
        [\A j \in Jobs \ mixed :
           pc = "sync" /\ pc' \in {"sync", "schedule"} /\ cmd[j] # "none" /\ cmd'[j] = "none"
             => absent[j] >= OrphanThreshold]_vars
  <2> SUFFICES ASSUME TypeOK, Apart, Patience, Next, NEW j \in Jobs \ mixed, pc = "sync",
                      pc' \in {"sync", "schedule"}, cmd[j] # "none", cmd'[j] = "none"
               PROVE  absent[j] >= OrphanThreshold
    BY DEF vars
  <2>1. PICK i \in Jobs : SyncRemoved(i)
    <3>1. CASE BastionStep
      BY <3>1 DEF BastionStep, SyncList, SyncDownload, SyncJob, SyncNew, SyncUpdated, SyncMissing,
         SyncBreaks, Enter, Ends, Schedule, UpdateSingleJob, UpdatePending, StartCommand,
         PollCommand, UpdateCancelling, UpdateCleaning, UpdateCompleted, Reach, CleaningBreaks,
         UploadJobState, RemoveUserState, UpdateDone, Sweep, DeleteJobspec, DeleteState, GcDone,
         procs
    <3>2. CASE FaultStep
      BY <3>2 DEF FaultStep, UpdateJobFails, Crash, Ends, DeleteFails, MembershipChanges, procs
    <3>3. CASE ProcStep \/ ClientStep
      BY <3>3 DEF ProcStep, ClientStep, CommandExits, CleanupExits, Check, WriteSubmit, WriteCancel,
         WriteUpdate, Finish, procs, Live, TypeOK
    <3> QED
      BY <3>1, <3>2, <3>3 DEF Next
  <2>2. i = j \/ lname[i] = j
    BY <2>1 DEF SyncRemoved, TypeOK
  <2>3. i = j
    BY <2>2 DEF Apart
  <2>4. missing[j] + 1 >= OrphanThreshold /\ absent[j] = missing[j] + 1
    BY <2>1, <2>3 DEF SyncRemoved, Sync, ToRemove, Patience, Over, Counted
  <2> QED
    BY <2>4
<1>2. TypeOK /\ Phases /\ Apart /\ Batch /\ LifeCycle /\ Patience /\ [Next]_vars => Patience'
  BY PatienceNext
<1> QED
  BY <1>1, <1>2, LifeCycleHolds, PatienceInit, PTL DEF Spec, OrphanPatience

----------------------------------------------------------------------------
(* Processes and the state of their job, where no update is abandoned. *)

\* Once the update loop is done with a job its state file says what the bastion knows,
\* until the file of a completed job is deleted.
Flushed ==
  \A j \in Updated \ mixed : \/ pc = "upload" /\ cur = j
                             \/ state[j] = lstate[j]
                             \/ lstate[j].status = "COMPLETED" /\ state[j] = NoState

\* Only a job that is CLEANING has a cleanup command.
CleanupStage == \A j \in Jobs \ mixed : cleanup[j] # "none" => lstate[j].status = "CLEANING"

\* The loop is past the sync of job j and has not called the scheduler yet.
Synced(j) == pc = "schedule" \/ (pc = "sync" /\ j \notin todo)

\* The command of an ACTIVE job was told what the bastion knows now; after a sync only
\* if the job is not marked as updated.
Started ==
  \A j \in Jobs \ mixed : lstate[j].status = "ACTIVE" /\ cmd[j] = "running"
                           /\ (Synced(j) => ~lstate[j].updated) => env[j] = Env(j)

\* A queued job has no command, once the update loop is done with it and until the next
\* verdict.
Unstarted ==
  \A j \in Active \ mixed : lstate[j].status = "PENDING" /\ (Synced(j) \/ j \in Updated)
                              => cmd[j] = "none"

Processes == Flushed /\ CleanupStage /\ Started /\ Unstarted

\* Nothing runs and nothing is remembered at first, nor by the next bastion.
LEMMA ProcessesInit == Init => Processes
BY Sentinels
   DEF Init, Processes, Flushed, CleanupStage, Started, Unstarted, Updated, Active

\* ... and when a bastion ends, with its children.
LEMMA ProcessesEnds == Ends => Processes'
BY Sentinels DEF Ends, Processes, Flushed, CleanupStage, Started, Unstarted, Updated, Active

\* A download leaves the jobs alone: none of them is synced yet.
LEMMA ProcessesDownload ==
  ASSUME TypeOK, Processes, NEW fails \in [listed -> Failures], SyncDownload(fails), ~Ends
  PROVE  Processes'
<1>1. /\ UNCHANGED <<state, lspec, lstate, procs>> /\ mixed \subseteq mixed'
      /\ pc = "download" /\ pc' = IF todo' = {} THEN "schedule" ELSE "sync"
      /\ Active \subseteq todo'
  BY DEF SyncDownload, remote
<1>2. Updated' \subseteq Updated /\ Active' = Active
  BY <1>1 DEF Updated, Active
<1>3. \A j \in Jobs : Synced(j)' => j \notin Active
  BY <1>1 DEF Synced
<1>4. Flushed' /\ CleanupStage'
  BY <1>1, <1>2 DEF Processes, Flushed, CleanupStage, procs
<1>5. Started'
  <2>1. \A j \in Jobs : lstate[j].status = "ACTIVE" => j \in Active
    BY Sentinels DEF Active, TypeOK
  <2> QED
    BY <1>1, <1>3, <2>1 DEF Processes, Started, Synced, Env, procs
<1>6. Unstarted'
  <2> SUFFICES ASSUME NEW j \in Active' \ mixed', lstate'[j].status = "PENDING",
                      Synced(j)' \/ j \in Updated'
               PROVE  cmd'[j] = "none"
    BY DEF Unstarted
  <2>1. j \in Active \ mixed /\ j \in Updated /\ lstate[j].status = "PENDING" /\ j \in Jobs
    BY <1>1, <1>2, <1>3 DEF Active
  <2> QED
    BY <1>1, <2>1 DEF Processes, Unstarted, procs
<1> QED
  BY <1>4, <1>5, <1>6 DEF Processes

\* A sync tells from the flag and the version which commands are out of date.
LEMMA ProcessesSync ==
  ASSUME TypeOK, Phases, Apart, Batch, LifeCycle, Patience, Processes, NEW j \in Jobs,
         SyncJob(j), ~Ends
  PROVE  Processes'
<1>1. /\ pc = "sync" /\ pc' \in {"sync", "schedule"} /\ j \in todo /\ todo' = todo \ {j}
      /\ UNCHANGED <<state, mixed>> /\ (pc' # "sync" => todo' = {})
  BY DEF SyncJob, SyncNew, SyncUpdated, SyncMissing, SyncRemoved, SyncBreaks, Sync, remote, world
<1>2. \A i \in Jobs : Synced(i)' <=> i \notin todo'
  BY <1>1 DEF Synced
\* The entry of every other job that is not mixed up is left alone.
<1>3. ASSUME NEW i \in Jobs \ mixed, i # j
      PROVE  /\ lspec'[i] = lspec[i] /\ lstate'[i] = lstate[i]
             /\ cmd'[i] = cmd[i] /\ env'[i] = env[i] /\ cleanup'[i] = cleanup[i]
  <2>1. CASE SyncNew(j) \/ SyncUpdated(j)
    BY <1>3, <2>1 DEF SyncNew, SyncUpdated, Enter, procs, TypeOK
  <2>2. CASE SyncMissing(j)
    BY <2>2 DEF SyncMissing, procs
  <2>3. CASE SyncRemoved(j)
    <3>1. lname[j] # i
      BY <1>3 DEF Apart
    <3> QED
      BY <1>3, <2>3, <3>1 DEF SyncRemoved, TypeOK
  <2> QED
    BY <2>1, <2>2, <2>3 DEF SyncJob, SyncBreaks
\* Before the sync, the state file of a tracked job is what the bastion knows.
<1>4. ASSUME j \in Active \ mixed
      PROVE  /\ state[j] = lstate[j] \/ (lstate[j].status = "COMPLETED" /\ state[j] = NoState)
             /\ lstate[j].status = "COMPLETED" => cmd[j] = "none"
             /\ lstate[j].status = "PENDING" => cmd[j] = "none"
             /\ cleanup[j] # "none" => lstate[j].status = "CLEANING"
             /\ lstate[j].status = "ACTIVE" /\ cmd[j] = "running" => env[j] = Env(j)
  BY <1>1, <1>4
     DEF Patience, Over, Processes, Flushed, Unstarted, CleanupStage, Started, Synced, Updated,
         Active
\* Afterwards it is what it knows and reads, or nothing runs.
<1>5. ASSUME j \notin mixed
      PROVE  /\ cleanup'[j] # "none" => lstate'[j].status = "CLEANING"
             /\ lstate'[j].status = "PENDING" /\ j \in Active' => cmd'[j] = "none"
             /\ lstate'[j].status = "ACTIVE" /\ cmd'[j] = "running" /\ ~lstate'[j].updated
                  => env'[j] = [ver |-> lspec'[j].ver, tier |-> lstate'[j].tier,
                                topo |-> lstate'[j].topo]
  <2>0. /\ lspec \in [Jobs -> Specs \cup {NoSpec}] /\ lstate \in [Jobs -> States \cup {NoState}]
        /\ cmd \in [Jobs -> Live \cup {"none", "exited"}] /\ env \in [Jobs -> Envs \cup {NoEnv}]
        /\ cleanup \in [Jobs -> {"none", "running", "exited"}]
        /\ batch[j] # NoEntry => batch[j].state \in States
    BY DEF TypeOK
  <2>1. CASE SyncNew(j)
    <3>1. cmd'[j] = "none" /\ cleanup'[j] = "none"
      BY <2>1 DEF SyncNew, Enter, procs, Patience, Untracked, Active
    <3> QED
      BY <3>1
  <2>2. CASE SyncUpdated(j)
    <3>1. /\ j \in Active /\ batch[j] # NoEntry /\ cmd'[j] = cmd[j] /\ env'[j] = env[j]
          /\ cleanup'[j] = cleanup[j] /\ lspec'[j] = batch[j].spec /\ lstate'[j] = SyncedState(j)
      BY <2>0, <2>2 DEF SyncUpdated, Enter, procs
    <3>2. /\ SyncedState(j).status = batch[j].state.status
          /\ SyncedState(j).tier = batch[j].state.tier /\ SyncedState(j).topo = batch[j].state.topo
          /\ ~SyncedState(j).updated => batch[j].spec.ver = lspec[j].ver
      BY <2>0, <3>1 DEF SyncedState, States
    <3>3. /\ state[j].status \in Ended => batch[j].state.status = state[j].status
          /\ batch[j].state.status = "ACTIVE" => state[j].status = "ACTIVE"
          /\ batch[j].state.status = "PENDING" => state[j].status = "PENDING" \/ state[j] = NoState
          /\ state[j] # NoState => /\ batch[j].state.tier = state[j].tier
                                   /\ batch[j].state.topo = state[j].topo
      BY <1>5, <3>1 DEF Batch, Read
    <3>4. cleanup[j] # "none" => lstate'[j].status = "CLEANING"
      BY <1>4, <1>5, <3>1, <3>2, <3>3 DEF Ended
    <3>5. lstate'[j].status = "PENDING" => cmd'[j] = "none"
      <4> SUFFICES ASSUME lstate'[j].status = "PENDING" PROVE cmd[j] = "none"
        BY <3>1
      <4>1. state[j].status = "PENDING" \/ state[j] = NoState
        BY <3>1, <3>2, <3>3
      <4>2. lstate[j] # NoState
        BY <3>1 DEF Active, TypeOK
      <4> QED
        BY <1>4, <1>5, <3>1, <4>1, <4>2
    <3>6. ASSUME lstate'[j].status = "ACTIVE", cmd'[j] = "running", ~lstate'[j].updated
          PROVE  env'[j] = [ver |-> lspec'[j].ver, tier |-> lstate'[j].tier,
                            topo |-> lstate'[j].topo]
      <4>1. state[j].status = "ACTIVE"
        BY <3>1, <3>2, <3>3, <3>6
      <4>2. state[j] = lstate[j] /\ state[j] # NoState
        BY <1>4, <1>5, <3>1, <4>1, Sentinels
      <4>3. env[j] = Env(j)
        BY <1>4, <1>5, <3>1, <3>6, <4>1, <4>2
      <4> QED
        BY <3>1, <3>2, <3>3, <3>6, <4>2, <4>3 DEF Env
    <3> QED
      BY <3>1, <3>4, <3>5, <3>6
  <2>3. CASE SyncMissing(j)
    BY <1>4, <1>5, <2>3 DEF SyncMissing, procs, Active, Env
  <2>4. CASE SyncRemoved(j)
    <3>1. cmd'[j] = "none" /\ cleanup'[j] = "none"
      BY <2>0, <2>4 DEF SyncRemoved
    <3> QED
      BY <3>1
  <2> QED
    BY <2>1, <2>2, <2>3, <2>4 DEF SyncJob, SyncBreaks
<1>6. Flushed'
  <2> SUFFICES ASSUME NEW i \in Updated' \ mixed 
               PROVE  \/ state[i] = lstate'[i]
                      \/ (lstate'[i].status = "COMPLETED" /\ state[i] = NoState)
    BY <1>1 DEF Flushed
  <2>1. i \in todo /\ i # j /\ lspec'[i] # NoSpec /\ i \in Jobs
    BY <1>1 DEF Updated, Active
  <2>2. i \in Updated /\ lstate'[i] = lstate[i]
    BY <1>1, <1>3, <2>1 DEF Updated, Active
  <2> QED
    BY <1>1, <2>2 DEF Processes, Flushed
<1>7. CleanupStage'
  BY <1>1, <1>3, <1>5 DEF Processes, CleanupStage
<1>8. Started'
  <2> SUFFICES ASSUME NEW i \in Jobs \ mixed, lstate'[i].status = "ACTIVE", cmd'[i] = "running",
                      i \notin todo' => ~lstate'[i].updated
               PROVE  env'[i] = [ver |-> lspec'[i].ver, tier |-> lstate'[i].tier,
                                 topo |-> lstate'[i].topo]
    BY <1>1, <1>2 DEF Started, Env
  <2>1. CASE i = j
    BY <1>1, <1>5, <2>1
  <2>2. CASE i # j
    <3>1. Synced(i) => ~lstate[i].updated
      BY <1>1, <1>3, <2>2 DEF Synced
    <3> QED
      BY <1>3, <2>2, <3>1 DEF Processes, Started, Env
  <2> QED
    BY <2>1, <2>2
<1>9. Unstarted'
  <2> SUFFICES ASSUME NEW i \in Active' \ mixed, lstate'[i].status = "PENDING"
               PROVE  cmd'[i] = "none"
    BY <1>1 DEF Unstarted
  <2>1. CASE i = j
    BY <1>5, <2>1
  <2>2. CASE i # j
    <3>1. i \in Active /\ (Synced(i) \/ i \in Updated)
      BY <1>1, <1>3, <2>2 DEF Active, Synced, Updated
    <3> QED
      BY <1>3, <2>2, <3>1 DEF Processes, Unstarted, Active
  <2> QED
    BY <2>1, <2>2
<1> QED
  BY <1>6, <1>7, <1>8, <1>9 DEF Processes

\* A verdict that changes the tier or the topology of a job flags it.
LEMMA ProcessesSchedule ==
  ASSUME TypeOK, Patience, Processes, Schedule
  PROVE  Processes'
<1>1. PICK verdict \in [Schedulable -> Verdicts] :
        /\ \A j \in Jobs : lstate'[j] = IF j \in Schedulable
                                        THEN ScheduledState(j, verdict[j]) ELSE lstate[j]
        /\ \A j \in Jobs : cmd'[j] = IF j \in Schedulable /\ RestartInPlace(j, verdict[j])
                                     THEN "none" ELSE cmd[j]
        /\ \A j \in Jobs : env'[j] = IF j \in Schedulable /\ RestartInPlace(j, verdict[j])
                                     THEN NoEnv ELSE env[j]
  BY DEF Schedule
<1>2. /\ pc = "schedule" /\ pc' = "update" /\ todo' = Active /\ lspec' = lspec
      /\ cleanup' = cleanup /\ mixed' = mixed
  BY DEF Schedule, world
<1>3. Updated' = {} /\ \A j \in Jobs : ~Synced(j)' /\ Synced(j)
  BY <1>2 DEF Updated, Active, Synced
<1>4. CleanupStage'
  BY <1>1, <1>2 DEF Processes, CleanupStage, Schedulable
<1>5. Started'
  <2> SUFFICES ASSUME NEW j \in Jobs \ mixed, lstate'[j].status = "ACTIVE", cmd'[j] = "running"
               PROVE  env'[j] = [ver |-> lspec'[j].ver, tier |-> lstate'[j].tier,
                                 topo |-> lstate'[j].topo]
    BY <1>2 DEF Started, Env
  <2>1. cmd[j] = "running" /\ lspec[j] # NoSpec
    BY <1>1 DEF Patience, Untracked
  <2>2. j \in Schedulable
    BY <1>1, <2>1 DEF Schedulable, Active
  <2>3. env'[j] = env[j] /\ ~RestartInPlace(j, verdict[j])
    BY <1>1, <2>2
  <2>4. lstate'[j] = ScheduledState(j, verdict[j])
    BY <1>1, <2>2
  <2>5. ScheduledStatus(j, verdict[j]) = "ACTIVE"
    BY <2>4 DEF ScheduledState
  <2>6. /\ verdict[j].run /\ ~lstate[j].updated
        /\ lstate[j].status = "PENDING" \/ verdict[j].tier = lstate[j].tier
    BY <2>1, <2>5 DEF ScheduledStatus
  <2>7. lstate[j].status = "ACTIVE"
    BY <1>2, <1>3, <2>1, <2>2 DEF Schedulable, Processes, Unstarted
  <2>8. verdict[j].tier = lstate[j].tier /\ verdict[j].topo = lstate[j].topo
    BY <2>3, <2>6, <2>7 DEF RestartInPlace
  <2>9. env[j] = Env(j)
    BY <2>1, <2>6, <2>7 DEF Processes, Started
  <2>10. lstate'[j].tier = verdict[j].tier /\ lstate'[j].topo = verdict[j].topo
    BY <2>4, <2>6 DEF ScheduledState
  <2> QED
    BY <1>2, <2>3, <2>8, <2>9, <2>10 DEF Env
<1>6. Unstarted' /\ Flushed'
  BY <1>2, <1>3 DEF Unstarted, Flushed, Active
<1> QED
  BY <1>4, <1>5, <1>6 DEF Processes

\* An update restarts what is flagged, and starts a cleanup only without a command.
LEMMA ProcessesUpdate ==
  ASSUME TypeOK, Phases, Apart, LifeCycle, Patience, Processes, NEW j \in Jobs,
         UpdateSingleJob(j)
  PROVE  Processes'
<1>1. /\ pc = "update" /\ pc' = "upload" /\ cur' = j /\ todo' = todo \ {j} /\ j \in todo
      /\ j \in Active /\ lstate[j] \in States
      /\ UNCHANGED <<lspec, state, mixed>>
      /\ \A i \in Jobs \ {j} : cmd'[i] = cmd[i] /\ env'[i] = env[i] /\ cleanup'[i] = cleanup[i]
      /\ \A i \in Jobs \ mixed : i # j => lstate'[i] = lstate[i]
  BY UpdateShape DEF world
<1>2. \A s \in Statuses : SetStatus(j, s) => lstate'[j].status = s
  BY <1>1, StatusSet
<1>3. /\ cmd \in [Jobs -> Live \cup {"none", "exited"}] /\ env \in [Jobs -> Envs \cup {NoEnv}]
      /\ cleanup \in [Jobs -> {"none", "running", "exited"}]
  BY DEF TypeOK
<1>4. /\ Updated' \subseteq Updated \cup {j} /\ j \notin Updated /\ Updated \subseteq Active
      /\ \A i \in Jobs : ~Synced(i) /\ ~Synced(i)'
  BY <1>1 DEF Updated, Active, Synced
<1>5. Flushed'
  BY <1>1, <1>4 DEF Processes, Flushed, Active
<1>6. j \notin mixed => (cleanup'[j] # "none" => lstate'[j].status = "CLEANING")
  <2>1. CASE UpdateCleaning(j)
    BY <1>3, <2>1 DEF UpdateCleaning, Reach
  <2>2. CASE UpdatePending(j) \/ StartCommand(j) \/ PollCommand(j) \/ UpdateCancelling(j)
             \/ UpdateCompleted(j)
    <3>1. cleanup'[j] = cleanup[j] /\ lstate[j].status # "CLEANING"
      BY <2>2 DEF UpdatePending, StartCommand, PollCommand, UpdateCancelling, UpdateCompleted,
                  Reach, procs
    <3> QED
      BY <1>1, <3>1 DEF Processes, CleanupStage
  <2> QED
    BY <2>1, <2>2 DEF UpdateSingleJob
<1>7. j \notin mixed /\ lstate'[j].status = "ACTIVE" /\ cmd'[j] = "running" =>
        env'[j] = [ver |-> lspec'[j].ver, tier |-> lstate'[j].tier, topo |-> lstate'[j].topo]
  <2>1. CASE StartCommand(j)
    <3>1. CASE SetCmd(j, "running", Env(j)) /\ UNCHANGED lstate
      BY <1>1, <1>3, <3>1 DEF SetCmd, Env
    <3>2. CASE SetStatus(j, "CLEANING")
      BY <1>2, <3>2 DEF Statuses
    <3> QED
      BY <2>1, <3>1, <3>2 DEF StartCommand
  <2>2. CASE PollCommand(j)
    <3>1. CASE UNCHANGED lstate
      BY <1>1, <1>4, <2>2, <3>1 DEF PollCommand, procs, Processes, Started, Env
    <3>2. CASE SetStatus(j, "CLEANING")
      BY <1>2, <3>2 DEF Statuses
    <3> QED
      BY <2>2, <3>1, <3>2 DEF PollCommand
  <2>3. CASE UpdatePending(j) \/ UpdateCancelling(j) \/ UpdateCleaning(j) \/ UpdateCompleted(j)
    BY <1>2, <2>3
       DEF UpdatePending, UpdateCancelling, UpdateCleaning, UpdateCompleted, Reach, Statuses
  <2> QED
    BY <2>1, <2>2, <2>3 DEF UpdateSingleJob
<1>8. lstate'[j].status = "PENDING" => cmd'[j] = "none"
  <2>1. CASE UpdatePending(j)
    BY <1>3, <2>1 DEF UpdatePending, SetCmd
  <2>2. CASE StartCommand(j) \/ PollCommand(j) \/ UpdateCancelling(j) \/ UpdateCleaning(j)
             \/ UpdateCompleted(j)
    BY <1>2, <2>2 DEF StartCommand, PollCommand, UpdateCancelling, UpdateCleaning,
                      UpdateCompleted, Reach, Statuses
  <2> QED
    BY <2>1, <2>2 DEF UpdateSingleJob
<1>9. CleanupStage'
  BY <1>1, <1>6 DEF Processes, CleanupStage
<1>10. Started'
  BY <1>1, <1>4, <1>7 DEF Processes, Started, Env
<1>11. Unstarted'
  BY <1>1, <1>4, <1>8 DEF Processes, Unstarted, Active
<1> QED
  BY <1>5, <1>9, <1>10, <1>11 DEF Processes

\* Every step keeps the processes in line, unless the update of a job is abandoned.
LEMMA ProcessesNext ==
  "update" \notin FaultKinds /\ TypeOK /\ Phases /\ Apart /\ Batch /\ LifeCycle /\ Patience
    /\ Doomed /\ Processes /\ [Next]_vars => Processes'
<1> SUFFICES ASSUME "update" \notin FaultKinds, TypeOK, Phases, Apart, Batch, LifeCycle, Patience,
                    Doomed, Processes, [Next]_vars
             PROVE  Processes'
  OBVIOUS
<1> USE DEF Processes, Flushed, CleanupStage, Started, Unstarted, Synced, Updated, Active, Env
<1>0. CASE Ends
  BY <1>0, ProcessesEnds
<1>1. CASE SyncList
  BY <1>1 DEF SyncList, remote, tables, procs, world
<1>2. ASSUME NEW fails \in [listed -> Failures], SyncDownload(fails) PROVE Processes'
  BY <1>0, <1>2, ProcessesDownload
<1>21. ASSUME NEW j \in Jobs, SyncJob(j) PROVE Processes'
  BY <1>0, <1>21, ProcessesSync
<1>3. CASE Schedule
  BY <1>3, ProcessesSchedule
<1>4. ASSUME NEW j \in Jobs, UpdateSingleJob(j) PROVE Processes'
  BY <1>4, ProcessesUpdate
<1>41. ASSUME NEW j \in Jobs, CleaningBreaks(j) PROVE Processes'
  BY <1>0, <1>41 DEF CleaningBreaks
<1>5. CASE UploadJobState
  <2>1. /\ cur \in Jobs /\ pc = "upload" /\ pc' \in {"user_state", "update"}
        /\ lname[cur] = cur \/ {cur, lname[cur]} \subseteq mixed
        /\ state' = [state EXCEPT ![lname[cur]] = lstate[cur]]
        /\ UNCHANGED <<tables, procs, todo, mixed>>
    BY <1>5 DEF UploadJobState, Phases, Apart, world
  <2>2. \A i \in Jobs \ mixed : state'[i] = IF i = cur THEN lstate[cur] ELSE state[i]
    BY <2>1 DEF TypeOK
  <2> QED
    BY <2>1, <2>2 DEF tables, procs
<1>6. CASE RemoveUserState
  BY <1>6 DEF RemoveUserState, tables, procs, world
<1>7. CASE UpdateDone
  BY <1>7 DEF UpdateDone, remote, tables, procs, world
<1>8. ASSUME NEW cleaned \in SUBSET IdleJobs, Sweep(cleaned) PROVE Processes'
  BY <1>8 DEF Sweep, remote, tables, procs, world
<1>9. ASSUME NEW j \in Jobs, DeleteJobspec(j) PROVE Processes'
  BY <1>9 DEF DeleteJobspec, tables, procs, world
<1>10. ASSUME NEW j \in Jobs, DeleteState(j) PROVE Processes'
  BY <1>10 DEF DeleteState, tables, procs, world, TypeOK, Doomed
<1>11. CASE GcDone
  BY <1>11 DEF GcDone, remote, tables, procs, world
<1>12. CASE UpdateJobFails
  BY <1>12 DEF UpdateJobFails, Fault
<1>13. CASE Crash
  BY <1>0, <1>13 DEF Crash
<1>14. ASSUME NEW j \in Jobs, DeleteFails(j) PROVE Processes'
  BY <1>14 DEF DeleteFails, remote, tables, procs
<1>15. ASSUME NEW j \in Jobs, MembershipChanges(j) PROVE Processes'
  BY <1>15 DEF MembershipChanges, remote, tables, procs, loop
<1>16. ASSUME NEW j \in Jobs, CommandExits(j) PROVE Processes'
  BY <1>16 DEF CommandExits, remote, tables, loop, world, Live, TypeOK
<1>17. ASSUME NEW j \in Jobs, CleanupExits(j) PROVE Processes'
  BY <1>17 DEF CleanupExits, remote, tables, loop, world, TypeOK
<1>18. ASSUME NEW j \in Jobs, NEW op \in Calls, Check(op, j) PROVE Processes'
  BY <1>18 DEF Check, remote, tables, procs, loop
<1>19. ASSUME NEW j \in Jobs, WriteSubmit(j) \/ WriteCancel(j) \/ WriteUpdate(j)
       PROVE Processes'
  BY <1>19 DEF WriteSubmit, WriteCancel, WriteUpdate, Finish, tables, procs, loop
<1>20. CASE UNCHANGED vars
  BY <1>20 DEF vars, remote, tables, procs, loop, world
<1> QED
  BY <1>1, <1>2, <1>21, <1>3, <1>4, <1>41, <1>5, <1>6, <1>7, <1>8, <1>9, <1>10, <1>11, <1>12,
     <1>13, <1>14, <1>15, <1>16, <1>17, <1>18, <1>19, <1>20
     DEF Next, BastionStep, FaultStep, ProcStep, ClientStep

\* No file is to be deleted at first.
LEMMA DoomedInit == Init => Doomed
BY DEF Init, Doomed

\* Only files of completed jobs are picked for deletion, and the jobs stay completed.
LEMMA DoomedNext == TypeOK /\ Phases /\ Doomed /\ [Next]_vars => Doomed'
<1> SUFFICES ASSUME TypeOK, Phases, Doomed, [Next]_vars PROVE Doomed'
  OBVIOUS
<1> USE DEF Doomed
<1>1. CASE delSpec = {} /\ delState = {}
  <2>1. \/ delSpec' = {} /\ delState' = {}
        \/ \E cleaned \in SUBSET IdleJobs : Sweep(cleaned)
    <3>1. CASE BastionStep
      BY <1>1, <3>1 DEF BastionStep, SyncList, SyncDownload, SyncJob, SyncNew, SyncUpdated,
         SyncMissing, SyncRemoved, SyncBreaks, Sync, Ends, Schedule, UpdateSingleJob,
         UpdatePending, StartCommand, PollCommand, UpdateCancelling, Reach, UpdateCleaning,
         UpdateCompleted, CleaningBreaks, UploadJobState, RemoveUserState, UpdateDone,
         DeleteJobspec, DeleteState, GcDone
    <3>2. CASE FaultStep \/ ProcStep \/ ClientStep \/ UNCHANGED vars
      BY <1>1, <3>2 DEF FaultStep, ProcStep, ClientStep, UpdateJobFails, Crash, Ends, DeleteFails,
         MembershipChanges, CommandExits, CleanupExits, Check, WriteSubmit, WriteCancel,
         WriteUpdate, Finish, loop, vars
    <3> QED
      BY <3>1, <3>2 DEF Next
  <2> QED
    BY <1>1, <2>1 DEF Sweep, tables
<1>2. CASE delSpec \cup delState # {}
  <2>1. pc = "delete"
    BY <1>2 DEF Phases
  <2>2. \/ /\ UNCHANGED lstate
           /\ delSpec' \cup delState' \subseteq delSpec \cup delState
        \/ Ends
    <3>1. CASE BastionStep
      BY <2>1, <3>1 DEF BastionStep, SyncList, SyncDownload, SyncJob, SyncNew, SyncUpdated,
         SyncMissing, SyncRemoved, SyncBreaks, Sync, Schedule, UpdateSingleJob, UpdatePending,
         StartCommand, PollCommand, UpdateCancelling, UpdateCleaning, UpdateCompleted, Reach,
         CleaningBreaks, UploadJobState, RemoveUserState, UpdateDone, Sweep, DeleteJobspec,
         DeleteState, GcDone, tables
    <3>2. CASE FaultStep
      BY <2>1, <3>2 DEF FaultStep, UpdateJobFails, Crash, DeleteFails, MembershipChanges, tables,
         loop
    <3>3. CASE ProcStep \/ ClientStep
      BY <2>1, <3>3 DEF ProcStep, ClientStep, CommandExits, CleanupExits, Check, WriteSubmit,
           WriteCancel, WriteUpdate, Finish, tables, loop
    <3>4. CASE UNCHANGED vars
      BY <3>4 DEF vars, tables, loop
    <3> QED
      BY <3>1, <3>2, <3>3, <3>4 DEF Next
  <2> QED
    BY <2>2 DEF Ends
<1> QED
  BY <1>1, <1>2

\* The invariants of this section hold together.
LEMMA ProcessesHold == "update" \notin FaultKinds /\ Spec => []Processes
<1> SUFFICES ASSUME "update" \notin FaultKinds PROVE Spec => []Processes
  OBVIOUS
<1>1. /\ TypeOK /\ Phases /\ Apart /\ Batch /\ LifeCycle /\ Patience /\ Doomed /\ Processes
      /\ [Next]_vars
      => Patience' /\ Doomed' /\ Processes'
  BY ProcessesNext, PatienceNext, DoomedNext
<1> QED
  BY <1>1, LifeCycleHolds, PatienceInit, DoomedInit, ProcessesInit, PTL DEF Spec

\* After the update step the command of an ACTIVE job was started with the jobspec
\* version, the tier and the topology that the bastion has now: no change that requires
\* a restart is forgotten, for any number of jobs, crashes and client calls, unless a
\* malformed jobspec was mixed up with the job.
THEOREM RunnersCurrent == "update" \notin FaultKinds /\ Spec => []RunnerCurrent
<1>1. Processes => RunnerCurrent
  BY DEF Processes, Started, RunnerCurrent, Updated, Active, Synced
<1> QED
  BY <1>1, ProcessesHold, PTL

\* The command and the cleanup command of a job that no malformed jobspec was mixed up
\* with never run together.
THEOREM CleanupRunsAlone == "update" \notin FaultKinds /\ Spec => []CleanupAlone
<1>1. LifeCycle /\ Processes => CleanupAlone
  BY DEF LifeCycle, CommandStopped, Processes, CleanupStage, CleanupAlone, Ended
<1> QED
  BY <1>1, ProcessesHold, LifeCycleHolds, PTL

\* The cleaner is only asked about jobs that have no process left, and about those that
\* a malformed jobspec was mixed up with.
THEOREM SweptWhenIdle == "update" \notin FaultKinds /\ Spec => []SweepIdle
<1>1. TypeOK /\ LifeCycle /\ Processes => SweepIdle
  BY DEF LifeCycle, CommandStopped, Processes, CleanupStage, Unstarted, SweepIdle, IdleJobs,
         Updated, Active, Ended, Live
<1> QED
  BY <1>1, ProcessesHold, LifeCycleHolds, PTL

----------------------------------------------------------------------------
(* The bastion implements JobLife. *)

\* Every job is open and without a command at first.
LEMMA LifeInit == Init => Life!Init
<1> SUFFICES ASSUME Init PROVE Life!Init
  OBVIOUS
<1>1. mixed = {} /\ \A j \in Jobs : state[j] = NoState /\ cmd[j] = "none"
  BY DEF Init
<1>2. NoState.status \notin {"CANCELLING", "CLEANING", "COMPLETED"}
  BY Sentinels
<1>3. \A j \in Jobs : PhaseOf(state[j].status) = "open" /\ (cmd[j] \in Live) = FALSE
  BY <1>1, <1>2 DEF PhaseOf, Live
<1>4. [j \in Jobs |-> PhaseOf(state[j].status)] = [j \in Jobs |-> "open"]
  BY <1>3
<1>5. [j \in Jobs |-> cmd[j] \in Live] = [j \in Jobs |-> FALSE]
  BY <1>3
<1> QED
  BY <1>1, <1>4, <1>5 DEF Life!Init

\* Only the update loop starts commands.
LEMMA CommandStarters ==
  ASSUME TypeOK, [Next]_vars, NEW j \in Jobs, cmd'[j] \in Live
  PROVE  cmd[j] \in Live \/ StartCommand(j)
<1>1. CASE cmd' = cmd
  BY <1>1
<1>2. ASSUME NEW i \in Jobs, UpdateSingleJob(i) PROVE cmd[j] \in Live \/ StartCommand(j)
  BY <1>2 DEF UpdateSingleJob, UpdatePending, StartCommand, PollCommand, UpdateCancelling,
         UpdateCleaning, UpdateCompleted, SetCmd, Reach, Live, TypeOK, procs
<1>3. ASSUME NEW i \in Jobs, SyncRemoved(i) PROVE cmd[j] \in Live
  BY <1>3 DEF SyncRemoved, Live, TypeOK
<1>4. CASE Schedule
  BY <1>4 DEF Schedule, Live
<1>5. CASE Ends
  BY <1>5 DEF Ends, Live
<1>6. CASE \E i \in Jobs : CommandExits(i)
  BY <1>6 DEF CommandExits, Live, TypeOK
<1>7. \/ cmd' = cmd \/ (\E i \in Jobs : UpdateSingleJob(i) \/ SyncRemoved(i)) \/ Schedule \/ Ends
      \/ \E i \in Jobs : CommandExits(i)
  <2>1. CASE BastionStep
    BY <2>1 DEF BastionStep, SyncList, SyncDownload, SyncJob, SyncNew, SyncUpdated, SyncMissing,
           SyncBreaks, Enter, CleaningBreaks, UploadJobState, RemoveUserState, UpdateDone, Sweep,
           DeleteJobspec, DeleteState, GcDone, procs
  <2>2. CASE FaultStep \/ ProcStep \/ ClientStep \/ UNCHANGED vars
    BY <2>2 DEF FaultStep, ProcStep, ClientStep, UpdateJobFails, Crash, DeleteFails,
           MembershipChanges, CleanupExits, Check, WriteSubmit, WriteCancel, WriteUpdate, Finish,
           procs, vars
  <2> QED
    BY <2>1, <2>2 DEF Next
<1> QED
  BY <1>1, <1>2, <1>3, <1>4, <1>5, <1>6, <1>7

\* A job once mixed up with another one stays so.
LEMMA MixedGrows == TypeOK /\ [Next]_vars => mixed \subseteq mixed'
<1> SUFFICES ASSUME TypeOK, [Next]_vars PROVE mixed \subseteq mixed'
  OBVIOUS
<1>1. CASE BastionStep
  BY <1>1 DEF BastionStep, SyncList, SyncDownload, SyncJob, SyncNew, SyncUpdated, SyncMissing,
         SyncRemoved, SyncBreaks, Sync, Ends, Schedule, UpdateSingleJob, UpdatePending,
         StartCommand, PollCommand, UpdateCancelling, UpdateCleaning, UpdateCompleted, Reach,
         CleaningBreaks, UploadJobState, RemoveUserState, UpdateDone, Sweep, DeleteJobspec,
         DeleteState, GcDone, world
<1>2. CASE FaultStep \/ ProcStep \/ ClientStep \/ UNCHANGED vars
  BY <1>2 DEF FaultStep, ProcStep, ClientStep, UpdateJobFails, Crash, Ends, DeleteFails,
         MembershipChanges, CommandExits, CleanupExits, Check, WriteSubmit, WriteCancel,
         WriteUpdate, Finish, world, vars
<1> QED
  BY <1>1, <1>2 DEF Next

\* A flush takes the phase of a job forward, and only ends it without a command.
LEMMA LifeUpload ==
  ASSUME TypeOK, Phases, Apart, LifeCycle, UploadJobState, NEW j \in Jobs \ mixed
  PROVE  Life!Stay(j) \/ Life!Cancel(j) \/ Life!End(j)
<1>1. /\ cmd' = cmd /\ cur \in Jobs /\ lstate[cur] # NoState
      /\ lname[cur] = cur \/ lname[cur] \in mixed
      /\ state' = [state EXCEPT ![lname[cur]] = lstate[cur]]
  BY DEF UploadJobState, procs, tables, Phases, TypeOK, Apart
<1>2. CASE j # lname[cur]
  BY <1>1, <1>2 DEF Life!Stay
<1>3. CASE j = lname[cur]
  <2>0. j = cur
    BY <1>1, <1>3
  <2>1. state'[j].status = lstate[j].status /\ lstate[j] \in States
    BY <1>1, <1>3, <2>0 DEF TypeOK
  <2>2. CASE lstate[j].status \in Ended
    <3>1. cmd[j] \notin Live
      BY <2>2 DEF LifeCycle, CommandStopped
    <3>2. /\ PhaseOf(state'[j].status) \in {"ending", "over"}
          /\ PhaseOf(state[j].status) = "over" => PhaseOf(state'[j].status) = "over"
      BY <1>1, <2>0, <2>1, <2>2 DEF PhaseOf, Ended, LifeCycle, NotBehind
    <3>3. PhaseOf(state[j].status) \in {"open", "cancelling", "ending", "over"}
      BY DEF PhaseOf
    <3>4. PhaseOf(state'[j].status) \in Life!Later(PhaseOf(state[j].status)) \cap {"ending", "over"}
      <4>1. CASE PhaseOf(state[j].status) = "over"
        BY <3>2, <4>1 DEF Life!Later, Life!Phases
      <4>2. CASE PhaseOf(state[j].status) \in {"open", "cancelling", "ending"}
        BY <3>2, <4>2 DEF Life!Later, Life!Phases
      <4> QED
        BY <3>3, <4>1, <4>2
    <3>5. cmd'[j] \notin Live
      BY <1>1, <3>1
    <3> QED
      BY <3>1, <3>4, <3>5 DEF Life!End
  <2>3. CASE lstate[j].status = "CANCELLING"
    <3>1. state[j].status \notin Ended
      BY <1>1, <2>0, <2>3 DEF LifeCycle, NotBehind, Ended
    <3>2. /\ PhaseOf(state[j].status) \in {"open", "cancelling"}
          /\ PhaseOf(state'[j].status) = "cancelling"
      BY <2>1, <2>3, <3>1 DEF PhaseOf, Ended
    <3> QED
      BY <1>1, <3>2 DEF Life!Cancel, Life!Stay
  <2>4. CASE lstate[j].status \in {"PENDING", "ACTIVE"}
    <3>1. state[j].status \notin Ended \cup {"CANCELLING"}
      BY <1>1, <2>0, <2>4 DEF LifeCycle, NotBehind, Ended, Stopping
    <3>2. PhaseOf(state[j].status) = "open" /\ PhaseOf(state'[j].status) = "open"
      BY <2>1, <2>4, <3>1 DEF PhaseOf, Ended
    <3> QED
      BY <1>1, <3>2 DEF Life!Stay
  <2> QED
    BY <2>1, <2>2, <2>3, <2>4 DEF States, Statuses, Ended
<1> QED
  BY <1>2, <1>3

\* A deletion gives back the name of a job that has no command; if no update was
\* abandoned, storage had it as COMPLETED, or its file was gone.
LEMMA LifeDelete ==
  ASSUME TypeOK, Phases, LifeCycle, Doomed, "update" \in FaultKinds \/ Processes,
         NEW i \in Jobs, DeleteState(i), NEW j \in Jobs \ mixed
  PROVE  Life!Stay(j) \/ Life!Free(j)
<1>1. /\ cmd' = cmd /\ lstate[i].status = "COMPLETED" /\ state' = [state EXCEPT ![i] = NoState]
      /\ pc = "delete"
  BY DEF DeleteState, procs, Doomed, Phases
<1>2. CASE j # i
  BY <1>1, <1>2 DEF Life!Stay
<1>3. CASE j = i
  <2>1. cmd[j] \notin Live /\ cmd'[j] \notin Live
    BY <1>1, <1>3 DEF LifeCycle, CommandStopped, Ended
  <2>2. state'[j] = NoState /\ PhaseOf(state'[j].status) = "open"
    BY <1>1, <1>3, Sentinels DEF TypeOK, PhaseOf
  <2>3. CASE "update" \in FaultKinds
    BY <2>1, <2>2, <2>3 DEF Life!Free
  <2>4. CASE Processes
    <3>1. j \in Updated
      BY <1>1, <1>3, Sentinels DEF Updated, Active, TypeOK
    <3>2. state[j].status = "COMPLETED" \/ state[j] = NoState
      BY <1>1, <1>3, <2>4, <3>1 DEF Processes, Flushed
    <3>3. CASE state[j].status = "COMPLETED"
      <4>1. PhaseOf(state[j].status) = "over"
        BY <3>3 DEF PhaseOf
      <4> QED
        BY <2>1, <2>2, <4>1 DEF Life!Free
    <3>4. CASE state[j] = NoState
      BY <1>1, <2>2, <3>4 DEF Life!Stay
    <3> QED
      BY <3>2, <3>3, <3>4
  <2> QED
    BY <2>3, <2>4
<1> QED
  BY <1>2, <1>3

\* Every step of the bastion, of its children and of its clients is one of JobLife.
LEMMA LifeNext ==
  ASSUME TypeOK, Phases, Apart, LifeCycle, Doomed, "update" \in FaultKinds \/ Processes,
         [Next]_vars, TypeOK'
  PROVE  Life!Next
<1>1. mixed \subseteq mixed' /\ mixed' \subseteq Jobs
  BY MixedGrows DEF TypeOK
<1>2. ASSUME NEW j \in Jobs \ mixed, state' = state
      PROVE  Life!Stay(j) \/ Life!Run(j) \/ Life!Stop(j)
  <2>1. CASE cmd'[j] \in Live /\ cmd[j] \notin Live
    <3>1. lstate[j].status = "ACTIVE"
      BY <2>1, CommandStarters DEF StartCommand, Reach
    <3>2. PhaseOf(state[j].status) = "open"
      BY <3>1, Sentinels DEF LifeCycle, NotBehind, PhaseOf, Ended, Stopping
    <3> QED
      BY <1>2, <2>1, <3>2 DEF Life!Run
  <2>2. CASE cmd'[j] \notin Live
    BY <1>2, <2>2 DEF Life!Stop
  <2>3. CASE cmd'[j] \in Live /\ cmd[j] \in Live
    BY <1>2, <2>3 DEF Life!Stay
  <2> QED
    BY <2>1, <2>2, <2>3
<1>3. \A j \in Jobs \ mixed' : \/ Life!Stay(j) \/ Life!Run(j) \/ Life!Stop(j)
                               \/ Life!Cancel(j) \/ Life!End(j) \/ Life!Free(j)
  BY <1>1, <1>2, LifeUpload, LifeDelete, StateWriters
<1>4. /\ [j \in Jobs |-> PhaseOf(state'[j].status)] \in [Jobs -> Life!Phases]
      /\ [j \in Jobs |-> cmd'[j] \in Live] \in [Jobs -> BOOLEAN]
  BY DEF PhaseOf, Life!Phases
<1> QED
  BY <1>1, <1>3, <1>4 DEF Life!Next

\* The bastion implements JobLife, for any number of jobs and of faults of every kind, with
\* the jobs that a malformed jobspec was mixed up with as those gone astray; where updates
\* may be abandoned, storage is not reliable.
THEOREM LifeImplemented == Spec => KeepsLife
<1>1. ASSUME TypeOK, Phases, Apart, LifeCycle, Doomed, "update" \in FaultKinds \/ Processes,
             [Next]_vars, TypeOK'
      PROVE  [Life!Next]_<<[j \in Jobs |-> PhaseOf(state[j].status)],
                           [j \in Jobs |-> cmd[j] \in Live], mixed>>
  <2>1. Life!Next
    BY <1>1, LifeNext
  <2> QED
    BY <2>1
<1>2. CASE "update" \in FaultKinds
  <2>1. TypeOK /\ Phases /\ Doomed /\ [Next]_vars => Doomed'
    BY DoomedNext
  <2>2. /\ TypeOK /\ Phases /\ Apart /\ LifeCycle /\ Doomed /\ [Next]_vars /\ TypeOK'
        => [Life!Next]_<<[j \in Jobs |-> PhaseOf(state[j].status)],
                         [j \in Jobs |-> cmd[j] \in Live], mixed>>
    BY <1>1, <1>2
  <2> QED
    BY <2>1, <2>2, LifeInit, DoomedInit, LifeCycleHolds, PTL DEF Spec, KeepsLife, Life!Spec
<1>3. CASE "update" \notin FaultKinds
  <2>1. TypeOK /\ Phases /\ Doomed /\ [Next]_vars => Doomed'
    BY DoomedNext
  <2>2. /\ TypeOK /\ Phases /\ Apart /\ LifeCycle /\ Doomed /\ Processes /\ [Next]_vars /\ TypeOK'
        => [Life!Next]_<<[j \in Jobs |-> PhaseOf(state[j].status)],
                         [j \in Jobs |-> cmd[j] \in Live], mixed>>
    BY <1>1
  <2>3. Spec => []Processes
    BY <1>3, ProcessesHold
  <2> QED
    BY <2>1, <2>2, <2>3, LifeInit, DoomedInit, LifeCycleHolds, PTL DEF Spec, KeepsLife, Life!Spec
<1> QED
  BY <1>2, <1>3
=============================================================================
