--------------------------- MODULE JobBatchProofs ---------------------------
(***************************************************************************)
(* Proofs about JobBatch, for any number of listed jobs.                    *)
(***************************************************************************)
EXTENDS JobBatch, TLAPS

\* What the loop leaves of the jobs it is done with, and of the others; the local
\* variables never hold a job the loop has not come to.
Untouched(j) == jobs[j] = NoEntry /\ heap[j] = file[j]

Settled(j) ==
  /\ content[j] # "malformed" =>
       /\ jobs[j] = IF Skips(j) THEN NoEntry ELSE [spec |-> j, state |-> j]
       /\ \/ Skips(j)
          \/ heap[j] = Chosen(j)
          \/ heap[j] = "CANCELLING" /\ \E i \in j + 1..k - 1 : content[i] = "malformed"
  /\ content[j] = "malformed" =>
       LastBefore(SpecReads, j, jobs[j].spec) /\ LastBefore(StateReads, j, jobs[j].state)

\* The value v of a local variable that the jobs js bind, when the loop is at job n.
Bound(js, n, v) == IF v = None THEN \A h \in js : h >= n ELSE LastBefore(js, n, v)

Loop ==
  /\ content \in [Jobs -> Contents] /\ userFile \in [Jobs -> UserFiles]
  /\ k \in 1..N + 1
  /\ heap \in [Jobs -> FileStatuses \cup {"CANCELLING"}] /\ jobs \in [Jobs -> [spec : 0..N, state : 0..N]]
  /\ state \in 0..k - 1 /\ spec \in 0..k - 1
  /\ state = None \/ spec = None => user = "unbound"
  /\ Bound(SpecReads, k, spec) /\ Bound(StateReads, k, state)
  /\ \A j \in k..N : Untouched(j)
  /\ \A j \in 1..k - 1 : Settled(j)
  /\ outcome = "done" => k = N + 1

\* No job has been looked at at first.
LEMMA LoopInit == Init => Loop
<1> SUFFICES ASSUME Init PROVE Loop
  OBVIOUS
<1>1. k = 1 /\ 1 \in 1..N + 1 /\ 1..k - 1 = {}
  BY JobBatchAssumption DEF JobBatchAssumption, Init
<1>2. jobs \in [Jobs -> [spec : 0..N, state : 0..N]]
  BY JobBatchAssumption DEF JobBatchAssumption, Init, NoEntry, None
<1>3. \A j \in k..N : Untouched(j)
  BY <1>1 DEF Init, Untouched, Jobs
<1>4. state \in 0..k - 1 /\ spec \in 0..k - 1 /\ user = "unbound"
  BY <1>1 DEF Init, None
<1>5. Bound(SpecReads, k, spec) /\ Bound(StateReads, k, state)
  BY <1>1 DEF Init, Bound, SpecReads, StateReads, Jobs
<1> QED
  BY <1>1, <1>2, <1>3, <1>4, <1>5 DEF Init, Loop

\* A job whose files are all read binds every variable to itself.
LEMMA BoundTogether ==
  ASSUME NEW j \in Jobs, Loop, content[j] # "malformed", ~Skips(j)
  PROVE  SpecAfter(j) = j /\ StateAfter(j) = j /\ UserAfter(j) = userFile[j] /\ userFile[j] # "unbound"
BY DEF Loop, Skips, Raises, SpecAfter, StateAfter, UserAfter, UserFiles, Contents

\* After the try statement of a job the variables hold what was read last.
LEMMA BoundAfter ==
  ASSUME NEW j \in Jobs, Loop, k = j
  PROVE  Bound(SpecReads, j + 1, SpecAfter(j)) /\ Bound(StateReads, j + 1, StateAfter(j))
<1>1. /\ SpecAfter(j) = IF j \in SpecReads THEN j ELSE spec
      /\ StateAfter(j) = IF j \in StateReads THEN j ELSE state
  BY DEF Loop, SpecAfter, StateAfter, Raises, SpecReads, StateReads, Contents
<1>2. ASSUME NEW js \in SUBSET Jobs, NEW v \in 0..j - 1, Bound(js, j, v)
      PROVE  Bound(js, j + 1, IF j \in js THEN j ELSE v)
  BY <1>2, JobBatchAssumption DEF Bound, LastBefore, None, Jobs, JobBatchAssumption
<1>3. /\ SpecReads \subseteq Jobs /\ StateReads \subseteq Jobs
      /\ spec \in 0..j - 1 /\ state \in 0..j - 1
      /\ Bound(SpecReads, j, spec) /\ Bound(StateReads, j, state)
  BY DEF SpecReads, StateReads, Loop
<1> QED
  BY <1>1, <1>2, <1>3

\* Every step of the loop keeps what it has done, and leaves alone what it has not come to.
LEMMA LoopStep == Loop /\ Step => Loop'
<1> SUFFICES ASSUME Loop, Step, NEW n \in Jobs, n = k PROVE Loop'
  BY DEF Step, Loop, Jobs
<1> USE JobBatchAssumption DEF JobBatchAssumption
<1>1. /\ k \in Jobs /\ k \in Nat /\ outcome = "running" /\ Iterate(k)
      /\ UNCHANGED input
  BY DEF Step, Loop, Jobs
<1>2. /\ spec' = SpecAfter(k) /\ spec' \in 0..k
      /\ state' = StateAfter(k) /\ state' \in 0..k
      /\ user' = UserAfter(k)
  <2>1. spec' = SpecAfter(k) /\ state' = StateAfter(k) /\ user' = UserAfter(k)
    BY <1>1 DEF Iterate
  <2>2. SpecAfter(k) \in {spec, k} /\ StateAfter(k) \in {state, k}
    BY DEF SpecAfter, StateAfter
  <2>3. spec \in 0..k /\ state \in 0..k /\ k \in 0..k
    BY <1>1 DEF Loop
  <2> QED
    BY <2>1, <2>2, <2>3
<1>3. state' = None \/ spec' = None => user' = "unbound"
  BY <1>1, <1>2 DEF SpecAfter, StateAfter, UserAfter, Raises, Loop, None
<1>4. /\ \A j \in Jobs : Skips(j)' = Skips(j) /\ Chosen(j)' = Chosen(j)
      /\ SpecReads' = SpecReads /\ StateReads' = StateReads
  BY <1>1 DEF input, Skips, Raises, Chosen, Invalid, SpecReads, StateReads
<1>5. ASSUME k' = k + 1, \A j \in Jobs : j # k => jobs'[j] = jobs[j],
             jobs' \in [Jobs -> [spec : 0..N, state : 0..N]],
             heap' \in [Jobs -> FileStatuses \cup {"CANCELLING"}],
             \A j \in k + 1..N : heap'[j] = heap[j],
             \A j \in 1..k - 1 : content[j] # "malformed" /\ ~Skips(j) =>
               \/ heap'[j] = heap[j]
               \/ heap'[j] = "CANCELLING" /\ content[k] = "malformed",
             Settled(n)', outcome' = outcome
      PROVE  Loop'
  <2>1. /\ k' \in 1..N + 1 /\ content' = content /\ userFile' = userFile /\ file' = file
        /\ spec' \in 0..k' - 1 /\ state' \in 0..k' - 1
    BY <1>1, <1>2, <1>5 DEF Loop, input, Jobs
  <2>2. \A j \in k'..N : Untouched(j)'
    BY <1>1, <1>5, <2>1 DEF Loop, Untouched, Jobs
  <2>3. ASSUME NEW j \in 1..k - 1 PROVE Settled(j)'
    <3>1. j \in Jobs /\ j # k /\ Settled(j)
      BY <1>1 DEF Loop, Jobs
    <3>2. \A i \in j + 1..k - 1 : i \in j + 1..k' - 1
      BY <1>1, <1>5
    <3>3. k \in j + 1..k' - 1
      BY <1>1, <1>5
    <3> QED
      BY <1>4, <1>5, <2>1, <3>1, <3>2, <3>3 DEF Settled, NoEntry
  <2>4. \A j \in 1..k' - 1 : j \in 1..k - 1 \/ j = k
    BY <1>1, <1>5
  <2>5. Bound(SpecReads, k, spec)' /\ Bound(StateReads, k, state)'
    BY <1>1, <1>2, <1>4, <1>5, BoundAfter DEF Bound, LastBefore
  <2> QED
    BY <1>1, <1>3, <1>5, <2>1, <2>2, <2>3, <2>4, <2>5 DEF Loop
<1>6. CASE Skips(k)
  <2>1. k' = k + 1 /\ heap' = heap /\ jobs' = jobs /\ outcome' = outcome
    BY <1>1, <1>6 DEF Iterate
  <2>2. Settled(n)'
    BY <1>1, <1>4, <1>6, <2>1 DEF Settled, Loop, Untouched, NoEntry, Jobs, Skips, Raises, input
  <2> QED
    BY <1>1, <1>5, <2>1, <2>2 DEF Loop, Jobs
<1>7. CASE ~Skips(k) /\ user' # "unbound"
  <2>1. /\ k' = k + 1 /\ outcome' = outcome
        /\ heap' = [heap EXCEPT ![StateAfter(k)] = NewStatus(k, heap[StateAfter(k)], user')]
        /\ jobs' = [jobs EXCEPT ![k] = [spec |-> SpecAfter(k), state |-> StateAfter(k)]]
    BY <1>1, <1>2, <1>7 DEF Iterate
  <2>2. StateAfter(k) \in Jobs
    BY <1>1, <1>2, <1>3, <1>7 DEF None, Jobs
  <2>3. /\ jobs' \in [Jobs -> [spec : 0..N, state : 0..N]]
        /\ heap' \in [Jobs -> FileStatuses \cup {"CANCELLING"}]
    <3>1. SpecAfter(k) \in 0..N /\ StateAfter(k) \in 0..N
      BY <1>1, <1>2 DEF Jobs
    <3>2. jobs \in [Jobs -> [spec : 0..N, state : 0..N]]
      BY DEF Loop
    <3>3. heap \in [Jobs -> FileStatuses \cup {"CANCELLING"}]
      BY DEF Loop
    <3>4. NewStatus(k, heap[StateAfter(k)], user') \in FileStatuses \cup {"CANCELLING"}
      BY <2>2, <3>3 DEF NewStatus
    <3>5. heap' \in [Jobs -> FileStatuses \cup {"CANCELLING"}]
      BY <2>1, <3>3, <3>4
    <3> QED
      BY <2>1, <3>1, <3>2, <3>5
  <2>31. /\ \A j \in k + 1..N : j \in Jobs /\ j # k /\ j \notin 0..k - 1
         /\ \A j \in 1..k - 1 : j \in Jobs /\ j # k
    BY <1>1 DEF Jobs
  <2>32. \A j \in Jobs : j # k => jobs'[j] = jobs[j]
    BY <2>1 DEF Loop
  <2>33. \A j \in Jobs : j # StateAfter(k) => heap'[j] = heap[j]
    BY <2>1 DEF Loop
  <2>4. CASE content[k] = "malformed"
    <3>1. NewStatus(k, heap[StateAfter(k)], user') \in {heap[StateAfter(k)], "CANCELLING"}
      BY DEF NewStatus
    <3>2. StateAfter(k) \in 0..k - 1
      BY <2>4 DEF StateAfter, Raises, Loop
    <3>3. Settled(n)'
      <4>1. SpecAfter(k) = spec /\ StateAfter(k) = state /\ UserAfter(k) = user
        BY <2>4 DEF SpecAfter, StateAfter, UserAfter, Raises
      <4>2. LastBefore(SpecReads, k, spec) /\ LastBefore(StateReads, k, state)
        BY <1>2, <1>7, <4>1 DEF Loop, Bound
      <4>3. jobs'[k] = [spec |-> spec, state |-> state]
        BY <1>1, <2>1, <4>1 DEF Loop
      <4> QED
        BY <1>1, <1>4, <2>4, <4>2, <4>3 DEF Settled, input
    <3>4. \A j \in Jobs : heap'[j] = heap[j] \/ (j = StateAfter(k) /\ heap'[j] = "CANCELLING")
      BY <2>1, <3>1 DEF Loop
    <3>5. \A j \in k + 1..N : heap'[j] = heap[j]
      BY <2>31, <2>33, <3>2
    <3>6. \A j \in 1..k - 1 : heap'[j] = heap[j] \/ heap'[j] = "CANCELLING"
      BY <2>31, <3>4
    <3> QED
      BY <1>5, <2>1, <2>3, <2>32, <2>4, <3>3, <3>5, <3>6
  <2>5. CASE content[k] # "malformed"
    <3>1. SpecAfter(k) = k /\ StateAfter(k) = k /\ user' = userFile[k]
      BY <1>1, <1>2, <1>7, <2>5, BoundTogether
    <3>2. heap'[k] = Chosen(k) /\ jobs'[k] = [spec |-> k, state |-> k]
      BY <1>1, <2>1, <3>1 DEF Loop, Untouched, NewStatus, Chosen, Jobs
    <3>3. Settled(n)'
      BY <1>1, <1>4, <1>7, <2>5, <3>2 DEF Settled, input
    <3>4. /\ \A j \in k + 1..N : heap'[j] = heap[j]
          /\ \A j \in 1..k - 1 : heap'[j] = heap[j]
      BY <2>31, <2>33, <3>1
    <3> QED
      BY <1>5, <2>1, <2>3, <2>32, <3>3, <3>4
  <2> QED
    BY <2>4, <2>5
<1>8. CASE ~Skips(k) /\ user' = "unbound"
  <2>1. k' = k /\ heap' = heap /\ jobs' = jobs /\ outcome' = "crashed"
    BY <1>1, <1>2, <1>8 DEF Iterate
  <2>2. content[k] = "malformed"
    BY <1>1, <1>2, <1>8, BoundTogether
  <2>3. spec' \in 0..k - 1 /\ state' \in 0..k - 1
    BY <1>1, <1>2, <2>2 DEF SpecAfter, StateAfter, Raises, Loop
  <2>4. ASSUME NEW j \in 1..k - 1 PROVE Settled(j)'
    <3>1. j \in Jobs /\ Settled(j) /\ content' = content
      BY <1>1 DEF Loop, Jobs, input
    <3> QED
      BY <1>4, <2>1, <3>1 DEF Settled
  <2>5. Bound(SpecReads, k, spec)' /\ Bound(StateReads, k, state)'
    <3>1. spec' = spec /\ state' = state
      BY <1>2, <2>2 DEF SpecAfter, StateAfter, Raises
    <3> QED
      BY <1>4, <2>1, <3>1 DEF Loop
  <2> QED
    BY <1>1, <1>3, <2>1, <2>3, <2>4, <2>5 DEF Loop, Untouched, input
<1> QED
  BY <1>6, <1>7, <1>8

\* The invariant of the loop holds in every state.
LEMMA LoopHolds == Spec => []Loop
<1>1. Loop /\ [Next]_vars => Loop'
  <2> SUFFICES ASSUME Loop, [Next]_vars PROVE Loop'
    OBVIOUS
  <2>1. CASE Return
    <3>1. SpecReads' = SpecReads /\ StateReads' = StateReads
      BY <2>1 DEF Return, input, SpecReads, StateReads
    <3> QED
      BY <2>1, <3>1, JobBatchAssumption
         DEF JobBatchAssumption, Return, Loop, Untouched, Settled, Skips, Raises, Chosen, Invalid, input
  <2>2. CASE UNCHANGED vars
    <3>1. SpecReads' = SpecReads /\ StateReads' = StateReads
      BY <2>2 DEF vars, input, SpecReads, StateReads
    <3> QED
      BY <2>2, <3>1 DEF vars, Loop, Untouched, Settled, Skips, Raises, Chosen, Invalid, input
  <2> QED
    BY <2>1, <2>2, LoopStep DEF Next
<1> QED
  BY <1>1, LoopInit, PTL DEF Spec

\* OwnEntry: a job whose jobspec can be deserialized is returned with its own jobspec and
\* its own state, or not at all; a malformed one with those that were read last before it.
THEOREM EveryOneItsOwn == Spec => []OwnEntry
<1>1. Loop => OwnEntry
  <2> SUFFICES ASSUME Loop, NEW j \in Jobs
               PROVE  /\ content[j] # "malformed" =>
                           /\ Loaded(j) => jobs[j] = [spec |-> j, state |-> j]
                           /\ outcome = "done" => (Loaded(j) <=> ~Skips(j))
                      /\ content[j] = "malformed" /\ Loaded(j) =>
                           /\ LastBefore(SpecReads, j, jobs[j].spec)
                           /\ LastBefore(StateReads, j, jobs[j].state)
    BY DEF OwnEntry
  <2>1. j \in k..N \/ j \in 1..k - 1
    BY JobBatchAssumption DEF JobBatchAssumption, Loop, Jobs
  <2>2. CASE j \in k..N
    BY <2>2, JobBatchAssumption DEF JobBatchAssumption, Loop, Untouched, Loaded, Jobs
  <2>3. CASE j \in 1..k - 1
    <3>1. [spec |-> j, state |-> j] # NoEntry
      BY <2>3 DEF NoEntry, None
    <3> QED
      BY <2>3, <3>1 DEF Loop, Settled, Loaded
  <2> QED
    BY <2>1, <2>2, <2>3
<1> QED
  BY <1>1, LoopHolds, PTL

\* StatusChosen: a job that can be read gets the status the comment promises, or is
\* cancelled because a malformed one follows it.
THEOREM StatusAsPromised == Spec => []StatusChosen
<1>1. Loop => StatusChosen
  <2> SUFFICES ASSUME Loop, outcome = "done", NEW j \in Jobs, Loaded(j), content[j] # "malformed"
               PROVE  \/ heap[j] = Chosen(j)
                      \/ heap[j] = "CANCELLING" /\ \E i \in j + 1..N : content[i] = "malformed"
    BY DEF StatusChosen
  <2>1. k = N + 1 /\ k - 1 = N /\ j \in 1..k - 1
    BY JobBatchAssumption DEF JobBatchAssumption, Loop, Jobs
  <2>2. Settled(j) /\ ~Skips(j)
    BY <2>1 DEF Loop, Settled, Loaded
  <2> QED
    BY <2>1, <2>2 DEF Settled
<1> QED
  BY <1>1, LoopHolds, PTL
=============================================================================
