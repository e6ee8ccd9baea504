------------------------------ MODULE JobBatch ------------------------------
(***************************************************************************)
(* The loop of download_job_batch (cloud/common/bastion.py) that turns what *)
(* was downloaded into jobs.  Module Bastion takes its outcome as one step, *)
(* with the jobs that an entry is made of given by SpecOf and StateOf; here *)
(* the loop runs statement by statement, with its local variables and with  *)
(* job states as the mutable objects they are: an exception leaves the      *)
(* variables of an earlier iteration in place.  OwnEntry says that the two  *)
(* agree.                                                                   *)
(*                                                                          *)
(* Jobs are numbered in the order in which they are listed.                 *)
(***************************************************************************)
EXTENDS Naturals

CONSTANTS
  N,            \* number of listed jobs
  FileStatuses  \* the statuses a state file may hold in this instance

ASSUME JobBatchAssumption ==
  /\ N \in Nat
  /\ FileStatuses \subseteq {"PENDING", "ACTIVE", "CANCELLING", "CLEANING", "COMPLETED"}

Jobs == 1..N
None == 0

VARIABLES
  content,    \* what reading the jobspec and the state of each job gives
  file,       \* the status in each state file
  userFile,   \* the user state of each job
  k,          \* the job the loop is at
  spec,       \* local variable: the job whose jobspec it holds, or None
  state,      \* local variable: the job whose JobState object it refers to
  user,       \* local variable: a user status, "none" (no file) or "unbound"
  heap,       \* the status in the JobState object of each job
  jobs,       \* the result: job name to its jobspec and its JobState object
  withUser,   \* the result: jobs_with_user_states
  outcome     \* "running", "done" or "crashed" (UnboundLocalError)

input == <<content, file, userFile>>
vars  == <<input, k, spec, state, user, heap, jobs, withUser, outcome>>

Contents ==
  {"good",        \* readable and valid
   "denied",      \* readable; the owner or the validator rejects the job
   "malformed",   \* deserialize_jobspec raises ValidationError
   "unreadable",  \* reading the jobspec raises anything else
   "stateless"}   \* reading the state file raises
UserFiles == {"none", "CANCELLING", "ACTIVE", "unreadable"}
Final     == {"CLEANING", "COMPLETED"}
NoEntry   == [spec |-> None, state |-> None]

NoUser == "none"   \* user_state = None

Init ==
  /\ content \in [Jobs -> Contents]
  /\ file \in [Jobs -> FileStatuses]
  /\ userFile \in [Jobs -> UserFiles]
  /\ k = 1
  /\ spec = None /\ state = None /\ user = "unbound"
  /\ heap = file
  /\ jobs = [j \in Jobs |-> NoEntry]
  /\ withUser = {}
  /\ outcome = "running"

----------------------------------------------------------------------------
(* One iteration: the try statement, then the part after it. *)

\* Where the try statement of job j ends.
Raises(j) ==
  IF content[j] = "malformed" THEN "spec"
  ELSE IF content[j] = "unreadable" THEN "skip at spec"
  ELSE IF content[j] = "stateless" THEN "skip at state"
  ELSE IF userFile[j] = "unreadable" THEN "skip at user state"
  ELSE "nowhere"

\* The local variables after the try statement of job j: those assigned before
\* an exception are job j's, the others keep an earlier job's.
SpecAfter(j)  == IF Raises(j) \in {"spec", "skip at spec"} THEN spec ELSE j
StateAfter(j) ==
  IF Raises(j) \in {"spec", "skip at spec", "skip at state"} THEN state ELSE j
UserAfter(j)  == IF Raises(j) = "nowhere" THEN userFile[j] ELSE user

\* Mutant: an unreadable jobspec is treated like an invalid one.
SkipsReadableOnly(j) == Raises(j) \in {"skip at state", "skip at user state"}

\* Any other exception than ValidationError: continue with the next job.
Skips(j) == Raises(j) \in {"skip at spec", "skip at state", "skip at user state"}

Invalid(j) == content[j] \in {"malformed", "denied"}

\* Mutant: a rejected job is cancelled even when it is over.
CancelFinal(j, status, asked) ==
  IF asked = "CANCELLING" \/ Invalid(j) THEN "CANCELLING" ELSE status

\* The status that the rest of the iteration gives to an object in `status`.
NewStatus(j, status, asked) ==
  IF status \notin Final /\ (asked = "CANCELLING" \/ Invalid(j))
  THEN "CANCELLING" ELSE status

Iterate(j) ==
  LET sp == SpecAfter(j)
      st == StateAfter(j)
      us == UserAfter(j)
  IN  /\ spec' = sp /\ state' = st /\ user' = us
      /\ \/ /\ Skips(j)
            /\ k' = k + 1
            /\ UNCHANGED <<heap, jobs, withUser, outcome>>
         \/ /\ ~Skips(j)
            /\ us # "unbound"
            /\ heap' = [heap EXCEPT ![st] = NewStatus(j, @, us)]
            /\ jobs' = [jobs EXCEPT ![j] = [spec |-> sp, state |-> st]]
            /\ withUser' = IF us = NoUser THEN withUser ELSE withUser \cup {j}
            /\ k' = k + 1
            /\ UNCHANGED outcome
         \/ /\ ~Skips(j)
            /\ us = "unbound"
            /\ outcome' = "crashed"
            /\ UNCHANGED <<k, heap, jobs, withUser>>

Step ==
  /\ outcome = "running" /\ k <= N
  /\ Iterate(k)
  /\ UNCHANGED input

Return ==
  /\ outcome = "running" /\ k > N
  /\ outcome' = "done"
  /\ UNCHANGED <<input, k, spec, state, user, heap, jobs, withUser>>

Next == Step \/ Return
Spec == Init /\ [][Next]_vars

----------------------------------------------------------------------------
(* Properties *)

Loaded(j) == jobs[j] # NoEntry

\* The comment above the loop: the user status is picked when it is CANCELLING
\* and the job is not CLEANING or COMPLETED; otherwise the job status is kept.
\* A job that fails validation is cancelled under the same condition.
Chosen(j) ==
  IF file[j] \notin Final /\ (userFile[j] = "CANCELLING" \/ Invalid(j))
  THEN "CANCELLING" ELSE file[j]

\* The jobs whose jobspec, and whose state too, the loop gets to read.
SpecReads  == {j \in Jobs : content[j] \in {"good", "denied", "stateless"}}
StateReads == {j \in Jobs : content[j] \in {"good", "denied"}}

\* i is the last of the jobs js before job j.
LastBefore(js, j, i) == i \in js /\ i < j /\ \A h \in js : h < j => h <= i

\* A job whose jobspec can be deserialized is returned with its own jobspec and its own
\* state, or not at all if any of its files cannot be read: no exception shifts the
\* variables of an earlier job under it. A malformed job is returned with the jobspec
\* and the state that were read last before it, perhaps of two different jobs.
OwnEntry ==
  \A j \in Jobs :
    /\ content[j] # "malformed" =>
         /\ Loaded(j) => jobs[j] = [spec |-> j, state |-> j]
         /\ outcome = "done" => (Loaded(j) <=> ~Skips(j))
    /\ content[j] = "malformed" /\ Loaded(j) =>
         LastBefore(SpecReads, j, jobs[j].spec) /\ LastBefore(StateReads, j, jobs[j].state)

\* A readable job gets the status the comment promises; the only exception is a
\* job that is cancelled because a malformed one is listed after it.
StatusChosen ==
  outcome = "done" => \A j \in Jobs :
    Loaded(j) /\ content[j] # "malformed" =>
      \/ heap[j] = Chosen(j)
      \/ heap[j] = "CANCELLING" /\ \E i \in j + 1..N : content[i] = "malformed"

\* The same without the exception: "otherwise, we keep job status".
KeepStatus ==
  outcome = "done" => \A j \in Jobs :
    content[j] = "good" /\ userFile[j] \in {"none", "ACTIVE"} => heap[j] = file[j]
============================================================================
