---------------------------- MODULE Checkpointer ----------------------------
(***************************************************************************)
(* Saving, committing, collecting and restoring of checkpoints             *)
(* (axlearn/common/checkpointer.py), driven by the loop of SpmdTrainer     *)
(* (trainer.py), through crashes of the whole job.                         *)
(*                                                                         *)
(* A checkpoint is a directory step_<n> to which every process writes its  *)
(* part; the index file, written by process 0 once all parts are there,    *)
(* commits it.  The main threads of the processes run in lockstep          *)
(* (collectives and barriers) and are one thread here.  Beside it run the  *)
(* serialization of the last save, one write per process, and in process 0 *)
(* the garbage collection.                                                 *)
(*                                                                         *)
(* Abstracted: the save policy answers anything; an index file appears at  *)
(* once, as an object of a bucket does; the serialization is the one of    *)
(* jax as TensorStoreStateStorage uses it.  A failed serialization ends    *)
(* the run like a crash: stop(has_exception=True) does not wait for it.    *)
(***************************************************************************)
EXTENDS Integers, FiniteSets

CONSTANTS
  Processes,
  MaxStep,     \* trainer: max_step
  KeepLastN,   \* keep_last_n
  KeepEveryN,  \* keep_every_n_steps, 0 for None
  MaxRuns,     \* bound: runs of the job, each but the last ends by a crash
  MaxFaults    \* bound: removals that fail

ASSUME CkptAssumption ==
  /\ IsFiniteSet(Processes) /\ Processes # {}
  /\ MaxStep \in Nat \ {0}
  /\ KeepLastN \in Nat \ {0}
  /\ KeepEveryN \in Nat
  /\ MaxRuns \in Nat \ {0}
  /\ MaxFaults \in Nat

Steps  == 0..MaxStep
NoStep == -1

VARIABLES
  dirs,       \* the steps that have a directory
  index,      \* the steps whose directory has an index file
  data,       \* the run that wrote each part of a directory, 0: missing or partial
  run,        \* number of the run
  pc,         \* where the trainer is
  step,       \* trainer._step
  saving,     \* the step that is being serialized
  todo,       \* the processes that have not written their part of it
  gc,         \* where the gc thread is
  listed,     \* _run_garbage_collection: step_dirs
  unread,     \* the directories whose index it has not looked for yet
  committed,  \* committed_dirs
  doomed,     \* gc_dirs
  target,     \* the directory being removed
  faults

storage  == <<dirs, index, data>>
trainer  == <<pc, step>>
writer   == <<saving, todo>>
round    == <<listed, unread, committed, doomed, target>>
vars     == <<storage, run, trainer, writer, gc, round, faults>>

Newest(S) == CHOOSE s \in S : \A t \in S : t <= s

NoParts == [p \in Processes |-> 0]

Init ==
  /\ dirs = {} /\ index = {}
  /\ data = [s \in Steps |-> NoParts]
  /\ run = 1
  /\ pc = "restore" /\ step = 0
  /\ saving = NoStep /\ todo = {}
  /\ gc = "off"
  /\ listed = {} /\ unread = {} /\ committed = {} /\ doomed = {} /\ target = NoStep
  /\ faults = 0

----------------------------------------------------------------------------
(* The trainer: _prepare_training, the loop of run, Checkpointer.stop. *)

\* Restoring the latest complete checkpoint, or none; a run that is complete ends.
Restore ==
  /\ pc = "restore"
  /\ step' = IF index = {} THEN 0 ELSE Newest(index)
  /\ pc' = IF index = {} THEN "policy" ELSE IF step' >= MaxStep THEN "done" ELSE "enter"
  /\ UNCHANGED <<storage, run, writer, gc, round, faults>>

\* __enter__ starts the gc thread.
Enter ==
  /\ pc = "enter"
  /\ gc' = "idle"
  /\ pc' = "train"
  /\ UNCHANGED <<storage, run, step, writer, round, faults>>

\* Mutant: the condition of the loop is off by one.
OneMoreStep ==
  /\ pc = "train" /\ step <= MaxStep
  /\ step' = step + 1
  /\ pc' = "policy"
  /\ UNCHANGED <<storage, run, writer, gc, round, faults>>

TrainStep ==
  /\ pc = "train" /\ step < MaxStep
  /\ step' = step + 1
  /\ pc' = "policy"
  /\ UNCHANGED <<storage, run, writer, gc, round, faults>>

\* Step 0 is saved, or not, before the checkpointer is entered.
Continue == pc' = IF gc = "off" THEN "enter" ELSE "train"

SkipSave ==
  /\ pc = "policy"
  /\ Continue
  /\ UNCHANGED <<storage, run, step, writer, gc, round, faults>>

\* save_to_dir up to the previous serialization: the directory is there, and its
\* files, which an earlier run may have left, are being written.
BeginSave ==
  /\ pc = "policy"
  /\ dirs' = dirs \cup {step}
  /\ data' = [data EXCEPT ![step] = NoParts]
  /\ pc' = "previous"
  /\ UNCHANGED <<index, run, step, writer, gc, round, faults>>

\* serialize: the previous one is finished.
Serialize ==
  /\ pc = "previous" /\ saving = NoStep
  /\ saving' = step /\ todo' = Processes
  /\ Continue
  /\ UNCHANGED <<storage, run, step, gc, round, faults>>

\* The last step, or the end of the input.
StopTraining ==
  /\ pc = "train"
  /\ pc' = "flush"
  /\ UNCHANGED <<storage, run, step, writer, gc, round, faults>>

\* stop: wait_until_finished.
Flush ==
  /\ pc = "flush" /\ saving = NoStep
  /\ pc' = "join"
  /\ UNCHANGED <<storage, run, step, writer, gc, round, faults>>

\* _gc_stopping is set: the gc thread leaves its loop between two rounds.
Join ==
  /\ pc = "join" /\ gc = "idle"
  /\ gc' = "off" /\ pc' = "done"
  /\ UNCHANGED <<storage, run, step, writer, round, faults>>

----------------------------------------------------------------------------
(* The serialization in the background. *)

WritePart(p) ==
  /\ p \in todo
  /\ dirs' = dirs \cup {saving}
  /\ data' = [data EXCEPT ![saving][p] = run]
  /\ todo' = todo \ {p}
  /\ UNCHANGED <<index, run, trainer, saving, gc, round, faults>>

\* Mutant: process 0 does not wait for the others.
CommitEarly ==
  /\ saving # NoStep /\ Cardinality(todo) < Cardinality(Processes)
  /\ dirs' = dirs \cup {saving}
  /\ index' = index \cup {saving}
  /\ saving' = NoStep /\ todo' = {}
  /\ UNCHANGED <<data, run, trainer, gc, round, faults>>

\* on_commit_callback, in process 0, after the barrier: write_index_file.
Commit ==
  /\ saving # NoStep /\ todo = {}
  /\ dirs' = dirs \cup {saving}
  /\ index' = index \cup {saving}
  /\ saving' = NoStep
  /\ UNCHANGED <<data, run, trainer, todo, gc, round, faults>>

----------------------------------------------------------------------------
(* _run_garbage_collection. *)

\* _all_checkpoint_paths.
GcList ==
  /\ gc = "idle"
  /\ listed' = dirs /\ unread' = dirs /\ committed' = {}
  /\ gc' = "check"
  /\ UNCHANGED <<storage, run, trainer, writer, doomed, target, faults>>

\* checkpoint_paths: the index files are looked for one by one, in any order.  Its
\* own listing can only add directories that step_dirs does not have.
GcCheck(s) ==
  /\ gc = "check" /\ s \in unread
  /\ unread' = unread \ {s}
  /\ committed' = committed \cup ({s} \cap index)
  /\ UNCHANGED <<storage, run, trainer, writer, gc, listed, doomed, target, faults>>

\* Mutant: only the newest of the uncommitted directories can be in progress.
HeadFirst(all, com) ==
  {d \in all : (\A c \in com : c < d) /\ (\A e \in all : e <= d)}

\* The recent directories without index, any of which could be in progress.
Head(all, com) == {d \in all : \A c \in com : c < d}

\* Mutant: the newest directory counts, committed or not.
LastOfAll(all, com) ==
  {c \in com : Cardinality({d \in all : d > c}) < KeepLastN}

\* The last keep_last_n of the committed ones.
Last(all, com) ==
  {c \in com : Cardinality({d \in com : d > c}) < KeepLastN}

\* Mutant: the distance is measured from the oldest directory of the listing.
FromOldest(S) ==
  {s \in S : KeepEveryN > 0 /\ \A k \in S : k < s => s - k > KeepEveryN}

\* The older ones, from the oldest on: a checkpoint is kept if it is at least
\* keep_every_n_steps after the one kept before it.
Spaced(S) ==
  LET kept[s \in S] == \A k \in S : k < s /\ kept[k] => s - k >= KeepEveryN
  IN  {s \in S : KeepEveryN > 0 /\ kept[s]}

Remaining(all, com) ==
  Head(all, com) \cup Last(all, com) \cup Spaced(com \ Last(all, com))

GcPlan ==
  /\ gc = "check" /\ unread = {}
  /\ doomed' = listed \ Remaining(listed, committed)
  /\ gc' = "remove"
  /\ UNCHANGED <<storage, run, trainer, writer, listed, unread, committed, target, faults>>

\* Mutant: the directory is removed with the index in it.
KeepIndex(s) ==
  /\ gc = "remove" /\ s \in doomed
  /\ target' = s
  /\ gc' = "rmtree"
  /\ UNCHANGED <<storage, run, trainer, writer, listed, unread, committed, doomed, faults>>

\* cleanup_checkpoint: the index goes first.
RemoveIndex(s) ==
  /\ gc = "remove" /\ s \in doomed
  /\ index' = index \ {s}
  /\ target' = s
  /\ gc' = "rmtree"
  /\ UNCHANGED <<dirs, data, run, trainer, writer, listed, unread, committed, doomed, faults>>

\* rmtree takes its files in some order, then the directory.
RemovePart(p) ==
  /\ gc = "rmtree" /\ data[target][p] # 0
  /\ data' = [data EXCEPT ![target][p] = 0]
  /\ UNCHANGED <<dirs, index, run, trainer, writer, gc, round, faults>>

RemoveDir ==
  /\ gc = "rmtree" /\ data[target] = NoParts
  /\ dirs' = dirs \ {target} /\ index' = index \ {target}
  /\ doomed' = doomed \ {target} /\ target' = NoStep
  /\ gc' = "remove"
  /\ UNCHANGED <<data, run, trainer, writer, listed, unread, committed, faults>>

\* The removal of the index or of the directory fails and is given up.
RemovalFails ==
  /\ faults < MaxFaults /\ faults' = faults + 1
  /\ \/ gc = "remove" /\ \E s \in doomed : doomed' = doomed \ {s}
     \/ gc = "rmtree" /\ doomed' = doomed \ {target}
  /\ gc' = "remove" /\ target' = NoStep
  /\ UNCHANGED <<storage, run, trainer, writer, listed, unread, committed>>

GcEnd ==
  /\ gc = "remove" /\ doomed = {}
  /\ gc' = "idle"
  /\ UNCHANGED <<storage, run, trainer, writer, round, faults>>

----------------------------------------------------------------------------

\* All processes die, wherever their threads are, and the job starts again.
Crash ==
  /\ run < MaxRuns
  /\ run' = run + 1
  /\ pc' = "restore" /\ step' = 0
  /\ saving' = NoStep /\ todo' = {}
  /\ gc' = "off"
  /\ listed' = {} /\ unread' = {} /\ committed' = {} /\ doomed' = {} /\ target' = NoStep
  /\ UNCHANGED <<storage, faults>>

Finished == pc = "done" /\ UNCHANGED vars

Trainer == Restore \/ Enter \/ TrainStep \/ SkipSave \/ BeginSave \/ Serialize
           \/ StopTraining \/ Flush \/ Join

Serialization == Commit \/ \E p \in Processes : WritePart(p)

Gc ==
  \/ GcList \/ GcPlan \/ RemoveDir \/ RemovalFails \/ GcEnd
  \/ \E s \in Steps : GcCheck(s) \/ RemoveIndex(s)
  \/ \E p \in Processes : RemovePart(p)

Next == Trainer \/ Serialization \/ Gc \/ Crash \/ Finished

Spec == Init /\ [][Next]_vars

----------------------------------------------------------------------------
(* Properties *)

TypeOK ==
  /\ dirs \subseteq Steps /\ index \subseteq dirs
  /\ data \in [Steps -> [Processes -> 0..MaxRuns]]
  /\ run \in 1..MaxRuns
  /\ pc \in {"restore", "enter", "train", "policy", "previous", "flush", "join", "done"}
  /\ step \in Steps
  /\ saving \in Steps \cup {NoStep}
  /\ todo \in SUBSET Processes /\ (saving = NoStep => todo = {})
  /\ gc \in {"off", "idle", "check", "remove", "rmtree"}
  /\ listed \subseteq Steps /\ unread \subseteq listed /\ committed \subseteq listed
  /\ doomed \subseteq Steps
  /\ target \in Steps \cup {NoStep} /\ (gc = "rmtree" => target \in doomed)
  /\ faults \in 0..MaxFaults

\* A checkpoint with an index file is complete and of one run, in every state a
\* crash may leave behind: restore takes the newest one without another look.
CommittedComplete ==
  \A s \in index : \E r \in 1..run : \A p \in Processes : data[s][p] = r

\* What restore would return never goes back: a crash costs at most the steps since
\* the last commit, whatever is being collected.
RestorePointAdvances ==
  [][index # {} => index' # {} /\ Newest(index') >= Newest(index)]_vars

\* The collection leaves a checkpoint alone while it is being written.
InProgress == IF pc = "previous" THEN {saving, step} \ {NoStep} ELSE {saving} \ {NoStep}
InProgressKept ==
  \A s \in InProgress : s \in dirs /\ s \notin doomed /\ \A p \in Processes \ todo :
    s = saving => data[s][p] = run

\* A committed checkpoint is only given up if one that is kept comes at most
\* keep_every_n_steps - 1 steps before it.
SpacingKept ==
  [][gc = "check" /\ gc' = "remove" /\ KeepEveryN > 0 =>
       \A c \in committed \cap doomed' :
         \E k \in committed \ doomed' : k <= c /\ c - k < KeepEveryN]_vars
=============================================================================
