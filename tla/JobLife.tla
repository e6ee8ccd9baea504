------------------------------ MODULE JobLife ------------------------------
(***************************************************************************)
(* What bastion promises about the life of a job, whatever crashes, faulty  *)
(* files, scheduler verdicts and clients do: what storage says of it only   *)
(* goes forward, its command runs only while it is open, and may stop and   *)
(* start again until then; its name is given back when it is over, without  *)
(* a command.  It promises nothing of a job that has gone astray: one that   *)
(* a malformed jobspec made share what another job owns.  Module Bastion     *)
(* implements this.                                                         *)
(***************************************************************************)
CONSTANTS
  Jobs,
  Reliable  \* storage takes every state that bastion writes

VARIABLES
  phase,  \* of each job, as clients and the next bastion read it in storage
  runs,   \* its command runs
  stray   \* the jobs gone astray

Phases == {"open", "cancelling", "ending", "over"}

\* The phases that may follow each.
Later(p) ==
  CASE p = "open" -> Phases
    [] p = "cancelling" -> {"cancelling", "ending", "over"}
    [] p = "ending" -> {"ending", "over"}
    [] p = "over" -> {"over"}

Init == phase = [j \in Jobs |-> "open"] /\ runs = [j \in Jobs |-> FALSE] /\ stray = {}

Stay(j) == phase'[j] = phase[j] /\ runs'[j] = runs[j]

Run(j) == phase[j] = "open" /\ runs'[j] /\ phase'[j] = "open"

\* It exits, is pre-empted or killed, or dies with the bastion.
Stop(j) == ~runs'[j] /\ phase'[j] = phase[j]

Cancel(j) == phase[j] = "open" /\ phase'[j] = "cancelling" /\ runs'[j] = runs[j]

End(j) ==
  /\ ~runs[j] /\ ~runs'[j]
  /\ phase'[j] \in Later(phase[j]) \cap {"ending", "over"}

\* Its name is given back: to a job that is over for bastion, and in storage too if that
\* is reliable. Without that, bastion may have completed a job of which storage still
\* says an earlier phase.
Free(j) ==
  /\ ~runs[j] /\ ~runs'[j]
  /\ phase[j] = "over" \/ ~Reliable
  /\ phase'[j] = "open"

\* Many jobs may take a step at once: all commands die with the bastion.
Next ==
  /\ phase' \in [Jobs -> Phases] /\ runs' \in [Jobs -> BOOLEAN]
  /\ stray \subseteq stray' /\ stray' \subseteq Jobs
  /\ \A j \in Jobs \ stray' :
       Stay(j) \/ Run(j) \/ Stop(j) \/ Cancel(j) \/ End(j) \/ Free(j)

Spec == Init /\ [][Next]_<<phase, runs, stray>>
=============================================================================
