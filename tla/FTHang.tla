------------------------------- MODULE FTHang -------------------------------
(***************************************************************************)
(* Status reports and hang detection of axlearn/ft (monitor.py, the status  *)
(* handlers of manager_server.py).  Once per REPORT_INTERVAL_SECONDS the    *)
(* monitor thread of every agent reports to its replica manager; a replica  *)
(* manager then reports its registry to the global manager; the global      *)
(* manager then looks for replicas that hang and restarts all of them.      *)
(*                                                                          *)
(* Time is counted in report intervals: every agent reports once between    *)
(* two ticks, in any order.  An age counts the ticks since a last_update.   *)
(* The check that runs at most once a minute here runs in every interval.   *)
(***************************************************************************)
EXTENDS Naturals, FiniteSets

CONSTANTS
  Workers,
  Manager,    \* the global manager
  Head,       \* the replica manager of each worker
  Threshold,  \* hang_threshold_seconds, in report intervals
  MaxAlarms,  \* bound: restarts that hang detection triggers
  MayCut      \* the workers that may become unreachable in this instance

ASSUME HangAssumption ==
  /\ Manager \in Workers
  /\ Head \in [Workers -> Workers]
  /\ Head[Manager] = Manager
  /\ \A w \in Workers : Head[Head[w]] = Head[w]
  /\ Threshold \in Nat \ {0}
  /\ MaxAlarms \in Nat
  /\ MayCut \subseteq Workers

VARIABLES
  hung,    \* workers whose trainer makes no progress
  cut,     \* workers whose agent cannot be reached, nor reach another host
  age,     \* _status_registry of the replica managers, or Never
  seen,    \* _replica_registry of the global manager, or Never
  done,    \* workers that reported in this interval
  alarms   \* restarts triggered so far

vars == <<hung, cut, age, seen, done, alarms>>

Never    == Threshold + 1
Ages     == 0..Never
Replicas == {Head[w] : w \in Workers}
Team(h)  == {w \in Workers : Head[w] = h}

Init ==
  /\ hung = {} /\ cut = {}
  /\ age = [w \in Workers |-> Never]
  /\ seen = [w \in Workers |-> Never]
  /\ done = {}
  /\ alarms = 0

Reaches(v, w) == v = w \/ (v \notin cut /\ w \notin cut)

\* _report_worker_status of w: the handler stamps the record with its own clock.
Reported(w) == IF Reaches(w, Head[w]) THEN [age EXCEPT ![w] = 0] ELSE age

\* Mutant: the copy is stamped when it is forwarded.
ForwardedFresh(w) ==
  IF Reaches(w, Manager)
  THEN [x \in Workers |-> IF Head[x] = w /\ Reported(w)[x] # Never THEN 0 ELSE seen[x]]
  ELSE seen

\* _report_replica_status, after a worker report that did not raise.
Forwarded(w) ==
  IF Reaches(w, Manager)
  THEN [x \in Workers |-> IF Head[x] = w THEN Reported(w)[x] ELSE seen[x]]
  ELSE seen

\* Mutant: one worker without recent status makes its replica hang.
AnyOld(h, ages) == \E w \in Team(h) : ages[w] # Never /\ ages[w] >= Threshold

\* A replica all of whose known workers have an old status.
Hanging(h, ages) ==
  LET known == {w \in Team(h) : ages[w] # Never}
  IN  known # {} /\ \A w \in known : ages[w] >= Threshold

\* Mutant: a replica counts as hanging only while it still reports.
HangingIfHeard(ages) == \E h \in Replicas : Hanging(h, ages) /\ ages[h] = 0

\* detect_global_training_hang
Detects(ages) == \E h \in Replicas : Hanging(h, ages)

\* One pass of monitor_loop in the agent of w.
Round(w) ==
  /\ w \notin done
  /\ done' = done \cup {w}
  /\ age' = Reported(w)
  /\ seen' = IF w = Head[w] THEN Forwarded(w) ELSE seen
  /\ IF w = Manager /\ Detects(seen') /\ alarms < MaxAlarms
     THEN alarms' = alarms + 1 /\ hung' = {x \in hung : ~Reaches(Manager, x)}
     ELSE UNCHANGED <<alarms, hung>>
  /\ UNCHANGED cut

Older(a) == IF a < Threshold THEN a + 1 ELSE a

Tick ==
  /\ done = Workers
  /\ done' = {}
  /\ age' = [w \in Workers |-> Older(age[w])]
  /\ seen' = [w \in Workers |-> Older(seen[w])]
  /\ UNCHANGED <<hung, cut, alarms>>

\* The trainer of w stops making progress; its agent goes on.
Hang(w) ==
  /\ w \notin hung
  /\ hung' = hung \cup {w}
  /\ UNCHANGED <<cut, age, seen, done, alarms>>

Cut(w) ==
  /\ w \in MayCut \ cut
  /\ cut' = cut \cup {w}
  /\ UNCHANGED <<hung, age, seen, done, alarms>>

Next ==
  \/ \E w \in Workers : Round(w) \/ Hang(w) \/ Cut(w)
  \/ Tick

\* The monitor threads keep running.
Fairness == WF_vars(Tick) /\ \A w \in Workers : WF_vars(Round(w))

Spec == Init /\ [][Next]_vars
FairSpec == Spec /\ Fairness

----------------------------------------------------------------------------
(* Properties *)

\* Where no trainer hangs, an alarm means that the manager of some replica cannot be
\* reached: late reports do not raise it, in whatever order those of an interval
\* arrive, nor does a silent worker that is not the first of its replica.
NoFalseAlarm == [][alarms' # alarms => hung # {} \/ cut \cap Replicas # {}]_vars

\* The managers' copies only lag: the global manager never believes a worker of a
\* reachable replica to be fresher than its replica manager does.
CopiesLag == \A w \in Workers : seen[w] # Never => age[w] # Never /\ age[w] <= seen[w]

\* A replica that was heard of and cannot be reached any more is noticed.
SilenceNoticed ==
  \A h \in Replicas \ {Manager} :
    (h \in cut /\ seen[h] # Never) ~> alarms > 0

\* "If no step progress occurs for a configurable period, the agent assumes the
\* trainer is hung": a trainer without progress is restarted.
HangNoticed == \A w \in Workers : w \in hung ~> w \notin hung
============================================================================
