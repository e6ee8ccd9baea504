---------------------------- MODULE FTHangProofs ----------------------------
(***************************************************************************)
(* Proofs about FTHang, for any workers, replicas, thresholds and order of  *)
(* reports.                                                                 *)
(***************************************************************************)
EXTENDS FTHang, TLAPS

Typed == /\ age \in [Workers -> Ages] /\ seen \in [Workers -> Ages]
         /\ done \subseteq Workers /\ cut \subseteq Workers

\* The copies lag: the invariant is inductive once the ages have their type.
Lags == Typed /\ CopiesLag

\* Every copy is empty at first.
LEMMA LagsInit == Init => Lags
BY HangAssumption DEF HangAssumption, Init, Lags, Typed, Ages, Never, CopiesLag

\* What a worker hands on is what it knew, or is its own new record.
LEMMA ReportedIsFresh ==
  ASSUME Typed, NEW w \in Workers
  PROVE  /\ Reported(w) \in [Workers -> Ages]
         /\ \A x \in Workers : Reported(w)[x] = age[x] \/ Reported(w)[x] = 0
BY HangAssumption DEF HangAssumption, Typed, Reported, Ages, Never

\* A round of reports copies, and makes nothing younger than its origin.
LEMMA LagsRound ==
  ASSUME Lags, NEW w \in Workers, Round(w)
  PROVE  Lags'
<1>1. /\ age' = Reported(w)
      /\ \A x \in Workers : seen'[x] = seen[x] \/ seen'[x] = Reported(w)[x]
  BY DEF Round, Forwarded, Lags, Typed
<1>2. age' \in [Workers -> Ages] /\ \A x \in Workers : age'[x] = age[x] \/ age'[x] = 0
  BY <1>1, ReportedIsFresh DEF Lags
<1>3. seen' \in [Workers -> Ages]
  BY <1>2, ReportedIsFresh DEF Round, Forwarded, Lags, Typed
<1>4. done' \subseteq Workers /\ cut' = cut
  BY DEF Round, Lags, Typed
<1>5. CopiesLag'
  <2> SUFFICES ASSUME NEW x \in Workers, seen'[x] # Never PROVE age'[x] # Never /\ age'[x] <= seen'[x]
    BY DEF CopiesLag, Never
  <2> QED
    BY <1>1, <1>2, <1>3, HangAssumption DEF HangAssumption, Lags, Typed, CopiesLag, Ages, Never
<1> QED
  BY <1>2, <1>3, <1>4, <1>5 DEF Lags, Typed

\* Time makes all records older alike.
LEMMA LagsTick ==
  ASSUME Lags, Tick
  PROVE  Lags'
<1>1. \A a \in Ages : Older(a) \in Ages
  BY HangAssumption DEF HangAssumption, Older, Ages, Never
<1>2. Typed'
  BY <1>1 DEF Lags, Typed, Tick
<1>3. CopiesLag'
  <2> SUFFICES ASSUME NEW x \in Workers, seen'[x] # Never PROVE age'[x] # Never /\ age'[x] <= seen'[x]
    BY DEF CopiesLag, Never
  <2>1. age'[x] = Older(age[x]) /\ seen'[x] = Older(seen[x])
    BY DEF Tick
  <2>2. age[x] \in Ages /\ seen[x] \in Ages
    BY DEF Lags, Typed
  <2> QED
    BY <2>1, <2>2, HangAssumption DEF HangAssumption, Lags, CopiesLag, Older, Ages, Never
<1> QED
  BY <1>2, <1>3 DEF Lags

\* Every step keeps the copies behind the originals.
LEMMA LagsNext == Lags /\ [Next]_vars => Lags'
<1> SUFFICES ASSUME Lags, [Next]_vars PROVE Lags'
  OBVIOUS
<1>1. ASSUME NEW w \in Workers, Hang(w) \/ Cut(w) PROVE Lags'
  BY <1>1, HangAssumption DEF HangAssumption, Hang, Cut, Lags, Typed, CopiesLag, Never
<1>2. CASE UNCHANGED vars
  BY <1>2 DEF vars, Lags, Typed, CopiesLag
<1> QED
  BY <1>1, <1>2, LagsRound, LagsTick DEF Next

\* CopiesLag: the global manager never believes a worker to be fresher than its replica
\* manager does.
THEOREM CopiesOnlyLag == Spec => []CopiesLag
<1>1. Lags => CopiesLag
  BY DEF Lags
<1> QED
  BY <1>1, LagsInit, LagsNext, PTL DEF Spec

----------------------------------------------------------------------------

\* While every replica manager can be reached, a replica is known through its own one,
\* whose record is from this interval or the one before: it is not taken for hung.
Heard ==
  cut \cap Replicas = {} =>
    \A w \in Workers : seen[w] # Never =>
      seen[Head[w]] # Never /\ seen[Head[w]] <= IF Head[w] \in done THEN 0 ELSE 1

\* A replica whose manager was heard of within an interval is not taken for hung.
LEMMA HeardDoesNotHang ==
  ASSUME Threshold >= 2, NEW copies \in [Workers -> Ages],
         \A w \in Workers : copies[w] # Never => copies[Head[w]] # Never /\ copies[Head[w]] <= 1
  PROVE  ~Detects(copies)
<1> SUFFICES ASSUME NEW h \in Replicas, Hanging(h, copies) PROVE FALSE
  BY DEF Detects
<1>1. h \in Workers /\ Head[h] = h
  BY HangAssumption DEF HangAssumption, Replicas
<1>2. PICK w \in Workers : Head[w] = h /\ copies[w] # Never
  BY DEF Hanging, Team
<1>3. copies[h] # Never /\ copies[h] <= 1
  BY <1>2
<1>4. copies[h] >= Threshold
  BY <1>1, <1>3 DEF Hanging, Team
<1> QED
  BY <1>1, <1>3, <1>4, HangAssumption DEF HangAssumption, Ages, Never

\* A round of reports tells the global manager of the replica that reports, and nobody
\* is taken for hung.
LEMMA HeardRound ==
  ASSUME Threshold >= 2, Lags, Lags', Heard, cut \cap Replicas = {}, NEW v \in Workers, Round(v)
  PROVE  Heard' /\ ~Detects(seen')
<1>0. /\ \A w \in Workers : Head[w] \in Workers /\ Head[Head[w]] = Head[w]
      /\ \A w \in Workers : seen[w] \in Ages /\ seen'[w] \in Ages
  BY HangAssumption DEF HangAssumption, Lags, Typed
<1>1. cut' = cut /\ done' = done \cup {v} /\ v \notin done
  BY DEF Round
<1>2. ASSUME v = Head[v]
      PROVE  \A w \in Workers : seen'[w] # Never =>
               seen'[Head[w]] # Never /\ seen'[Head[w]] <= IF Head[w] \in done' THEN 0 ELSE 1
  <2>1. v \in Replicas /\ Manager \in Replicas
    BY <1>2, HangAssumption DEF Replicas, HangAssumption
  <2>2. Reaches(v, Head[v]) /\ Reaches(v, Manager)
    BY <1>2, <2>1 DEF Reaches
  <2>3. age' = [age EXCEPT ![v] = 0]
    BY <2>2 DEF Round, Reported
  <2>4. \A w \in Workers : seen'[w] = IF Head[w] = v THEN age'[w] ELSE seen[w]
    BY <1>2, <2>2 DEF Round, Forwarded, Lags, Typed
  <2>5. seen'[v] = 0 /\ 0 # Never
    BY <1>2, <2>3, <2>4, HangAssumption DEF Lags, Typed, HangAssumption, Never
  <2>6. ASSUME NEW w \in Workers, seen'[w] # Never
        PROVE  seen'[Head[w]] # Never /\ seen'[Head[w]] <= IF Head[w] \in done' THEN 0 ELSE 1
    <3>1. CASE Head[w] = v
      BY <1>1, <2>5, <3>1 DEF Never
    <3>2. CASE Head[w] # v
      <4>1. seen'[w] = seen[w] /\ seen'[Head[w]] = seen[Head[w]]
        BY <1>0, <2>4, <3>2
      <4> QED
        BY <1>1, <2>6, <3>2, <4>1 DEF Heard, Never
    <3> QED
      BY <3>1, <3>2
  <2> QED
    BY <2>6
<1>3. ASSUME v # Head[v]
      PROVE  \A w \in Workers : seen'[w] # Never =>
               seen'[Head[w]] # Never /\ seen'[Head[w]] <= IF Head[w] \in done' THEN 0 ELSE 1
  <2>1. seen' = seen /\ \A w \in Workers : Head[w] # v
    BY <1>0, <1>3 DEF Round
  <2> QED
    BY <1>1, <2>1 DEF Heard, Never
<1>4. \A w \in Workers : seen'[w] # Never => seen'[Head[w]] # Never /\ seen'[Head[w]] <= 1
  BY <1>0, <1>2, <1>3 DEF Ages
<1> QED
  BY <1>2, <1>3, <1>4, HeardDoesNotHang DEF Heard, Lags, Typed, Never

\* NoFalseAlarm: with a threshold of at least two intervals, an alarm has a hanging trainer
\* or a replica manager that cannot be reached behind it, for any number of replicas and
\* workers, in whatever order they report.
THEOREM NobodyFalselyAccused == Threshold >= 2 /\ Spec => NoFalseAlarm
<1> SUFFICES ASSUME Threshold >= 2 PROVE Spec => NoFalseAlarm
  OBVIOUS
<1>1. Init => Heard
  BY HangAssumption DEF HangAssumption, Init, Heard
<1>2. Lags /\ Lags' /\ Heard /\ [Next]_vars => Heard'
  <2> SUFFICES ASSUME Lags, Lags', Heard, [Next]_vars PROVE Heard'
    OBVIOUS
  <2>1. ASSUME NEW v \in Workers, Round(v) PROVE Heard'
    <3>1. CASE cut \cap Replicas = {}
      BY <2>1, <3>1, HeardRound
    <3>2. CASE cut \cap Replicas # {}
      BY <2>1, <3>2 DEF Round, Heard
    <3> QED
      BY <3>1, <3>2
  <2>2. CASE Tick
    <3> SUFFICES ASSUME NEW w \in Workers, seen'[w] # Never, cut \cap Replicas = {}
                 PROVE  seen'[Head[w]] # Never /\ seen'[Head[w]] <= 1
      BY <2>2 DEF Heard, Tick, Never
    <3>1. /\ Head[w] \in done /\ seen[w] \in Ages /\ seen[Head[w]] \in Ages
          /\ seen'[w] = Older(seen[w]) /\ seen'[Head[w]] = Older(seen[Head[w]])
      BY <2>2, HangAssumption DEF Tick, HangAssumption, Lags, Typed
    <3>2. seen[w] # Never
      BY <3>1, HangAssumption DEF HangAssumption, Older, Never
    <3>3. seen[Head[w]] # Never /\ seen[Head[w]] <= 0
      BY <3>1, <3>2 DEF Heard
    <3> QED
      BY <3>1, <3>3, HangAssumption DEF HangAssumption, Older, Ages, Never
  <2>3. ASSUME NEW v \in Workers, Hang(v) \/ Cut(v) PROVE Heard'
    BY <2>3 DEF Hang, Cut, Heard, Never
  <2>4. CASE UNCHANGED vars
    BY <2>4 DEF vars, Heard, Never
  <2> QED
    BY <2>1, <2>2, <2>3, <2>4 DEF Next
<1>3. Lags /\ Lags' /\ Heard /\ [Next]_vars =>
        [alarms' # alarms => hung # {} \/ cut \cap Replicas # {}]_vars
  <2> SUFFICES ASSUME Lags, Lags', Heard, Next, alarms' # alarms, cut \cap Replicas = {} PROVE FALSE
    BY DEF vars
  <2>1. PICK v \in Workers : Round(v)
    BY DEF Next, Tick, Hang, Cut
  <2>2. Detects(seen')
    BY <2>1 DEF Round
  <2> QED
    BY <2>1, <2>2, HeardRound
<1> QED
  BY <1>1, <1>2, <1>3, LagsInit, LagsNext, PTL DEF Spec, NoFalseAlarm
=============================================================================
