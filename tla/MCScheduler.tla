---------------------------- MODULE MCScheduler ----------------------------
(* Requests and quotas for TLC: job 1 may be elastic; jobs 2 and 3 compete with
   it, as jobs of the same user, of the same project, or of another one. *)
EXTENDS Scheduler

A(n) == [r \in {"a"} |-> n]
AB(n, k) == [r \in {"a", "b"} |-> IF r = "a" THEN n ELSE k]

Job(project, user, priority, created, resources) ==
  [project |-> project, user |-> user, priority |-> priority, created |-> created,
   resources |-> resources, scaling |-> <<>>, desired |-> <<>>]

\* an elastic job asks for min replicas itself; desired is what the manager says
Elastic(priority, min, per, desired) ==
  [Job(1, 1, priority, 1, [r \in DOMAIN per |-> min * per[r]])
     EXCEPT !.scaling = [s \in {1} |-> [min |-> min, max |-> min + 1, per |-> per]],
            !.desired = IF desired = 0 THEN <<>> ELSE [s \in {1} |-> desired]]

First ==
  {Elastic(pr, min, A(1), d) : pr \in {1, 2}, min \in {0, 1}, d \in {0, 2, 3}}
    \cup {Elastic(1, 1, AB(1, 1), 2), Elastic(1, 1, A(3), 2), Elastic(1, 2, A(2), 3), Job(1, 1, 1, 1, AB(1, 1))}
Second ==
  {Job(1, u, pr, c, w) : u \in {1, 2}, pr \in {1, 2}, c \in {0, 2}, w \in {A(1), A(2)}}
    \cup {Job(1, 1, 1, 0, AB(1, 0)), Job(2, 2, 1, 1, A(5))}
Third ==
  {Job(2, 2, 1, c, w) : c \in {1, 3}, w \in {A(1), AB(2, 1)}}
    \cup {Job(1, 1, 2, 2, A(1)), Job(1, 2, 1, 0, A(1))}

MCRequests ==
  {[j \in 1..3 |-> IF j = 1 THEN f ELSE IF j = 2 THEN s ELSE t] :
     f \in First, s \in Second, t \in Third}

Upto(caps) == [t \in 0..1 |-> IF t = 0 THEN caps[0]
                                ELSE [r \in {"a", "b"} |-> caps[0][r] + caps[1][r]]]
MCQuota(high, low, one, two) ==
  LET caps == [t \in 0..1 |-> IF t = 0 THEN high ELSE low] IN
  [limits |-> caps, upto |-> Upto(caps),
   share |-> [p \in {1, 2} |-> IF p = 1 THEN one ELSE two]]

MCQuotas ==
  {MCQuota(AB(1, 1), AB(2, 0), AB(1, 1), AB(1, 1)),
   MCQuota(AB(2, 0), AB(2, 1), AB(1, 1), AB(3, 1)),
   MCQuota(AB(3, 1), AB(0, 0), AB(2, 0), AB(1, 0))}
=============================================================================
