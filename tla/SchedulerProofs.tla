-------------------------- MODULE SchedulerProofs --------------------------
(***************************************************************************)
(* For any jobs, projects, tiers, resources and quotas, a call of the       *)
(* scheduler overdraws no tier, charges what it admits in full, to the      *)
(* tiers up to the one it names, admits a scaled replica after its job, and *)
(* no job before one of the same user that goes before it and asks for no   *)
(* more.  What it guarantees a project is in SchedulerSharesProofs.         *)
(***************************************************************************)
EXTENDS Scheduler, SequenceTheorems, WellFoundedInduction, TLAPS

----------------------------------------------------------------------------
(* Quotas: sums over the tiers. *)

\* w holds the sums of u over the tiers up to each, of one resource.
Sums(w, u) ==
  /\ w[0] = u[0]
  /\ \A t \in Tiers \ {0} : w[t] = w[t - 1] + u[t]

\* Sums of what is not negative grow.
Grows(w) == \A s, t \in Tiers : s <= t => w[s] <= w[t]

\* Tiers are the numbers from 0 to the last one.
LEMMA TierNumbers ==
  /\ LastTier \in Nat /\ 0 \in Tiers /\ LastTier \in Tiers
  /\ \A t \in Tiers : t \in Nat /\ t <= LastTier
  /\ \A t \in Tiers \ {0} : t - 1 \in Tiers
  /\ \A t \in Tiers : t # LastTier => t + 1 \in Tiers
BY SchedulerAssumption DEF SchedulerAssumption, Tiers

\* Sums over the tiers grow with the tier.
LEMMA SumsGrow ==
  ASSUME NEW w \in [Tiers -> Nat], NEW u \in [Tiers -> Nat], Sums(w, u)
  PROVE  Grows(w)
<1> SUFFICES ASSUME NEW s \in Tiers, NEW t \in Tiers, s <= t, w[t] < w[s] PROVE FALSE
  BY DEF Grows
<1> DEFINE Bad == {x \in Nat : x \in Tiers /\ s <= x /\ w[x] < w[s]}
<1>1. t \in Bad
  BY TierNumbers
<1>2. PICK n \in Bad : \A x \in Bad : n <= x
  <2> HIDE DEF Bad
  <2>1. Bad \subseteq Nat /\ Bad # {}
    BY <1>1 DEF Bad
  <2>2. PICK n \in Bad : \A x \in Bad : <<x, n>> \notin OpToRel(<, Nat)
    BY <2>1, WFMin, NatLessThanWellFounded, Zenon
  <2>3. \A x, y \in Nat : x < y => <<x, y>> \in OpToRel(<, Nat)
    BY Zenon DEF OpToRel
  <2>4. \A x \in Bad : ~(x < n)
    BY <2>1, <2>2, <2>3, Zenon
  <2> QED
    BY <2>1, <2>4
<1>3. n \in Tiers /\ s <= n /\ w[n] < w[s] /\ n \in Nat /\ s \in Nat
  BY <1>2, TierNumbers
<1>4. n # s /\ n # 0
  BY <1>3
<1>5. n - 1 \in Tiers /\ w[n] = w[n - 1] + u[n] /\ s <= n - 1 /\ n - 1 \in Nat
  BY <1>3, <1>4, TierNumbers DEF Sums
<1>6. w[n - 1] <= w[n]
  BY <1>3, <1>5
<1>7. w[n - 1] < w[s]
  BY <1>3, <1>5, <1>6
<1>8. n - 1 \in Bad
  BY <1>5, <1>7
<1> QED
  BY <1>2, <1>3, <1>8

----------------------------------------------------------------------------
(* Queues as sets. *)

Contents(q) == {q[i] : i \in 1..Len(q)}
Distinct(q) == \A i, j \in 1..Len(q) : q[i] = q[j] => i = j

\* What Append does to the contents of a queue.
LEMMA Appended ==
  ASSUME NEW S, NEW q \in Seq(S), NEW x \in S
  PROVE  /\ Append(q, x) \in Seq(S)
         /\ Contents(Append(q, x)) = Contents(q) \cup {x}
         /\ Distinct(q) /\ x \notin Contents(q) => Distinct(Append(q, x))
<1>1. /\ Append(q, x) \in Seq(S) /\ Len(Append(q, x)) = Len(q) + 1 /\ Len(q) \in Nat
      /\ \A i \in 1..Len(q) : Append(q, x)[i] = q[i]
      /\ Append(q, x)[Len(q) + 1] = x
  BY AppendProperties, LenProperties
<1>2. \A i \in 1..Len(q) + 1 : i \in 1..Len(q) \/ i = Len(q) + 1
  BY <1>1
<1>3. 1..Len(q) \subseteq 1..Len(q) + 1 /\ Len(q) + 1 \in 1..Len(q) + 1
  BY <1>1
<1>4. Contents(Append(q, x)) = Contents(q) \cup {x}
  BY <1>1, <1>2, <1>3 DEF Contents
<1>5. ASSUME Distinct(q), x \notin Contents(q) PROVE Distinct(Append(q, x))
  BY <1>1, <1>2, <1>5 DEF Distinct, Contents
<1> QED
  BY <1>1, <1>4, <1>5

\* What popping the head does to the contents of a queue.
LEMMA Popped ==
  ASSUME NEW S, NEW q \in Seq(S), q # <<>>
  PROVE  /\ Head(q) \in Contents(q) /\ Head(q) \in S /\ Tail(q) \in Seq(S)
         /\ Contents(Tail(q)) \subseteq Contents(q)
         /\ Distinct(q) => Distinct(Tail(q)) /\ Head(q) \notin Contents(Tail(q))
<1>1. /\ Tail(q) \in Seq(S) /\ Len(q) \in Nat \ {0} /\ Len(Tail(q)) = Len(q) - 1
      /\ Head(q) = q[1] /\ Head(q) \in S
      /\ \A i \in 1..Len(Tail(q)) : Tail(q)[i] = q[i + 1]
  BY HeadTailProperties, LenProperties, EmptySeq
<1>2. 1 \in 1..Len(q) /\ \A i \in 1..Len(Tail(q)) : i \in Nat /\ i + 1 \in 1..Len(q) /\ i + 1 # 1
  BY <1>1
<1> QED
  BY <1>1, <1>2 DEF Contents, Distinct

----------------------------------------------------------------------------
(* Types. *)

\* The item that is being admitted is one of the call's.
ItemKnown == step \in {"forward", "backward"} => item \in Expanded(meta)

\* What is left within the tiers up to each is the sum of what each of them has left.
Books ==
  /\ remaining = within[LastTier]
  /\ \A r \in Resources :
       Sums([t \in Tiers |-> within[t][r]], [t \in Tiers |-> unused[t][r]])

Typed == TypeOK /\ ItemKnown /\ Books

\* What an item asks for is an amount of known resources, for a known project.
LEMMA Wanted ==
  ASSUME NEW x \in Expanded(meta), Partial(meta, Jobs, IsMetadata)
  PROVE  /\ Demand(x) \in Amounts /\ MetaOf(x).project \in Projects
         /\ DOMAIN Wants(x) \subseteq Resources
<1>1. /\ x[1] \in DOMAIN meta
      /\ x = Base(x[1]) \/ x[2] \in DOMAIN meta[x[1]].scaling
  BY DEF Expanded
<1>2. IsMetadata(meta[x[1]])
  BY <1>1 DEF Partial
<1>3. Partial(Wants(x), Resources, IsNat)
  <2>1. CASE IsSlot(x)
    <3>1. x[2] \in DOMAIN meta[x[1]].scaling
      BY <1>1, <2>1 DEF IsSlot, Base
    <3>2. IsSpec(meta[x[1]].scaling[x[2]])
      BY <1>2, <3>1 DEF IsMetadata, Partial
    <3> QED
      BY <2>1, <3>2 DEF Wants, MetaOf, IsSpec
  <2>2. CASE ~IsSlot(x)
    BY <1>2, <2>2 DEF Wants, MetaOf, IsMetadata
  <2> QED
    BY <2>1, <2>2
<1>4. Demand(x) \in Amounts
  BY <1>3 DEF Demand, Amount, Amounts, Partial, IsNat
<1> QED
  BY <1>2, <1>3, <1>4 DEF IsMetadata, MetaOf, Partial

\* A call starts with the types, with everything left.
LEMMA TypedInit == Init => Typed
<1> SUFFICES ASSUME Init PROVE Typed
  OBVIOUS
<1>1. /\ Partial(meta, Jobs, IsMetadata) /\ quota \in Quota
      /\ \A r \in Resources :
           /\ quota.upto[0][r] = quota.limits[0][r]
           /\ \A t \in 1..LastTier : quota.upto[t][r] = quota.upto[t - 1][r] + quota.limits[t][r]
  BY SchedulerAssumption DEF SchedulerAssumption, Init
<1>2. /\ unused \in [Tiers -> Amounts] /\ within \in [Tiers -> Amounts] /\ remaining \in Amounts
      /\ remaining = within[LastTier]
  BY <1>1, TierNumbers DEF Init, Quota
<1>3. Zero \in Amounts /\ NoTier \in Tiers \cup {NoTier}
  BY DEF Zero, Amounts
<1>4. TypeOK
  <2>1. unsorted \in [Projects -> SUBSET Expanded(meta)]
    BY DEF Init
  <2>2. /\ front \in [Projects -> Seq(Expanded(meta))]
        /\ back \in [Projects -> Seq(Expanded(meta))]
    BY EmptySeq DEF Init
  <2>3. usage \in [Projects -> Amounts] /\ paid \in [Expanded(meta) -> Amounts] /\ left \in Amounts
    BY <1>3 DEF Init
  <2> QED
    BY <1>1, <1>2, <2>1, <2>2, <2>3, TierNumbers DEF Init, TypeOK
<1>5. Books
  <2> SUFFICES ASSUME NEW r \in Resources
               PROVE  Sums([t \in Tiers |-> within[t][r]], [t \in Tiers |-> unused[t][r]])
    BY <1>2 DEF Books
  <2>1. \A t \in Tiers \ {0} : t \in 1..LastTier
    BY TierNumbers
  <2> QED
    BY <1>1, <2>1, TierNumbers DEF Sums, Init
<1> QED
  BY <1>4, <1>5 DEF Typed, ItemKnown, Init

\* What is taken is left of the demand, and is there; nor does a tier have more than all
\* the tiers up to a later one together.
LEMMA Taken ==
  ASSUME Typed, NEW r \in Resources
  PROVE  /\ left[r] \in Nat /\ unused[at][r] \in Nat /\ Take(r) \in Nat
         /\ Take(r) <= left[r] /\ Take(r) <= unused[at][r]
         /\ LeftOver[r] = left[r] - Take(r) /\ LeftOver \in Amounts
         /\ \A t \in Tiers : at <= t => unused[at][r] <= within[t][r]
<1> DEFINE w == [t \in Tiers |-> within[t][r]]
           u == [t \in Tiers |-> unused[t][r]]
<1>1. \A s \in Resources : left[s] \in Nat /\ unused[at][s] \in Nat
  BY DEF Typed, TypeOK, Amounts
<1>2. \A s \in Resources : Take(s) \in Nat /\ Take(s) <= left[s] /\ Take(s) <= unused[at][s]
  BY <1>1 DEF Take, MinOf
<1>3. LeftOver \in Amounts /\ LeftOver[r] = left[r] - Take(r)
  BY <1>1, <1>2 DEF LeftOver, Amounts
<1>4. w \in [Tiers -> Nat] /\ u \in [Tiers -> Nat] /\ Sums(w, u)
  BY DEF Typed, TypeOK, Books, Amounts
<1>5. Grows(w)
  <2> HIDE DEF w, u
  <2> QED
    BY <1>4, SumsGrow
<1>6. \A t \in Tiers : u[t] <= w[t]
  <2>1. ASSUME NEW t \in Tiers \ {0} PROVE u[t] <= w[t]
    <3>1. w[t] = w[t - 1] + u[t] /\ w[t - 1] \in Nat /\ u[t] \in Nat
      BY <1>4, TierNumbers DEF Sums
    <3> QED
      BY <3>1
  <2>2. u[0] <= w[0]
    <3>1. w[0] = u[0] /\ u[0] \in Nat
      BY <1>4, TierNumbers DEF Sums
    <3> QED
      BY <3>1
  <2> QED
    BY <2>1, <2>2
<1>7. ASSUME NEW t \in Tiers, at <= t PROVE unused[at][r] <= within[t][r]
  <2>1. at \in Tiers
    BY DEF Typed, TypeOK
  <2>2. u[at] <= w[at] /\ w[at] <= w[t]
    BY <1>5, <1>6, <1>7, <2>1 DEF Grows
  <2>3. u[at] \in Nat /\ w[at] \in Nat /\ w[t] \in Nat
    BY <1>4, <2>1
  <2> QED
    BY <2>1, <2>2, <2>3
<1> QED
  BY <1>1, <1>2, <1>3, <1>7

\* The next item of a project that waits is an item, and popping it leaves queues of items.
LEMMA PopType ==
  ASSUME TypeOK, NEW p \in Projects, p \in Waiting, Pop(p)
  PROVE  /\ NextOf(p) \in Expanded(meta)
         /\ front' \in [Projects -> Seq(Expanded(meta))]
         /\ back' \in [Projects -> Seq(Expanded(meta))]
<1>1. /\ front \in [Projects -> Seq(Expanded(meta))] /\ back \in [Projects -> Seq(Expanded(meta))]
      /\ front[p] \in Seq(Expanded(meta)) /\ back[p] \in Seq(Expanded(meta))
  BY DEF TypeOK
<1>2. CASE front[p] # <<>>
  <2>1. Head(front[p]) \in Expanded(meta) /\ Tail(front[p]) \in Seq(Expanded(meta))
    BY <1>1, <1>2, Popped
  <2>2. NextOf(p) = Head(front[p])
    BY <1>2 DEF NextOf
  <2>3. front' = [front EXCEPT ![p] = Tail(@)] /\ back' = back
    BY <1>2 DEF Pop
  <2> QED
    BY <1>1, <2>1, <2>2, <2>3
<1>3. CASE front[p] = <<>>
  <2>0. back[p] # <<>>
    BY <1>3 DEF Waiting
  <2>1. Head(back[p]) \in Expanded(meta) /\ Tail(back[p]) \in Seq(Expanded(meta))
    BY <1>1, <2>0, Popped
  <2>2. NextOf(p) = Head(back[p])
    BY <1>3 DEF NextOf
  <2>3. back' = [back EXCEPT ![p] = Tail(@)] /\ front' = front
    BY <1>3 DEF Pop
  <2> QED
    BY <1>1, <2>1, <2>2, <2>3
<1> QED
  BY <1>2, <1>3

\* Sorting keeps the types.
LEMMA SortType ==
  ASSUME Typed, NEW p \in Projects, Sort(p)
  PROVE  Typed'
<1>1. UNCHANGED <<step, inputs, limits, verdict, tier, cursor, result, history>>
  BY DEF Sort
<1>2. PICK x \in unsorted[p] :
        /\ unsorted' = [unsorted EXCEPT ![p] = @ \ {x}]
        /\ \/ back' = [back EXCEPT ![p] = Append(@, x)] /\ UNCHANGED front
           \/ front' = [front EXCEPT ![p] = Append(@, x)] /\ UNCHANGED back
  BY DEF Sort
<1>3. /\ x \in Expanded(meta) /\ unsorted' \in [Projects -> SUBSET Expanded(meta)]
      /\ front[p] \in Seq(Expanded(meta)) /\ back[p] \in Seq(Expanded(meta))
  BY <1>2 DEF Typed, TypeOK
<1>4. /\ front' \in [Projects -> Seq(Expanded(meta))]
      /\ back' \in [Projects -> Seq(Expanded(meta))]
  <2>1. /\ Append(front[p], x) \in Seq(Expanded(meta)) /\ Append(back[p], x) \in Seq(Expanded(meta))
        /\ front \in [Projects -> Seq(Expanded(meta))] /\ back \in [Projects -> Seq(Expanded(meta))]
    BY <1>3, Appended DEF Typed, TypeOK
  <2> QED
    BY <1>2, <2>1
<1>5. Expanded(meta)' = Expanded(meta)
  BY <1>1 DEF inputs, Expanded
<1> QED
  BY <1>1, <1>3, <1>4, <1>5
     DEF Typed, TypeOK, ItemKnown, Books, inputs, limits, cursor, history

\* The backward pass takes from a tier, from the sums and from the total no more than they have.
LEMMA BackwardType ==
  ASSUME Typed, Backward
  PROVE  Typed'
<1>1. /\ item \in Expanded(meta) /\ MetaOf(item).project \in Projects /\ at \in Tiers
      /\ UNCHANGED <<inputs, order, queues, item, final, result>>
  BY Wanted DEF Backward, Typed, TypeOK, ItemKnown
<1>2. Expanded(meta)' = Expanded(meta)
  BY <1>1 DEF inputs, Expanded
<1>3. unused' \in [Tiers -> Amounts]
  BY <1>1, Taken DEF Backward, Typed, TypeOK, Amounts
<1>4. ASSUME NEW t \in Tiers
      PROVE  [r \in Resources |-> IF t < at THEN within[t][r] ELSE within[t][r] - Take(r)] \in Amounts
  <2>1. ASSUME NEW r \in Resources, ~(t < at) PROVE within[t][r] - Take(r) \in Nat
    <3>1. at <= t
      BY <1>1, <2>1, TierNumbers
    <3>2. Take(r) <= unused[at][r] /\ unused[at][r] <= within[t][r]
          /\ Take(r) \in Nat /\ unused[at][r] \in Nat
      BY <3>1, Taken
    <3>3. within[t][r] \in Nat
      BY DEF Typed, TypeOK, Amounts
    <3> QED
      BY <3>2, <3>3
  <2>2. \A r \in Resources : within[t][r] \in Nat
    BY DEF Typed, TypeOK, Amounts
  <2> QED
    BY <2>1, <2>2 DEF Amounts
<1>5. within' = [t \in Tiers |->
                   [r \in Resources |-> IF t < at THEN within[t][r] ELSE within[t][r] - Take(r)]]
  <2>1. \A t \in Tiers : within[t] = [r \in Resources |-> within[t][r]]
    BY DEF Typed, TypeOK, Amounts
  <2> QED
    BY <2>1 DEF Backward
<1>6. within' \in [Tiers -> Amounts]
  BY <1>4, <1>5
<1>7. remaining' = within'[LastTier] /\ remaining' \in Amounts
  <2>1. ~(LastTier < at) /\ LastTier \in Tiers
    BY <1>1, TierNumbers
  <2>2. within'[LastTier] = [r \in Resources |-> within[LastTier][r] - Take(r)]
    BY <1>5, <2>1
  <2>3. remaining' = [r \in Resources |-> within[LastTier][r] - Take(r)]
    BY DEF Backward, Typed, Books
  <2> QED
    BY <1>6, <2>1, <2>2, <2>3
<1>8. usage' \in [Projects -> Amounts] /\ paid' \in [Expanded(meta) -> Amounts]
  <2>1. \A f \in Amounts : [r \in Resources |-> f[r] + Take(r)] \in Amounts
    BY Taken DEF Amounts
  <2> QED
    BY <1>1, <2>1 DEF Backward, Typed, TypeOK
<1>9. /\ from' \in [Expanded(meta) -> SUBSET Tiers] /\ left' \in Amounts
      /\ verdict' \in [Expanded(meta) -> {"none", "over", "unmet", "run"}]
      /\ tier' \in [Expanded(meta) -> Tiers \cup {NoTier}]
      /\ step' \in {"backward", "pick"} /\ at' \in Tiers
  <2>1. left' \in Amounts
    <3>1. CASE Resources = {}
      BY <3>1 DEF Backward, LeftOver, Amounts
    <3>2. CASE Resources # {}
      BY <3>2, Taken DEF Backward
    <3> QED
      BY <3>1, <3>2
  <2>2. at > 0 => at - 1 \in Tiers
    BY <1>1, TierNumbers
  <2>3. from' \in [Expanded(meta) -> SUBSET Tiers]
    BY <1>1 DEF Backward, Typed, TypeOK
  <2>4. /\ verdict' \in [Expanded(meta) -> {"none", "over", "unmet", "run"}]
        /\ tier' \in [Expanded(meta) -> Tiers \cup {NoTier}]
        /\ step' \in {"backward", "pick"} /\ at' \in Tiers
    BY <1>1, <2>2 DEF Backward, Typed, TypeOK
  <2> QED
    BY <2>1, <2>3, <2>4
<1>10. TypeOK'
  BY <1>1, <1>2, <1>3, <1>6, <1>7, <1>8, <1>9 DEF Typed, TypeOK, inputs, order, queues
<1>11. Books'
  <2> SUFFICES ASSUME NEW r \in Resources
               PROVE  /\ within'[0][r] = unused'[0][r]
                      /\ \A t \in Tiers \ {0} :
                            within'[t][r] = within'[t - 1][r] + unused'[t][r]
    BY <1>7, TierNumbers DEF Books, Sums
  <2>1. /\ within[0][r] = unused[0][r]
        /\ \A t \in Tiers \ {0} : within[t][r] = within[t - 1][r] + unused[t][r]
    BY TierNumbers DEF Typed, Books, Sums
  <2>2. /\ \A t \in Tiers : within'[t][r] = IF t < at THEN within[t][r] ELSE within[t][r] - Take(r)
        /\ \A t \in Tiers : unused'[t][r] = IF t = at THEN unused[t][r] - Take(r) ELSE unused[t][r]
    BY <1>1, <1>5 DEF Backward, Typed, TypeOK
  <2>3. /\ Take(r) \in Nat
        /\ \A t \in Tiers : within[t][r] \in Nat /\ unused[t][r] \in Nat
    BY Taken DEF Typed, TypeOK, Amounts
  <2>4. within'[0][r] = unused'[0][r]
    BY <1>1, <2>1, <2>2, TierNumbers
  <2>5. ASSUME NEW t \in Tiers \ {0}
        PROVE  within'[t][r] = within'[t - 1][r] + unused'[t][r]
    <3>1. t - 1 \in Tiers /\ t \in Nat /\ at \in Nat /\ within[t][r] = within[t - 1][r] + unused[t][r]
      BY <1>1, <2>1, TierNumbers
    <3>2. CASE t < at
      BY <2>2, <2>3, <3>1, <3>2
    <3>3. CASE t = at
      BY <2>2, <2>3, <3>1, <3>3
    <3>4. CASE t > at
      BY <2>2, <2>3, <3>1, <3>4
    <3> QED
      BY <3>1, <3>2, <3>3, <3>4
  <2> QED
    BY <2>4, <2>5
<1>12. ItemKnown'
  BY <1>1, <1>2 DEF ItemKnown
<1> QED
  BY <1>10, <1>11, <1>12 DEF Typed

\* Every step keeps the types, and the total equal to the sum of what the tiers have left.
LEMMA TypedNext == Typed /\ [Next]_vars => Typed'
<1> SUFFICES ASSUME Typed, [Next]_vars PROVE Typed'
  OBVIOUS
<1>1. ASSUME NEW p \in Projects, Sort(p) PROVE Typed'
  BY <1>1, SortType
<1>2. ASSUME NEW p \in Projects, RejectSlot(p) \/ RejectOver(p) PROVE Typed'
  <2>1. /\ p \in Waiting /\ Pop(p)
        /\ UNCHANGED <<step, inputs, order, limits, tier, cursor, result, history>>
    BY <1>2 DEF RejectSlot, RejectOver, Turn
  <2>2. Expanded(meta)' = Expanded(meta)
    BY <2>1 DEF inputs, Expanded
  <2>3. verdict' \in [Expanded(meta) -> {"none", "over", "unmet", "run"}]
    BY <1>2, <2>1, PopType DEF RejectSlot, RejectOver, Typed, TypeOK
  <2>4. /\ front' \in [Projects -> Seq(Expanded(meta))]
        /\ back' \in [Projects -> Seq(Expanded(meta))]
    BY <2>1, PopType DEF Typed
  <2> QED
    BY <2>1, <2>2, <2>3, <2>4
       DEF Typed, TypeOK, ItemKnown, Books, inputs, order, limits, cursor, history
<1>3. ASSUME NEW p \in Projects, Admit(p) PROVE Typed'
  <2>1. /\ p \in Waiting /\ Pop(p) /\ UNCHANGED <<inputs, order, limits, verdict, tier, history>>
        /\ item' = NextOf(p) /\ left' = Demand(NextOf(p)) /\ at' = 0 /\ final' = 0
        /\ step' = "forward"
    BY <1>3 DEF Admit, Turn
  <2>2. Expanded(meta)' = Expanded(meta)
    BY <2>1 DEF inputs, Expanded
  <2>3. /\ front' \in [Projects -> Seq(Expanded(meta))]
        /\ back' \in [Projects -> Seq(Expanded(meta))]
        /\ NextOf(p) \in Expanded(meta)
    BY <2>1, PopType DEF Typed
  <2>4. left' \in Amounts
    BY <2>1, <2>3, Wanted DEF Typed, TypeOK
  <2> QED
    BY <2>1, <2>2, <2>3, <2>4, TierNumbers
       DEF Typed, TypeOK, ItemKnown, Books, inputs, order, limits, history
<1>4. CASE Forward
  <2>1. /\ step = "forward" /\ step' \in {"forward", "backward"}
        /\ left' \in {Demand(item), LeftOver}
        /\ final' \in {at, final} /\ at' \in {at, final, at + 1}
        /\ at' = at + 1 => at < LastTier \/ at' \in {at, final}
        /\ UNCHANGED <<inputs, order, queues, limits, verdict, tier, item, result, history>>
    BY <1>4 DEF Forward
  <2>2. Expanded(meta)' = Expanded(meta)
    BY <2>1 DEF inputs, Expanded
  <2>3. left' \in Amounts
    <3>1. Demand(item) \in Amounts
      BY <2>1, Wanted DEF Typed, TypeOK, ItemKnown
    <3>2. CASE Resources = {}
      BY <2>1, <3>1, <3>2 DEF LeftOver, Amounts
    <3>3. CASE Resources # {}
      BY <2>1, <3>1, <3>3, Taken
    <3> QED
      BY <3>2, <3>3
  <2>4. at' \in Tiers /\ final' \in Tiers
    BY <2>1, TierNumbers DEF Typed, TypeOK
  <2> QED
    BY <2>1, <2>2, <2>3, <2>4
       DEF Typed, TypeOK, ItemKnown, Books, inputs, order, queues, limits, history
<1>5. CASE Backward
  BY <1>5, BackwardType
<1>6. CASE Sorted \/ Collapse \/ UNCHANGED vars
  <2>1. /\ UNCHANGED <<inputs, order, queues, limits, verdict, tier, cursor, history>>
        /\ step' \in {step, "pick", "done"}
    BY <1>6 DEF Sorted, Collapse, vars
  <2>2. Expanded(meta)' = Expanded(meta)
    BY <2>1 DEF inputs, Expanded
  <2> QED
    BY <2>1, <2>2 DEF Typed, TypeOK, ItemKnown, Books, inputs, order, queues, limits, cursor, history
<1> QED
  BY <1>1, <1>2, <1>3, <1>4, <1>5, <1>6 DEF Next

\* No tier and no total is ever overdrawn, for any number of tiers, resources and jobs:
\* what is left of each stays a natural number.
THEOREM NothingOverdrawn == Spec => []TypeOK
<1>1. Typed => TypeOK
  BY DEF Typed
<1> QED
  BY <1>1, TypedInit, TypedNext, PTL DEF Spec

----------------------------------------------------------------------------
(* Every item is considered once. *)

\* The items of project p that are still to be considered.
Pending(p) == unsorted[p] \cup Contents(front[p]) \cup Contents(back[p])

\* Every item waits at one place, in its own project, and has no verdict until it leaves.
Queued ==
  /\ \A p \in Projects :
       /\ \A x \in Pending(p) :
            x \in Expanded(meta) /\ MetaOf(x).project = p /\ verdict[x] = "none"
       /\ unsorted[p] \cap (Contents(front[p]) \cup Contents(back[p])) = {}
       /\ Contents(front[p]) \cap Contents(back[p]) = {}
       /\ Distinct(front[p]) /\ Distinct(back[p])
  /\ step \in {"forward", "backward"} =>
       verdict[item] = "none" /\ \A p \in Projects : item \notin Pending(p)

\* Nothing is in a queue at first.
LEMMA QueuedInit == Init => Queued
<1> SUFFICES ASSUME Init PROVE Queued
  OBVIOUS
<1>1. Contents(<<>>) = {} /\ Distinct(<<>>)
  BY DEF Contents, Distinct
<1> QED
  BY <1>1 DEF Init, Queued, Pending

\* What Pop takes was pending and is so no longer; everything else stays in its place.
LEMMA PopOnce ==
  ASSUME TypeOK, Queued, NEW p \in Projects, p \in Waiting, Pop(p), UNCHANGED <<unsorted, meta>>
  PROVE  /\ NextOf(p) \in Expanded(meta) /\ verdict[NextOf(p)] = "none"
         /\ \A q \in Projects :
              /\ NextOf(p) \notin unsorted[q] \cup Contents(front'[q]) \cup Contents(back'[q])
              /\ Contents(front'[q]) \subseteq Contents(front[q])
              /\ Contents(back'[q]) \subseteq Contents(back[q])
              /\ Distinct(front'[q]) /\ Distinct(back'[q])
<1>1. /\ front \in [Projects -> Seq(Expanded(meta))] /\ back \in [Projects -> Seq(Expanded(meta))]
      /\ front[p] \in Seq(Expanded(meta)) /\ back[p] \in Seq(Expanded(meta))
  BY DEF TypeOK
<1>2. NextOf(p) \in Expanded(meta)
  BY PopType
<1>3. ASSUME NEW q \in Projects, NEW x \in Pending(q)
      PROVE  MetaOf(x).project = q /\ verdict[x] = "none"
  BY <1>3 DEF Queued
<1>4. ASSUME NEW f \in {front[p], back[p]}, f # <<>>
      PROVE  /\ Head(f) \in Contents(f) /\ Contents(Tail(f)) \subseteq Contents(f)
             /\ Distinct(Tail(f)) /\ Head(f) \notin Contents(Tail(f))
  <2>1. f \in Seq(Expanded(meta)) /\ Distinct(f)
    BY <1>1 DEF Queued
  <2> QED
    BY <1>4, <2>1, Popped
<1>5. CASE front[p] # <<>>
  <2>1. NextOf(p) = Head(front[p])
    BY <1>5 DEF NextOf
  <2>2. front' = [front EXCEPT ![p] = Tail(@)] /\ back' = back
    BY <1>5 DEF Pop
  <2>3. NextOf(p) \in Contents(front[p])
    BY <1>4, <1>5, <2>1
  <2>4. \A q \in Projects \ {p} : NextOf(p) \notin Pending(q)
    BY <1>3, <2>3 DEF Pending
  <2>5. NextOf(p) \notin unsorted[p] \cup Contents(Tail(front[p])) \cup Contents(back[p])
    BY <1>4, <1>5, <2>1, <2>3 DEF Queued
  <2> QED
    BY <1>1, <1>2, <1>3, <1>4, <1>5, <2>2, <2>3, <2>4, <2>5 DEF Queued, Pending
<1>6. CASE front[p] = <<>>
  <2>0. back[p] # <<>>
    BY <1>6 DEF Waiting
  <2>1. NextOf(p) = Head(back[p])
    BY <1>6 DEF NextOf
  <2>2. back' = [back EXCEPT ![p] = Tail(@)] /\ front' = front
    BY <1>6 DEF Pop
  <2>3. NextOf(p) \in Contents(back[p])
    BY <1>4, <2>0, <2>1
  <2>4. \A q \in Projects \ {p} : NextOf(p) \notin Pending(q)
    BY <1>3, <2>3 DEF Pending
  <2>5. NextOf(p) \notin unsorted[p] \cup Contents(front[p]) \cup Contents(Tail(back[p]))
    BY <1>4, <2>0, <2>1, <2>3 DEF Queued
  <2> QED
    BY <1>1, <1>2, <1>3, <1>4, <2>0, <2>2, <2>3, <2>4, <2>5 DEF Queued, Pending
<1> QED
  BY <1>5, <1>6

\* Sorting moves an item to one place.
LEMMA QueuedSort ==
  ASSUME TypeOK, Queued, NEW p \in Projects, Sort(p)
  PROVE  Queued'
<1>1. UNCHANGED <<step, meta, verdict, item>> /\ step = "sort"
  BY DEF Sort, inputs, cursor
<1>2. PICK x \in unsorted[p] :
        /\ unsorted' = [unsorted EXCEPT ![p] = @ \ {x}]
        /\ \/ back' = [back EXCEPT ![p] = Append(@, x)] /\ UNCHANGED front
           \/ front' = [front EXCEPT ![p] = Append(@, x)] /\ UNCHANGED back
  BY DEF Sort
<1>3. /\ x \in Expanded(meta) /\ unsorted \in [Projects -> SUBSET Expanded(meta)]
      /\ front \in [Projects -> Seq(Expanded(meta))] /\ back \in [Projects -> Seq(Expanded(meta))]
      /\ front[p] \in Seq(Expanded(meta)) /\ back[p] \in Seq(Expanded(meta))
  BY <1>2 DEF TypeOK
<1>4. x \notin Contents(front[p]) /\ x \notin Contents(back[p])
  BY <1>2 DEF Queued
<1>5. ASSUME NEW f \in {front[p], back[p]}
      PROVE  Contents(Append(f, x)) = Contents(f) \cup {x} /\ Distinct(Append(f, x))
  <2>1. f \in Seq(Expanded(meta)) /\ Distinct(f) /\ x \notin Contents(f)
    BY <1>3, <1>4 DEF Queued
  <2> QED
    BY <1>3, <2>1, Appended
<1>6. ASSUME NEW q \in Projects
      PROVE  /\ unsorted'[q] \cup Contents(front'[q]) \cup Contents(back'[q]) = Pending(q)
             /\ unsorted'[q] \cap (Contents(front'[q]) \cup Contents(back'[q])) = {}
             /\ Contents(front'[q]) \cap Contents(back'[q]) = {}
             /\ Distinct(front'[q]) /\ Distinct(back'[q])
  <2>1. CASE q # p
    BY <1>2, <1>3, <2>1 DEF Queued, Pending
  <2>2. CASE q = p /\ back' = [back EXCEPT ![p] = Append(@, x)] /\ UNCHANGED front
    BY <1>2, <1>3, <1>4, <1>5, <2>2 DEF Queued, Pending
  <2>3. CASE q = p /\ front' = [front EXCEPT ![p] = Append(@, x)] /\ UNCHANGED back
    BY <1>2, <1>3, <1>4, <1>5, <2>3 DEF Queued, Pending
  <2> QED
    BY <1>2, <2>1, <2>2, <2>3
<1> QED
  BY <1>1, <1>6 DEF Queued, Pending, MetaOf

\* Every step keeps an item in one place, and what is in a queue without a verdict.
LEMMA QueuedNext == Typed /\ Queued /\ [Next]_vars => Queued'
<1> SUFFICES ASSUME Typed, Queued, [Next]_vars PROVE Queued'
  OBVIOUS
<1>0. TypeOK
  BY DEF Typed
\* An item that leaves its queue is the only one whose verdict changes.
<1>1. ASSUME NEW p \in Projects, p \in Waiting, Pop(p), UNCHANGED <<meta, unsorted>>,
             \A y \in Expanded(meta) \ {NextOf(p)} : verdict'[y] = verdict[y],
             step' \in {"forward", "backward"} => item' = NextOf(p) /\ verdict' = verdict
      PROVE  Queued'
  <2>1. ASSUME NEW q \in Projects
        PROVE  /\ unsorted'[q] \cup Contents(front'[q]) \cup Contents(back'[q])
                    \subseteq Pending(q) \ {NextOf(p)}
               /\ unsorted'[q] \cap (Contents(front'[q]) \cup Contents(back'[q])) = {}
               /\ Contents(front'[q]) \cap Contents(back'[q]) = {}
               /\ Distinct(front'[q]) /\ Distinct(back'[q])
    <3>1. /\ NextOf(p) \notin unsorted[q] \cup Contents(front'[q]) \cup Contents(back'[q])
          /\ Contents(front'[q]) \subseteq Contents(front[q])
          /\ Contents(back'[q]) \subseteq Contents(back[q])
          /\ Distinct(front'[q]) /\ Distinct(back'[q])
      BY <1>0, <1>1, PopOnce
    <3>2. /\ unsorted[q] \cap (Contents(front[q]) \cup Contents(back[q])) = {}
          /\ Contents(front[q]) \cap Contents(back[q]) = {}
      BY DEF Queued
    <3>3. unsorted'[q] = unsorted[q]
      BY <1>1
    <3> QED
      BY <3>1, <3>2, <3>3 DEF Pending
  <2>2. ASSUME NEW q \in Projects, NEW x \in Pending(q) \ {NextOf(p)}
        PROVE  x \in Expanded(meta)' /\ MetaOf(x)' = MetaOf(x) /\ MetaOf(x).project = q
               /\ verdict'[x] = "none"
    BY <1>1, <2>2 DEF Queued, MetaOf, Expanded
  <2>3. step' \in {"forward", "backward"} => verdict'[item'] = "none"
    BY <1>0, <1>1, PopOnce
  <2> QED
    BY <1>1, <2>1, <2>2, <2>3 DEF Queued, Pending, MetaOf
<1>2. ASSUME NEW p \in Projects, Sort(p) PROVE Queued'
  BY <1>0, <1>2, QueuedSort
<1>3. ASSUME NEW p \in Projects, RejectSlot(p) \/ RejectOver(p) PROVE Queued'
  <2>1. /\ p \in Waiting /\ Pop(p) /\ step' = "pick" /\ UNCHANGED <<meta, unsorted>>
    BY <1>3 DEF RejectSlot, RejectOver, Turn, inputs, order
  <2>2. \A y \in Expanded(meta) \ {NextOf(p)} : verdict'[y] = verdict[y]
    BY <1>0, <1>3 DEF RejectSlot, RejectOver, TypeOK
  <2> QED
    BY <1>1, <2>1, <2>2
<1>4. ASSUME NEW p \in Projects, Admit(p) PROVE Queued'
  <2>1. /\ p \in Waiting /\ Pop(p) /\ item' = NextOf(p)
        /\ UNCHANGED <<meta, unsorted, verdict>>
    BY <1>4 DEF Admit, Turn, inputs, order
  <2> QED
    BY <1>1, <2>1
<1>5. CASE Forward
  BY <1>5 DEF Forward, inputs, order, queues, Queued, Pending, MetaOf, Expanded
<1>6. CASE Backward
  <2>1. /\ UNCHANGED <<meta, unsorted, front, back, item>>
        /\ step = "backward"
        /\ verdict' = verdict \/ step' = "pick"
    BY <1>6 DEF Backward, inputs, order, queues
  <2>2. \A y \in Expanded(meta) : y # item => verdict'[y] = verdict[y]
    BY <1>0, <1>6 DEF Backward, TypeOK
  <2>3. Expanded(meta)' = Expanded(meta)
    BY <2>1 DEF Expanded
  <2> QED
    BY <2>1, <2>2, <2>3 DEF Queued, Pending, MetaOf
<1>7. CASE Sorted \/ Collapse \/ UNCHANGED vars
  <2>1. /\ UNCHANGED <<meta, unsorted, front, back, item, verdict>>
        /\ step' \in {step, "pick", "done"}
    BY <1>7 DEF Sorted, Collapse, vars, inputs, order, queues, cursor
  <2>2. Expanded(meta)' = Expanded(meta)
    BY <2>1 DEF Expanded
  <2> QED
    BY <2>1, <2>2 DEF Queued, Pending, MetaOf
<1> QED
  BY <1>2, <1>3, <1>4, <1>5, <1>6, <1>7 DEF Next

----------------------------------------------------------------------------
(* What is admitted is charged. *)

\* What d has to look for elsewhere when w is there.
Short(d, w) == IF d > w THEN d - w ELSE 0

\* Tier t has some of what the item being admitted asks for.
Drawn(t) == \E r \in Resources : Demand(item)[r] > 0 /\ unused[t][r] > 0

\* The forward pass has visited the tiers before at: together they leave as much of
\* the demand unmet as those up to final alone.
Ahead ==
  step = "forward" =>
    /\ \A r \in Resources : Demand(item)[r] <= within[LastTier][r]
    /\ at = 0 => left = Demand(item) /\ final = 0
    /\ at # 0 =>
         /\ final < at
         /\ \A r \in Resources :
              /\ left[r] = Short(Demand(item)[r], within[at - 1][r])
              /\ left[r] = Short(Demand(item)[r], within[final][r])
    /\ Drawn(final) \/ left = Demand(item)

\* The backward pass has been charged for the tiers after at, final the first of
\* them, and the tiers that remain have what is left of the demand.
Back ==
  step = "backward" =>
    /\ at <= final
    /\ \A r \in Resources :
         left[r] <= within[at][r] /\ paid[item][r] + left[r] = Demand(item)[r]
    /\ \A t \in from[item] : at < t /\ t <= final
    /\ at = final => left = Demand(item) /\ (Drawn(final) \/ Demand(item) = Zero)
    /\ at < final => final \in from[item]

\* What neither runs nor is being charged has been charged nothing.
Untouched ==
  \A x \in Expanded(meta) :
    verdict[x] # "run" =>
      (step = "backward" /\ x = item) \/ (paid[x] = Zero /\ from[x] = {})

Charging == Ahead /\ Back /\ Untouched /\ ChargedInFull

\* Where the forward pass has got to when it leaves a tier.
LEMMA Reached ==
  ASSUME Typed, Ahead, step = "forward",
         NEW fin, fin = IF Used THEN at ELSE final
  PROVE  /\ fin \in Tiers /\ fin <= at
         /\ \A r \in Resources :
              /\ LeftOver[r] = Short(Demand(item)[r], within[at][r])
              /\ LeftOver[r] = Short(Demand(item)[r], within[fin][r])
         /\ Drawn(fin) \/ LeftOver = Demand(item)
<1> DEFINE D == Demand(item)
<1>1. at \in Tiers /\ final \in Tiers /\ at \in Nat /\ final \in Nat /\ left \in Amounts
      /\ D \in Amounts
  BY TierNumbers, Wanted DEF Typed, TypeOK, ItemKnown
<1>2. fin \in Tiers /\ fin <= at
  BY <1>1 DEF Ahead
<1>3. ASSUME NEW r \in Resources
      PROVE  /\ D[r] \in Nat /\ left[r] \in Nat /\ left[r] <= D[r]
             /\ LeftOver[r] = Short(D[r], within[at][r])
             /\ ~Used => LeftOver[r] = left[r]
             /\ ~Used /\ at # 0 => LeftOver[r] = Short(D[r], within[final][r])
  <2>0. /\ D[r] \in Nat /\ left[r] \in Nat /\ unused[at][r] \in Nat /\ Take(r) \in Nat
        /\ \A t \in Tiers : within[t][r] \in Nat
        /\ LeftOver[r] = left[r] - Take(r)
    BY <1>1, Taken DEF Amounts, Typed, TypeOK
  <2>1. LeftOver[r] = left[r] - MinOf(left[r], unused[at][r])
    BY <2>0 DEF Take
  <2>2. /\ at = 0 => within[at][r] = unused[at][r]
        /\ at # 0 => at - 1 \in Tiers /\ within[at][r] = within[at - 1][r] + unused[at][r]
    BY <1>1, TierNumbers DEF Typed, Books, Sums
  <2>3. left[r] <= D[r] /\ LeftOver[r] = Short(D[r], within[at][r])
    <3>1. CASE at = 0
      <4>1. left[r] = D[r]
        BY <3>1, <1>1 DEF Ahead
      <4> QED
        BY <2>0, <2>1, <2>2, <3>1, <4>1 DEF Short, MinOf
    <3>2. CASE at # 0
      <4>1. left[r] = Short(D[r], within[at - 1][r]) /\ within[at - 1][r] \in Nat
        BY <2>0, <2>2, <3>2 DEF Ahead
      <4> QED
        BY <2>0, <2>1, <2>2, <3>2, <4>1 DEF Short, MinOf
    <3> QED
      BY <3>1, <3>2
  <2>4. ~Used => LeftOver[r] = left[r]
    BY <2>0 DEF Used
  <2>5. ~Used /\ at # 0 => LeftOver[r] = Short(D[r], within[final][r])
    BY <2>4 DEF Ahead
  <2> QED
    BY <2>0, <2>3, <2>4, <2>5
<1>4. CASE Used
  <2>1. PICK r \in Resources : Take(r) > 0
    BY <1>4 DEF Used
  <2>2. /\ left[r] \in Nat /\ unused[at][r] \in Nat /\ Take(r) \in Nat
        /\ Take(r) <= left[r] /\ Take(r) <= unused[at][r]
    BY Taken
  <2>3. D[r] > 0 /\ unused[at][r] > 0
    BY <1>3, <2>1, <2>2
  <2> QED
    BY <1>2, <1>3, <1>4, <2>3 DEF Drawn
<1>5. CASE ~Used
  <2>1. LeftOver = left
    BY <1>1, <1>3, <1>5 DEF LeftOver, Amounts
  <2>2. Drawn(final) \/ left = D
    BY DEF Ahead
  <2>3. at = 0 => final = at
    BY DEF Ahead
  <2> QED
    BY <1>2, <1>3, <1>5, <2>1, <2>2, <2>3
<1> QED
  BY <1>4, <1>5

\* The forward pass keeps the account of what is missing.
LEMMA ForwardCharging ==
  ASSUME Typed, Queued, Charging, Forward
  PROVE  Charging'
<1> DEFINE D == Demand(item)
           fin == IF Used THEN at ELSE final
<1>1. /\ step = "forward" /\ final' = fin
      /\ UNCHANGED <<meta, unused, within, paid, from, verdict, tier, item>>
      /\ \/ (Met \/ at = LastTier) /\ step' = "backward" /\ at' = fin /\ left' = D
         \/ ~Met /\ at < LastTier /\ at' = at + 1 /\ left' = LeftOver /\ step' = "forward"
  BY DEF Forward, inputs, limits, history
<1>2. /\ Expanded(meta)' = Expanded(meta) /\ \A x : Demand(x)' = Demand(x)
      /\ \A t : Drawn(t)' = Drawn(t)
  BY <1>1 DEF Expanded, Demand, Wants, MetaOf, Drawn
<1>3. ChargedInFull'
  BY <1>1, <1>2 DEF Charging, ChargedInFull
<1>4. Untouched'
  BY <1>1, <1>2 DEF Charging, Untouched
<1>5. /\ fin \in Tiers /\ fin <= at
      /\ \A r \in Resources :
           /\ LeftOver[r] = Short(D[r], within[at][r])
           /\ LeftOver[r] = Short(D[r], within[fin][r])
      /\ Drawn(fin) \/ LeftOver = D
  BY <1>1, Reached DEF Charging
<1>6. at \in Tiers /\ at \in Nat /\ fin \in Nat
  BY <1>5, TierNumbers DEF Typed, TypeOK
<1>7. CASE step' = "forward"
  <2>1. at' = at + 1 /\ left' = LeftOver /\ at' # 0 /\ at' - 1 = at /\ fin < at'
    BY <1>1, <1>5, <1>6, <1>7
  <2>2. \A r \in Resources : D[r] <= within[LastTier][r]
    BY <1>1 DEF Charging, Ahead
  <2>3. Ahead'
    BY <1>1, <1>2, <1>5, <2>1, <2>2 DEF Ahead
  <2>4. Back'
    BY <1>7 DEF Back
  <2> QED
    BY <1>3, <1>4, <2>3, <2>4 DEF Charging
<1>8. CASE step' = "backward"
  <2>1. at' = fin /\ left' = D /\ (Met \/ at = LastTier)
    BY <1>1, <1>8
  <2>2. item \in Expanded(meta) /\ paid[item] = Zero /\ from[item] = {}
    <3>1. item \in Expanded(meta) /\ verdict[item] = "none"
      BY <1>1 DEF Typed, ItemKnown, Queued
    <3> QED
      BY <1>1, <3>1 DEF Charging, Untouched
  <2>3. ASSUME NEW r \in Resources
        PROVE  LeftOver[r] = 0 /\ D[r] <= within[fin][r] /\ 0 + D[r] = D[r]
    <3>1. D[r] \in Nat /\ within[at][r] \in Nat /\ within[fin][r] \in Nat
      BY <1>5, <1>6, <2>2, Wanted DEF Typed, TypeOK, Amounts
    <3>2. LeftOver[r] = 0
      <4>1. CASE Met
        BY <4>1 DEF Met
      <4>2. CASE at = LastTier
        <5>1. D[r] <= within[at][r]
          BY <1>1, <4>2 DEF Charging, Ahead
        <5> QED
          BY <1>5, <3>1, <5>1 DEF Short
      <4> QED
        BY <2>1, <4>1, <4>2
    <3>3. Short(D[r], within[fin][r]) = 0
      BY <1>5, <3>2
    <3> QED
      BY <3>1, <3>2, <3>3 DEF Short
  <2>4. LeftOver = D => D = Zero
    BY <2>3 DEF LeftOver, Zero
  <2>5. Back'
    <3>1. \A r \in Resources : left'[r] <= within'[at'][r] /\ paid'[item'][r] + left'[r] = D[r]
      BY <1>1, <2>1, <2>2, <2>3 DEF Zero
    <3>2. at' <= final' /\ ~(at' < final') /\ (Drawn(final') \/ D = Zero)
      BY <1>1, <1>5, <1>6, <2>1, <2>4
    <3> QED
      BY <1>1, <1>2, <2>1, <2>2, <3>1, <3>2 DEF Back, Zero
  <2>6. Ahead'
    BY <1>8 DEF Ahead
  <2> QED
    BY <1>3, <1>4, <2>5, <2>6 DEF Charging
<1> QED
  BY <1>1, <1>7, <1>8

\* The backward pass finds what the forward pass has left for it.
LEMMA BackwardCharging ==
  ASSUME Typed, Queued, Charging, Backward
  PROVE  Charging'
<1> DEFINE D == Demand(item)
<1>1. /\ step = "backward" /\ UNCHANGED <<meta, item, final>>
      /\ unused' = [unused EXCEPT ![at] = [r \in Resources |-> @[r] - Take(r)]]
      /\ within' = [t \in Tiers |-> IF t < at THEN within[t]
                                    ELSE [r \in Resources |-> within[t][r] - Take(r)]]
      /\ paid' = [paid EXCEPT ![item] = [r \in Resources |-> @[r] + Take(r)]]
      /\ from' = IF Used THEN [from EXCEPT ![item] = @ \cup {at}] ELSE from
      /\ left' = LeftOver
      /\ \/ /\ Met \/ at = 0
            /\ verdict' = [verdict EXCEPT ![item] = "run"]
            /\ tier' = [tier EXCEPT ![item] = final]
            /\ step' = "pick"
         \/ ~Met /\ at > 0 /\ at' = at - 1 /\ step' = step /\ verdict' = verdict /\ tier' = tier
  BY DEF Backward, inputs
<1>2. Expanded(meta)' = Expanded(meta) /\ \A x : Demand(x)' = Demand(x)
  BY <1>1 DEF Expanded, Demand, Wants, MetaOf
<1>3. /\ item \in Expanded(meta) /\ verdict[item] = "none"
      /\ at \in Tiers /\ at \in Nat /\ final \in Tiers /\ final \in Nat
      /\ paid \in [Expanded(meta) -> Amounts] /\ from \in [Expanded(meta) -> SUBSET Tiers]
      /\ verdict \in [Expanded(meta) -> {"none", "over", "unmet", "run"}]
      /\ tier \in [Expanded(meta) -> Tiers \cup {NoTier}]
      /\ D \in Amounts /\ left \in Amounts
  BY <1>1, TierNumbers, Wanted DEF Typed, TypeOK, ItemKnown, Queued
<1>4. /\ at <= final
      /\ \A r \in Resources :
           left[r] <= within[at][r] /\ paid[item][r] + left[r] = D[r]
      /\ \A t \in from[item] : at < t /\ t <= final
      /\ at = final => left = D /\ (Drawn(final) \/ D = Zero)
      /\ at < final => final \in from[item]
  BY <1>1 DEF Charging, Back
\* Nothing of the other items changes.
<1>5. \A x \in Expanded(meta) \ {item} :
        verdict'[x] = verdict[x] /\ tier'[x] = tier[x] /\ paid'[x] = paid[x] /\ from'[x] = from[x]
  BY <1>1, <1>3
\* The charge of this one.
<1>6. ASSUME NEW r \in Resources
      PROVE  /\ left[r] \in Nat /\ D[r] \in Nat /\ paid'[item][r] \in Nat
             /\ left'[r] \in Nat /\ paid'[item][r] + left'[r] = D[r]
             /\ at # 0 => at - 1 \in Tiers /\ left'[r] <= within'[at - 1][r]
             /\ at = 0 => left'[r] = 0
             /\ left[r] > 0 /\ unused[at][r] > 0 => Take(r) > 0
  <2>1. /\ Take(r) \in Nat /\ left[r] \in Nat /\ unused[at][r] \in Nat
        /\ left'[r] = left[r] - Take(r) /\ Take(r) <= left[r] /\ D[r] \in Nat
        /\ paid[item][r] \in Nat
        /\ Take(r) = MinOf(left[r], unused[at][r])
    BY <1>1, <1>3, Taken DEF Take, Amounts
  <2>2. paid'[item][r] = paid[item][r] + Take(r)
    BY <1>1, <1>3
  <2>3. \A t \in Tiers : within[t][r] \in Nat
    BY DEF Typed, TypeOK, Amounts
  <2>4. /\ at = 0 => within[at][r] = unused[at][r]
        /\ at # 0 => at - 1 \in Tiers /\ within[at][r] = within[at - 1][r] + unused[at][r]
    BY <1>3, TierNumbers DEF Typed, Books, Sums
  <2>5. at # 0 => within'[at - 1][r] = within[at - 1][r]
    BY <1>1, <1>3, <2>4
  <2>6. at # 0 => left'[r] <= within'[at - 1][r]
    BY <1>4, <2>1, <2>3, <2>4, <2>5 DEF MinOf
  <2>7. at = 0 => left'[r] = 0
    BY <1>4, <2>1, <2>4 DEF MinOf
  <2> QED
    BY <1>4, <2>1, <2>2, <2>4, <2>6, <2>7 DEF MinOf
<1>7. /\ \A t \in from'[item] : at <= t /\ t <= final
      /\ at = final => from'[item] \subseteq {final}
      /\ at < final => final \in from'[item]
      /\ Used => at \in from'[item]
  <2>1. from'[item] = IF Used THEN from[item] \cup {at} ELSE from[item]
    BY <1>1, <1>3
  <2>2. \A t \in from[item] : t \in Nat
    BY <1>3, TierNumbers
  <2>3. \A t \in from[item] : at <= t /\ t <= final /\ at # final
    BY <1>3, <1>4, <2>2
  <2>4. at <= at /\ (at = final \/ at < final)
    BY <1>3, <1>4
  <2>5. CASE Used
    <3>1. from'[item] = from[item] \cup {at}
      BY <2>1, <2>5
    <3> QED
      BY <1>4, <2>3, <2>4, <3>1
  <2>6. CASE ~Used
    <3>1. from'[item] = from[item]
      BY <2>1, <2>6
    <3> QED
      BY <1>4, <2>3, <2>6, <3>1
  <2> QED
    BY <2>5, <2>6
<1>8. Ahead'
  BY <1>1 DEF Ahead
<1>9. CASE step' = "pick"
  <2>1. /\ verdict'[item] = "run" /\ tier'[item] = final
    BY <1>1, <1>3, <1>9
  <2>2. ASSUME NEW r \in Resources PROVE left'[r] = 0
    BY <1>1, <1>6, <1>9 DEF Met
  <2>3. paid'[item] = D
    <3>1. \A r \in Resources : paid'[item][r] = D[r]
      BY <1>6, <2>2
    <3>2. paid'[item] = [r \in Resources |-> paid'[item][r]]
      BY <1>1, <1>3
    <3>3. D = [r \in Resources |-> D[r]]
      BY <1>3 DEF Amounts
    <3> QED
      BY <3>1, <3>2, <3>3
  <2>4. from'[item] # {} => final \in from'[item]
    BY <1>3, <1>4, <1>7
  <2>5. ChargedInFull'
    BY <1>2, <1>3, <1>5, <1>7, <2>1, <2>3, <2>4 DEF Charging, ChargedInFull
  <2>6. Untouched'
    BY <1>1, <1>2, <1>5, <2>1 DEF Charging, Untouched
  <2>7. Back'
    BY <1>9 DEF Back
  <2> QED
    BY <1>8, <2>5, <2>6, <2>7 DEF Charging
<1>10. CASE step' = "backward"
  <2>1. ~Met /\ at > 0 /\ at' = at - 1 /\ verdict' = verdict /\ tier' = tier
    BY <1>1, <1>10
  <2>2. ChargedInFull'
    BY <1>2, <1>3, <1>5, <2>1 DEF Charging, ChargedInFull
  <2>3. Untouched'
    BY <1>1, <1>2, <1>5, <1>10, <2>1 DEF Charging, Untouched
  <2>4. final \in from'[item]
    <3>1. CASE at < final
      BY <1>7, <3>1
    <3>2. CASE at = final
      <4>1. left = D
        BY <1>4, <3>2
      <4>2. D # Zero
        <5>1. PICK r \in Resources : LeftOver[r] # 0
          BY <2>1 DEF Met
        <5> QED
          BY <1>1, <1>6, <5>1, <1>3, <4>1, Taken DEF Zero
      <4>3. PICK r \in Resources : D[r] > 0 /\ unused[at][r] > 0
        BY <1>4, <3>2, <4>2 DEF Drawn
      <4> QED
        BY <1>6, <1>7, <3>2, <4>1, <4>3 DEF Used
    <3> QED
      BY <1>3, <1>4, <3>1, <3>2
  <2>5. Back'
    <3>1. at' < final' /\ at' # final' /\ at' <= final'
      BY <1>1, <1>3, <1>4, <2>1
    <3>2. \A t \in from'[item] : at' < t /\ t <= final'
      <4>1. from'[item] \subseteq Tiers
        BY <1>1, <1>3
      <4> QED
        BY <1>1, <1>3, <1>7, <2>1, <4>1, TierNumbers
    <3>3. \A r \in Resources : left'[r] <= within'[at'][r] /\ paid'[item'][r] + left'[r] = D[r]
      <4>1. at # 0 /\ item' = item
        BY <1>1, <1>3, <2>1
      <4> QED
        BY <1>6, <2>1, <4>1
    <3> QED
      BY <1>1, <1>2, <2>4, <3>1, <3>2, <3>3 DEF Back
  <2> QED
    BY <1>8, <2>2, <2>3, <2>5 DEF Charging
<1> QED
  BY <1>1, <1>9, <1>10

\* Nothing is charged at first.
LEMMA ChargingInit == Init => Charging
<1> SUFFICES ASSUME Init PROVE Charging
  OBVIOUS
<1>1. step = "sort" /\ \A x \in Expanded(meta) : verdict[x] = "none" /\ paid[x] = Zero /\ from[x] = {}
  BY DEF Init
<1> QED
  BY <1>1 DEF Charging, Ahead, Back, Untouched, ChargedInFull

\* Every step keeps the account of what is charged and missing.
LEMMA ChargingNext == Typed /\ Queued /\ Charging /\ [Next]_vars => Charging'
<1> SUFFICES ASSUME Typed, Queued, Charging, [Next]_vars PROVE Charging'
  OBVIOUS
<1>0. UNCHANGED meta => Expanded(meta)' = Expanded(meta) /\ \A x : Demand(x)' = Demand(x)
  BY DEF Expanded, Demand, Wants, MetaOf
\* An item that leaves its queue refused, or about to be admitted, had no verdict.
<1>1. ASSUME NEW p \in Projects, RejectSlot(p) \/ RejectOver(p) PROVE Charging'
  <2>1. /\ p \in Waiting /\ Pop(p) /\ step = "pick"
        /\ UNCHANGED <<step, meta, unsorted, tier, paid, from>>
        /\ \E v \in {"over", "unmet"} : verdict' = [verdict EXCEPT ![NextOf(p)] = v]
    BY <1>1 DEF RejectSlot, RejectOver, Turn, inputs, order, history
  <2>2. NextOf(p) \in Expanded(meta) /\ verdict[NextOf(p)] = "none"
    BY <2>1, PopOnce DEF Typed
  <2>3. \A x \in Expanded(meta) : (verdict'[x] = "run") = (verdict[x] = "run")
    BY <2>1, <2>2 DEF Typed, TypeOK
  <2> QED
    BY <1>0, <2>1, <2>3 DEF Charging, Ahead, Back, Untouched, ChargedInFull
<1>2. ASSUME NEW p \in Projects, Admit(p) PROVE Charging'
  <2>1. /\ step = "pick" /\ step' = "forward" /\ at' = 0 /\ final' = 0
        /\ item' = NextOf(p) /\ left' = Demand(item')
        /\ UNCHANGED <<meta, verdict, tier, within, paid, from>>
        /\ \A r \in Resources : Demand(item')[r] <= within[LastTier][r]
    BY <1>2 DEF Admit, Turn, Fits, inputs, limits, history, Typed, Books
  <2>2. Ahead'
    BY <1>0, <2>1 DEF Ahead
  <2> QED
    BY <1>0, <2>1, <2>2 DEF Charging, Back, Untouched, ChargedInFull
<1>3. ASSUME NEW p \in Projects, Sort(p) PROVE Charging'
  BY <1>0, <1>3
     DEF Sort, inputs, limits, cursor, history, Charging, Ahead, Back, Untouched, ChargedInFull
<1>4. CASE Forward
  BY <1>4, ForwardCharging
<1>5. CASE Backward
  BY <1>5, BackwardCharging
<1>6. CASE Sorted \/ Collapse
  <2>1. /\ UNCHANGED <<meta, verdict, tier, paid, from>>
        /\ step \notin {"forward", "backward"} /\ step' \notin {"forward", "backward"}
    BY <1>6 DEF Sorted, Collapse, inputs, history
  <2> QED
    BY <1>0, <2>1 DEF Charging, Ahead, Back, Untouched, ChargedInFull
<1>7. CASE UNCHANGED vars
  BY <1>0, <1>7 DEF vars, inputs, limits, cursor, history,
                    Charging, Ahead, Back, Untouched, ChargedInFull, Drawn
<1> QED
  BY <1>1, <1>2, <1>3, <1>4, <1>5, <1>6, <1>7 DEF Next

\* What runs was charged all it asked for, to tiers up to the one it was given, which
\* contributed: the backward pass always finds in the tiers up to final what the
\* forward pass found there (TierScheduler, _traverse_tiers).
THEOREM AdmittedInFull == Spec => []ChargedInFull
<1>1. Init => Typed /\ Queued /\ Charging
  BY TypedInit, QueuedInit, ChargingInit
<1>2. Typed /\ Queued /\ Charging /\ [Next]_vars => (Typed /\ Queued /\ Charging)'
  BY TypedNext, QueuedNext, ChargingNext
<1>3. Charging => ChargedInFull
  BY DEF Charging
<1> QED
  BY <1>1, <1>2, <1>3, PTL DEF Spec

----------------------------------------------------------------------------
(* The order within a project. *)

\* x goes before y in the queue of its project, unless it is demoted and y is not.
Senior(x, y) ==
  /\ MetaOf(x).project = MetaOf(y).project /\ MetaOf(x).user = MetaOf(y).user
  /\ LexLess(Key(x), Key(y))

\* Whatever is at a place of q comes after what goes before it.
InOrder(q) ==
  \A i, k \in 1..Len(q) : Senior(q[k], q[i]) => k < i

\* The queues of a project are sorted, and what is sorted so far goes before the rest.
Ordered ==
  /\ \A p \in Projects :
       /\ InOrder(front[p]) /\ InOrder(back[p])
       /\ \A x \in unsorted[p], y \in Expanded(meta) : Senior(x, y) => y \in unsorted[p]
       /\ \A x \in Contents(front[p]) : ~Demoted(x)
       /\ \A x \in Contents(back[p]) : Demoted(x)
  /\ step # "sort" => \A p \in Projects : unsorted[p] = {}

\* An item without a verdict is waiting or being admitted.
Considered ==
  \A x \in Expanded(meta) : verdict[x] = "none" =>
    \/ x \in Pending(MetaOf(x).project)
    \/ step \in {"forward", "backward"} /\ x = item

\* The fields of an item of the call are numbers, and it belongs to a project.
LEMMA ItemNumbers ==
  ASSUME Partial(meta, Jobs, IsMetadata), NEW x \in Expanded(meta)
  PROVE  /\ x = <<x[1], x[2], x[3]>> /\ x[1] \in Nat /\ x[2] \in Nat /\ x[3] \in Nat
         /\ MetaOf(x).priority \in Nat /\ MetaOf(x).created \in Nat
         /\ MetaOf(x).project \in Projects
<1>1. x \in Items /\ x[1] \in DOMAIN meta
  BY DEF Expanded
<1>2. /\ x = <<x[1], x[2], x[3]>> /\ x[1] \in Jobs /\ x[2] \in Specs \cup {0}
      /\ x[3] \in 0..MaxReplicas
  BY <1>1 DEF Items
<1>3. IsMetadata(meta[x[1]])
  BY <1>1 DEF Partial
<1> QED
  BY <1>2, <1>3, SchedulerAssumption DEF SchedulerAssumption, IsMetadata, MetaOf

\* The sort key of an item is five numbers.
LEMMA KeyNumbers ==
  ASSUME Partial(meta, Jobs, IsMetadata), NEW x \in Expanded(meta)
  PROVE  DOMAIN Key(x) = 1..5 /\ \A i \in 1..5 : Key(x)[i] \in Nat
<1>1. /\ x[1] \in Nat /\ x[2] \in Nat /\ x[3] \in Nat
      /\ MetaOf(x).priority \in Nat /\ MetaOf(x).created \in Nat
  BY ItemNumbers
<1> QED
  BY <1>1 DEF Key

\* Nothing goes before itself, nor before what goes before it.
LEMMA SeniorAsymmetric ==
  ASSUME Partial(meta, Jobs, IsMetadata), NEW x \in Expanded(meta), NEW y \in Expanded(meta),
         LexLess(Key(x), Key(y)), LexLess(Key(y), Key(x))
  PROVE  FALSE
<1>1. PICK i \in 1..5 : Key(x)[i] < Key(y)[i] /\ \A k \in 1..5 : k < i => Key(x)[k] = Key(y)[k]
  BY KeyNumbers DEF LexLess
<1>2. PICK j \in 1..5 : Key(y)[j] < Key(x)[j] /\ \A k \in 1..5 : k < j => Key(y)[k] = Key(x)[k]
  BY KeyNumbers DEF LexLess
<1>3. /\ Key(x)[i] \in Nat /\ Key(y)[i] \in Nat /\ Key(x)[j] \in Nat /\ Key(y)[j] \in Nat
  BY KeyNumbers
<1>4. i < j \/ i = j \/ j < i
  BY <1>1, <1>2
<1> QED
  BY <1>1, <1>2, <1>3, <1>4

\* A job goes before its slots.
LEMMA ParentSenior ==
  ASSUME Partial(meta, Jobs, IsMetadata), NEW x \in Expanded(meta), IsSlot(x)
  PROVE  /\ Parent(x) \in Expanded(meta) /\ ~IsSlot(Parent(x))
         /\ Senior(Parent(x), x)
         /\ Demoted(Parent(x)) => Demoted(x)
<1>1. /\ x \in Items /\ x[1] \in DOMAIN meta
      /\ x = <<x[1], x[2], x[3]>> /\ x[1] \in Nat /\ x[2] \in Nat /\ x[3] \in Nat /\ x[1] \in Jobs
  BY ItemNumbers DEF Expanded, Items
<1>2. /\ Parent(x) = <<x[1], 0, 0>> /\ Parent(x)[1] = x[1] /\ Parent(x)[2] = 0 /\ Parent(x)[3] = 0
  BY DEF Parent, Base
<1>3. Parent(x) \in Items
  BY <1>1, <1>2, SchedulerAssumption DEF Items, SchedulerAssumption
<1>4. Parent(x) \in Expanded(meta) /\ ~IsSlot(Parent(x))
  BY <1>1, <1>2, <1>3 DEF Expanded, Base, IsSlot
<1>5. MetaOf(Parent(x)) = MetaOf(x)
  BY <1>2 DEF MetaOf
<1>6. LexLess(Key(Parent(x)), Key(x))
  <2> DEFINE a == Key(Parent(x))
             b == Key(x)
  <2>1. /\ a = <<MetaOf(x).priority, MetaOf(x).created, x[1], 0, 0>>
        /\ b = <<MetaOf(x).priority, MetaOf(x).created, x[1], x[2], x[3]>>
    BY <1>2, <1>5 DEF Key
  <2>2. x[2] > 0
    BY <1>1 DEF IsSlot
  <2>3. /\ a[1] = b[1] /\ a[2] = b[2] /\ a[3] = b[3] /\ a[4] < b[4] /\ DOMAIN a = 1..5
    BY <2>1, <2>2
  <2>4. \A k \in 1..5 : k < 4 => k \in {1, 2, 3}
    OBVIOUS
  <2> HIDE DEF a, b
  <2>5. 4 \in DOMAIN a /\ \A k \in DOMAIN a : k < 4 => a[k] = b[k]
    BY <2>3, <2>4
  <2> QED
    BY <2>3, <2>5 DEF LexLess, a, b
<1> QED
  BY <1>4, <1>5, <1>6 DEF Senior, Demoted, IsSlot

\* Where the order of a queue does not depend on the state.
LEMMA SeniorStays ==
  ASSUME UNCHANGED meta
  PROVE  /\ \A x, y : Senior(x, y)' = Senior(x, y)
         /\ Expanded(meta)' = Expanded(meta) /\ \A x : MetaOf(x)' = MetaOf(x)
BY DEF Senior, Key, MetaOf, LexLess, Expanded

\* A sorted queue stays sorted when what nothing in it comes after is put at its end.
LEMMA OrderedAppend ==
  ASSUME NEW S, NEW q \in Seq(S), NEW x \in S, InOrder(q), ~Senior(x, x),
         \A y \in Contents(q) : ~Senior(x, y)
  PROVE  InOrder(Append(q, x))
<1>1. /\ Len(Append(q, x)) = Len(q) + 1 /\ Len(q) \in Nat
      /\ \A i \in 1..Len(q) : Append(q, x)[i] = q[i]
      /\ Append(q, x)[Len(q) + 1] = x
  BY AppendProperties, LenProperties
<1>2. SUFFICES ASSUME NEW i \in 1..Len(q) + 1, NEW k \in 1..Len(q) + 1,
                      Senior(Append(q, x)[k], Append(q, x)[i])
               PROVE  k < i
  BY <1>1 DEF InOrder
<1>3. CASE i = Len(q) + 1 /\ k = Len(q) + 1
  BY <1>1, <1>2, <1>3
<1>4. CASE i = Len(q) + 1 /\ k # Len(q) + 1
  BY <1>1, <1>4
<1>5. CASE i # Len(q) + 1 /\ k = Len(q) + 1
  <2>1. i \in 1..Len(q) /\ Append(q, x)[i] \in Contents(q)
    BY <1>1, <1>5 DEF Contents
  <2> QED
    BY <1>1, <1>2, <1>5, <2>1
<1>6. CASE i # Len(q) + 1 /\ k # Len(q) + 1
  <2>1. i \in 1..Len(q) /\ k \in 1..Len(q)
    BY <1>1, <1>6
  <2> QED
    BY <1>1, <1>2, <2>1 DEF InOrder
<1> QED
  BY <1>3, <1>4, <1>5, <1>6

\* What remains of a sorted queue is sorted, and nothing in it goes before the head.
LEMMA OrderedTail ==
  ASSUME NEW S, NEW q \in Seq(S), q # <<>>, InOrder(q)
  PROVE  /\ InOrder(Tail(q))
         /\ \A x \in Contents(q) : ~Senior(x, Head(q))
<1>1. /\ Len(q) \in Nat \ {0} /\ Len(Tail(q)) = Len(q) - 1 /\ Head(q) = q[1]
      /\ \A i \in 1..Len(Tail(q)) : Tail(q)[i] = q[i + 1]
  BY HeadTailProperties, LenProperties, EmptySeq
<1>2. 1 \in 1..Len(q) /\ \A i \in 1..Len(Tail(q)) : i \in Nat /\ i + 1 \in 1..Len(q)
  BY <1>1
<1>3. ASSUME NEW i \in 1..Len(Tail(q)), NEW k \in 1..Len(Tail(q)), Senior(Tail(q)[k], Tail(q)[i])
      PROVE  k < i
  <2>1. k + 1 < i + 1
    BY <1>1, <1>2, <1>3 DEF InOrder
  <2> QED
    BY <1>2, <2>1
<1>4. ASSUME NEW x \in Contents(q), Senior(x, Head(q)) PROVE FALSE
  <2>1. PICK k \in 1..Len(q) : q[k] = x
    BY DEF Contents
  <2>2. k < 1
    BY <1>1, <1>2, <1>4, <2>1 DEF InOrder
  <2> QED
    BY <1>1, <2>2
<1> QED
  BY <1>3, <1>4 DEF InOrder

\* A queue holds its head and its tail.
LEMMA PoppedRest ==
  ASSUME NEW S, NEW q \in Seq(S), q # <<>>
  PROVE  Contents(q) = Contents(Tail(q)) \cup {Head(q)}
<1>1. /\ Len(q) \in Nat \ {0} /\ Len(Tail(q)) = Len(q) - 1 /\ Head(q) = q[1]
      /\ \A i \in 1..Len(Tail(q)) : Tail(q)[i] = q[i + 1]
  BY HeadTailProperties, LenProperties, EmptySeq
<1>2. \A i \in 1..Len(q) : i = 1 \/ (i - 1 \in 1..Len(Tail(q)) /\ (i - 1) + 1 = i)
  BY <1>1
<1>3. ASSUME NEW x \in Contents(q), x # Head(q) PROVE x \in Contents(Tail(q))
  <2>1. PICK i \in 1..Len(q) : q[i] = x
    BY DEF Contents
  <2>2. i # 1
    BY <1>1, <1>3, <2>1
  <2>3. Tail(q)[i - 1] = x
    BY <1>1, <1>2, <2>1, <2>2
  <2> QED
    BY <1>2, <2>2, <2>3 DEF Contents
<1>4. Contents(Tail(q)) \cup {Head(q)} \subseteq Contents(q)
  BY Popped
<1> QED
  BY <1>3, <1>4

\* What Pop does to the order.
LEMMA PopOrdered ==
  ASSUME TypeOK, Ordered, NEW p \in Projects, p \in Waiting, Pop(p),
         UNCHANGED <<unsorted, meta>>
  PROVE  \A q \in Projects :
           /\ InOrder(front'[q]) /\ InOrder(back'[q])
           /\ Contents(front'[q]) \subseteq Contents(front[q])
           /\ Contents(back'[q]) \subseteq Contents(back[q])
           /\ Pending(q) \subseteq Pending(q)' \cup {NextOf(p)}
<1>1. /\ front \in [Projects -> Seq(Expanded(meta))] /\ back \in [Projects -> Seq(Expanded(meta))]
      /\ front[p] \in Seq(Expanded(meta)) /\ back[p] \in Seq(Expanded(meta))
  BY DEF TypeOK
<1>2. \A q \in Projects : InOrder(front[q]) /\ InOrder(back[q])
  BY DEF Ordered
<1>3. CASE front[p] # <<>>
  <2>1. NextOf(p) = Head(front[p]) /\ front' = [front EXCEPT ![p] = Tail(@)] /\ back' = back
    BY <1>3 DEF NextOf, Pop
  <2>2. /\ Contents(front[p]) = Contents(Tail(front[p])) \cup {NextOf(p)}
        /\ InOrder(Tail(front[p]))
    BY <1>1, <1>2, <1>3, <2>1, PoppedRest, OrderedTail
  <2> QED
    BY <1>1, <1>2, <2>1, <2>2 DEF Pending
<1>4. CASE front[p] = <<>>
  <2>0. back[p] # <<>>
    BY <1>4 DEF Waiting
  <2>1. NextOf(p) = Head(back[p]) /\ back' = [back EXCEPT ![p] = Tail(@)] /\ front' = front
    BY <1>4 DEF NextOf, Pop
  <2>2. /\ Contents(back[p]) = Contents(Tail(back[p])) \cup {NextOf(p)}
        /\ InOrder(Tail(back[p]))
    BY <1>1, <1>2, <2>0, <2>1, PoppedRest, OrderedTail
  <2> QED
    BY <1>1, <1>2, <2>1, <2>2 DEF Pending
<1> QED
  BY <1>3, <1>4

\* The queues are empty at first, and nothing is sorted.
LEMMA OrderedInit == Init => Ordered /\ Considered
<1> SUFFICES ASSUME Init PROVE Ordered /\ Considered
  OBVIOUS
<1>1. Contents(<<>>) = {} /\ InOrder(<<>>)
  BY DEF Contents, InOrder
<1>2. \A x \in Expanded(meta) : MetaOf(x).project \in Projects
  BY TypedInit, ItemNumbers DEF Typed, TypeOK
<1>3. \A x, y \in Expanded(meta) : Senior(x, y) => MetaOf(x).project = MetaOf(y).project
  BY DEF Senior
<1> QED
  BY <1>1, <1>2, <1>3 DEF Init, Ordered, Considered, Pending

\* The sort of a project takes the items in the order of their keys and demotions.
LEMMA SortOrdered ==
  ASSUME Typed, Queued, Ordered, Considered, NEW p \in Projects, Sort(p)
  PROVE  (Ordered /\ Considered)'
<1>1. /\ UNCHANGED <<step, meta, quota, verdict, item>> /\ step = "sort"
  BY DEF Sort, inputs, cursor
<1>2. PICK x \in unsorted[p] :
        /\ UserFirst(p, x)
        /\ unsorted' = [unsorted EXCEPT ![p] = @ \ {x}]
        /\ \/ Demoted(x) /\ back' = [back EXCEPT ![p] = Append(@, x)] /\ UNCHANGED front
           \/ ~Demoted(x) /\ front' = [front EXCEPT ![p] = Append(@, x)] /\ UNCHANGED back
  BY DEF Sort, ProjectFirst
<1>3. /\ x \in Expanded(meta) /\ unsorted \in [Projects -> SUBSET Expanded(meta)]
      /\ front \in [Projects -> Seq(Expanded(meta))] /\ back \in [Projects -> Seq(Expanded(meta))]
      /\ front[p] \in Seq(Expanded(meta)) /\ back[p] \in Seq(Expanded(meta))
      /\ Partial(meta, Jobs, IsMetadata)
      /\ \A q \in Projects : unsorted[q] \subseteq Expanded(meta)
  BY <1>2 DEF Typed, TypeOK
<1>4. /\ \A a, b : Senior(a, b)' = Senior(a, b)
      /\ Expanded(meta)' = Expanded(meta) /\ \A a : MetaOf(a)' = MetaOf(a)
      /\ \A a : Demoted(a)' = Demoted(a)
  BY <1>1, SeniorStays DEF Demoted, TooLarge, Demand, Wants, MetaOf
<1>5. \A y \in unsorted[p] : ~Senior(y, x)
  <2> SUFFICES ASSUME NEW y \in unsorted[p], Senior(y, x) PROVE FALSE
    OBVIOUS
  <2>1. y \in Expanded(meta)
    BY <1>3
  <2>2. y = x \/ LexLess(Key(x), Key(y))
    BY <1>2 DEF UserFirst, Senior
  <2>3. LexLess(Key(y), Key(x))
    BY DEF Senior
  <2>4. LexLess(Key(x), Key(y))
    BY <2>2, <2>3
  <2> HIDE DEF Senior
  <2> QED
    BY <1>3, <2>1, <2>3, <2>4, SeniorAsymmetric
<1>6. \A y \in Contents(front[p]) \cup Contents(back[p]) : ~Senior(x, y)
  <2> SUFFICES ASSUME NEW y \in Contents(front[p]) \cup Contents(back[p]), Senior(x, y)
               PROVE  FALSE
    OBVIOUS
  <2>1. y \in Expanded(meta) /\ y \notin unsorted[p]
    BY DEF Queued, Pending
  <2> QED
    BY <1>2, <2>1 DEF Ordered
<1>7. ASSUME NEW f \in {front[p], back[p]}
      PROVE  /\ InOrder(Append(f, x)) /\ Contents(Append(f, x)) = Contents(f) \cup {x}
  <2>1. f \in Seq(Expanded(meta)) /\ InOrder(f) /\ \A y \in Contents(f) : ~Senior(x, y)
    BY <1>3, <1>6 DEF Ordered
  <2> QED
    BY <1>2, <1>3, <1>5, <2>1, OrderedAppend, Appended
<1>8. ASSUME NEW q \in Projects
      PROVE  /\ InOrder(front'[q]) /\ InOrder(back'[q])
             /\ \A a \in Contents(front'[q]) : ~Demoted(a)
             /\ \A a \in Contents(back'[q]) : Demoted(a)
             /\ \A a \in unsorted'[q], b \in Expanded(meta) : Senior(a, b) => b \in unsorted'[q]
             /\ unsorted'[q] \cup Contents(front'[q]) \cup Contents(back'[q]) = Pending(q)
  <2>1. CASE q # p
    BY <1>2, <1>3, <2>1 DEF Ordered, Pending
  <2>2. CASE q = p
    <3>1. unsorted'[p] = unsorted[p] \ {x}
      BY <1>2, <1>3
    <3>2. \A a \in unsorted'[p], b \in Expanded(meta) : Senior(a, b) => b \in unsorted'[p]
      BY <1>5, <3>1 DEF Ordered
    <3>3. CASE Demoted(x) /\ back' = [back EXCEPT ![p] = Append(@, x)] /\ UNCHANGED front
      <4>1. front'[p] = front[p] /\ back'[p] = Append(back[p], x)
        BY <1>3, <3>3
      <4> QED
        BY <1>2, <1>7, <2>2, <3>1, <3>2, <3>3, <4>1 DEF Ordered, Pending
    <3>4. CASE ~Demoted(x) /\ front' = [front EXCEPT ![p] = Append(@, x)] /\ UNCHANGED back
      <4>1. front'[p] = Append(front[p], x) /\ back'[p] = back[p]
        BY <1>3, <3>4
      <4> QED
        BY <1>2, <1>7, <2>2, <3>1, <3>2, <3>4, <4>1 DEF Ordered, Pending
    <3> QED
      BY <1>2, <3>3, <3>4
  <2> QED
    BY <2>1, <2>2
<1>9. \A q \in Projects : /\ InOrder(front[q])' = InOrder(front'[q])
                          /\ InOrder(back[q])' = InOrder(back'[q])
  BY <1>4 DEF InOrder
<1>10. Ordered'
  BY <1>1, <1>4, <1>8, <1>9 DEF Ordered
<1>11. \A q \in Projects : Pending(q)' = Pending(q)
  BY <1>8 DEF Pending
<1>12. \A a \in Expanded(meta) : MetaOf(a).project \in Projects
  BY <1>3, ItemNumbers
<1>13. Considered'
  BY <1>1, <1>4, <1>11, <1>12 DEF Considered
<1> QED
  BY <1>10, <1>13

\* Every step keeps the queues sorted and every item without a verdict in one of them.
LEMMA OrderedNext ==
  Typed /\ Queued /\ Ordered /\ Considered /\ [Next]_vars => (Ordered /\ Considered)'
<1> SUFFICES ASSUME Typed, Queued, Ordered, Considered, [Next]_vars PROVE (Ordered /\ Considered)'
  OBVIOUS
<1>0. TypeOK /\ Partial(meta, Jobs, IsMetadata)
  BY DEF Typed, TypeOK
<1>1. \A a \in Expanded(meta) : MetaOf(a).project \in Projects
  BY <1>0, ItemNumbers
\* The queues change only in that an item leaves one, and the item has a verdict or is
\* being admitted.
<1>2. ASSUME UNCHANGED <<meta, quota, unsorted>>, step' # "sort",
             step # "sort" \/ \A q \in Projects : unsorted[q] = {},
             NEW leaver,
             \A q \in Projects :
               /\ InOrder(front'[q]) /\ InOrder(back'[q])
               /\ Contents(front'[q]) \subseteq Contents(front[q])
               /\ Contents(back'[q]) \subseteq Contents(back[q])
               /\ Pending(q) \subseteq Pending(q)' \cup {leaver},
             \A a \in Expanded(meta) : verdict'[a] = "none" =>
               /\ verdict[a] = "none"
               /\ a = leaver \/ (step \in {"forward", "backward"} /\ a = item) =>
                    a \in Pending(MetaOf(a).project)' \/ (step' \in {"forward", "backward"} /\ a = item')
      PROVE  (Ordered /\ Considered)'
  <2>1. /\ \A a, b : Senior(a, b)' = Senior(a, b)
        /\ Expanded(meta)' = Expanded(meta) /\ \A a : MetaOf(a)' = MetaOf(a)
        /\ \A a : Demoted(a)' = Demoted(a)
    BY <1>2, SeniorStays DEF Demoted, TooLarge, Demand, Wants, MetaOf
  <2>2. \A q \in Projects : /\ InOrder(front[q])' = InOrder(front'[q])
                            /\ InOrder(back[q])' = InOrder(back'[q])
    BY <2>1 DEF InOrder
  <2>3. Ordered'
    BY <1>2, <2>1, <2>2 DEF Ordered
  <2>4. Considered'
    BY <1>1, <1>2, <2>1 DEF Considered
  <2> QED
    BY <2>3, <2>4
<1>3. ASSUME NEW p \in Projects, Sort(p) PROVE (Ordered /\ Considered)'
  BY <1>3, SortOrdered
<1>4. ASSUME NEW p \in Projects, RejectSlot(p) \/ RejectOver(p) \/ Admit(p)
      PROVE  (Ordered /\ Considered)'
  <2>1. /\ p \in Waiting /\ Pop(p) /\ step = "pick" /\ step' # "sort"
        /\ UNCHANGED <<meta, quota, unsorted>>
    BY <1>4 DEF RejectSlot, RejectOver, Admit, Turn, inputs, order
  <2>2. NextOf(p) \in Expanded(meta)
    BY <1>0, <2>1, PopType
  <2>3. \A a \in Expanded(meta) : verdict'[a] = "none" =>
          /\ verdict[a] = "none"
          /\ a = NextOf(p) => step' \in {"forward", "backward"} /\ a = item'
    BY <1>0, <1>4, <2>2 DEF RejectSlot, RejectOver, Admit, TypeOK
  <2>4. \A q \in Projects :
               /\ InOrder(front'[q]) /\ InOrder(back'[q])
               /\ Contents(front'[q]) \subseteq Contents(front[q])
               /\ Contents(back'[q]) \subseteq Contents(back[q])
               /\ Pending(q) \subseteq Pending(q)' \cup {NextOf(p)}
    BY <1>0, <2>1, PopOrdered
  <2> QED
    BY <1>2, <2>1, <2>3, <2>4
<1>5. ASSUME UNCHANGED <<meta, quota, unsorted, front, back, item>>, step' # "sort",
             step # "sort" \/ \A q \in Projects : unsorted[q] = {},
             \A a \in Expanded(meta) : verdict'[a] = "none" =>
               /\ verdict[a] = "none"
               /\ step \in {"forward", "backward"} /\ a = item => step' \in {"forward", "backward"}
      PROVE  (Ordered /\ Considered)'
  <2>1. \A q \in Projects : InOrder(front[q]) /\ InOrder(back[q])
    BY DEF Ordered
  <2>2. \A q \in Projects : Pending(q)' = Pending(q)
    BY <1>5 DEF Pending
  <2>3. \A a \in Expanded(meta) : verdict'[a] = "none" =>
          a \in Pending(MetaOf(a).project)' \/ (step' \in {"forward", "backward"} /\ a = item')
    <3> SUFFICES ASSUME NEW a \in Expanded(meta), verdict'[a] = "none"
                 PROVE  a \in Pending(MetaOf(a).project)'
                          \/ (step' \in {"forward", "backward"} /\ a = item')
      OBVIOUS
    <3>1. MetaOf(a)' = MetaOf(a) /\ MetaOf(a).project \in Projects
      BY <1>1, <1>5, SeniorStays
    <3>2. Pending(MetaOf(a).project)' = Pending(MetaOf(a).project)
      <4>1. (Pending(MetaOf(a).project))' =
              unsorted[MetaOf(a).project] \cup Contents(front[MetaOf(a).project])
                \cup Contents(back[MetaOf(a).project])
        BY <1>5, <3>1 DEF Pending, Contents
      <4> QED
        BY <4>1 DEF Pending
    <3>3. /\ verdict[a] = "none"
          /\ step \in {"forward", "backward"} /\ a = item => step' \in {"forward", "backward"}
      BY <1>5
    <3>4. a \in Pending(MetaOf(a).project) \/ (step \in {"forward", "backward"} /\ a = item)
      BY <3>3 DEF Considered
    <3> QED
      BY <1>5, <3>2, <3>3, <3>4
  <2> QED
    BY <1>2, <1>5, <2>1, <2>2, <2>3
<1>6. CASE Forward
  BY <1>5, <1>6 DEF Forward, inputs, order, queues
<1>7. CASE Backward
  <2>1. /\ UNCHANGED <<meta, quota, unsorted, front, back, item>> /\ step = "backward"
        /\ step' # "sort"
    BY <1>7 DEF Backward, inputs, order, queues
  <2>2. \A a \in Expanded(meta) : verdict'[a] = "none" =>
               /\ verdict[a] = "none"
               /\ a = item => step' = "backward"
    BY <1>0, <1>7 DEF Backward, TypeOK
  <2> QED
    BY <1>5, <2>1, <2>2
<1>8. CASE Sorted \/ Collapse
  BY <1>5, <1>8 DEF Sorted, Collapse, inputs, order, queues, cursor
<1>9. CASE UNCHANGED vars
  <2>1. UNCHANGED <<meta, quota, unsorted, front, back, item, verdict, step>>
    BY <1>9 DEF vars, inputs, order, queues, cursor
  <2>2. /\ \A a, b : Senior(a, b)' = Senior(a, b)
        /\ Expanded(meta)' = Expanded(meta) /\ \A a : MetaOf(a)' = MetaOf(a)
        /\ \A a : Demoted(a)' = Demoted(a)
    BY <2>1, SeniorStays DEF Demoted, TooLarge, Demand, Wants, MetaOf
  <2> QED
    BY <2>1, <2>2 DEF Ordered, Considered, InOrder, Pending
<1> QED
  BY <1>3, <1>4, <1>6, <1>7, <1>8, <1>9 DEF Next

\* When an item's turn comes, what goes before it has been considered.
LEMMA ConsideredBefore ==
  ASSUME TypeOK, Queued, Ordered, Considered, step = "pick",
         NEW p \in Projects, p \in Waiting, NEW x \in Expanded(meta),
         Senior(x, NextOf(p)), Demoted(x) => Demoted(NextOf(p))
  PROVE  verdict[x] # "none"
<1> SUFFICES ASSUME verdict[x] = "none" PROVE FALSE
  OBVIOUS
<1>1. /\ front[p] \in Seq(Expanded(meta)) /\ back[p] \in Seq(Expanded(meta))
      /\ InOrder(front[p]) /\ InOrder(back[p]) /\ unsorted[p] = {}
      /\ \A a \in Contents(front[p]) : ~Demoted(a)
      /\ \A a \in Contents(back[p]) : Demoted(a)
  BY DEF TypeOK, Ordered
<1>2. NextOf(p) \in Pending(p)
  BY <1>1, Popped DEF NextOf, Waiting, Pending
<1>3. MetaOf(x).project = p
  BY <1>2 DEF Queued, Senior
<1>4. x \in Contents(front[p]) \cup Contents(back[p])
  BY <1>1, <1>3 DEF Considered, Pending
<1>5. CASE front[p] # <<>>
  <2>1. NextOf(p) = Head(front[p]) /\ NextOf(p) \in Contents(front[p])
    BY <1>1, <1>5, Popped DEF NextOf
  <2>2. x \in Contents(front[p])
    BY <1>1, <1>4, <2>1
  <2> QED
    BY <1>1, <1>5, <2>1, <2>2, OrderedTail
<1>6. CASE front[p] = <<>>
  <2>1. NextOf(p) = Head(back[p]) /\ back[p] # <<>> /\ Contents(front[p]) = {}
    BY <1>6 DEF NextOf, Waiting, Contents
  <2>2. x \in Contents(back[p])
    BY <1>4, <2>1
  <2> QED
    BY <1>1, <2>1, <2>2, OrderedTail
<1> QED
  BY <1>5, <1>6

----------------------------------------------------------------------------
(* What a step does to the verdicts. *)

\* The item being admitted.
InHand(x) == step \in {"forward", "backward"} /\ x = item

\* A verdict is final, and comes from the action that is named for it; what remains
\* only shrinks.
LEMMA Verdicts ==
  ASSUME Typed, Queued, [Next]_vars
  PROVE  /\ UNCHANGED <<meta, quota, dryRun>>
         /\ \A r \in Resources : remaining'[r] <= remaining[r]
         /\ \A x : InHand(x)' => InHand(x) \/ \E p \in Projects : Admit(p) /\ x = NextOf(p)
         /\ \A x \in Expanded(meta) : verdict'[x] # verdict[x] =>
              /\ verdict[x] = "none"
              /\ \/ verdict'[x] = "run" /\ InHand(x) /\ ~InHand(x)'
                 \/ verdict'[x] = "over" /\ \E p \in Projects : RejectOver(p) /\ x = NextOf(p)
                 \/ verdict'[x] = "unmet" /\ \E p \in Projects : RejectSlot(p) /\ x = NextOf(p)
<1>1. /\ remaining \in Amounts /\ verdict \in [Expanded(meta) -> {"none", "over", "unmet", "run"}]
  BY DEF Typed, TypeOK
<1>2. \A r \in Resources : remaining[r] <= remaining[r]
  BY <1>1 DEF Amounts
<1>3. ASSUME NEW p \in Projects, Sort(p)
      PROVE  UNCHANGED <<meta, quota, dryRun, remaining, verdict, step, item>>
  BY <1>3 DEF Sort, inputs, limits, cursor
<1>4. ASSUME NEW p \in Projects, RejectSlot(p) \/ RejectOver(p)
      PROVE  /\ UNCHANGED <<meta, quota, dryRun, remaining>> /\ step' = "pick"
             /\ NextOf(p) \in Expanded(meta) /\ verdict[NextOf(p)] = "none"
             /\ \/ RejectOver(p) /\ verdict' = [verdict EXCEPT ![NextOf(p)] = "over"]
                \/ RejectSlot(p) /\ verdict' = [verdict EXCEPT ![NextOf(p)] = "unmet"]
  <2>1. /\ p \in Waiting /\ Pop(p) /\ step = "pick"
        /\ UNCHANGED <<step, meta, quota, dryRun, remaining, unsorted>>
    BY <1>4 DEF RejectSlot, RejectOver, Turn, inputs, order, limits
  <2>2. NextOf(p) \in Expanded(meta) /\ verdict[NextOf(p)] = "none"
    BY <2>1, PopOnce DEF Typed
  <2> QED
    BY <1>4, <2>1, <2>2 DEF RejectSlot, RejectOver
<1>5. ASSUME NEW p \in Projects, Admit(p)
      PROVE  UNCHANGED <<meta, quota, dryRun, remaining, verdict>> /\ item' = NextOf(p)
  BY <1>5 DEF Admit, inputs, limits
<1>6. CASE Forward
  <2>1. UNCHANGED <<meta, quota, dryRun, remaining, verdict, item>> /\ step = "forward"
    BY <1>6 DEF Forward, inputs, limits
  <2> QED
    BY <1>2, <2>1 DEF InHand
<1>7. CASE Backward
  <2>1. /\ UNCHANGED <<meta, quota, dryRun, item>> /\ step = "backward"
        /\ remaining' = [r \in Resources |-> remaining[r] - Take(r)]
        /\ \/ verdict' = [verdict EXCEPT ![item] = "run"] /\ step' = "pick"
           \/ verdict' = verdict
    BY <1>7 DEF Backward, inputs
  <2>2. ASSUME NEW r \in Resources PROVE remaining'[r] <= remaining[r]
    <3>1. Take(r) \in Nat /\ remaining[r] \in Nat /\ remaining'[r] = remaining[r] - Take(r)
      BY <1>1, <2>1, Taken DEF Amounts
    <3> QED
      BY <3>1
  <2>3. verdict[item] = "none" /\ item \in Expanded(meta)
    BY <2>1 DEF Queued, Typed, ItemKnown
  <2> QED
    BY <1>1, <2>1, <2>2, <2>3 DEF InHand
<1>8. CASE Sorted \/ Collapse
  <2>1. UNCHANGED <<meta, quota, dryRun, remaining, verdict, item>> /\ step' \notin {"forward", "backward"}
    BY <1>8 DEF Sorted, Collapse, inputs, limits, cursor
  <2> QED
    BY <1>2, <2>1 DEF InHand
<1>9. CASE UNCHANGED vars
  <2>1. UNCHANGED <<meta, quota, dryRun, remaining, verdict, item, step>>
    BY <1>9 DEF vars, inputs, limits, cursor
  <2> QED
    BY <1>2, <2>1 DEF InHand
<1>10. CASE \E p \in Projects : Sort(p)
  BY <1>2, <1>3, <1>10 DEF InHand
<1>11. CASE \E p \in Projects : RejectSlot(p) \/ RejectOver(p)
  <2>1. PICK p \in Projects : RejectSlot(p) \/ RejectOver(p)
    BY <1>11
  <2>2. \A x : ~InHand(x)'
    BY <1>4, <2>1 DEF InHand
  <2> QED
    BY <1>1, <1>2, <1>4, <2>1, <2>2
<1>12. CASE \E p \in Projects : Admit(p)
  BY <1>2, <1>5, <1>12 DEF InHand
<1> QED
  BY <1>6, <1>7, <1>8, <1>9, <1>10, <1>11, <1>12 DEF Next

----------------------------------------------------------------------------
(* Jobs and their slots. *)

\* No slot runs, or is being admitted, unless its job runs.
ParentRuns ==
  \A x \in Expanded(meta) : IsSlot(x) /\ (verdict[x] = "run" \/ InHand(x)) => verdict[Parent(x)] = "run"

Scheduled == Typed /\ Queued /\ Ordered /\ Considered

\* What the proofs about the order rest on is an inductive invariant.
LEMMA ScheduledInvariant ==
  /\ Init => Scheduled
  /\ Scheduled /\ [Next]_vars => Scheduled'
BY TypedInit, QueuedInit, OrderedInit, TypedNext, QueuedNext, OrderedNext DEF Scheduled

\* No slot is admitted at first.
LEMMA ParentRunsInit == Init => ParentRuns
BY DEF Init, ParentRuns, InHand

\* A slot is considered after its job, and dropped when the job was not admitted.
LEMMA ParentRunsNext == Scheduled /\ ParentRuns /\ [Next]_vars => ParentRuns'
<1> SUFFICES ASSUME Scheduled, ParentRuns, [Next]_vars PROVE ParentRuns'
  OBVIOUS
<1>1. UNCHANGED meta /\ Expanded(meta)' = Expanded(meta) /\ Partial(meta, Jobs, IsMetadata)
  BY Verdicts, SeniorStays DEF Scheduled, Typed, TypeOK
<1> SUFFICES ASSUME NEW x \in Expanded(meta), IsSlot(x), verdict'[x] = "run" \/ InHand(x)'
             PROVE  verdict'[Parent(x)] = "run"
  BY <1>1 DEF ParentRuns, IsSlot, Parent, Base
<1>2. Parent(x) \in Expanded(meta) /\ Parent(x) # x
  BY <1>1, ParentSenior
<1>3. verdict[Parent(x)] = "run"
  <2>1. CASE verdict[x] = "run" \/ InHand(x)
    BY <2>1 DEF ParentRuns
  <2>2. CASE \E p \in Projects : Admit(p) /\ x = NextOf(p)
    BY <2>2 DEF Admit, Gate
  <2> QED
    BY <2>1, <2>2, Verdicts DEF Scheduled
<1> QED
  BY <1>2, <1>3, Verdicts DEF Scheduled

\* When a slot's turn comes, its job has been considered, so the RuntimeError of
\* _check_parent_dependency is never raised; and no slot runs unless its job does.
THEOREM ParentsFirst == Spec => []ParentFirst
<1>1. Init => Scheduled /\ ParentRuns
  BY ScheduledInvariant, ParentRunsInit
<1>2. Scheduled /\ ParentRuns /\ [Next]_vars => (Scheduled /\ ParentRuns)'
  BY ScheduledInvariant, ParentRunsNext
<1>3. Scheduled /\ ParentRuns => ParentFirst
  <2> SUFFICES ASSUME Scheduled, ParentRuns PROVE ParentFirst
    OBVIOUS
  <2>1. ASSUME step = "pick", NEW p \in Waiting, IsSlot(NextOf(p))
        PROVE  verdict[Parent(NextOf(p))] # "none"
    <3>1. p \in Projects /\ NextOf(p) \in Expanded(meta) /\ Partial(meta, Jobs, IsMetadata)
      <4>1. p \in Projects /\ (front[p] # <<>> \/ back[p] # <<>>)
        BY DEF Waiting
      <4>2. front[p] \in Seq(Expanded(meta)) /\ back[p] \in Seq(Expanded(meta))
        BY <4>1 DEF Scheduled, Typed, TypeOK
      <4> QED
        BY <4>1, <4>2, Popped DEF NextOf, Scheduled, Typed, TypeOK
    <3>2. /\ Parent(NextOf(p)) \in Expanded(meta) /\ Senior(Parent(NextOf(p)), NextOf(p))
          /\ Demoted(Parent(NextOf(p))) => Demoted(NextOf(p))
      BY <2>1, <3>1, ParentSenior
    <3> QED
      BY <2>1, <3>1, <3>2, ConsideredBefore DEF Scheduled, Typed
  <2> QED
    BY <2>1 DEF ParentFirst, ParentRuns
<1> QED
  BY <1>1, <1>2, <1>3, PTL DEF Spec

----------------------------------------------------------------------------
(* Jobs of one user. *)

\* Nothing is refused that would still fit, and only slots for want of their job.
Answers ==
  \A x \in Expanded(meta) :
    /\ verdict[x] = "over" => ~Fits(x)
    /\ verdict[x] = "unmet" => IsSlot(x)

\* A step turns an item down only when it does not fit any more, or is a slot without its job.
LEMMA AnswersNext == Scheduled /\ Answers /\ [Next]_vars => Answers'
<1> SUFFICES ASSUME Scheduled, Answers, [Next]_vars PROVE Answers'
  OBVIOUS
<1>0. UNCHANGED meta
  BY Verdicts DEF Scheduled
<1> SUFFICES ASSUME NEW x \in Expanded(meta)
             PROVE  (verdict'[x] = "over" => ~Fits(x)') /\ (verdict'[x] = "unmet" => IsSlot(x))
  BY <1>0, SeniorStays DEF Answers, IsSlot
<1>1. /\ UNCHANGED meta /\ \A r \in Resources : remaining'[r] <= remaining[r]
      /\ remaining \in Amounts /\ remaining' \in Amounts /\ Demand(x) \in Amounts
      /\ Demand(x)' = Demand(x)
  <2>1. UNCHANGED meta
    BY Verdicts DEF Scheduled
  <2>2. Demand(x) \in Amounts
    BY Wanted DEF Scheduled, Typed, TypeOK
  <2>3. remaining' \in Amounts
    BY TypedNext DEF Scheduled, Typed, TypeOK
  <2> QED
    BY <2>1, <2>2, <2>3, Verdicts DEF Demand, Wants, MetaOf, Scheduled, Typed, TypeOK
<1>2. ~Fits(x) => ~Fits(x)'
  BY <1>1 DEF Fits, Amounts
<1>3. CASE verdict'[x] = verdict[x]
  BY <1>2, <1>3 DEF Answers
<1>4. CASE verdict'[x] # verdict[x]
  <2>1. /\ verdict'[x] = "over" => ~Fits(x)
        /\ verdict'[x] = "unmet" => IsSlot(x)
    BY <1>4, Verdicts DEF Scheduled, RejectOver, RejectSlot
  <2> QED
    BY <1>2, <2>1
<1> QED
  BY <1>3, <1>4

\* j is ahead of k in the queue of their user and asks for no more.
Outranks(j, k) ==
  /\ meta[j].project = meta[k].project /\ meta[j].user = meta[k].user
  /\ \/ meta[j].priority < meta[k].priority
     \/ meta[j].priority = meta[k].priority /\ meta[j].created < meta[k].created
  /\ \A r \in Resources : Demand(Base(j))[r] <= Demand(Base(k))[r]

\* A job is not admitted, nor being admitted, while one that outranks it is not.
SeniorFirst ==
  \A j, k \in DOMAIN meta :
    Outranks(j, k) /\ (verdict[Base(k)] = "run" \/ InHand(Base(k))) => verdict[Base(j)] = "run"

\* The base item of a job in the call is an item of the call with the metadata of the job.
LEMMA BaseKnown ==
  ASSUME Partial(meta, Jobs, IsMetadata), NEW j \in DOMAIN meta
  PROVE  Base(j) \in Expanded(meta) /\ ~IsSlot(Base(j)) /\ MetaOf(Base(j)) = meta[j]
<1>1. j \in Jobs /\ Base(j)[1] = j /\ Base(j)[2] = 0
  BY DEF Partial, Base
<1>2. Base(j) \in Items
  BY <1>1, SchedulerAssumption DEF Base, Items, SchedulerAssumption
<1> QED
  BY <1>1, <1>2 DEF Expanded, IsSlot, MetaOf

\* A job that outranks another is sorted before it, and fits whenever the other does.
LEMMA AheadSenior ==
  ASSUME TypeOK, NEW j \in DOMAIN meta, NEW k \in DOMAIN meta, Outranks(j, k)
  PROVE  /\ Senior(Base(j), Base(k))
         /\ Demoted(Base(j)) => Demoted(Base(k))
         /\ Fits(Base(k)) => Fits(Base(j))
<1> DEFINE a == Key(Base(j))
           b == Key(Base(k))
<1>0. Partial(meta, Jobs, IsMetadata) /\ quota \in Quota
  BY SchedulerAssumption DEF TypeOK, SchedulerAssumption
<1>1. /\ Base(j) \in Expanded(meta) /\ ~IsSlot(Base(j)) /\ MetaOf(Base(j)) = meta[j]
      /\ Base(k) \in Expanded(meta) /\ ~IsSlot(Base(k)) /\ MetaOf(Base(k)) = meta[k]
  BY <1>0, BaseKnown
<1>2. /\ a[1] = meta[j].priority /\ a[2] = meta[j].created
      /\ b[1] = meta[k].priority /\ b[2] = meta[k].created /\ DOMAIN a = 1..5
  BY <1>1 DEF Key
<1>3. LexLess(a, b)
  <2>0. meta[j].priority \in Nat /\ meta[k].priority \in Nat
    BY <1>0, <1>1, ItemNumbers
  <2> HIDE DEF a, b
  <2>1. CASE a[1] < b[1]
    <3>1. 1 \in DOMAIN a /\ \A i \in DOMAIN a : ~(i < 1)
      BY <1>2
    <3> QED
      BY <2>1, <3>1 DEF LexLess
  <2>2. CASE a[1] = b[1] /\ a[2] < b[2]
    <3>1. 2 \in DOMAIN a /\ \A i \in DOMAIN a : i < 2 => i = 1
      BY <1>2
    <3> QED
      BY <2>2, <3>1 DEF LexLess
  <2> QED
    BY <1>2, <2>1, <2>2 DEF Outranks
<1>4. Senior(Base(j), Base(k))
  BY <1>1, <1>3 DEF Senior, Outranks
<1>5. /\ Demand(Base(j)) \in Amounts /\ Demand(Base(k)) \in Amounts
      /\ \A r \in Resources : Demand(Base(j))[r] <= Demand(Base(k))[r]
  BY <1>0, <1>1, Wanted DEF Outranks
<1>6. TooLarge(Base(j)) => TooLarge(Base(k))
  <2>1. \A r \in Resources : quota.upto[LastTier][r] \in Nat
    BY <1>0, TierNumbers DEF Quota, Amounts
  <2> QED
    BY <1>5, <2>1 DEF TooLarge, Amounts
<1>7. Fits(Base(k)) => Fits(Base(j))
  <2>1. remaining \in Amounts
    BY DEF TypeOK
  <2> QED
    BY <1>5, <2>1 DEF Fits, Amounts
<1> QED
  BY <1>1, <1>4, <1>6, <1>7 DEF Demoted

\* No step admits a job while one that outranks it waits or was turned down.
LEMMA SeniorFirstNext == Scheduled /\ Answers /\ SeniorFirst /\ [Next]_vars => SeniorFirst'
<1> SUFFICES ASSUME Scheduled, Answers, SeniorFirst, [Next]_vars PROVE SeniorFirst'
  OBVIOUS
<1>0. TypeOK /\ Partial(meta, Jobs, IsMetadata)
  BY DEF Scheduled, Typed, TypeOK
<1>1. UNCHANGED meta /\ \A j, k : Outranks(j, k)' = Outranks(j, k)
  BY Verdicts DEF Scheduled, Outranks, Demand, Wants, MetaOf
<1> SUFFICES ASSUME NEW j \in DOMAIN meta, NEW k \in DOMAIN meta, Outranks(j, k),
                    verdict'[Base(k)] = "run" \/ InHand(Base(k))'
             PROVE  verdict'[Base(j)] = "run"
  BY <1>1 DEF SeniorFirst, Base
<1>2. /\ Base(j) \in Expanded(meta) /\ ~IsSlot(Base(j)) /\ Base(k) \in Expanded(meta)
  BY <1>0, BaseKnown
<1>3. verdict[Base(j)] = "run"
  <2>1. CASE verdict[Base(k)] = "run" \/ InHand(Base(k))
    BY <2>1 DEF SeniorFirst
  <2>2. CASE \E p \in Projects : Admit(p) /\ Base(k) = NextOf(p)
    <3>1. PICK p \in Projects : Admit(p) /\ Base(k) = NextOf(p)
      BY <2>2
    <3>2. step = "pick" /\ p \in Waiting /\ Fits(Base(k))
      BY <3>1 DEF Admit, Turn
    <3>3. /\ Senior(Base(j), NextOf(p)) /\ Fits(Base(j))
          /\ Demoted(Base(j)) => Demoted(NextOf(p))
      BY <1>0, <3>1, <3>2, AheadSenior
    <3>4. verdict[Base(j)] # "none"
      BY <1>2, <3>2, <3>3, ConsideredBefore DEF Scheduled, Typed
    <3> QED
      BY <1>0, <1>2, <3>3, <3>4 DEF Answers, TypeOK
  <2> QED
    BY <1>2, <2>1, <2>2, Verdicts DEF Scheduled
<1> QED
  BY <1>2, <1>3, Verdicts DEF Scheduled

\* A user's job is not refused when one that is behind it, of lower priority or
\* younger, and that asks for as much is admitted: the queue keeps the sorter's order,
\* oversized jobs go last, and what remains only shrinks (ProjectJobSorter.sort,
\* _demote_unschedulable_jobs, TierScheduler.schedule).
THEOREM SeniorsFirst == Spec => []Seniority
<1> DEFINE IInv == Scheduled /\ Answers /\ SeniorFirst
<1>1. Init => IInv
  <2> SUFFICES ASSUME Init PROVE IInv
    OBVIOUS
  <2>1. Scheduled
    BY ScheduledInvariant
  <2>2. /\ step = "sort" /\ \A x \in Expanded(meta) : verdict[x] = "none"
    BY DEF Init
  <2>3. \A j \in DOMAIN meta : Base(j) \in Expanded(meta)
    BY <2>1, BaseKnown DEF Scheduled, Typed, TypeOK
  <2> QED
    BY <2>1, <2>2, <2>3 DEF Answers, SeniorFirst, InHand
<1>2. IInv /\ [Next]_vars => IInv'
  BY ScheduledInvariant, AnswersNext, SeniorFirstNext
<1>3. IInv => Seniority
  BY DEF Seniority, SeniorFirst, Outranks
<1> QED
  BY <1>1, <1>2, <1>3, PTL DEF Spec
=============================================================================
