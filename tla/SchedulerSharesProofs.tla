---------------------- MODULE SchedulerSharesProofs ----------------------
(***************************************************************************)
(* What a call of the scheduler guarantees a project, and what it charges   *)
(* it, for any jobs, projects, resources and quotas: jobs that ask for no   *)
(* more than the share of their project are all admitted, and a project is  *)
(* charged for exactly what its running jobs are told to have.  Both are    *)
(* about sums over sets of jobs and of projects, whose rules come first.    *)
(* At the end: what is refused does not fit, a call is never stuck, and     *)
(* every step brings it nearer to its end.                                  *)
(***************************************************************************)
EXTENDS SchedulerProofs, FiniteSetTheorems

----------------------------------------------------------------------------
(* Induction over a set. *)

\* What holds of 0, and of n + 1 when it holds of n, holds of every number.
LEMMA EveryNumber ==
  ASSUME NEW G, 0 \in G, \A n \in Nat : n \in G => n + 1 \in G
  PROVE  Nat \subseteq G
<1> DEFINE B == Nat \ G
<1> SUFFICES ASSUME B # {} PROVE FALSE
  OBVIOUS
<1>1. PICK n \in B : \A x \in B : ~(x < n)
  <2>0. B \subseteq Nat
    OBVIOUS
  <2> HIDE DEF B
  <2>1. PICK n \in B : \A x \in B : <<x, n>> \notin OpToRel(<, Nat)
    BY <2>0, WFMin, NatLessThanWellFounded, Zenon
  <2>2. \A x, y \in Nat : x < y => <<x, y>> \in OpToRel(<, Nat)
    BY Zenon DEF OpToRel
  <2> QED
    BY <2>0, <2>1, <2>2, Zenon
<1>2. n \in Nat /\ n # 0 /\ n \notin G
  BY <1>1
<1>3. n - 1 \in Nat /\ n - 1 < n /\ (n - 1) + 1 = n
  BY <1>2
<1>4. n - 1 \in G
  BY <1>1, <1>3
<1> QED
  BY <1>2, <1>3, <1>4

\* What holds of {}, and of T with one more element of S when it holds of T, holds of S.
LEMMA EveryFiniteSet ==
  ASSUME NEW S, IsFiniteSet(S), NEW G, {} \in G,
         \A T \in SUBSET S : \A x \in S \ T : T \in G => T \cup {x} \in G
  PROVE  S \in G
<1> DEFINE H == {n \in Nat : \A T \in SUBSET S : IsFiniteSet(T) /\ Cardinality(T) = n => T \in G}
<1>1. 0 \in H
  <2>1. \A T \in SUBSET S : IsFiniteSet(T) /\ Cardinality(T) = 0 => T = {}
    BY FS_EmptySet
  <2> QED
    BY <2>1
<1>2. ASSUME NEW n \in Nat, n \in H PROVE n + 1 \in H
  <2> SUFFICES ASSUME NEW T \in SUBSET S, IsFiniteSet(T), Cardinality(T) = n + 1 PROVE T \in G
    OBVIOUS
  <2>1. T # {}
    BY FS_EmptySet
  <2>2. PICK x \in T : TRUE
    BY <2>1
  <2>3. IsFiniteSet(T \ {x}) /\ Cardinality(T \ {x}) = Cardinality(T) - 1
    BY <2>2, FS_RemoveElement
  <2>4. T \ {x} \in G
    <3>1. Cardinality(T \ {x}) = n
      BY <2>3
    <3> QED
      BY <1>2, <2>3, <3>1
  <2>5. T = (T \ {x}) \cup {x} /\ x \in S \ (T \ {x}) /\ T \ {x} \in SUBSET S
    BY <2>2
  <2> QED
    BY <2>4, <2>5
<1>3. Nat \subseteq H
  <2> HIDE DEF H
  <2> QED
    BY <1>1, <1>2, EveryNumber
<1>4. Cardinality(S) \in Nat
  BY FS_CardinalityType
<1> QED
  BY <1>3, <1>4

----------------------------------------------------------------------------
(* Sums of the values of a function (SumFunctionOnSet of module Functions). *)

\* The element that the fold of the library takes next, and what it makes of it: g adds up
\* f at s, or at every subset of S.
Chosen(s) == CHOOSE x \in s : TRUE
Adds(g, f, s) == g[s] = IF s = {} THEN 0 ELSE f[Chosen(s)] + g[s \ {Chosen(s)}]
SumsUp(g, f, S) ==
  g = [s \in SUBSET S |-> IF s = {} THEN 0 ELSE f[Chosen(s)] + g[s \ {Chosen(s)}]]

\* S is finite and f has an integer for each of its elements.
Summable(f, S) == IsFiniteSet(S) /\ \A x \in S : f[x] \in Int

\* The fold of the library is the value at S of a function that sums up over SUBSET S.
LEMMA SumChosen ==
  ASSUME NEW f, NEW S
  PROVE  SumFunctionOnSet(f, S) = (CHOOSE g : SumsUp(g, f, S))[S]
BY DEF SumFunctionOnSet, FoldFunctionOnSet, MapThenFoldSet, SumsUp, Chosen

\* Such a function exists: it is built up one element of S at a time.
LEMMA SumExists ==
  ASSUME NEW f, NEW S, Summable(f, S)
  PROVE  \E g \in [SUBSET S -> Int] : SumsUp(g, f, S)
<1> DEFINE F(n) == {s \in SUBSET S : Cardinality(s) <= n}
           G == {n \in Nat : \E g \in [F(n) -> Int] : \A s \in F(n) : Adds(g, f, s)}
<1>0. /\ \A s \in SUBSET S : IsFiniteSet(s) /\ Cardinality(s) \in Nat
      /\ \A s \in SUBSET S : s # {} =>
           /\ Chosen(s) \in s /\ f[Chosen(s)] \in Int
           /\ s \ {Chosen(s)} \in SUBSET S /\ Cardinality(s \ {Chosen(s)}) = Cardinality(s) - 1
  <2>1. \A s \in SUBSET S : IsFiniteSet(s) /\ Cardinality(s) \in Nat
    BY FS_Subset, FS_CardinalityType DEF Summable
  <2>2. \A s \in SUBSET S : s # {} => Chosen(s) \in s
    BY DEF Chosen
  <2> QED
    BY <2>1, <2>2, FS_RemoveElement DEF Summable
<1>1. 0 \in G
  <2>1. \A s \in F(0) : s = {}
    BY <1>0, FS_EmptySet
  <2>2. [s \in F(0) |-> 0] \in [F(0) -> Int] /\ \A s \in F(0) : Adds([t \in F(0) |-> 0], f, s)
    BY <2>1 DEF Adds
  <2> QED
    BY <2>2
<1>2. ASSUME NEW n \in Nat, n \in G PROVE n + 1 \in G
  <2>1. PICK g \in [F(n) -> Int] : \A s \in F(n) : Adds(g, f, s)
    BY <1>2
  <2> DEFINE h == [s \in F(n + 1) |-> IF s = {} THEN 0 ELSE f[Chosen(s)] + g[s \ {Chosen(s)}]]
  <2>2. \A s \in F(n + 1) : s # {} => s \ {Chosen(s)} \in F(n) /\ s \ {Chosen(s)} \in F(n + 1)
    BY <1>0
  <2>3. h \in [F(n + 1) -> Int]
    BY <1>0, <2>2
  <2>4. \A s \in F(n) : s \in F(n + 1) /\ h[s] = g[s]
    BY <1>0, <2>1 DEF Adds
  <2>5. \A s \in F(n + 1) : Adds(h, f, s)
    <3> SUFFICES ASSUME NEW s \in F(n + 1) PROVE Adds(h, f, s)
      OBVIOUS
    <3>1. h[s] = IF s = {} THEN 0 ELSE f[Chosen(s)] + g[s \ {Chosen(s)}]
      OBVIOUS
    <3>2. s # {} => h[s \ {Chosen(s)}] = g[s \ {Chosen(s)}]
      BY <2>2, <2>4
    <3> HIDE DEF h
    <3> QED
      BY <3>1, <3>2 DEF Adds
  <2> HIDE DEF h, F
  <2>6. n + 1 \in Nat
    OBVIOUS
  <2>7. h \in [F(n + 1) -> Int] /\ \A s \in F(n + 1) : Adds(h, f, s)
    BY <2>3, <2>5
  <2>8. \E k \in [F(n + 1) -> Int] : \A s \in F(n + 1) : Adds(k, f, s)
    BY <2>7
  <2> QED
    BY <2>6, <2>8
<1>3. Nat \subseteq G
  <2> HIDE DEF G
  <2> QED
    BY <1>1, <1>2, EveryNumber
<1>4. IsFiniteSet(S) /\ Cardinality(S) \in Nat /\ \A s \in SUBSET S : Cardinality(s) <= Cardinality(S)
  BY FS_CardinalityType, FS_Subset DEF Summable
<1>5. F(Cardinality(S)) = SUBSET S
  BY <1>4
<1>6. PICK g \in [SUBSET S -> Int] : \A s \in SUBSET S : Adds(g, f, s)
  BY <1>3, <1>4, <1>5
<1> QED
  BY <1>6 DEF SumsUp, Adds

\* It has one value at every subset.
LEMMA SumUnique ==
  ASSUME NEW f, NEW S, Summable(f, S), NEW T \in SUBSET S,
         NEW g, SumsUp(g, f, S), NEW h, SumsUp(h, f, T)
  PROVE  g[T] = h[T]
<1> DEFINE G == {n \in Nat : \A s \in SUBSET T : Cardinality(s) = n => g[s] = h[s]}
<1>0. /\ \A s \in SUBSET T : s \in SUBSET S /\ IsFiniteSet(s) /\ Cardinality(s) \in Nat
      /\ \A s \in SUBSET T : s # {} =>
           /\ s \ {Chosen(s)} \in SUBSET T /\ Cardinality(s \ {Chosen(s)}) = Cardinality(s) - 1
  <2>1. \A s \in SUBSET T : s \in SUBSET S /\ IsFiniteSet(s) /\ Cardinality(s) \in Nat
    BY FS_Subset, FS_CardinalityType DEF Summable
  <2>2. \A s \in SUBSET T : s # {} => Chosen(s) \in s
    BY DEF Chosen
  <2> QED
    BY <2>1, <2>2, FS_RemoveElement
<1>00. \A s \in SUBSET T : /\ g[s] = IF s = {} THEN 0 ELSE f[Chosen(s)] + g[s \ {Chosen(s)}]
                           /\ h[s] = IF s = {} THEN 0 ELSE f[Chosen(s)] + h[s \ {Chosen(s)}]
  BY <1>0 DEF SumsUp
<1>1. 0 \in G
  <2>1. \A s \in SUBSET T : Cardinality(s) = 0 => s = {}
    BY <1>0, FS_EmptySet
  <2> QED
    BY <1>00, <2>1
<1>2. ASSUME NEW n \in Nat, n \in G PROVE n + 1 \in G
  <2> SUFFICES ASSUME NEW s \in SUBSET T, Cardinality(s) = n + 1 PROVE g[s] = h[s]
    OBVIOUS
  <2>1. s # {}
    BY FS_EmptySet
  <2>2. s \ {Chosen(s)} \in SUBSET T /\ Cardinality(s \ {Chosen(s)}) = n
    BY <1>0, <2>1
  <2>3. g[s \ {Chosen(s)}] = h[s \ {Chosen(s)}]
    BY <1>2, <2>2
  <2> QED
    BY <1>00, <2>1, <2>3
<1>3. Nat \subseteq G
  <2> HIDE DEF G
  <2> QED
    BY <1>1, <1>2, EveryNumber
<1> QED
  BY <1>0, <1>3

\* Sums are numbers, and can be taken in any order.
LEMMA SumStep ==
  ASSUME NEW f, NEW S, Summable(f, S)
  PROVE  /\ SumFunctionOnSet(f, S) \in Int
         /\ S = {} => SumFunctionOnSet(f, S) = 0
         /\ S # {} => SumFunctionOnSet(f, S) = f[Chosen(S)] + SumFunctionOnSet(f, S \ {Chosen(S)})
<1> DEFINE g == CHOOSE g : SumsUp(g, f, S)
<1>1. PICK k \in [SUBSET S -> Int] : SumsUp(k, f, S)
  BY SumExists
<1>2. SumsUp(g, f, S)
  BY <1>1
<1> HIDE DEF g
<1>3. SumFunctionOnSet(f, S) = g[S]
  BY SumChosen DEF g
<1>4. g[S] = k[S]
  BY <1>1, <1>2, SumUnique
<1>5. CASE S = {}
  BY <1>2, <1>3, <1>4, <1>5 DEF SumsUp
<1>6. CASE S # {}
  <2> DEFINE T == S \ {Chosen(S)}
  <2>1. T \in SUBSET S /\ Summable(f, T)
    BY FS_Subset DEF Summable
  <2> DEFINE h == CHOOSE h : SumsUp(h, f, T)
  <2>2. SumsUp(h, f, T)
    BY <2>1, SumExists
  <2> HIDE DEF h
  <2>3. SumFunctionOnSet(f, T) = h[T]
    BY SumChosen DEF h
  <2>4. g[T] = h[T]
    BY <1>2, <2>1, <2>2, SumUnique
  <2>5. g[S] = f[Chosen(S)] + g[T]
    BY <1>2, <1>6 DEF SumsUp
  <2> QED
    BY <1>3, <1>4, <1>6, <2>3, <2>4, <2>5
<1> QED
  BY <1>5, <1>6

\* Any element may be taken out of the sum first.
LEMMA SumAny ==
  ASSUME NEW f, NEW S, Summable(f, S), NEW x \in S
  PROVE  SumFunctionOnSet(f, S) = f[x] + SumFunctionOnSet(f, S \ {x})
<1> DEFINE Sum(T) == SumFunctionOnSet(f, T)
           G == {n \in Nat : \A T \in SUBSET S : Cardinality(T) = n =>
                               \A y \in T : Sum(T) = f[y] + Sum(T \ {y})}
<1>1. /\ \A T \in SUBSET S : IsFiniteSet(T) /\ Cardinality(T) \in Nat /\ Summable(f, T)
      /\ \A T \in SUBSET S : \A y \in T :
           T \ {y} \in SUBSET S /\ Cardinality(T \ {y}) = Cardinality(T) - 1
  <2>1. \A T \in SUBSET S : IsFiniteSet(T) /\ Cardinality(T) \in Nat /\ Summable(f, T)
    BY FS_Subset, FS_CardinalityType DEF Summable
  <2> QED
    BY <2>1, FS_RemoveElement
<1>2. \A T \in SUBSET S :
        /\ Sum(T) \in Int
        /\ T # {} => Chosen(T) \in T /\ Sum(T) = f[Chosen(T)] + Sum(T \ {Chosen(T)})
  BY <1>1, SumStep DEF Chosen
<1>3. \A y \in S : f[y] \in Int
  BY DEF Summable
<1> HIDE DEF Sum
<1>4. 0 \in G
  <2>1. \A T \in SUBSET S : Cardinality(T) = 0 => T = {}
    BY <1>1, FS_EmptySet
  <2> QED
    BY <2>1
<1>5. ASSUME NEW n \in Nat, n \in G PROVE n + 1 \in G
  <2> SUFFICES ASSUME NEW T \in SUBSET S, Cardinality(T) = n + 1, NEW y \in T
               PROVE  Sum(T) = f[y] + Sum(T \ {y})
    OBVIOUS
  <2> DEFINE c == Chosen(T)
  <2>1. c \in T /\ Sum(T) = f[c] + Sum(T \ {c})
    BY <1>2
  <2> HIDE DEF c
  <2>2. CASE c = y
    BY <2>1, <2>2
  <2>3. CASE c # y
    <3>1. /\ T \ {c} \in SUBSET S /\ T \ {y} \in SUBSET S /\ Cardinality(T \ {c}) = n
          /\ Cardinality(T \ {y}) = n /\ c \in T \ {y} /\ y \in T \ {c}
      BY <1>1, <2>1, <2>3
    <3>2. /\ Sum(T \ {c}) = f[y] + Sum((T \ {c}) \ {y})
          /\ Sum(T \ {y}) = f[c] + Sum((T \ {y}) \ {c})
      BY <1>5, <3>1
    <3>3. (T \ {c}) \ {y} = (T \ {y}) \ {c} /\ (T \ {y}) \ {c} \in SUBSET S
      OBVIOUS
    <3>4. Sum((T \ {y}) \ {c}) \in Int /\ f[c] \in Int /\ f[y] \in Int
      BY <1>2, <1>3, <2>1, <3>3
    <3> DEFINE rest == Sum((T \ {y}) \ {c})
    <3>5. Sum(T \ {c}) = f[y] + rest /\ Sum(T \ {y}) = f[c] + rest /\ rest \in Int
      BY <3>2, <3>3, <3>4
    <3> HIDE DEF rest
    <3> QED
      BY <2>1, <3>4, <3>5
  <2> QED
    BY <2>2, <2>3
<1>6. Nat \subseteq G
  <2> HIDE DEF G
  <2> QED
    BY <1>4, <1>5, EveryNumber
<1>7. S \in SUBSET S /\ Cardinality(S) \in Nat
  BY <1>1
<1> QED
  BY <1>6, <1>7 DEF Sum

\* The sum over no element is 0.
LEMMA SumEmpty ==
  ASSUME NEW f
  PROVE  SumFunctionOnSet(f, {}) = 0
<1>1. Summable(f, {})
  BY FS_EmptySet DEF Summable
<1> QED
  BY <1>1, SumStep

\* A sum of natural numbers is one.
LEMMA SumNat ==
  ASSUME NEW f, NEW S, IsFiniteSet(S), \A x \in S : f[x] \in Nat
  PROVE  SumFunctionOnSet(f, S) \in Nat
<1> DEFINE G == {T \in SUBSET S : SumFunctionOnSet(f, T) \in Nat}
<1>0. \A T \in SUBSET S : Summable(f, T)
  BY FS_Subset DEF Summable
<1>1. {} \in G
  BY SumEmpty
<1>2. ASSUME NEW T \in SUBSET S, NEW x \in S \ T, T \in G PROVE T \cup {x} \in G
  <2>1. T \cup {x} \in SUBSET S /\ (T \cup {x}) \ {x} = T /\ x \in T \cup {x}
    OBVIOUS
  <2>2. SumFunctionOnSet(f, T \cup {x}) = f[x] + SumFunctionOnSet(f, T)
    BY <1>0, <2>1, SumAny
  <2> QED
    BY <1>2, <2>1, <2>2
<1> HIDE DEF G
<1>3. S \in G
  BY <1>1, <1>2, EveryFiniteSet
<1> QED
  BY <1>3 DEF G

\* Larger terms have the larger sum.
LEMMA SumBelow ==
  ASSUME NEW f, NEW g, NEW S, Summable(f, S), Summable(g, S), \A x \in S : f[x] <= g[x]
  PROVE  SumFunctionOnSet(f, S) <= SumFunctionOnSet(g, S)
<1> DEFINE G == {T \in SUBSET S : SumFunctionOnSet(f, T) <= SumFunctionOnSet(g, T)}
<1>0. \A T \in SUBSET S : Summable(f, T) /\ Summable(g, T)
  BY FS_Subset DEF Summable
<1>1. {} \in G
  BY SumEmpty
<1>2. ASSUME NEW T \in SUBSET S, NEW x \in S \ T, T \in G PROVE T \cup {x} \in G
  <2>1. T \cup {x} \in SUBSET S /\ (T \cup {x}) \ {x} = T /\ x \in T \cup {x}
    OBVIOUS
  <2>2. /\ SumFunctionOnSet(f, T \cup {x}) = f[x] + SumFunctionOnSet(f, T)
        /\ SumFunctionOnSet(g, T \cup {x}) = g[x] + SumFunctionOnSet(g, T)
    BY <1>0, <2>1, SumAny
  <2>3. /\ SumFunctionOnSet(f, T) \in Int /\ SumFunctionOnSet(g, T) \in Int
        /\ f[x] \in Int /\ g[x] \in Int /\ f[x] <= g[x]
    BY <1>0, SumStep DEF Summable
  <2> QED
    BY <1>2, <2>1, <2>2, <2>3
<1> HIDE DEF G
<1>3. S \in G
  BY <1>1, <1>2, EveryFiniteSet DEF Summable
<1> QED
  BY <1>3 DEF G

\* The same terms have the same sum.
LEMMA SumSame ==
  ASSUME NEW f, NEW g, NEW S, Summable(f, S), \A x \in S : f[x] = g[x]
  PROVE  SumFunctionOnSet(f, S) = SumFunctionOnSet(g, S)
<1>1. Summable(g, S) /\ \A x \in S : f[x] <= g[x] /\ g[x] <= f[x]
  BY DEF Summable
<1>2. /\ SumFunctionOnSet(f, S) <= SumFunctionOnSet(g, S)
      /\ SumFunctionOnSet(g, S) <= SumFunctionOnSet(f, S)
  BY <1>1, SumBelow
<1>3. SumFunctionOnSet(f, S) \in Int /\ SumFunctionOnSet(g, S) \in Int
  BY <1>1, SumStep
<1> QED
  BY <1>2, <1>3

\* A sum follows the change of one term.
LEMMA SumUpdate ==
  ASSUME NEW f, NEW g, NEW S, Summable(f, S), NEW x \in S, g[x] \in Int,
         \A y \in S \ {x} : f[y] = g[y]
  PROVE  SumFunctionOnSet(g, S) = SumFunctionOnSet(f, S) - f[x] + g[x]
<1>1. Summable(g, S) /\ Summable(f, S \ {x}) /\ f[x] \in Int
  BY FS_Subset DEF Summable
<1>2. SumFunctionOnSet(f, S \ {x}) = SumFunctionOnSet(g, S \ {x})
  BY <1>1, SumSame
<1>3. /\ SumFunctionOnSet(f, S) = f[x] + SumFunctionOnSet(f, S \ {x})
      /\ SumFunctionOnSet(g, S) = g[x] + SumFunctionOnSet(g, S \ {x})
  BY <1>1, SumAny
<1>4. SumFunctionOnSet(f, S \ {x}) \in Int
  BY <1>1, SumStep
<1> DEFINE rest == SumFunctionOnSet(f, S \ {x})
<1>5. /\ SumFunctionOnSet(f, S) = f[x] + rest /\ SumFunctionOnSet(g, S) = g[x] + rest /\ rest \in Int
  BY <1>2, <1>3, <1>4
<1> HIDE DEF rest
<1> QED
  BY <1>1, <1>5

\* A factor of all terms is a factor of the sum.
LEMMA SumTimes ==
  ASSUME NEW f, NEW g, NEW S, Summable(f, S), NEW k \in Int, \A x \in S : g[x] = f[x] * k
  PROVE  SumFunctionOnSet(g, S) = SumFunctionOnSet(f, S) * k
<1> DEFINE G == {T \in SUBSET S : SumFunctionOnSet(g, T) = SumFunctionOnSet(f, T) * k}
<1>0. \A T \in SUBSET S : Summable(f, T) /\ Summable(g, T)
  BY FS_Subset DEF Summable
<1>1. {} \in G
  BY SumEmpty
<1>2. ASSUME NEW T \in SUBSET S, NEW x \in S \ T, T \in G PROVE T \cup {x} \in G
  <2>1. T \cup {x} \in SUBSET S /\ (T \cup {x}) \ {x} = T /\ x \in T \cup {x}
    OBVIOUS
  <2>2. /\ SumFunctionOnSet(f, T \cup {x}) = f[x] + SumFunctionOnSet(f, T)
        /\ SumFunctionOnSet(g, T \cup {x}) = f[x] * k + SumFunctionOnSet(g, T)
    BY <1>0, <2>1, SumAny
  <2>3. SumFunctionOnSet(f, T) \in Int /\ f[x] \in Int
    BY <1>0, SumStep DEF Summable
  <2>4. \A a, b \in Int : (a + b) * k = a * k + b * k
    OBVIOUS
  <2> QED
    BY <1>2, <2>1, <2>2, <2>3, <2>4
<1> HIDE DEF G
<1>3. S \in G
  BY <1>1, <1>2, EveryFiniteSet DEF Summable
<1> QED
  BY <1>3 DEF G

\* A sum over a set is the sum of the sums over its classes.
LEMMA SumByClass ==
  ASSUME NEW f, NEW S, Summable(f, S), NEW K, IsFiniteSet(K), NEW c, \A x \in S : c[x] \in K
  PROVE  SumFunctionOnSet(f, S)
           = SumFunctionOnSet([k \in K |-> SumFunctionOnSet(f, {x \in S : c[x] = k})], K)
<1> DEFINE Class(T, k) == {x \in T : c[x] = k}
           by(T) == [k \in K |-> SumFunctionOnSet(f, Class(T, k))]
           G == {T \in SUBSET S : SumFunctionOnSet(f, T) = SumFunctionOnSet(by(T), K)}
<1>0. \A T \in SUBSET S : Summable(f, T) /\ Summable(by(T), K) /\ \A k \in K : Summable(f, Class(T, k))
  <2>1. \A T \in SUBSET S : Summable(f, T)
    BY FS_Subset DEF Summable
  <2>2. \A T \in SUBSET S, k \in K : Class(T, k) \in SUBSET S
    OBVIOUS
  <2>3. \A T \in SUBSET S, k \in K : Summable(f, Class(T, k))
    BY <2>1, <2>2
  <2> HIDE DEF Class
  <2>4. \A T \in SUBSET S, k \in K : SumFunctionOnSet(f, Class(T, k)) \in Int
    BY <2>3, SumStep
  <2>5. \A T \in SUBSET S : Summable(by(T), K)
    BY <2>4 DEF Summable
  <2> QED
    BY <2>1, <2>3, <2>5
<1>1. {} \in G
  <2>1. \A k \in K : by({})[k] = 0
    BY <1>0, SumStep
  <2>2. Summable([k \in K |-> 0], K)
    BY DEF Summable
  <2>3. SumFunctionOnSet([k \in K |-> 0], K) = SumFunctionOnSet([k \in K |-> 0], K) * 0
    BY <2>2, SumTimes
  <2>4. SumFunctionOnSet([k \in K |-> 0], K) = 0
    <3>1. SumFunctionOnSet([k \in K |-> 0], K) \in Int
      BY <2>2, SumStep
    <3> QED
      BY <2>3, <3>1
  <2>5. SumFunctionOnSet(by({}), K) = SumFunctionOnSet([k \in K |-> 0], K)
    BY <1>0, <2>1, <2>2, SumSame
  <2>6. SumFunctionOnSet(f, {}) = 0
    BY SumEmpty
  <2> QED
    BY <2>4, <2>5, <2>6
<1>2. ASSUME NEW T \in SUBSET S, NEW x \in S \ T, T \in G PROVE T \cup {x} \in G
  <2> DEFINE U == T \cup {x}
  <2>1. U \in SUBSET S /\ U \ {x} = T /\ x \in U /\ c[x] \in K
    OBVIOUS
  <2>2. SumFunctionOnSet(f, U) = f[x] + SumFunctionOnSet(f, T)
    <3>1. Summable(f, U)
      BY <1>0, <2>1
    <3> HIDE DEF U
    <3>2. SumFunctionOnSet(f, U) = f[x] + SumFunctionOnSet(f, U \ {x})
      BY <2>1, <3>1, SumAny
    <3> QED
      BY <2>1, <3>2
  <2>3. \A k \in K \ {c[x]} : Class(U, k) = Class(T, k)
    OBVIOUS
  <2>4. Class(U, c[x]) \ {x} = Class(T, c[x]) /\ x \in Class(U, c[x])
    OBVIOUS
  <2>5. SumFunctionOnSet(f, Class(U, c[x])) = f[x] + SumFunctionOnSet(f, Class(T, c[x]))
    <3>1. Summable(f, Class(U, c[x]))
      BY <1>0, <2>1
    <3> HIDE DEF Class, U
    <3>2. SumFunctionOnSet(f, Class(U, c[x])) = f[x] + SumFunctionOnSet(f, Class(U, c[x]) \ {x})
      BY <2>4, <3>1, SumAny
    <3> QED
      BY <2>4, <3>2
  <2> HIDE DEF Class, U
  <2>6. \A k \in K \ {c[x]} : by(T)[k] = by(U)[k]
    BY <2>3
  <2>7. by(U)[c[x]] = f[x] + by(T)[c[x]]
    BY <2>1, <2>5
  <2>8. Summable(by(T), K) /\ Summable(by(U), K)
    BY <1>0, <2>1
  <2> HIDE DEF by
  <2>9. by(U)[c[x]] \in Int /\ by(T)[c[x]] \in Int /\ f[x] \in Int
    BY <2>1, <2>8, <1>0 DEF Summable
  <2>10. SumFunctionOnSet(by(U), K) = SumFunctionOnSet(by(T), K) - by(T)[c[x]] + by(U)[c[x]]
    BY <2>1, <2>6, <2>8, <2>9, SumUpdate
  <2>11. SumFunctionOnSet(by(T), K) \in Int
    BY <2>8, SumStep
  <2>12. SumFunctionOnSet(by(U), K) = f[x] + SumFunctionOnSet(by(T), K)
    BY <2>7, <2>9, <2>10, <2>11
  <2> QED
    BY <1>2, <2>1, <2>2, <2>12 DEF U
<1> HIDE DEF G
<1>3. S \in G
  BY <1>1, <1>2, EveryFiniteSet DEF Summable
<1> QED
  BY <1>3 DEF G

\* Equal terms sum up to their number times their value.
LEMMA SumEqual ==
  ASSUME NEW f, NEW S, IsFiniteSet(S), NEW v \in Int, \A x \in S : f[x] = v
  PROVE  SumFunctionOnSet(f, S) = Cardinality(S) * v
<1> DEFINE G == {T \in SUBSET S : SumFunctionOnSet(f, T) = Cardinality(T) * v}
<1>0. \A T \in SUBSET S : Summable(f, T) /\ IsFiniteSet(T) /\ Cardinality(T) \in Nat
  BY FS_Subset, FS_CardinalityType DEF Summable
<1>1. {} \in G
  BY SumEmpty, FS_EmptySet
<1>2. ASSUME NEW T \in SUBSET S, NEW x \in S \ T, T \in G PROVE T \cup {x} \in G
  <2>1. T \cup {x} \in SUBSET S /\ (T \cup {x}) \ {x} = T /\ x \in T \cup {x}
    OBVIOUS
  <2>2. SumFunctionOnSet(f, T \cup {x}) = v + SumFunctionOnSet(f, T)
    BY <1>0, <2>1, SumAny
  <2>3. Cardinality(T \cup {x}) = Cardinality(T) + 1
    BY <1>0, FS_AddElement
  <2>4. \A n \in Nat : v + n * v = (n + 1) * v
    OBVIOUS
  <2> QED
    BY <1>0, <1>2, <2>1, <2>2, <2>3, <2>4
<1> HIDE DEF G
<1>3. S \in G
  BY <1>1, <1>2, EveryFiniteSet
<1> QED
  BY <1>3 DEF G

\* What is zero need not be summed.
LEMMA SumPart ==
  ASSUME NEW f, NEW S, Summable(f, S), NEW T \in SUBSET S, \A x \in S \ T : f[x] = 0
  PROVE  SumFunctionOnSet(f, S) = SumFunctionOnSet(f, T)
<1> DEFINE R == S \ T
           G == {U \in SUBSET R : SumFunctionOnSet(f, T \cup U) = SumFunctionOnSet(f, T)}
<1>0. \A U \in SUBSET R : T \cup U \in SUBSET S /\ Summable(f, T \cup U)
  BY FS_Subset DEF Summable
<1>1. {} \in G
  <2>1. T \cup {} = T
    OBVIOUS
  <2> QED
    BY <2>1
<1>2. ASSUME NEW U \in SUBSET R, NEW x \in R \ U, U \in G PROVE U \cup {x} \in G
  <2> DEFINE V == T \cup (U \cup {x})
  <2>1. U \cup {x} \in SUBSET R /\ x \in V /\ V \ {x} = T \cup U
    OBVIOUS
  <2>2. Summable(f, V) /\ Summable(f, T \cup U)
    BY <1>0, <2>1
  <2> HIDE DEF V
  <2>3. SumFunctionOnSet(f, V) = f[x] + SumFunctionOnSet(f, V \ {x})
    BY <2>1, <2>2, SumAny
  <2>4. SumFunctionOnSet(f, T \cup U) \in Int /\ f[x] = 0
    BY <2>2, SumStep
  <2>5. SumFunctionOnSet(f, V) = SumFunctionOnSet(f, T \cup U)
    <3>1. SumFunctionOnSet(f, V) = f[x] + SumFunctionOnSet(f, T \cup U)
      BY <2>1, <2>3
    <3> QED
      BY <2>4, <3>1
  <2> QED
    BY <1>2, <2>1, <2>5 DEF V
<1>3. IsFiniteSet(R)
  BY FS_Subset DEF Summable
<1> HIDE DEF G, R
<1>4. R \in G
  BY <1>1, <1>2, <1>3, EveryFiniteSet
<1>5. T \cup R = S
  BY DEF R
<1> QED
  BY <1>4, <1>5 DEF G

----------------------------------------------------------------------------
(* Fractions. *)

\* Numerator and denominator.
IsFraction(a) == a[1] \in Nat /\ a[2] \in Nat \ {0}
One == <<1, 1>>

\* A product grows with its factors.
LEMMA TimesGrows ==
  ASSUME NEW a \in Nat, NEW b \in Nat, NEW c \in Nat, a <= b
  PROVE  a * c <= b * c
<1>1. PICK d \in Nat : b = a + d
  <2>1. b - a \in Nat /\ b = a + (b - a)
    OBVIOUS
  <2> QED
    BY <2>1
<1>2. (a + d) * c = a * c + d * c /\ d * c \in Nat /\ a * c \in Nat
  OBVIOUS
<1> QED
  BY <1>1, <1>2

\* A common factor can be cancelled.
LEMMA TimesCancels ==
  ASSUME NEW a \in Nat, NEW b \in Nat, NEW c \in Nat \ {0}, a * c <= b * c
  PROVE  a <= b
<1> SUFFICES ASSUME b + 1 <= a PROVE FALSE
  OBVIOUS
<1>1. (b + 1) * c <= a * c
  BY TimesGrows
<1>2. (b + 1) * c = b * c + c /\ b * c \in Nat /\ a * c \in Nat
  OBVIOUS
<1> QED
  BY <1>1, <1>2

\* The order of fractions is transitive.
LEMMA AtMostTransitive ==
  ASSUME NEW a, NEW b, NEW c, IsFraction(a), IsFraction(b), IsFraction(c),
         AtMost(a, b), AtMost(b, c)
  PROVE  AtMost(a, c)
<1> DEFINE m == a[1]  n == a[2]
           s == b[1]  t == b[2]
           u == c[1]  v == c[2]
<1>1. /\ m \in Nat /\ n \in Nat \ {0} /\ s \in Nat /\ t \in Nat \ {0}
      /\ u \in Nat /\ v \in Nat \ {0}
      /\ m * t <= s * n /\ s * v <= u * t
  BY DEF IsFraction, AtMost
<1>2. AtMost(a, c) <=> m * v <= u * n
  BY DEF AtMost
<1> HIDE DEF m, n, s, t, u, v
<1>3. /\ m * t \in Nat /\ s * n \in Nat /\ s * v \in Nat /\ u * t \in Nat
      /\ m * v \in Nat /\ u * n \in Nat
  BY <1>1
<1>4. (m * t) * v <= (s * n) * v /\ (s * v) * n <= (u * t) * n
  BY <1>1, <1>3, TimesGrows
<1>5. (m * t) * v = (m * v) * t /\ (s * n) * v = (s * v) * n /\ (u * t) * n = (u * n) * t
  BY <1>1
<1>6. (m * v) * t \in Nat /\ (s * v) * n \in Nat /\ (u * n) * t \in Nat
  BY <1>1, <1>3
<1>7. (m * v) * t <= (u * n) * t
  BY <1>4, <1>5, <1>6
<1> QED
  BY <1>1, <1>2, <1>3, <1>7, TimesCancels

\* Of two fractions, one is at most the other.
LEMMA AtMostTotal ==
  ASSUME NEW a, NEW b, IsFraction(a), IsFraction(b)
  PROVE  AtMost(a, b) \/ AtMost(b, a)
<1>1. a[1] * b[2] \in Nat /\ b[1] * a[2] \in Nat
  BY DEF IsFraction
<1> QED
  BY <1>1 DEF AtMost

\* A finite set of fractions has a largest one.
LEMMA LargestFraction ==
  ASSUME NEW S, IsFiniteSet(S), S # {}, \A a \in S : IsFraction(a)
  PROVE  \E a \in S : \A b \in S : AtMost(b, a)
<1> DEFINE G == {T \in SUBSET S : T = {} \/ \E a \in T : \A b \in T : AtMost(b, a)}
<1>1. {} \in G
  OBVIOUS
<1>2. ASSUME NEW T \in SUBSET S, NEW x \in S \ T, T \in G PROVE T \cup {x} \in G
  <2>0. T \cup {x} \in SUBSET S /\ AtMost(x, x)
    BY AtMostTotal
  <2>1. CASE T = {}
    BY <2>0, <2>1
  <2>2. CASE T # {}
    <3>1. PICK a \in T : \A b \in T : AtMost(b, a)
      BY <1>2, <2>2
    <3>2. CASE AtMost(x, a)
      <4>1. \A b \in T \cup {x} : AtMost(b, a)
        BY <3>1, <3>2
      <4> QED
        BY <2>0, <4>1
    <3>3. CASE AtMost(a, x)
      <4>1. \A b \in T : IsFraction(b) /\ IsFraction(a) /\ IsFraction(x)
        OBVIOUS
      <4>2. \A b \in T : AtMost(b, x)
        BY <3>1, <3>3, <4>1, AtMostTransitive
      <4>3. \A b \in T \cup {x} : AtMost(b, x)
        BY <2>0, <4>2
      <4> QED
        BY <2>0, <4>3
    <3> QED
      BY <3>1, <3>2, <3>3, AtMostTotal
  <2> QED
    BY <2>1, <2>2
<1> HIDE DEF G
<1>3. S \in G
  BY <1>1, <1>2, EveryFiniteSet
<1> QED
  BY <1>3 DEF G

----------------------------------------------------------------------------
(* What a call adds up. *)

\* The items of a project, what a resource has in all, and by resource what each project has
\* used, each item of a project has paid and asks for.
Of(p) == {x \in Expanded(meta) : MetaOf(x).project = p}
Cap(r) == quota.upto[LastTier][r]
UsedBy(r) == [p \in Projects |-> usage[p][r]]
PaidBy(p, r) == [x \in Of(p) |-> paid[x][r]]
AskedBy(p, r) == [x \in Of(p) |-> Demand(x)[r]]

\* A project has used what its items paid, and what all have used is gone.
Accounts ==
  /\ \A p \in Projects, r \in Resources : usage[p][r] = SumFunctionOnSet(PaidBy(p, r), Of(p))
  /\ \A r \in Resources : remaining[r] + SumFunctionOnSet(UsedBy(r), Projects) = Cap(r)

\* A call considers finitely many items.
LEMMA FiniteCall ==
  ASSUME Partial(meta, Jobs, IsMetadata)
  PROVE  IsFiniteSet(Expanded(meta)) /\ \A p : IsFiniteSet(Of(p))
<1> DEFINE A == Specs \cup {0}
           B == 0..MaxReplicas
           P == Jobs \X (A \X B)
           f == [x \in Items |-> <<x[1], <<x[2], x[3]>>>>]
<1>1. IsFiniteSet(A) /\ IsFiniteSet(B) /\ IsFiniteSet(Jobs)
  BY SchedulerAssumption, FS_AddElement, FS_Interval DEF SchedulerAssumption
<1>2. IsFiniteSet(P)
  <2> HIDE DEF A, B
  <2> QED
    BY <1>1, FS_Product
<1>3. \A x \in Items : x = <<x[1], x[2], x[3]>> /\ x[1] \in Jobs /\ x[2] \in A /\ x[3] \in B
  BY DEF Items
<1>4. f \in Injection(Items, P)
  BY <1>3 DEF Injection, IsInjective
<1>5. IsFiniteSet(Items)
  BY <1>2, <1>4, FS_Injection
<1>6. IsFiniteSet(Expanded(meta))
  BY <1>5, FS_Subset DEF Expanded
<1> QED
  BY <1>6, FS_Subset DEF Of

\* What is used, paid and asked for can be summed up.
LEMMA Countable ==
  ASSUME TypeOK, NEW r \in Resources
  PROVE  /\ Summable(UsedBy(r), Projects) /\ \A p \in Projects : UsedBy(r)[p] \in Nat
         /\ \A p \in Projects :
              /\ Summable(PaidBy(p, r), Of(p)) /\ \A x \in Of(p) : PaidBy(p, r)[x] \in Nat
              /\ Summable(AskedBy(p, r), Of(p)) /\ \A x \in Of(p) : AskedBy(p, r)[x] \in Nat
              /\ quota.share[p][r] \in Nat /\ usage[p][r] \in Nat
         /\ Cap(r) \in Nat /\ remaining[r] \in Nat /\ ShareSum(r) \in Nat
<1>1. /\ Partial(meta, Jobs, IsMetadata) /\ quota \in Quota /\ IsFiniteSet(Projects)
      /\ usage \in [Projects -> Amounts] /\ paid \in [Expanded(meta) -> Amounts]
      /\ remaining \in Amounts
  BY SchedulerAssumption DEF TypeOK, SchedulerAssumption
<1>2. \A p \in Projects : quota.share[p][r] \in Nat /\ usage[p][r] \in Nat
  BY <1>1 DEF Quota, Amounts
<1>3. Cap(r) \in Nat /\ remaining[r] \in Nat
  BY <1>1, TierNumbers DEF Cap, Quota, Amounts
<1>4. ShareSum(r) \in Nat
  <2> DEFINE s == [p \in Projects |-> quota.share[p][r]]
  <2>1. \A p \in Projects : s[p] \in Nat
    BY <1>2
  <2>2. SumFunctionOnSet(s, Projects) \in Nat
    <3> HIDE DEF s
    <3> QED
      BY <1>1, <2>1, SumNat
  <2>3. ShareSum(r) = SumFunctionOnSet(s, Projects)
    BY DEF ShareSum, SumFunction
  <2> QED
    BY <2>2, <2>3
<1>5. \A p : IsFiniteSet(Of(p)) /\ \A x \in Of(p) : x \in Expanded(meta)
  BY <1>1, FiniteCall DEF Of
<1>6. \A x \in Expanded(meta) : paid[x][r] \in Nat /\ Demand(x)[r] \in Nat
  BY <1>1, Wanted DEF Amounts
<1> QED
  BY <1>1, <1>2, <1>3, <1>4, <1>5, <1>6 DEF UsedBy, PaidBy, AskedBy, Summable

\* Nothing is used at first, and everything remains.
LEMMA AccountsInit == Init => Accounts
<1> SUFFICES ASSUME Init PROVE Accounts
  OBVIOUS
<1>1. /\ TypeOK /\ IsFiniteSet(Projects) /\ \A p : IsFiniteSet(Of(p))
      /\ \A p : Of(p) \subseteq Expanded(meta)
  BY TypedInit, FiniteCall, SchedulerAssumption DEF Typed, TypeOK, SchedulerAssumption, Of
<1>2. ASSUME NEW r \in Resources
      PROVE  remaining[r] + SumFunctionOnSet(UsedBy(r), Projects) = Cap(r)
  <2>1. \A p \in Projects : UsedBy(r)[p] = 0
    BY DEF UsedBy, Init, Zero
  <2>2. SumFunctionOnSet(UsedBy(r), Projects) = Cardinality(Projects) * 0
    BY <1>1, <2>1, SumEqual
  <2>3. Cardinality(Projects) * 0 = 0
    BY <1>1, FS_CardinalityType
  <2>4. remaining[r] = Cap(r) /\ Cap(r) \in Nat
    BY <1>1, Countable DEF Init, Cap
  <2> QED
    BY <2>2, <2>3, <2>4
<1>3. ASSUME NEW p \in Projects, NEW r \in Resources
      PROVE  usage[p][r] = SumFunctionOnSet(PaidBy(p, r), Of(p))
  <2>1. \A x \in Of(p) : PaidBy(p, r)[x] = 0
    BY <1>1 DEF PaidBy, Init, Zero
  <2>2. SumFunctionOnSet(PaidBy(p, r), Of(p)) = Cardinality(Of(p)) * 0
    BY <1>1, <2>1, SumEqual
  <2>3. Cardinality(Of(p)) * 0 = 0
    BY <1>1, FS_CardinalityType
  <2>4. usage[p][r] = 0
    BY DEF Init, Zero
  <2> QED
    BY <2>2, <2>3, <2>4
<1> QED
  BY <1>2, <1>3 DEF Accounts

\* Every step charges a project, and the pool, for what it pays for.
LEMMA AccountsNext == Scheduled /\ Accounts /\ [Next]_vars => Accounts'
<1> SUFFICES ASSUME Scheduled, Accounts, [Next]_vars PROVE Accounts'
  OBVIOUS
<1>1. /\ UNCHANGED <<meta, quota>> /\ Expanded(meta)' = Expanded(meta)
      /\ \A p : Of(p)' = Of(p) /\ \A r : Cap(r)' = Cap(r)
  BY Verdicts DEF Scheduled, Of, Expanded, MetaOf, Cap
<1>2. CASE UNCHANGED <<usage, paid, remaining>>
  <2>1. /\ \A r : UsedBy(r)' = UsedBy(r)
        /\ \A p, r : PaidBy(p, r)' = PaidBy(p, r)
    BY <1>1, <1>2 DEF UsedBy, PaidBy, Of, Expanded, MetaOf
  <2> QED
    BY <1>1, <1>2, <2>1 DEF Accounts
<1>3. CASE Backward
  <2> DEFINE q == MetaOf(item).project
  <2>1. /\ usage' = [usage EXCEPT ![q] = [r \in Resources |-> @[r] + Take(r)]]
        /\ paid' = [paid EXCEPT ![item] = [r \in Resources |-> @[r] + Take(r)]]
        /\ remaining' = [r \in Resources |-> remaining[r] - Take(r)]
        /\ step = "backward"
    BY <1>3 DEF Backward
  <2>2. /\ item \in Expanded(meta) /\ q \in Projects /\ item \in Of(q)
        /\ usage \in [Projects -> Amounts] /\ paid \in [Expanded(meta) -> Amounts]
    BY <2>1, Wanted DEF Scheduled, Typed, ItemKnown, TypeOK, Of
  <2> HIDE DEF q
  <2>3. ASSUME NEW r \in Resources
        PROVE  Take(r) \in Nat
    BY Taken DEF Scheduled
  <2>4. ASSUME NEW r \in Resources
        PROVE  remaining'[r] + SumFunctionOnSet(UsedBy(r)', Projects) = Cap(r)
    <3>1. Summable(UsedBy(r), Projects) /\ remaining[r] \in Nat /\ Cap(r) \in Nat /\ usage[q][r] \in Nat
      BY <2>2, Countable DEF Scheduled, Typed
    <3>2. UsedBy(r)'[q] = UsedBy(r)[q] + Take(r) /\ UsedBy(r)[q] \in Nat
      BY <2>1, <2>2, <3>1 DEF UsedBy
    <3>3. \A p \in Projects \ {q} : UsedBy(r)[p] = UsedBy(r)'[p]
      BY <2>1, <2>2 DEF UsedBy
    <3>4. SumFunctionOnSet(UsedBy(r)', Projects)
            = SumFunctionOnSet(UsedBy(r), Projects) - UsedBy(r)[q] + UsedBy(r)'[q]
      BY <2>2, <2>3, <3>1, <3>2, <3>3, SumUpdate
    <3>5. SumFunctionOnSet(UsedBy(r), Projects) \in Int
      BY <3>1, SumStep
    <3>6. remaining'[r] = remaining[r] - Take(r)
      BY <2>1
    <3>7. remaining[r] + SumFunctionOnSet(UsedBy(r), Projects) = Cap(r)
      BY DEF Accounts
    <3> QED
      BY <2>3, <3>1, <3>2, <3>4, <3>5, <3>6, <3>7
  <2>5. ASSUME NEW p \in Projects, NEW r \in Resources
        PROVE  usage'[p][r] = SumFunctionOnSet(PaidBy(p, r)', Of(p))
    <3>1. /\ Summable(PaidBy(p, r), Of(p)) /\ usage[p][r] \in Nat
          /\ usage[p][r] = SumFunctionOnSet(PaidBy(p, r), Of(p))
          /\ \A x \in Of(p) : PaidBy(p, r)[x] \in Nat
      BY Countable DEF Scheduled, Typed, Accounts
    <3>0. PaidBy(p, r)' = [x \in Of(p) |-> paid'[x][r]] /\ Of(p) \subseteq Expanded(meta)
      BY <1>1 DEF PaidBy, Of
    <3>2. CASE p = q
      <4>1. PaidBy(p, r)'[item] = PaidBy(p, r)[item] + Take(r) /\ PaidBy(p, r)[item] \in Nat
        BY <2>1, <2>2, <3>0, <3>1, <3>2 DEF PaidBy
      <4>2. \A x \in Of(p) \ {item} : PaidBy(p, r)[x] = PaidBy(p, r)'[x]
        BY <2>1, <2>2, <3>0 DEF PaidBy
      <4>3. SumFunctionOnSet(PaidBy(p, r)', Of(p))
              = SumFunctionOnSet(PaidBy(p, r), Of(p)) - PaidBy(p, r)[item] + PaidBy(p, r)'[item]
        BY <2>2, <2>3, <3>1, <3>2, <4>1, <4>2, SumUpdate
      <4>4. usage'[p][r] = usage[p][r] + Take(r)
        BY <2>1, <2>2, <3>2
      <4> QED
        BY <2>3, <3>1, <4>1, <4>3, <4>4
    <3>3. CASE p # q
      <4>1. \A x \in Of(p) : x # item
        BY <2>2, <3>3 DEF Of, q
      <4>2. \A x \in Of(p) : PaidBy(p, r)[x] = PaidBy(p, r)'[x]
        BY <2>1, <2>2, <3>0, <4>1 DEF PaidBy
      <4>3. SumFunctionOnSet(PaidBy(p, r)', Of(p)) = SumFunctionOnSet(PaidBy(p, r), Of(p))
        BY <3>1, <4>2, SumSame
      <4>4. usage'[p][r] = usage[p][r]
        BY <2>1, <2>2, <3>3
      <4> QED
        BY <3>1, <4>3, <4>4
    <3> QED
      BY <3>2, <3>3
  <2> QED
    BY <1>1, <2>4, <2>5 DEF Accounts
<1>4. [Next]_vars => Backward \/ UNCHANGED <<usage, paid, remaining>>
  BY DEF Next, Sort, RejectSlot, RejectOver, Admit, Sorted, Forward, Collapse, limits, history, vars
<1> QED
  BY <1>2, <1>3, <1>4

\* Nothing is lost or counted twice: what the projects have used and what remains is the
\* total, and what a project has used is what its items were charged.
THEOREM BooksBalance == Spec => []Accounts
<1>1. Init => Scheduled /\ Accounts
  BY ScheduledInvariant, AccountsInit
<1>2. Scheduled /\ Accounts /\ [Next]_vars => (Scheduled /\ Accounts)'
  BY ScheduledInvariant, AccountsNext
<1> QED
  BY <1>1, <1>2, PTL DEF Spec

----------------------------------------------------------------------------
(* Turns. *)

\* n units of resource r stay within the share of project q.
InShare(q, r, n) == n * ShareSum(r) <= quota.share[q][r] * Cap(r)

\* The usage ratio of a resource is at most 1 exactly when the project stays in its share of
\* it, and asks for none of a resource of which no project has a share.
LEMMA RatioOne ==
  ASSUME TypeOK, NEW p \in Projects, NEW x \in Expanded(meta), NEW r \in Resources
  PROVE  /\ IsFraction(RatioOf(p, x, r))
         /\ AtMost(RatioOf(p, x, r), One) => InShare(p, r, usage[p][r] + Demand(x)[r])
         /\ InShare(p, r, usage[p][r] + Demand(x)[r])
              /\ (ShareSum(r) = 0 => usage[p][r] + Demand(x)[r] = 0)
            => AtMost(RatioOf(p, x, r), One)
<1> DEFINE need == usage[p][r] + Demand(x)[r]
           sum == ShareSum(r)
           due == quota.share[p][r] * Cap(r)
           ratio == RatioOf(p, x, r)
<1>1. /\ need \in Nat /\ sum \in Nat /\ due \in Nat /\ Huge \in Nat /\ Huge > 1
  <2>1. Demand(x)[r] \in Nat
    BY Wanted DEF TypeOK, Amounts
  <2>2. /\ usage[p][r] \in Nat /\ quota.share[p][r] \in Nat /\ Cap(r) \in Nat /\ ShareSum(r) \in Nat
    BY Countable
  <2> QED
    BY <2>1, <2>2, SchedulerAssumption DEF SchedulerAssumption
<1>2. /\ ratio = IF due = 0 THEN <<need * Huge, 1>> ELSE <<need * sum, due>>
      /\ InShare(p, r, need) <=> need * sum <= due
  BY DEF RatioOf, InShare, Cap
<1> HIDE DEF need, sum, due, ratio
<1>3. CASE due = 0
  <2>1. /\ ratio[1] = need * Huge /\ ratio[2] = 1 /\ need * Huge \in Nat
    BY <1>1, <1>2, <1>3
  <2>2. AtMost(ratio, One) <=> need * Huge <= 1
    BY <2>1 DEF AtMost, One
  <2>3. need * Huge <= 1 => need = 0
    <3> SUFFICES ASSUME need >= 1 PROVE need * Huge > 1
      BY <1>1, <2>1
    <3>1. 1 * Huge <= need * Huge
      BY <1>1, TimesGrows
    <3> QED
      BY <1>1, <2>1, <3>1
  <2>4. need = 0 => need * Huge <= 1 /\ need * sum <= due
    BY <1>1, <1>3
  <2>5. need * sum <= due => need = 0 \/ sum = 0
    <3> SUFFICES ASSUME need >= 1, sum >= 1 PROVE need * sum > 0
      BY <1>1, <1>3
    <3>1. 1 * sum <= need * sum /\ need * sum \in Nat
      BY <1>1, TimesGrows
    <3> QED
      BY <1>1, <3>1
  <2> QED
    BY <1>2, <2>1, <2>2, <2>3, <2>4, <2>5 DEF IsFraction, need, sum, ratio
<1>4. CASE due # 0
  <2>1. /\ ratio[1] = need * sum /\ ratio[2] = due /\ need * sum \in Nat
    BY <1>1, <1>2, <1>4
  <2>2. AtMost(ratio, One) <=> need * sum <= due
    BY <1>1, <2>1 DEF AtMost, One
  <2> QED
    BY <1>1, <1>2, <1>4, <2>1, <2>2 DEF IsFraction, need, sum, ratio
<1> QED
  BY <1>3, <1>4

\* The usage ratio of a project is the largest one over the resources its next item wants.
LEMMA RatioLargest ==
  ASSUME TypeOK, NEW p \in Projects, NextOf(p) \in Expanded(meta)
  PROVE  /\ IsFraction(Ratio(p))
         /\ \A r \in DOMAIN Wants(NextOf(p)) : AtMost(RatioOf(p, NextOf(p), r), Ratio(p))
         /\ \/ Ratio(p) = <<0, 1>>
            \/ \E r \in DOMAIN Wants(NextOf(p)) : Ratio(p) = RatioOf(p, NextOf(p), r)
<1> DEFINE x == NextOf(p)
           D == DOMAIN Wants(x)
           f == [r \in D |-> RatioOf(p, x, r)]
           image == {RatioOf(p, x, r) : r \in D}
           ratios == {<<0, 1>>} \cup image
<1>1. D \subseteq Resources /\ IsFiniteSet(D)
  <2>1. D \subseteq Resources /\ IsFiniteSet(Resources)
    BY Wanted, SchedulerAssumption DEF TypeOK, SchedulerAssumption
  <2> HIDE DEF D
  <2> QED
    BY <2>1, FS_Subset
<1>2. f \in Surjection(D, image)
  BY DEF Surjection
<1>3. IsFiniteSet(image)
  <2> HIDE DEF f, D, image
  <2> QED
    BY <1>1, <1>2, FS_Surjection
<1>4. IsFiniteSet(ratios) /\ ratios # {}
  <2>1. ratios = image \cup {<<0, 1>>}
    OBVIOUS
  <2> HIDE DEF image
  <2> QED
    BY <1>3, <2>1, FS_AddElement
<1>5. \A a \in ratios : IsFraction(a)
  <2>1. \A r \in D : IsFraction(RatioOf(p, x, r))
    BY <1>1, RatioOne
  <2>2. IsFraction(<<0, 1>>)
    BY DEF IsFraction
  <2> QED
    BY <2>1, <2>2
<1>6. PICK m \in ratios : \A b \in ratios : AtMost(b, m)
  <2> HIDE DEF ratios
  <2> QED
    BY <1>4, <1>5, LargestFraction
<1>7. Ratio(p) = CHOOSE a \in ratios : \A b \in ratios : AtMost(b, a)
  BY DEF Ratio
<1>8. Ratio(p) \in ratios /\ \A b \in ratios : AtMost(b, Ratio(p))
  <2> HIDE DEF ratios
  <2> QED
    BY <1>6, <1>7
<1> QED
  BY <1>5, <1>8

\* The next item of a project that waits is an item of the call.
LEMMA NextKnown ==
  ASSUME TypeOK, NEW p \in Waiting
  PROVE  p \in Projects /\ NextOf(p) \in Expanded(meta)
<1>1. p \in Projects /\ (front[p] # <<>> \/ back[p] # <<>>)
  BY DEF Waiting
<1>2. front[p] \in Seq(Expanded(meta)) /\ back[p] \in Seq(Expanded(meta))
  BY <1>1 DEF TypeOK
<1> QED
  BY <1>1, <1>2, Popped DEF NextOf

\* When a project whose next item stays within its share waits, the item whose turn it
\* is stays within that of its own project.
LEMMA TurnInShare ==
  ASSUME TypeOK, NEW p \in Waiting, NEW q \in Projects, Turn(q),
         \A r \in Resources :
           /\ InShare(p, r, usage[p][r] + Demand(NextOf(p))[r])
           /\ ShareSum(r) = 0 => usage[p][r] + Demand(NextOf(p))[r] = 0,
         NEW r \in DOMAIN Wants(NextOf(q))
  PROVE  InShare(q, r, usage[q][r] + Demand(NextOf(q))[r])
<1>0. /\ q \in Waiting /\ p \in Projects
      /\ NextOf(p) \in Expanded(meta) /\ NextOf(q) \in Expanded(meta)
      /\ DOMAIN Wants(NextOf(p)) \subseteq Resources /\ DOMAIN Wants(NextOf(q)) \subseteq Resources
  BY NextKnown, Wanted DEF Turn, TypeOK
<1>1. IsFraction(One) /\ AtMost(<<0, 1>>, One)
  BY DEF IsFraction, AtMost, One
<1>2. AtMost(Ratio(p), One)
  <2>1. \A s \in DOMAIN Wants(NextOf(p)) : AtMost(RatioOf(p, NextOf(p), s), One)
    BY <1>0, RatioOne
  <2> QED
    BY <1>0, <1>1, <2>1, RatioLargest
<1>3. AtMost(Ratio(q), Ratio(p))
  <2>1. IsFraction(Ratio(p)) /\ IsFraction(Ratio(q))
    BY <1>0, RatioLargest
  <2>2. CASE p = q
    BY <2>1, <2>2, AtMostTotal
  <2>3. CASE p # q
    <3>1. Before(q, p)
      BY <2>3 DEF Turn
    <3>2. ~AtMost(Ratio(p), Ratio(q)) \/ AtMost(Ratio(q), Ratio(p))
      BY <3>1, Zenon DEF Before
    <3> QED
      BY <2>1, <3>2, AtMostTotal
  <2> QED
    BY <2>2, <2>3
<1>4. AtMost(RatioOf(q, NextOf(q), r), One)
  <2>1. /\ IsFraction(RatioOf(q, NextOf(q), r)) /\ IsFraction(Ratio(q)) /\ IsFraction(Ratio(p))
        /\ AtMost(RatioOf(q, NextOf(q), r), Ratio(q))
    BY <1>0, RatioOne, RatioLargest
  <2>2. AtMost(RatioOf(q, NextOf(q), r), Ratio(p))
    BY <1>3, <2>1, AtMostTransitive
  <2> QED
    BY <1>1, <1>2, <2>1, <2>2, AtMostTransitive
<1> QED
  BY <1>0, <1>4, RatioOne

----------------------------------------------------------------------------
(* What a project within its quota is guaranteed. *)

\* All that project p asks for stays within its quota.
Modest(p) ==
  \A r \in Resources :
    LET needs == SumFunctionOnSet(AskedBy(p, r), Of(p)) IN
    IF ShareSum(r) = 0 THEN needs = 0 ELSE InShare(p, r, needs)

\* What project q has been told to get of the item being admitted, and was not yet charged.
Owed(q, r) ==
  IF step = "forward" /\ MetaOf(item).project = q THEN Demand(item)[r]
  ELSE IF step = "backward" /\ MetaOf(item).project = q THEN left[r]
  ELSE 0

\* Nothing of a modest project is refused, and until all its items have a verdict no
\* project gets more than its share.
Guarded ==
  \A p \in Projects : Modest(p) =>
    /\ \A x \in Of(p) : verdict[x] \notin {"over", "unmet"}
    /\ (\E x \in Of(p) : verdict[x] = "none") =>
         \A q \in Projects, r \in Resources : InShare(q, r, usage[q][r] + Owed(q, r))

\* Between admissions, what the next item of a modest project needs is in its share.
LEMMA NextInShare ==
  ASSUME Typed, Queued, Charging, Accounts, step = "pick", NEW p \in Projects, Modest(p),
         NEW x \in Of(p), verdict[x] = "none", NEW r \in Resources
  PROVE  /\ InShare(p, r, usage[p][r] + Demand(x)[r])
         /\ ShareSum(r) = 0 => usage[p][r] + Demand(x)[r] = 0
<1> DEFINE f == PaidBy(p, r)
           a == AskedBy(p, r)
           g == [y \in Of(p) |-> IF y = x THEN Demand(x)[r] ELSE f[y]]
<1>1. /\ Summable(f, Of(p)) /\ \A y \in Of(p) : f[y] \in Nat
      /\ Summable(a, Of(p)) /\ \A y \in Of(p) : a[y] \in Nat
      /\ ShareSum(r) \in Nat /\ quota.share[p][r] \in Nat /\ Cap(r) \in Nat /\ usage[p][r] \in Nat
  BY Countable DEF Typed
<1>2. ASSUME NEW y \in Of(p) PROVE f[y] = 0 \/ f[y] = a[y]
  <2>1. y \in Expanded(meta) /\ (verdict[y] = "run" => paid[y] = Demand(y))
        /\ (verdict[y] # "run" => paid[y] = Zero)
    BY DEF Of, Charging, ChargedInFull, Untouched
  <2> QED
    BY <2>1 DEF Zero, PaidBy, AskedBy
<1>3. f[x] = 0 /\ a[x] = Demand(x)[r]
  <2>1. x \in Expanded(meta) /\ paid[x] = Zero
    BY DEF Of, Charging, Untouched
  <2> QED
    BY <2>1 DEF Zero, PaidBy, AskedBy
<1>4. /\ g[x] = Demand(x)[r] /\ \A y \in Of(p) \ {x} : f[y] = g[y]
      /\ \A y \in Of(p) : g[y] <= a[y] /\ g[y] \in Int
  BY <1>1, <1>2, <1>3
<1>5. Summable(g, Of(p)) /\ Demand(x)[r] \in Nat
  BY <1>1, <1>3, <1>4 DEF Summable
<1> DEFINE needs == SumFunctionOnSet(a, Of(p))
<1> HIDE DEF f, a, g
<1>6. SumFunctionOnSet(g, Of(p)) = SumFunctionOnSet(f, Of(p)) - f[x] + g[x]
  BY <1>1, <1>4, <1>5, SumUpdate
<1>7. SumFunctionOnSet(g, Of(p)) <= needs
  BY <1>1, <1>4, <1>5, SumBelow
<1>8. SumFunctionOnSet(f, Of(p)) = usage[p][r]
  BY DEF Accounts, f
<1>9. needs \in Nat
  BY <1>1, SumNat DEF Summable
<1>10. usage[p][r] + Demand(x)[r] <= needs
  BY <1>1, <1>3, <1>4, <1>5, <1>6, <1>7, <1>8
<1>11. IF ShareSum(r) = 0 THEN needs = 0 ELSE InShare(p, r, needs)
  BY DEF Modest, a
<1> HIDE DEF needs
<1> DEFINE n == usage[p][r] + Demand(x)[r]
<1>12. n \in Nat /\ n <= needs
  BY <1>1, <1>5, <1>10
<1> HIDE DEF n
<1>13. CASE ShareSum(r) = 0
  <2>1. n = 0
    BY <1>9, <1>11, <1>12, <1>13
  <2>2. InShare(p, r, n)
    BY <1>1, <1>13, <2>1 DEF InShare
  <2> QED
    BY <2>1, <2>2 DEF n
<1>14. CASE ShareSum(r) # 0
  <2>1. n * ShareSum(r) <= needs * ShareSum(r)
    BY <1>1, <1>9, <1>12, TimesGrows
  <2>2. /\ n * ShareSum(r) \in Nat /\ needs * ShareSum(r) \in Nat
        /\ quota.share[p][r] * Cap(r) \in Nat
    BY <1>1, <1>9, <1>12
  <2>3. InShare(p, r, n)
    BY <1>11, <1>14, <2>1, <2>2 DEF InShare
  <2> QED
    BY <1>14, <2>3 DEF n
<1> QED
  BY <1>13, <1>14

\* When no project has more than its share, what is in the share of one remains.
LEMMA ShareRemains ==
  ASSUME TypeOK, Accounts, NEW r \in Resources, NEW p \in Projects, NEW d \in Nat,
         \A q \in Projects : InShare(q, r, usage[q][r]), InShare(p, r, usage[p][r] + d),
         ShareSum(r) # 0
  PROVE  d <= remaining[r]
<1> DEFINE f == UsedBy(r)
           g == [q \in Projects |-> IF q = p THEN f[p] + d ELSE f[q]]
           h == [q \in Projects |-> g[q] * ShareSum(r)]
           s == [q \in Projects |-> quota.share[q][r]]
           k == [q \in Projects |-> s[q] * Cap(r)]
<1>1. /\ Summable(f, Projects) /\ Cap(r) \in Nat /\ remaining[r] \in Nat /\ ShareSum(r) \in Nat \ {0}
      /\ \A q \in Projects : f[q] \in Nat /\ s[q] \in Nat /\ f[q] = usage[q][r]
  BY Countable DEF UsedBy
<1>2. IsFiniteSet(Projects)
  BY <1>1 DEF Summable
<1>3. \A q \in Projects : g[q] \in Nat /\ h[q] = g[q] * ShareSum(r) /\ k[q] = s[q] * Cap(r)
  BY <1>1
<1>4. \A q \in Projects : h[q] \in Nat /\ k[q] \in Nat /\ h[q] <= k[q]
  <2> SUFFICES ASSUME NEW q \in Projects PROVE h[q] \in Nat /\ k[q] \in Nat /\ h[q] <= k[q]
    OBVIOUS
  <2>1. h[q] \in Nat /\ k[q] \in Nat
    BY <1>1, <1>3
  <2>2. InShare(q, r, g[q])
    <3>1. g[q] = IF q = p THEN usage[p][r] + d ELSE usage[q][r]
      BY <1>1
    <3> HIDE DEF g
    <3> QED
      BY <3>1
  <2>3. g[q] * ShareSum(r) <= s[q] * Cap(r)
    BY <2>2 DEF InShare
  <2> HIDE DEF g, h, s, k
  <2> QED
    BY <1>3, <2>1, <2>3
<1>5. g[p] = f[p] + d /\ \A q \in Projects \ {p} : f[q] = g[q]
  OBVIOUS
<1>6. ShareSum(r) = SumFunctionOnSet(s, Projects)
  BY DEF ShareSum, SumFunction
<1>7. remaining[r] + SumFunctionOnSet(f, Projects) = Cap(r)
  BY DEF Accounts
<1> HIDE DEF f, g, h, s, k
<1>8. Summable(g, Projects) /\ Summable(h, Projects) /\ Summable(k, Projects) /\ Summable(s, Projects)
  BY <1>1, <1>2, <1>3, <1>4 DEF Summable
<1>9. SumFunctionOnSet(g, Projects) = SumFunctionOnSet(f, Projects) - f[p] + g[p]
  BY <1>1, <1>3, <1>5, SumUpdate
<1> DEFINE used == SumFunctionOnSet(f, Projects)
           wanted == SumFunctionOnSet(g, Projects)
<1>10. used \in Nat /\ wanted = used + d /\ wanted \in Nat
  <2>1. used \in Nat
    BY <1>1, <1>2, SumNat
  <2> QED
    BY <1>1, <1>5, <1>9, <2>1
<1>11. SumFunctionOnSet(h, Projects) = wanted * ShareSum(r)
  BY <1>1, <1>3, <1>8, SumTimes
<1>12. SumFunctionOnSet(k, Projects) = ShareSum(r) * Cap(r)
  BY <1>1, <1>3, <1>6, <1>8, SumTimes
<1>13. wanted * ShareSum(r) <= Cap(r) * ShareSum(r)
  <2>1. SumFunctionOnSet(h, Projects) <= SumFunctionOnSet(k, Projects)
    BY <1>4, <1>8, SumBelow
  <2> HIDE DEF wanted
  <2>2. ShareSum(r) * Cap(r) = Cap(r) * ShareSum(r)
    BY <1>1
  <2> QED
    BY <1>11, <1>12, <2>1, <2>2
<1> HIDE DEF used, wanted
<1>14. wanted <= Cap(r)
  BY <1>1, <1>10, <1>13, TimesCancels
<1> QED
  BY <1>1, <1>7, <1>10, <1>14 DEF used

\* A project that asks for no more than its share can have what it asks for at first.
LEMMA GuardedInit == Init => Guarded
<1> SUFFICES ASSUME Init PROVE Guarded
  OBVIOUS
<1>1. TypeOK /\ \A p : Of(p) \subseteq Expanded(meta)
  BY TypedInit DEF Typed, Of
<1>2. \A p \in Projects : \A x \in Of(p) : verdict[x] \notin {"over", "unmet"}
  BY <1>1 DEF Init
<1>3. ASSUME NEW q \in Projects, NEW r \in Resources PROVE InShare(q, r, usage[q][r] + Owed(q, r))
  <2>1. usage[q][r] = 0 /\ Owed(q, r) = 0
    BY DEF Init, Zero, Owed
  <2>2. quota.share[q][r] * Cap(r) \in Nat /\ ShareSum(r) \in Nat
    BY <1>1, Countable
  <2>3. (0 + 0) * ShareSum(r) = 0
    BY <2>2
  <2> QED
    BY <2>1, <2>2, <2>3 DEF InShare
<1> QED
  BY <1>2, <1>3 DEF Guarded

\* When it is the turn of a project, a modest one that waits still gets all it asks for.
LEMMA TurnGuarded ==
  ASSUME Scheduled, Charging, Accounts, Guarded, NEW p \in Projects, Modest(p),
         NEW x \in Of(p), verdict[x] = "none", NEW q \in Projects, Turn(q)
  PROVE  /\ \A r \in Resources : InShare(q, r, usage[q][r] + Demand(NextOf(q))[r])
         /\ q = p => Gate(NextOf(p)) /\ Fits(NextOf(p))
<1>0. /\ TypeOK /\ Typed /\ Queued /\ Ordered /\ Considered /\ step = "pick" /\ q \in Waiting
      /\ Partial(meta, Jobs, IsMetadata) /\ x \in Expanded(meta)
  BY DEF Scheduled, Typed, TypeOK, Turn, Of
<1>1. p \in Waiting
  <2>1. x \in Contents(front[p]) \cup Contents(back[p])
    BY <1>0 DEF Considered, Pending, Ordered, Of
  <2>2. Contents(<<>>) = {}
    BY DEF Contents
  <2> QED
    BY <2>1, <2>2 DEF Waiting
<1>2. /\ NextOf(p) \in Expanded(meta) /\ NextOf(p) \in Pending(p) /\ NextOf(q) \in Expanded(meta)
  <2>1. front[p] \in Seq(Expanded(meta)) /\ back[p] \in Seq(Expanded(meta))
    BY <1>0 DEF TypeOK
  <2> QED
    BY <1>0, <1>1, <2>1, Popped, NextKnown DEF NextOf, Waiting, Pending
<1>3. NextOf(p) \in Of(p) /\ verdict[NextOf(p)] = "none"
  BY <1>0, <1>2 DEF Queued, Of
<1>4. \A r \in Resources :
        /\ InShare(p, r, usage[p][r] + Demand(NextOf(p))[r])
        /\ ShareSum(r) = 0 => usage[p][r] + Demand(NextOf(p))[r] = 0
  BY <1>0, <1>3, NextInShare
<1>5. \A c \in Projects, r \in Resources : InShare(c, r, usage[c][r])
  <2> SUFFICES ASSUME NEW c \in Projects, NEW r \in Resources PROVE InShare(c, r, usage[c][r])
    OBVIOUS
  <2>1. InShare(c, r, usage[c][r] + Owed(c, r)) /\ Owed(c, r) = 0
    BY <1>0 DEF Guarded, Owed
  <2>2. usage[c][r] \in Nat
    BY <1>0, Countable
  <2>3. usage[c][r] + 0 = usage[c][r]
    BY <2>2
  <2> QED
    BY <2>1, <2>3
<1>6. ASSUME NEW r \in Resources PROVE InShare(q, r, usage[q][r] + Demand(NextOf(q))[r])
  <2>1. CASE r \in DOMAIN Wants(NextOf(q))
    BY <1>0, <1>1, <1>4, <2>1, TurnInShare
  <2>2. CASE r \notin DOMAIN Wants(NextOf(q))
    <3>1. Demand(NextOf(q))[r] = 0 /\ usage[q][r] \in Nat
      BY <1>0, <2>2, Countable DEF Demand, Amount
    <3>2. usage[q][r] + 0 = usage[q][r]
      BY <3>1
    <3> QED
      BY <1>5, <3>1, <3>2
  <2> QED
    BY <2>1, <2>2
<1>7. Gate(NextOf(p))
  <2> SUFFICES ASSUME IsSlot(NextOf(p)) PROVE verdict[Parent(NextOf(p))] = "run"
    BY DEF Gate
  <2>1. /\ Parent(NextOf(p)) \in Expanded(meta) /\ Senior(Parent(NextOf(p)), NextOf(p))
        /\ Demoted(Parent(NextOf(p))) => Demoted(NextOf(p))
    BY <1>0, <1>2, ParentSenior
  <2>2. verdict[Parent(NextOf(p))] # "none"
    BY <1>0, <1>1, <2>1, ConsideredBefore
  <2>3. Parent(NextOf(p)) \in Of(p)
    BY <1>3, <2>1 DEF Of, Senior
  <2>4. verdict[Parent(NextOf(p))] \in {"none", "over", "unmet", "run"}
    BY <1>0, <2>1 DEF TypeOK
  <2> QED
    BY <2>2, <2>3, <2>4 DEF Guarded
<1>8. Fits(NextOf(p))
  <2> SUFFICES ASSUME NEW r \in Resources PROVE Demand(NextOf(p))[r] <= remaining[r]
    BY DEF Fits
  <2>1. Demand(NextOf(p))[r] \in Nat /\ remaining[r] \in Nat /\ usage[p][r] \in Nat
    BY <1>0, <1>2, Wanted, Countable DEF Amounts
  <2>2. CASE ShareSum(r) = 0
    <3>1. usage[p][r] + Demand(NextOf(p))[r] = 0
      BY <1>4, <2>2
    <3> QED
      BY <2>1, <3>1
  <2>3. CASE ShareSum(r) # 0
    BY <1>0, <1>4, <1>5, <2>1, <2>3, ShareRemains
  <2> QED
    BY <2>2, <2>3
<1> QED
  BY <1>6, <1>7, <1>8

\* Every step leaves a project inside its share what it still asks for.
LEMMA GuardedNext ==
  Scheduled /\ Charging /\ Accounts /\ Guarded /\ [Next]_vars => Guarded'
<1> SUFFICES ASSUME Scheduled, Charging, Accounts, Guarded, [Next]_vars PROVE Guarded'
  OBVIOUS
<1>0. /\ TypeOK /\ Typed /\ Queued
      /\ UNCHANGED <<meta, quota>> /\ \A p : Of(p)' = Of(p) /\ Of(p) \subseteq Expanded(meta)
  BY Verdicts DEF Scheduled, Typed, Of, Expanded, MetaOf
<1>1. /\ \A p : Modest(p)' = Modest(p)
      /\ \A q, r, n : InShare(q, r, n)' = InShare(q, r, n')
      /\ \A x : MetaOf(x)' = MetaOf(x) /\ Demand(x)' = Demand(x)
  <2>1. /\ \A x : MetaOf(x)' = MetaOf(x) /\ Demand(x)' = Demand(x)
        /\ \A r : ShareSum(r)' = ShareSum(r) /\ Cap(r)' = Cap(r)
    BY <1>0 DEF MetaOf, Demand, Wants, ShareSum, Cap
  <2>2. \A p, r : AskedBy(p, r)' = AskedBy(p, r)
    BY <1>0, <2>1 DEF AskedBy
  <2> QED
    BY <1>0, <2>1, <2>2 DEF Modest, InShare
<1> SUFFICES ASSUME NEW p \in Projects, Modest(p)
             PROVE  /\ \A x \in Of(p) : verdict'[x] \notin {"over", "unmet"}
                    /\ (\E x \in Of(p) : verdict'[x] = "none") =>
                         \A q \in Projects, r \in Resources :
                           InShare(q, r, usage'[q][r] + Owed(q, r)')
  BY <1>0, <1>1 DEF Guarded
<1>2. ASSUME NEW x \in Of(p), verdict'[x] \in {"over", "unmet"} PROVE FALSE
  <2>0. x \in Expanded(meta) /\ verdict[x] \notin {"over", "unmet"}
    BY <1>0 DEF Guarded
  <2>1. /\ verdict[x] = "none"
        /\ \E q \in Projects : (RejectOver(q) \/ RejectSlot(q)) /\ x = NextOf(q)
    BY <1>2, <2>0, Verdicts DEF Scheduled
  <2>2. PICK q \in Projects : (RejectOver(q) \/ RejectSlot(q)) /\ x = NextOf(q)
    BY <2>1
  <2>3. Turn(q) /\ step = "pick" /\ NextOf(q) \in Pending(q)
    <3>1. Turn(q) /\ q \in Waiting
      BY <2>2 DEF RejectOver, RejectSlot, Turn
    <3>2. front[q] \in Seq(Expanded(meta)) /\ back[q] \in Seq(Expanded(meta))
      BY <1>0 DEF TypeOK
    <3> QED
      BY <3>1, <3>2, Popped DEF NextOf, Waiting, Pending, Turn
  <2>4. q = p
    BY <1>0, <2>2, <2>3 DEF Queued, Of
  <2>5. Gate(NextOf(p)) /\ Fits(NextOf(p))
    BY <2>1, <2>3, <2>4, TurnGuarded
  <2> QED
    BY <2>2, <2>4, <2>5 DEF RejectOver, RejectSlot, Gate
<1>3. ASSUME NEW x \in Of(p), verdict'[x] = "none", NEW q \in Projects, NEW r \in Resources
      PROVE  InShare(q, r, usage'[q][r] + Owed(q, r)')
  <2>1. verdict[x] = "none"
    BY <1>0, <1>3, Verdicts DEF Scheduled
  <2>2. InShare(q, r, usage[q][r] + Owed(q, r))
    BY <2>1 DEF Guarded
  <2>3. CASE UNCHANGED usage /\ Owed(q, r)' = Owed(q, r)
    BY <2>2, <2>3
  <2>4. CASE step = "pick" /\ UNCHANGED <<usage, step>>
    BY <2>2, <2>4 DEF Owed
  <2>5. ASSUME NEW c \in Projects, Admit(c) PROVE InShare(q, r, usage'[q][r] + Owed(q, r)')
    <3>1. /\ Turn(c) /\ step = "pick" /\ step' = "forward" /\ item' = NextOf(c) /\ UNCHANGED usage
          /\ c \in Waiting
      BY <2>5 DEF Admit, Turn, limits
    <3>2. MetaOf(NextOf(c)).project = c
      <4>1. front[c] \in Seq(Expanded(meta)) /\ back[c] \in Seq(Expanded(meta))
        BY <1>0 DEF TypeOK
      <4>2. NextOf(c) \in Pending(c)
        BY <3>1, <4>1, Popped DEF NextOf, Waiting, Pending
      <4> QED
        BY <1>0, <4>2 DEF Queued
    <3>3. MetaOf(item)' = MetaOf(NextOf(c)) /\ Demand(item)' = Demand(NextOf(c))
      BY <1>0, <3>1 DEF MetaOf, Demand, Wants, IsSlot
    <3>4. Owed(q, r)' = IF q = c THEN Demand(NextOf(c))[r] ELSE 0
      BY <3>1, <3>2, <3>3 DEF Owed
    <3>5. Owed(q, r) = 0
      BY <3>1 DEF Owed
    <3>6. CASE q = c
      <4>1. InShare(c, r, usage[c][r] + Demand(NextOf(c))[r])
        BY <2>1, <3>1, TurnGuarded
      <4> QED
        BY <3>1, <3>4, <3>6, <4>1
    <3>7. CASE q # c
      BY <2>2, <3>1, <3>4, <3>5, <3>7
    <3> QED
      BY <3>6, <3>7
  <2>6. CASE Forward
    <3>1. /\ step = "forward" /\ UNCHANGED <<usage, item>>
          /\ (step' = "forward" \/ (step' = "backward" /\ left' = Demand(item)))
      BY <2>6 DEF Forward, limits
    <3>2. MetaOf(item)' = MetaOf(item) /\ Demand(item)' = Demand(item)
      BY <1>0, <3>1 DEF MetaOf, Demand, Wants, IsSlot
    <3> QED
      BY <2>3, <3>1, <3>2 DEF Owed
  <2>7. CASE Backward
    <3> DEFINE c == MetaOf(item).project
    <3>1. /\ step = "backward" /\ UNCHANGED item /\ left' = LeftOver
          /\ step' \in {"pick", "backward"}
          /\ usage' = [usage EXCEPT ![c] = [s \in Resources |-> @[s] + Take(s)]]
      BY <2>7 DEF Backward
    <3>2. MetaOf(item)' = MetaOf(item)
      BY <1>0, <3>1 DEF MetaOf
    <3>3. /\ Take(r) \in Nat /\ left[r] \in Nat /\ Take(r) <= left[r] /\ left'[r] = left[r] - Take(r)
          /\ usage[q][r] \in Nat /\ quota.share[q][r] * Cap(r) \in Nat /\ ShareSum(r) \in Nat
      BY <1>0, <3>1, Taken, Countable
    <3>4. usage \in [Projects -> Amounts]
      BY <1>0 DEF TypeOK
    <3>5. CASE q = c
      <4> DEFINE m == usage'[q][r] + Owed(q, r)'
                 n == usage[q][r] + Owed(q, r)
      <4>1. usage'[q][r] = usage[q][r] + Take(r) /\ Owed(q, r) = left[r]
        BY <3>1, <3>4, <3>5 DEF Owed
      <4>2. Owed(q, r)' = 0 \/ Owed(q, r)' = left'[r]
        BY <3>1, <3>2, <3>5 DEF Owed
      <4>3. m \in Nat /\ n \in Nat /\ m <= n
        BY <3>3, <4>1, <4>2
      <4>4. InShare(q, r, n)
        BY <2>2
      <4> HIDE DEF m, n
      <4>5. m * ShareSum(r) <= n * ShareSum(r) /\ m * ShareSum(r) \in Nat /\ n * ShareSum(r) \in Nat
        BY <3>3, <4>3, TimesGrows
      <4>6. InShare(q, r, m)
        BY <3>3, <4>4, <4>5 DEF InShare
      <4> QED
        BY <4>6 DEF m
    <3>6. CASE q # c
      <4>1. usage'[q][r] = usage[q][r] /\ Owed(q, r) = 0
        BY <3>1, <3>4, <3>6 DEF Owed
      <4>2. Owed(q, r)' = 0
        BY <3>1, <3>2, <3>6 DEF Owed
      <4> QED
        BY <2>2, <4>1, <4>2
    <3> QED
      BY <3>5, <3>6
  <2>8. CASE \E c \in Projects : Sort(c) \/ RejectSlot(c) \/ RejectOver(c)
    <3>1. UNCHANGED <<usage, step>> /\ step \in {"sort", "pick"}
      BY <2>8 DEF Sort, RejectSlot, RejectOver, Turn, limits
    <3> QED
      BY <2>3, <3>1 DEF Owed
  <2>9. CASE Sorted \/ Collapse
    <3>1. UNCHANGED usage /\ step \notin {"forward", "backward"} /\ step' \notin {"forward", "backward"}
      BY <2>9 DEF Sorted, Collapse, limits
    <3> QED
      BY <2>3, <3>1 DEF Owed
  <2>10. CASE UNCHANGED vars
    <3>1. UNCHANGED <<usage, step, item, left>>
      BY <2>10 DEF vars, limits, cursor
    <3> QED
      BY <1>1, <2>3, <3>1 DEF Owed, MetaOf, Demand, Wants, IsSlot, vars, inputs
  <2> QED
    BY <2>5, <2>6, <2>7, <2>8, <2>9, <2>10 DEF Next
<1> QED
  BY <1>2, <1>3

\* A call ends when nothing waits.
Finished == step = "done" => \A x \in Expanded(meta) : verdict[x] # "none"

\* The call ends when no item is left without a verdict.
LEMMA FinishedNext == Scheduled /\ Finished /\ [Next]_vars => Finished'
<1> SUFFICES ASSUME Scheduled, Finished, [Next]_vars, step' = "done" PROVE Finished'
  BY DEF Finished
<1>1. Collapse \/ UNCHANGED vars
  BY DEF Next, Sort, RejectSlot, RejectOver, Admit, Sorted, Forward, Backward, Turn
<1>2. CASE Collapse
  <2>1. /\ step = "pick" /\ Waiting = {} /\ UNCHANGED <<meta, verdict>>
    BY <1>2 DEF Collapse, inputs
  <2>2. \A x \in Expanded(meta) : MetaOf(x).project \in Projects
    BY Wanted DEF Scheduled, Typed, TypeOK
  <2>3. \A p \in Projects : Pending(p) = {}
    BY <2>1 DEF Scheduled, Ordered, Pending, Waiting, Contents
  <2>4. \A x \in Expanded(meta) : verdict[x] # "none"
    BY <2>1, <2>2, <2>3 DEF Scheduled, Considered
  <2> QED
    BY <2>1, <2>4 DEF Finished, Expanded
<1>3. CASE UNCHANGED vars
  BY <1>3 DEF vars, inputs, Finished, Expanded
<1> QED
  BY <1>1, <1>2, <1>3

\* A project that stays within its quota gets all it asks for: while one of its items
\* waits, every project whose turn comes stays within its share as well, so the item
\* always fits, and a slot finds its job running.
THEOREM QuotasGuaranteed == Spec => []QuotaGuaranteed
<1> DEFINE IInv == Scheduled /\ Charging /\ Accounts /\ Guarded /\ Finished
<1>1. Init => IInv
  BY ScheduledInvariant, ChargingInit, AccountsInit, GuardedInit DEF Init, Finished
<1>2. IInv /\ [Next]_vars => IInv'
  BY ScheduledInvariant, ChargingNext, AccountsNext, GuardedNext, FinishedNext DEF Scheduled
<1>3. IInv => QuotaGuaranteed
  <2> SUFFICES ASSUME IInv, step = "done", NEW p \in Projects,
                      \A r \in Resources :
                        LET needs == SumFunction([x \in Of(p) |-> Demand(x)[r]]) IN
                        IF ShareSum(r) = 0 THEN needs = 0
                        ELSE needs * ShareSum(r) <= quota.share[p][r] * quota.upto[LastTier][r],
                      NEW x \in Of(p)
               PROVE  verdict[x] = "run"
    BY DEF QuotaGuaranteed, Of
  <2>1. \A r \in Resources :
          SumFunction([y \in Of(p) |-> Demand(y)[r]]) = SumFunctionOnSet(AskedBy(p, r), Of(p))
    BY DEF SumFunction, AskedBy
  <2>2. Modest(p)
    BY <2>1 DEF Modest, InShare, Cap
  <2>3. x \in Expanded(meta) /\ verdict[x] \in {"none", "over", "unmet", "run"}
    BY DEF Of, Scheduled, Typed, TypeOK
  <2> QED
    BY <2>2, <2>3 DEF Guarded, Finished
<1> QED
  BY <1>1, <1>2, <1>3, PTL DEF Spec

----------------------------------------------------------------------------
(* What a project is charged for. *)

\* The answer of a call is made of its verdicts.
Reported == step = "done" => result = [j \in DOMAIN meta |-> Collapsed(j)]

\* The result of the call is collapsed from the verdicts, which do not change any more.
LEMMA ReportedNext == Scheduled /\ Reported /\ [Next]_vars => Reported'
<1> SUFFICES ASSUME Scheduled, Reported, [Next]_vars, step' = "done"
             PROVE  result' = [j \in DOMAIN meta |-> Collapsed(j)]'
  BY DEF Reported
<1>1. Collapse \/ UNCHANGED vars
  BY DEF Next, Sort, RejectSlot, RejectOver, Admit, Sorted, Forward, Backward, Turn
<1>2. UNCHANGED <<meta, dryRun, verdict, tier>>
  BY <1>1 DEF Collapse, inputs, vars
<1>3. \A j : Collapsed(j)' = Collapsed(j)
  BY <1>2 DEF Collapsed, Granted, Expanded
<1>4. result' = [j \in DOMAIN meta |-> Collapsed(j)]
  BY <1>1 DEF Collapse, vars, Reported
<1> QED
  BY <1>2, <1>3, <1>4

\* The items of one job, and its slots of one spec that run.
ItemsOf(j) == {x \in Expanded(meta) : x[1] = j}
RunningSlots(j, s) == {x \in Expanded(meta) : x[1] = j /\ x[2] = s /\ verdict[x] = "run"}

\* What the slots of a running job paid is what was granted of each of its specs.
LEMMA JobCharged ==
  ASSUME Scheduled, Charging, step = "done", NEW r \in Resources,
         NEW j \in DOMAIN meta, verdict[Base(j)] = "run",
         NEW f, \A x \in ItemsOf(j) : f[x] = paid[x][r],
         NEW g, \A s \in DOMAIN meta[j].scaling :
                  g[s] = Cardinality(RunningSlots(j, s)) * Amount(meta[j].scaling[s].per)[r]
  PROVE  SumFunctionOnSet(f, ItemsOf(j))
           = Amount(meta[j].resources)[r] + SumFunctionOnSet(g, DOMAIN meta[j].scaling)
<1> DEFINE D == DOMAIN meta[j].scaling
           Slots == ItemsOf(j) \ {Base(j)}
           c == [x \in Slots |-> x[2]]
           Class(s) == {x \in Slots : c[x] = s}
           h == [s \in D |-> SumFunctionOnSet(f, Class(s))]
<1>0. /\ TypeOK /\ Partial(meta, Jobs, IsMetadata) /\ Base(j) \in Expanded(meta) /\ ~IsSlot(Base(j))
      /\ MetaOf(Base(j)) = meta[j] /\ IsMetadata(meta[j])
  BY BaseKnown DEF Scheduled, Typed, TypeOK, Partial
<1>1. D \subseteq Specs /\ 0 \notin D /\ IsFiniteSet(D)
  <2>1. D \subseteq Specs /\ 0 \notin Specs /\ IsFiniteSet(Specs)
    BY <1>0, SchedulerAssumption DEF IsMetadata, Partial, SchedulerAssumption
  <2> HIDE DEF D
  <2> QED
    BY <2>1, FS_Subset
<1>2. ItemsOf(j) \subseteq Expanded(meta) /\ IsFiniteSet(ItemsOf(j))
  BY <1>0, FiniteCall, FS_Subset DEF ItemsOf
<1>3. ASSUME NEW x \in ItemsOf(j)
      PROVE  /\ f[x] = IF verdict[x] = "run" THEN Demand(x)[r] ELSE 0
             /\ f[x] \in Nat
  <2>1. x \in Expanded(meta) /\ Demand(x)[r] \in Nat
    BY <1>0, <1>2, Wanted DEF Amounts
  <2>2. /\ verdict[x] = "run" => paid[x] = Demand(x)
        /\ verdict[x] # "run" => paid[x] = Zero
    BY <2>1 DEF Charging, ChargedInFull, Untouched
  <2> QED
    BY <1>3, <2>1, <2>2 DEF Zero
<1>4. Summable(f, ItemsOf(j)) /\ Summable(f, Slots)
  <2>1. IsFiniteSet(Slots)
    BY <1>2, FS_RemoveElement
  <2> QED
    BY <1>2, <1>3, <2>1 DEF Summable
<1>5. \A x \in Slots : /\ x \in Expanded(meta) /\ x[1] = j /\ c[x] = x[2] /\ x[2] \in D /\ IsSlot(x)
                       /\ MetaOf(x) = meta[j]
  <2>1. \A x \in Slots : x \in Expanded(meta) /\ x[1] = j /\ x # Base(j)
    BY DEF ItemsOf
  <2> QED
    BY <1>1, <2>1 DEF Expanded, IsSlot, MetaOf
<1>6. Base(j) \in ItemsOf(j) /\ f[Base(j)] = Amount(meta[j].resources)[r]
  <2>1. Base(j) \in ItemsOf(j)
    BY <1>0 DEF ItemsOf, Base
  <2>2. Demand(Base(j)) = Amount(meta[j].resources)
    BY <1>0 DEF Demand, Wants
  <2> QED
    BY <1>3, <2>1, <2>2
<1>7. ASSUME NEW s \in D PROVE h[s] = g[s] /\ g[s] \in Int
  <2> DEFINE R == RunningSlots(j, s)
             v == Amount(meta[j].scaling[s].per)[r]
  <2>1. R \subseteq Class(s) /\ \A x \in Class(s) : x \in Slots /\ (x \in R <=> verdict[x] = "run")
    <3>1. \A x \in R : x \in Slots /\ x[2] = s
      BY <1>1 DEF RunningSlots, ItemsOf, Base
    <3> QED
      BY <1>5, <3>1 DEF RunningSlots
  <2>2. \A x \in Class(s) : x \in ItemsOf(j) /\ x[2] = s /\ IsSlot(x) /\ MetaOf(x) = meta[j]
    BY <1>5
  <2>3. \A x \in Class(s) \ R : f[x] = 0
    BY <1>3, <2>1, <2>2
  <2>4. \A x \in R : f[x] = v
    <3>1. \A x \in R : Demand(x)[r] = v
      BY <2>1, <2>2 DEF Demand, Wants
    <3> QED
      BY <1>3, <2>1, <2>2, <3>1
  <2>5. v \in Nat
    <3>1. IsSpec(meta[j].scaling[s])
      BY <1>0 DEF IsMetadata, Partial
    <3> QED
      BY <3>1 DEF Amount, IsSpec, Partial, IsNat
  <2>6. Class(s) \in SUBSET Slots /\ R \in SUBSET Class(s)
    BY <2>1
  <2>7. Summable(f, Class(s)) /\ IsFiniteSet(R)
    BY <1>4, <2>6, FS_Subset DEF Summable
  <2>8. h[s] = SumFunctionOnSet(f, Class(s)) /\ g[s] = Cardinality(R) * v
    OBVIOUS
  <2>9. Cardinality(R) \in Nat
    BY <2>7, FS_CardinalityType
  <2> HIDE DEF R, v, Class, h
  <2>10. SumFunctionOnSet(f, Class(s)) = SumFunctionOnSet(f, R)
    BY <2>3, <2>6, <2>7, SumPart
  <2>11. SumFunctionOnSet(f, R) = Cardinality(R) * v
    BY <2>4, <2>5, <2>7, SumEqual
  <2> QED
    BY <2>5, <2>8, <2>9, <2>10, <2>11
<1>8. SumFunctionOnSet(f, ItemsOf(j)) = f[Base(j)] + SumFunctionOnSet(f, Slots)
  BY <1>4, <1>6, SumAny
<1>9. SumFunctionOnSet(f, Slots) = SumFunctionOnSet(h, D)
  <2>1. \A x \in Slots : c[x] \in D
    BY <1>5
  <2> HIDE DEF Slots, c, D
  <2> QED
    BY <1>1, <1>4, <2>1, SumByClass
<1>10. SumFunctionOnSet(h, D) = SumFunctionOnSet(g, D)
  <2>1. Summable(h, D) /\ \A s \in D : h[s] = g[s]
    BY <1>1, <1>7 DEF Summable
  <2> HIDE DEF h, D
  <2> QED
    BY <2>1, SumSame
<1> QED
  BY <1>6, <1>8, <1>9, <1>10

\* The books balance: what a project is charged is what its jobs are told to run with,
\* with the replicas granted to the elastic ones (_collapse_expansion_verdicts).
THEOREM GrantsAreCharged == Spec => []GrantsCharged
<1> DEFINE IInv == Scheduled /\ Charging /\ Accounts /\ ParentRuns /\ Reported
<1>1. Init => IInv
  BY ScheduledInvariant, ChargingInit, AccountsInit, ParentRunsInit DEF Init, Reported
<1>2. IInv /\ [Next]_vars => IInv'
  BY ScheduledInvariant, ChargingNext, AccountsNext, ParentRunsNext, ReportedNext DEF Scheduled
<1>3. IInv => GrantsCharged
  <2> DEFINE Run(p) == {j \in DOMAIN meta : meta[j].project = p /\ result[j].run}
             slots(j, r) == [s \in DOMAIN meta[j].scaling |->
                               (result[j].granted[s] - meta[j].scaling[s].min)
                                 * Amount(meta[j].scaling[s].per)[r]]
             told(p, r) == [j \in Run(p) |-> Amount(meta[j].resources)[r] + SumFunction(slots(j, r))]
  <2> SUFFICES ASSUME IInv, step = "done", ~dryRun, NEW p \in Projects, NEW r \in Resources
               PROVE  usage[p][r] = SumFunctionOnSet(told(p, r), Run(p))
    BY DEF GrantsCharged, SumFunction
  <2> DEFINE f == PaidBy(p, r)
             J == {j \in DOMAIN meta : meta[j].project = p}
             c == [x \in Of(p) |-> x[1]]
             Class(j) == {x \in Of(p) : c[x] = j}
             h == [j \in J |-> SumFunctionOnSet(f, Class(j))]
  <2>1. TypeOK /\ Partial(meta, Jobs, IsMetadata) /\ IsFiniteSet(J)
    <3>1. TypeOK /\ Partial(meta, Jobs, IsMetadata) /\ J \subseteq Jobs
      BY DEF Scheduled, Typed, TypeOK, Partial
    <3> HIDE DEF J
    <3> QED
      BY <3>1, SchedulerAssumption, FS_Subset DEF SchedulerAssumption
  <2>2. \A j \in J : Class(j) = ItemsOf(j)
    BY DEF Of, ItemsOf, MetaOf
  <2>3. \A x \in Of(p) : c[x] \in J
    BY DEF Of, Expanded, MetaOf
  <2>4. Summable(f, Of(p)) /\ \A x \in Of(p) : x \in Expanded(meta) /\ f[x] = paid[x][r]
    BY <2>1, Countable DEF Of, PaidBy
  <2>5. SumFunctionOnSet(f, Of(p)) = SumFunctionOnSet(h, J)
    <3> HIDE DEF f, J, c
    <3> QED
      BY <2>1, <2>3, <2>4, SumByClass
  <2>6. usage[p][r] = SumFunctionOnSet(f, Of(p))
    BY DEF Accounts
  <2>7. ASSUME NEW j \in DOMAIN meta
        PROVE  /\ verdict[Base(j)] = "run" =>
                    /\ result[j].run
                    /\ result[j].granted = [s \in DOMAIN meta[j].scaling |-> Granted(j, s)]
               /\ verdict[Base(j)] # "run" => ~result[j].run
    <3>1. result[j] = Collapsed(j)
      BY DEF Reported
    <3>2. CASE verdict[Base(j)] = "run"
      <4>1. result[j] = [run |-> TRUE, tier |-> tier[Base(j)],
                         granted |-> [s \in DOMAIN meta[j].scaling |-> Granted(j, s)]]
        BY <3>1, <3>2, Zenon DEF Collapsed
      <4> QED
        BY <3>2, <4>1
    <3>3. CASE verdict[Base(j)] # "run"
      BY <3>1, <3>3 DEF Collapsed, Refused
    <3> QED
      BY <3>2, <3>3
  <2>8. Run(p) \subseteq J /\ \A j \in J : j \in Run(p) <=> verdict[Base(j)] = "run"
    BY <2>7
  <2>9. ASSUME NEW j \in J \ Run(p) PROVE h[j] = 0
    <3>1. ASSUME NEW x \in ItemsOf(j) PROVE f[x] = 0
      <4>1. x \in Expanded(meta) /\ x[1] = j /\ x \in Of(p)
        BY <2>2 DEF ItemsOf
      <4>2. verdict[x] # "run"
        <5>1. verdict[Base(j)] # "run" /\ Parent(x) = Base(j)
          BY <2>8, <4>1 DEF Parent
        <5>2. x = Base(j) \/ IsSlot(x)
          <6>1. \A s \in DOMAIN meta[j].scaling : s # 0
            BY <2>1, SchedulerAssumption DEF Partial, IsMetadata, SchedulerAssumption
          <6> QED
            BY <4>1, <6>1 DEF Expanded, IsSlot
        <5> QED
          BY <4>1, <5>1, <5>2 DEF ParentRuns
      <4>3. paid[x] = Zero
        BY <4>1, <4>2 DEF Charging, Untouched
      <4> QED
        BY <2>4, <4>1, <4>3 DEF Zero
    <3>2. IsFiniteSet(ItemsOf(j))
      BY <2>1, FiniteCall, FS_Subset DEF ItemsOf
    <3>3. SumFunctionOnSet(f, ItemsOf(j)) = Cardinality(ItemsOf(j)) * 0
      <4> HIDE DEF f
      <4> QED
        BY <3>1, <3>2, SumEqual
    <3>4. Cardinality(ItemsOf(j)) * 0 = 0
      BY <3>2, FS_CardinalityType
    <3>5. h[j] = SumFunctionOnSet(f, Class(j)) /\ Class(j) = ItemsOf(j)
      BY <2>2
    <3> HIDE DEF h, f, Class
    <3> QED
      BY <3>3, <3>4, <3>5
  <2>10. ASSUME NEW j \in Run(p) PROVE h[j] = told(p, r)[j]
    <3> DEFINE g == slots(j, r)
    <3>1. j \in J /\ j \in DOMAIN meta /\ verdict[Base(j)] = "run"
      BY <2>8
    <3>2. \A x \in ItemsOf(j) : f[x] = paid[x][r]
      BY <2>2, <2>4, <3>1
    <3>3. \A s \in DOMAIN meta[j].scaling :
            g[s] = Cardinality(RunningSlots(j, s)) * Amount(meta[j].scaling[s].per)[r]
      <4> SUFFICES ASSUME NEW s \in DOMAIN meta[j].scaling
                   PROVE  result[j].granted[s] - meta[j].scaling[s].min = Cardinality(RunningSlots(j, s))
        OBVIOUS
      <4>1. result[j].granted[s] = meta[j].scaling[s].min + Cardinality(RunningSlots(j, s))
        BY <2>7, <3>1 DEF Granted, RunningSlots
      <4>2. meta[j].scaling[s].min \in Nat
        BY <2>1, <3>1, SchedulerAssumption DEF Partial, IsMetadata, IsSpec, SchedulerAssumption
      <4>3. Cardinality(RunningSlots(j, s)) \in Nat
        BY <2>1, FiniteCall, FS_Subset, FS_CardinalityType DEF RunningSlots
      <4> QED
        BY <4>1, <4>2, <4>3
    <3>4. DOMAIN g = DOMAIN meta[j].scaling
      OBVIOUS
    <3>5. /\ h[j] = SumFunctionOnSet(f, Class(j)) /\ Class(j) = ItemsOf(j)
          /\ told(p, r)[j] = Amount(meta[j].resources)[r] + SumFunction(g)
      BY <2>2, <3>1
    <3>6. SumFunction(g) = SumFunctionOnSet(g, DOMAIN meta[j].scaling)
      BY <3>4 DEF SumFunction
    <3> HIDE DEF f, g, h, Class, told
    <3>7. SumFunctionOnSet(f, ItemsOf(j))
            = Amount(meta[j].resources)[r] + SumFunctionOnSet(g, DOMAIN meta[j].scaling)
      BY <3>1, <3>2, <3>3, JobCharged
    <3> QED
      BY <3>5, <3>6, <3>7
  <2>11. Summable(h, J) /\ Summable(h, Run(p))
    <3>1. \A j \in J : SumFunctionOnSet(f, Class(j)) \in Int
      <4> SUFFICES ASSUME NEW j \in J PROVE SumFunctionOnSet(f, Class(j)) \in Int
        OBVIOUS
      <4>1. Class(j) \in SUBSET Of(p)
        OBVIOUS
      <4> HIDE DEF f, Class
      <4>2. Summable(f, Class(j))
        BY <2>4, <4>1, FS_Subset DEF Summable
      <4> QED
        BY <4>2, SumStep
    <3>2. \A j \in J : h[j] \in Int
      BY <3>1
    <3> HIDE DEF h, J, Run
    <3> QED
      BY <2>1, <2>8, <3>2, FS_Subset DEF Summable
  <2> HIDE DEF f, J, h, Class, c, Run, told
  <2>12. SumFunctionOnSet(h, J) = SumFunctionOnSet(h, Run(p))
    BY <2>8, <2>9, <2>11, SumPart
  <2>13. SumFunctionOnSet(h, Run(p)) = SumFunctionOnSet(told(p, r), Run(p))
    BY <2>10, <2>11, SumSame
  <2> QED
    BY <2>5, <2>6, <2>12, <2>13
<1> QED
  BY <1>1, <1>2, <1>3, PTL DEF Spec

----------------------------------------------------------------------------
(* What is refused. *)

\* A slot is turned down for want of its job, which stays refused.
Orphaned ==
  \A x \in Expanded(meta) :
    verdict[x] = "unmet" => IsSlot(x) /\ verdict[Parent(x)] \in {"over", "unmet"}

\* Every step keeps it: verdicts do not change.
LEMMA OrphanedNext == Scheduled /\ Orphaned /\ [Next]_vars => Orphaned'
<1> SUFFICES ASSUME Scheduled, Orphaned, [Next]_vars, NEW x \in Expanded(meta)',
                    verdict'[x] = "unmet"
             PROVE  IsSlot(x) /\ verdict'[Parent(x)] \in {"over", "unmet"}
  BY DEF Orphaned, IsSlot, Parent, Base
<1>1. UNCHANGED meta /\ x \in Expanded(meta) /\ Partial(meta, Jobs, IsMetadata)
  BY Verdicts DEF Scheduled, Typed, TypeOK, Expanded, Target
<1>2. IsSlot(x) /\ verdict[Parent(x)] \in {"over", "unmet"}
  <2>1. CASE verdict[x] = "unmet"
    BY <1>1, <2>1 DEF Orphaned
  <2>2. CASE verdict[x] # "unmet"
    <3>1. PICK p \in Projects : RejectSlot(p) /\ x = NextOf(p)
      BY <1>1, <2>2, Verdicts DEF Scheduled
    <3> QED
      BY <3>1 DEF RejectSlot
  <2> QED
    BY <2>1, <2>2
<1>3. Parent(x) \in Expanded(meta)
  BY <1>1, <1>2, ParentSenior
<1> QED
  BY <1>1, <1>2, <1>3, Verdicts DEF Scheduled

\* At the end, what was refused does not fit into what remains, or is a slot of a job
\* that was refused.
NothingWasted ==
  step = "done" =>
    \A x \in Expanded(meta) : verdict[x] # "run" =>
      ~Fits(x) \/ (IsSlot(x) /\ verdict[Parent(x)] # "run")

\* The scheduler leaves nothing unused that a job in the call could have had: what was too
\* much when the turn of an item came is too much at the end.
THEOREM RefusedForCause == Spec => []NothingWasted
<1> DEFINE IInv == Scheduled /\ Answers /\ Orphaned /\ Finished
<1>1. Init => IInv
  <2> SUFFICES ASSUME Init PROVE IInv
    OBVIOUS
  <2>1. Scheduled /\ step = "sort" /\ \A x \in Expanded(meta) : verdict[x] = "none"
    BY ScheduledInvariant DEF Init
  <2> QED
    BY <2>1 DEF Answers, Orphaned, Finished
<1>2. IInv /\ [Next]_vars => IInv'
  BY ScheduledInvariant, AnswersNext, OrphanedNext, FinishedNext
<1>3. IInv => NothingWasted
  <2> SUFFICES ASSUME IInv, step = "done", NEW x \in Expanded(meta), verdict[x] # "run"
               PROVE  ~Fits(x) \/ (IsSlot(x) /\ verdict[Parent(x)] # "run")
    BY DEF NothingWasted
  <2>1. verdict[x] \in {"over", "unmet"}
    BY DEF Finished, Scheduled, Typed, TypeOK
  <2> QED
    BY <2>1 DEF Answers, Orphaned
<1> QED
  BY <1>1, <1>2, <1>3, PTL DEF Spec

----------------------------------------------------------------------------
(* Orders: of a finite set, and of keys. *)

\* A finite set has a least element in an order that compares any two, if < is transitive.
LEMMA LeastExists ==
  ASSUME NEW S, IsFiniteSet(S), S # {}, NEW R,
         \A x, y \in S : x # y => <<x, y>> \in R \/ <<y, x>> \in R,
         \A x, y, z \in S : <<x, y>> \in R /\ <<y, z>> \in R => <<x, z>> \in R
  PROVE  \E x \in S : \A y \in S \ {x} : <<x, y>> \in R
<1> DEFINE G == {T \in SUBSET S : T = {} \/ \E x \in T : \A y \in T \ {x} : <<x, y>> \in R}
<1>1. {} \in G
  OBVIOUS
<1>2. ASSUME NEW T \in SUBSET S, NEW a \in S \ T, T \in G PROVE T \cup {a} \in G
  <2>1. CASE T = {}
    BY <2>1
  <2>2. CASE T # {}
    <3>1. PICK x \in T : \A y \in T \ {x} : <<x, y>> \in R
      BY <1>2, <2>2
    <3>2. CASE <<x, a>> \in R
      <4>1. \A y \in (T \cup {a}) \ {x} : <<x, y>> \in R
        BY <3>1, <3>2
      <4> QED
        BY <4>1
    <3>3. CASE <<a, x>> \in R
      <4>1. \A y \in (T \cup {a}) \ {a} : <<a, y>> \in R
        BY <3>1, <3>3
      <4> QED
        BY <4>1
    <3> QED
      BY <3>2, <3>3
  <2> QED
    BY <2>1, <2>2
<1>3. S \in G
  <2> HIDE DEF G
  <2> QED
    BY <1>1, <1>2, EveryFiniteSet
<1> QED
  BY <1>3

\* A key of n numbers.
IsKey(a, n) == DOMAIN a = 1..n /\ \A i \in 1..n : a[i] \in Nat

\* Keys that differ are ordered: by the first place where they do.
LEMMA LexTotal ==
  ASSUME NEW n \in Nat, NEW a, NEW b, IsKey(a, n), IsKey(b, n), \E i \in 1..n : a[i] # b[i]
  PROVE  LexLess(a, b) \/ LexLess(b, a)
<1> DEFINE G == {m \in Nat : \A i \in 1..n : i < m => a[i] = b[i]}
<1>1. 0 \in G
  OBVIOUS
<1>2. PICK m \in Nat : m \in G /\ m + 1 \notin G
  <2>1. SUFFICES ASSUME \A m \in Nat : m \in G => m + 1 \in G PROVE FALSE
    OBVIOUS
  <2> HIDE DEF G
  <2>2. Nat \subseteq G
    BY <1>1, <2>1, EveryNumber
  <2>3. n + 1 \in G
    BY <2>2
  <2> USE DEF G
  <2> QED
    BY <2>3
<1>3. PICK i \in 1..n : i < m + 1 /\ a[i] # b[i]
  BY <1>2
<1>4. i = m
  BY <1>2, <1>3
<1>5. a[i] < b[i] \/ b[i] < a[i]
  BY <1>3 DEF IsKey
<1>6. \A k \in 1..n : k < i => a[k] = b[k] /\ b[k] = a[k]
  BY <1>2, <1>4
<1> HIDE DEF G
<1>7. DOMAIN a = 1..n /\ DOMAIN b = 1..n
  BY DEF IsKey
<1>8. CASE a[i] < b[i]
  BY <1>6, <1>7, <1>8 DEF LexLess
<1>9. CASE b[i] < a[i]
  BY <1>6, <1>7, <1>9 DEF LexLess
<1> QED
  BY <1>5, <1>8, <1>9

\* The order of keys is transitive.
LEMMA LexTransitive ==
  ASSUME NEW n \in Nat, NEW a, NEW b, NEW c, IsKey(a, n), IsKey(b, n), IsKey(c, n),
         LexLess(a, b), LexLess(b, c)
  PROVE  LexLess(a, c)
<1>1. PICK i \in 1..n : a[i] < b[i] /\ \A k \in 1..n : k < i => a[k] = b[k]
  BY DEF LexLess, IsKey
<1>2. PICK j \in 1..n : b[j] < c[j] /\ \A k \in 1..n : k < j => b[k] = c[k]
  BY DEF LexLess, IsKey
<1>3. /\ a[i] \in Nat /\ b[i] \in Nat /\ c[i] \in Nat
      /\ a[j] \in Nat /\ b[j] \in Nat /\ c[j] \in Nat
  BY DEF IsKey
<1>4. CASE i <= j
  <2>1. a[i] < c[i] /\ \A k \in 1..n : k < i => a[k] = c[k]
    BY <1>1, <1>2, <1>3, <1>4
  <2> QED
    BY <2>1 DEF LexLess, IsKey
<1>5. CASE j < i
  <2>1. a[j] < c[j] /\ \A k \in 1..n : k < j => a[k] = c[k]
    BY <1>1, <1>2, <1>3, <1>5
  <2> QED
    BY <2>1 DEF LexLess, IsKey
<1> QED
  BY <1>4, <1>5

\* No key goes before itself.
LEMMA LexIrreflexive ==
  ASSUME NEW n \in Nat, NEW a, IsKey(a, n), LexLess(a, a)
  PROVE  FALSE
BY DEF LexLess, IsKey

----------------------------------------------------------------------------
(* Whose turn it is. *)

\* The tie between two projects is broken by a key of two numbers.
LEMMA TieKey ==
  ASSUME TypeOK, NEW p \in Waiting
  PROVE  /\ IsKey(<<MetaOf(NextOf(p)).created, p>>, 2) /\ IsFraction(Ratio(p))
         /\ p \in Projects /\ NextOf(p) \in Expanded(meta)
<1>1. p \in Projects /\ NextOf(p) \in Expanded(meta)
  BY NextKnown
<1>2. p \in Nat /\ MetaOf(NextOf(p)).created \in Nat
  BY <1>1, ItemNumbers, SchedulerAssumption DEF SchedulerAssumption, TypeOK
<1>3. IsFraction(Ratio(p))
  BY <1>1, RatioLargest
<1> HIDE DEF IsFraction
<1> QED
  BY <1>1, <1>2, <1>3 DEF IsKey

\* Of two projects that wait, one goes before the other.
LEMMA BeforeTotal ==
  ASSUME TypeOK, NEW p \in Waiting, NEW q \in Waiting, p # q
  PROVE  Before(p, q) \/ Before(q, p)
<1> DEFINE k == <<MetaOf(NextOf(p)).created, p>>
           l == <<MetaOf(NextOf(q)).created, q>>
<1>1. IsKey(k, 2) /\ IsKey(l, 2) /\ IsFraction(Ratio(p)) /\ IsFraction(Ratio(q))
  BY TieKey
<1>2. k[2] # l[2] /\ 2 \in 1..2
  OBVIOUS
<1>3. LexLess(k, l) \/ LexLess(l, k)
  <2> HIDE DEF k, l
  <2> QED
    BY <1>1, <1>2, LexTotal
<1>4. AtMost(Ratio(p), Ratio(q)) \/ AtMost(Ratio(q), Ratio(p))
  BY <1>1, AtMostTotal
<1> QED
  BY <1>3, <1>4 DEF Before

\* It is an order.
LEMMA BeforeTransitive ==
  ASSUME TypeOK, NEW p \in Waiting, NEW q \in Waiting, NEW s \in Waiting,
         Before(p, q), Before(q, s)
  PROVE  Before(p, s)
<1> DEFINE k == <<MetaOf(NextOf(p)).created, p>>
           l == <<MetaOf(NextOf(q)).created, q>>
           m == <<MetaOf(NextOf(s)).created, s>>
           a == Ratio(p)
           b == Ratio(q)
           c == Ratio(s)
<1>1. /\ IsKey(k, 2) /\ IsKey(l, 2) /\ IsKey(m, 2)
      /\ IsFraction(a) /\ IsFraction(b) /\ IsFraction(c)
  BY TieKey
<1>2. /\ ~AtMost(b, a) \/ (AtMost(a, b) /\ LexLess(k, l))
      /\ ~AtMost(c, b) \/ (AtMost(b, c) /\ LexLess(l, m))
      /\ Before(p, s) <=> ~AtMost(c, a) \/ (AtMost(a, c) /\ LexLess(k, m))
  BY DEF Before
<1> HIDE DEF k, l, m, a, b, c
<1>3. AtMost(a, b) /\ AtMost(b, c)
  BY <1>1, <1>2, AtMostTotal
<1>4. AtMost(a, c)
  BY <1>1, <1>3, AtMostTransitive
<1>5. SUFFICES ASSUME AtMost(c, a) PROVE LexLess(k, m)
  BY <1>2, <1>4
<1>6. AtMost(b, a)
  BY <1>1, <1>3, <1>5, AtMostTransitive
<1>7. AtMost(c, b)
  BY <1>1, <1>3, <1>5, AtMostTransitive
<1>8. LexLess(k, l) /\ LexLess(l, m)
  BY <1>2, <1>6, <1>7
<1> QED
  BY <1>1, <1>8, LexTransitive

\* No project goes before itself.
LEMMA BeforeIrreflexive ==
  ASSUME TypeOK, NEW p \in Waiting, Before(p, p)
  PROVE  FALSE
<1>1. IsKey(<<MetaOf(NextOf(p)).created, p>>, 2) /\ AtMost(Ratio(p), Ratio(p))
  BY TieKey, AtMostTotal
<1>2. LexLess(<<MetaOf(NextOf(p)).created, p>>, <<MetaOf(NextOf(p)).created, p>>)
  BY <1>1 DEF Before
<1> QED
  BY <1>1, <1>2, LexIrreflexive

\* Exactly one project that waits has the turn.
LEMMA OneTurn ==
  ASSUME TypeOK, step = "pick", Waiting # {}
  PROVE  \E p \in Waiting : \A q \in Projects : Turn(q) <=> q = p
<1> DEFINE R == {w \in Waiting \X Waiting : Before(w[1], w[2])}
<1>1. IsFiniteSet(Waiting)
  BY FS_Subset, SchedulerAssumption DEF SchedulerAssumption, Waiting
<1>2. \A p, q \in Waiting : <<p, q>> \in R <=> Before(p, q)
  OBVIOUS
<1> HIDE DEF R
<1>3. \A p, q \in Waiting : p # q => <<p, q>> \in R \/ <<q, p>> \in R
  BY <1>2, BeforeTotal
<1>4. \A p, q, s \in Waiting : <<p, q>> \in R /\ <<q, s>> \in R => <<p, s>> \in R
  BY <1>2, BeforeTransitive
<1>5. PICK p \in Waiting : \A q \in Waiting \ {p} : <<p, q>> \in R
  BY <1>1, <1>3, <1>4, LeastExists
<1>6. Turn(p)
  BY <1>2, <1>5 DEF Turn
<1>7. ASSUME NEW q \in Projects, Turn(q), q # p PROVE FALSE
  <2>1. q \in Waiting /\ Before(q, p) /\ Before(p, q)
    BY <1>6, <1>7 DEF Turn
  <2> QED
    BY <2>1, BeforeTransitive, BeforeIrreflexive
<1> QED
  BY <1>6, <1>7

----------------------------------------------------------------------------
(* Which item is sorted next. *)

\* What a user has used is a number.
Spends == spent \in [Projects -> [Users -> Nat]]

\* Nothing is spent at first.
LEMMA SpendsInit == Init => Spends
BY DEF Init, Spends

\* Sorting adds the demand of an item to what its user has spent.
LEMMA SpendsNext == Typed /\ Spends /\ [Next]_vars => Spends'
<1> SUFFICES ASSUME Typed, Spends, [Next]_vars PROVE Spends'
  OBVIOUS
<1>1. ASSUME NEW p \in Projects, Sort(p) PROVE Spends'
  <2>1. PICK x \in unsorted[p] :
          spent' = IF FairShare
                   THEN [spent EXCEPT ![p][MetaOf(x).user] = @ + SumFunction(Demand(x))]
                   ELSE spent
    BY <1>1 DEF Sort
  <2>2. x \in Expanded(meta) /\ Partial(meta, Jobs, IsMetadata)
    BY DEF Typed, TypeOK
  <2>3. MetaOf(x).user \in Users
    BY <2>2 DEF Expanded, MetaOf, Partial, IsMetadata
  <2>4. SumFunction(Demand(x)) \in Nat
    <3>1. Demand(x) \in [Resources -> Nat]
      BY <2>2, Wanted DEF Amounts
    <3>2. SumFunction(Demand(x)) = SumFunctionOnSet(Demand(x), Resources)
      BY <3>1 DEF SumFunction, SumFunctionOnSet, FoldFunction, FoldFunctionOnSet
    <3> QED
      BY <3>1, <3>2, SumNat, SchedulerAssumption DEF SchedulerAssumption
  <2> QED
    BY <2>1, <2>3, <2>4 DEF Spends
<1>2. (\E p \in Projects : Sort(p)) \/ UNCHANGED spent
  BY DEF Next, RejectSlot, RejectOver, Admit, Sorted, Forward, Backward, Collapse, order, vars
<1> QED
  BY <1>1, <1>2 DEF Spends

\* The keys by which a project is sorted.
LEMMA SortKeys ==
  ASSUME TypeOK, Spends, NEW p \in Projects, NEW x \in unsorted[p]
  PROVE  /\ IsKey(Key(x), 5) /\ IsKey(UserKey(p, x), 6)
         /\ x = <<Key(x)[3], Key(x)[4], Key(x)[5]>>
         /\ x = <<UserKey(p, x)[4], UserKey(p, x)[5], UserKey(p, x)[6]>>
<1>1. x \in Expanded(meta) /\ Partial(meta, Jobs, IsMetadata)
  BY DEF TypeOK
<1>2. /\ x = <<x[1], x[2], x[3]>> /\ x[1] \in Nat /\ x[2] \in Nat /\ x[3] \in Nat
      /\ MetaOf(x).priority \in Nat /\ MetaOf(x).created \in Nat
  BY <1>1, ItemNumbers
<1>3. spent[p][MetaOf(x).user] \in Nat
  BY <1>1 DEF Expanded, MetaOf, Partial, IsMetadata, Spends
<1>4. IsKey(Key(x), 5) /\ x = <<Key(x)[3], Key(x)[4], Key(x)[5]>>
  BY <1>2 DEF IsKey, Key
<1>5. IsKey(UserKey(p, x), 6) /\ x = <<UserKey(p, x)[4], UserKey(p, x)[5], UserKey(p, x)[6]>>
  BY <1>2, <1>3 DEF IsKey, UserKey
<1> QED
  BY <1>4, <1>5

\* Exactly one item of a project that is not sorted yet comes next.
LEMMA OneFirst ==
  ASSUME TypeOK, Spends, NEW p \in Projects, unsorted[p] # {}
  PROVE  \E x \in unsorted[p] : \A y \in unsorted[p] : ProjectFirst(p, y) <=> y = x
<1> DEFINE U == unsorted[p]
<1>1. IsFiniteSet(U)
  BY FiniteCall, FS_Subset DEF TypeOK
<1>2. \A x \in U : IsKey(Key(x), 5) /\ IsKey(UserKey(p, x), 6)
  BY SortKeys
<1>3. ASSUME NEW x \in U, NEW y \in U, x # y
      PROVE  /\ LexLess(Key(x), Key(y)) \/ LexLess(Key(y), Key(x))
             /\ LexLess(UserKey(p, x), UserKey(p, y)) \/ LexLess(UserKey(p, y), UserKey(p, x))
  <2>1. \E i \in 1..5 : Key(x)[i] # Key(y)[i]
    <3>1. 3 \in 1..5 /\ 4 \in 1..5 /\ 5 \in 1..5
      OBVIOUS
    <3> QED
      BY <1>3, <3>1, SortKeys
  <2>2. \E i \in 1..6 : UserKey(p, x)[i] # UserKey(p, y)[i]
    <3>1. 4 \in 1..6 /\ 5 \in 1..6 /\ 6 \in 1..6
      OBVIOUS
    <3> QED
      BY <1>3, <3>1, SortKeys
  <2> QED
    BY <1>2, <2>1, <2>2, LexTotal
<1> HIDE DEF U
<1> DEFINE F == {x \in U : UserFirst(p, x)}
           V(u) == {x \in U : MetaOf(x).user = u}
           K == {w \in U \X U : LexLess(Key(w[1]), Key(w[2]))}
           L == {w \in U \X U : LexLess(UserKey(p, w[1]), UserKey(p, w[2]))}
<1>4. \A x, y \in U : /\ <<x, y>> \in K <=> LexLess(Key(x), Key(y))
                      /\ <<x, y>> \in L <=> LexLess(UserKey(p, x), UserKey(p, y))
  OBVIOUS
<1> HIDE DEF K, L
<1>5. \A x, y, z \in U :
        /\ <<x, y>> \in K /\ <<y, z>> \in K => <<x, z>> \in K
        /\ <<x, y>> \in L /\ <<y, z>> \in L => <<x, z>> \in L
  BY <1>2, <1>4, LexTransitive
<1>6. F # {}
  <2>1. PICK a \in U : TRUE
    BY DEF U
  <2>2. /\ V(MetaOf(a).user) # {} /\ IsFiniteSet(V(MetaOf(a).user))
        /\ V(MetaOf(a).user) \subseteq U
    BY <1>1, <2>1, FS_Subset
  <2>3. PICK x \in V(MetaOf(a).user) : \A y \in V(MetaOf(a).user) \ {x} : <<x, y>> \in K
    <3> HIDE DEF V
    <3>1. \A x, y \in V(MetaOf(a).user) : x # y => <<x, y>> \in K \/ <<y, x>> \in K
      BY <1>3, <1>4, <2>2
    <3>2. \A x, y, z \in V(MetaOf(a).user) :
            <<x, y>> \in K /\ <<y, z>> \in K => <<x, z>> \in K
      BY <1>5, <2>2
    <3> QED
      BY <2>2, <3>1, <3>2, LeastExists
  <2>4. UserFirst(p, x)
    BY <1>4, <2>3 DEF UserFirst, U
  <2> QED
    BY <2>3, <2>4
<1>7. IsFiniteSet(F) /\ F \subseteq U
  BY <1>1, FS_Subset
<1>8. PICK x \in F : \A y \in F \ {x} : <<x, y>> \in L
  <2> HIDE DEF F
  <2>1. \A x, y \in F : x # y => <<x, y>> \in L \/ <<y, x>> \in L
    BY <1>3, <1>4, <1>7
  <2>2. \A x, y, z \in F : <<x, y>> \in L /\ <<y, z>> \in L => <<x, z>> \in L
    BY <1>5, <1>7
  <2>3. IsFiniteSet(F) /\ F # {}
    BY <1>6, <1>7
  <2>4. \E x \in F : \A y \in F \ {x} : <<x, y>> \in L
    BY <2>1, <2>2, <2>3, LeastExists
  <2> QED
    BY <2>4
<1>9. x \in U /\ ProjectFirst(p, x)
  BY <1>4, <1>8 DEF ProjectFirst, U
<1>10. ASSUME NEW y \in U, ProjectFirst(p, y), y # x PROVE FALSE
  <2>1. LexLess(UserKey(p, x), UserKey(p, y)) /\ LexLess(UserKey(p, y), UserKey(p, x))
    BY <1>9, <1>10 DEF ProjectFirst, U
  <2>2. LexLess(UserKey(p, x), UserKey(p, x))
    BY <1>2, <1>9, <2>1, LexTransitive
  <2> QED
    BY <1>2, <1>9, <2>2, LexIrreflexive
<1> QED
  BY <1>9, <1>10 DEF U

----------------------------------------------------------------------------
(* A call goes on, in one way, until it ends. *)

\* While it sorts, one item comes next; while items wait, one project has the turn, and
\* something can be done with its next item.
GoesOn ==
  /\ step = "sort" =>
       \/ \A p \in Projects : unsorted[p] = {}
       \/ \E p \in Projects : \E x \in unsorted[p] :
            /\ \A q \in Projects : q < p => unsorted[q] = {}
            /\ \A y \in unsorted[p] : ProjectFirst(p, y) <=> y = x
  /\ step = "pick" =>
       \/ Waiting = {}
       \/ \E p \in Waiting :
            /\ \A q \in Projects : Turn(q) <=> q = p
            /\ Gate(NextOf(p)) \/ verdict[Parent(NextOf(p))] \in {"over", "unmet"}

\* The call never gets stuck before its end: neither the sort nor the choice of a project
\* finds two candidates or none, and no slot comes to its turn whose job is undecided.
THEOREM CallGoesOn == Spec => []GoesOn
<1>1. Init => Scheduled /\ Spends
  BY ScheduledInvariant, SpendsInit
<1>2. Scheduled /\ Spends /\ [Next]_vars => (Scheduled /\ Spends)'
  BY ScheduledInvariant, SpendsNext DEF Scheduled
<1>3. Scheduled /\ Spends /\ ParentFirst => GoesOn
  <2> SUFFICES ASSUME Scheduled, Spends, ParentFirst PROVE GoesOn
    OBVIOUS
  <2>1. TypeOK
    BY DEF Scheduled, Typed
  <2>2. ASSUME step = "sort", NEW a \in Projects, unsorted[a] # {}
        PROVE  \E p \in Projects : \E x \in unsorted[p] :
                 /\ \A q \in Projects : q < p => unsorted[q] = {}
                 /\ \A y \in unsorted[p] : ProjectFirst(p, y) <=> y = x
    <3> DEFINE S == {p \in Projects : unsorted[p] # {}}
               R == {w \in S \X S : w[1] < w[2]}
    <3>1. IsFiniteSet(S) /\ S # {} /\ \A p \in S : p \in Nat
      BY <2>2, FS_Subset, SchedulerAssumption DEF SchedulerAssumption
    <3>2. \A p, q \in S : <<p, q>> \in R <=> p < q
      OBVIOUS
    <3>3. PICK p \in S : \A q \in S \ {p} : <<p, q>> \in R
      <4> HIDE DEF R, S
      <4>1. \A x, y \in S : x # y => <<x, y>> \in R \/ <<y, x>> \in R
        BY <3>1, <3>2
      <4>2. \A x, y, z \in S : <<x, y>> \in R /\ <<y, z>> \in R => <<x, z>> \in R
        BY <3>1, <3>2
      <4> QED
        BY <3>1, <4>1, <4>2, LeastExists
    <3>4. \A q \in Projects : q < p => unsorted[q] = {}
      <4>1. ASSUME NEW q \in S PROVE ~(q < p)
        <5> HIDE DEF R, S
        <5>1. q \in Nat /\ p \in Nat
          BY <3>1
        <5>2. q = p \/ p < q
          BY <3>2, <3>3
        <5> QED
          BY <5>1, <5>2
      <4> QED
        BY <4>1
    <3> QED
      BY <2>1, <3>3, <3>4, OneFirst
  <2>3. ASSUME step = "pick", Waiting # {}
        PROVE  \E p \in Waiting :
                 /\ \A q \in Projects : Turn(q) <=> q = p
                 /\ Gate(NextOf(p)) \/ verdict[Parent(NextOf(p))] \in {"over", "unmet"}
    <3>1. PICK p \in Waiting : \A q \in Projects : Turn(q) <=> q = p
      BY <2>1, <2>3, OneTurn
    <3>2. ASSUME IsSlot(NextOf(p)) PROVE verdict[Parent(NextOf(p))] \in {"run", "over", "unmet"}
      <4>1. /\ NextOf(p) \in Expanded(meta) /\ Partial(meta, Jobs, IsMetadata)
            /\ verdict \in [Expanded(meta) -> {"none", "over", "unmet", "run"}]
        BY <2>1, NextKnown DEF TypeOK
      <4>2. Parent(NextOf(p)) \in Expanded(meta)
        BY <3>2, <4>1, ParentSenior
      <4>3. verdict[Parent(NextOf(p))] # "none"
        BY <2>3, <3>2 DEF ParentFirst
      <4> QED
        BY <4>1, <4>2, <4>3
    <3>3. Gate(NextOf(p)) \/ verdict[Parent(NextOf(p))] \in {"over", "unmet"}
      BY <3>2 DEF Gate
    <3> QED
      BY <3>1, <3>3
  <2> QED
    BY <2>2, <2>3 DEF GoesOn
<1> QED
  BY <1>1, <1>2, <1>3, ParentsFirst, PTL DEF Spec

\* How far the call is from its end: the items without a verdict, those not sorted, and
\* what the loops over the tiers have left.
Undecided == {x \in Expanded(meta) : verdict[x] = "none"}
Unsorted  == {x \in Expanded(meta) : \E p \in Projects : x \in unsorted[p]}
Turns ==
  CASE step = "sort"     -> 2 * LastTier + 4
    [] step = "pick"     -> 2 * LastTier + 3
    [] step = "forward"  -> 2 * LastTier + 2 - at
    [] step = "backward" -> at + 1
    [] step = "done"     -> 0
Measure == <<Cardinality(Undecided), Cardinality(Unsorted), Turns>>

\* Every step of a call makes the measure smaller.
Nearer == [][LexLess(Measure', Measure)]_vars

\* A proper subset of a finite set is smaller.
LEMMA Smaller ==
  ASSUME NEW S, IsFiniteSet(S), NEW T \in SUBSET S, T # S
  PROVE  Cardinality(T) < Cardinality(S)
<1>1. /\ IsFiniteSet(T) /\ Cardinality(T) <= Cardinality(S)
      /\ Cardinality(S) = Cardinality(T) => S = T
  BY FS_Subset
<1>2. Cardinality(S) \in Nat /\ Cardinality(T) \in Nat
  BY <1>1, FS_CardinalityType
<1> QED
  BY <1>1, <1>2

\* The measure goes down when one of its parts does and those before it stay.
LEMMA MeasureDown ==
  ASSUME \/ Cardinality(Undecided)' < Cardinality(Undecided)
         \/ /\ Undecided' = Undecided
            /\ \/ Cardinality(Unsorted)' < Cardinality(Unsorted)
               \/ Unsorted' = Unsorted /\ Turns' < Turns
  PROVE  LexLess(Measure', Measure)
<1> DEFINE a == Measure'
           b == Measure
<1>1. /\ DOMAIN a = 1..3 /\ a[1] = Cardinality(Undecided)'
      /\ a[2] = Cardinality(Unsorted)' /\ a[3] = Turns'
  BY DEF Measure
<1>2. /\ b[1] = Cardinality(Undecided) /\ b[2] = Cardinality(Unsorted) /\ b[3] = Turns
  BY DEF Measure
<1>3. /\ 1 \in 1..3 /\ 2 \in 1..3 /\ 3 \in 1..3
      /\ \A k \in 1..3 :
           /\ ~(k < 1)
           /\ k < 2 => k = 1
           /\ k < 3 => k = 1 \/ k = 2
  OBVIOUS
<1>4. Undecided' = Undecided => a[1] = b[1]
  BY <1>1, <1>2
<1>5. Unsorted' = Unsorted => a[2] = b[2]
  BY <1>1, <1>2
<1> HIDE DEF a, b
<1>6. \E i \in 1..3 : a[i] < b[i] /\ \A k \in 1..3 : k < i => a[k] = b[k]
  <2>1. CASE a[1] < b[1]
    BY <1>3, <2>1
  <2>2. CASE a[1] = b[1] /\ a[2] < b[2]
    BY <1>3, <2>2
  <2>3. CASE a[1] = b[1] /\ a[2] = b[2] /\ a[3] < b[3]
    BY <1>3, <2>3
  <2>4. \/ a[1] < b[1]
        \/ a[1] = b[1] /\ a[2] < b[2]
        \/ a[1] = b[1] /\ a[2] = b[2] /\ a[3] < b[3]
    BY <1>1, <1>2, <1>4, <1>5
  <2> QED
    BY <2>1, <2>2, <2>3, <2>4
<1>7. LexLess(a, b)
  BY <1>1, <1>6 DEF LexLess
<1> QED
  BY <1>7 DEF a, b

\* A verdict that was not there before takes an item away from those without one.
LEMMA Decided ==
  ASSUME Typed, UNCHANGED meta, NEW x \in Expanded(meta), verdict[x] = "none",
         NEW v, v # "none", verdict' = [verdict EXCEPT ![x] = v]
  PROVE  Cardinality(Undecided)' < Cardinality(Undecided)
<1>1. IsFiniteSet(Undecided)
  BY FiniteCall, FS_Subset DEF Undecided, Typed, TypeOK
<1>2. Undecided' \subseteq Undecided /\ x \in Undecided /\ x \notin Undecided'
  <2>1. /\ verdict \in [Expanded(meta) -> {"none", "over", "unmet", "run"}]
        /\ Expanded(meta)' = Expanded(meta)
    BY DEF Typed, TypeOK, Expanded, Target
  <2> QED
    BY <2>1 DEF Undecided
<1>3. Cardinality(Undecided') < Cardinality(Undecided)
  <2> HIDE DEF Undecided
  <2> QED
    BY <1>1, <1>2, Smaller
<1> QED
  BY <1>3

\* Every step brings a call nearer to its end: with CallGoesOn, no call goes on for ever.
THEOREM EveryStepCounts == Spec => Nearer
<1>1. ASSUME Typed, Queued, Next
      PROVE  LexLess(Measure', Measure)
  <2>0. LastTier \in Nat /\ at \in Nat /\ at <= LastTier /\ final \in Nat /\ final <= LastTier
    BY <1>1, TierNumbers DEF Typed, TypeOK
  <2>1. ASSUME NEW p \in Projects, Sort(p) PROVE LexLess(Measure', Measure)
    <3>1. PICK x \in unsorted[p] : unsorted' = [unsorted EXCEPT ![p] = @ \ {x}]
      BY <2>1 DEF Sort
    <3>2. UNCHANGED <<meta, verdict>>
      BY <2>1 DEF Sort, inputs
    <3>3. /\ Undecided' = Undecided /\ Expanded(meta)' = Expanded(meta)
          /\ unsorted \in [Projects -> SUBSET Expanded(meta)]
      BY <1>1, <3>2 DEF Undecided, Expanded, Target, Typed, TypeOK
    <3>4. \A q \in Projects : x \in unsorted[q] => q = p
      BY <1>1, <3>1 DEF Queued, Pending
    <3>5. /\ Unsorted' \subseteq Unsorted /\ x \in Unsorted /\ x \notin Unsorted'
      BY <3>1, <3>3, <3>4 DEF Unsorted
    <3>6. IsFiniteSet(Unsorted)
      BY <1>1, FiniteCall, FS_Subset DEF Unsorted, Typed, TypeOK
    <3>7. Cardinality(Unsorted') < Cardinality(Unsorted)
      <4> HIDE DEF Unsorted
      <4> QED
        BY <3>5, <3>6, Smaller
    <3> QED
      BY <3>3, <3>7, MeasureDown
  <2>2. ASSUME NEW p \in Projects, RejectSlot(p) \/ RejectOver(p) PROVE LexLess(Measure', Measure)
    <3>1. /\ p \in Waiting /\ Pop(p) /\ UNCHANGED <<unsorted, meta>>
          /\ verdict' = [verdict EXCEPT ![NextOf(p)] = "unmet"]
               \/ verdict' = [verdict EXCEPT ![NextOf(p)] = "over"]
      BY <2>2 DEF RejectSlot, RejectOver, Turn, inputs, order
    <3>2. NextOf(p) \in Expanded(meta) /\ verdict[NextOf(p)] = "none"
      BY <1>1, <3>1, PopOnce DEF Typed
    <3>3. Cardinality(Undecided)' < Cardinality(Undecided)
      BY <1>1, <3>1, <3>2, Decided
    <3> QED
      BY <3>3, MeasureDown
  <2>3. ASSUME NEW p \in Projects, Admit(p) PROVE LexLess(Measure', Measure)
    <3>1. /\ UNCHANGED <<meta, unsorted, verdict>>
          /\ step = "pick" /\ step' = "forward" /\ at' = 0
      BY <2>3 DEF Admit, Turn, inputs, order
    <3>2. Undecided' = Undecided /\ Unsorted' = Unsorted
      BY <3>1 DEF Undecided, Unsorted, Expanded, Target
    <3>3. Turns' < Turns
      BY <2>0, <3>1 DEF Turns
    <3> QED
      BY <3>2, <3>3, MeasureDown
  <2>4. ASSUME Forward PROVE LexLess(Measure', Measure)
    <3>1. /\ UNCHANGED <<meta, unsorted, verdict>> /\ step = "forward"
          /\ \/ step' = "backward" /\ at' \in {at, final}
             \/ step' = "forward" /\ at' = at + 1 /\ at < LastTier
      BY <2>4 DEF Forward, inputs, order
    <3>2. Undecided' = Undecided /\ Unsorted' = Unsorted
      BY <3>1 DEF Undecided, Unsorted, Expanded, Target
    <3>3. Turns' < Turns
      BY <2>0, <3>1 DEF Turns
    <3> QED
      BY <3>2, <3>3, MeasureDown
  <2>5. ASSUME Backward PROVE LexLess(Measure', Measure)
    <3>1. /\ UNCHANGED <<meta, unsorted>> /\ step = "backward"
          /\ \/ verdict' = [verdict EXCEPT ![item] = "run"]
             \/ UNCHANGED <<verdict, step>> /\ at' = at - 1 /\ at > 0
      BY <2>5 DEF Backward, inputs, order
    <3>2. CASE verdict' = [verdict EXCEPT ![item] = "run"]
      <4>1. item \in Expanded(meta) /\ verdict[item] = "none"
        BY <1>1, <3>1 DEF Typed, ItemKnown, Queued
      <4>2. Cardinality(Undecided)' < Cardinality(Undecided)
        BY <1>1, <3>1, <3>2, <4>1, Decided
      <4> QED
        BY <4>2, MeasureDown
    <3>3. CASE UNCHANGED <<verdict, step>> /\ at' = at - 1 /\ at > 0
      <4>1. Undecided' = Undecided /\ Unsorted' = Unsorted
        BY <3>1, <3>3 DEF Undecided, Unsorted, Expanded, Target
      <4>2. Turns' < Turns
        BY <2>0, <3>1, <3>3 DEF Turns
      <4> QED
        BY <4>1, <4>2, MeasureDown
    <3> QED
      BY <3>1, <3>2, <3>3
  <2>6. ASSUME Sorted \/ Collapse PROVE LexLess(Measure', Measure)
    <3>1. /\ UNCHANGED <<meta, unsorted, verdict>>
          /\ \/ step = "sort" /\ step' = "pick"
             \/ step = "pick" /\ step' = "done"
      BY <2>6 DEF Sorted, Collapse, inputs, order
    <3>2. Undecided' = Undecided /\ Unsorted' = Unsorted
      BY <3>1 DEF Undecided, Unsorted, Expanded, Target
    <3>3. Turns' < Turns
      BY <2>0, <3>1 DEF Turns
    <3> QED
      BY <3>2, <3>3, MeasureDown
  <2> QED
    BY <1>1, <2>1, <2>2, <2>3, <2>4, <2>5, <2>6 DEF Next
<1>2. Scheduled => Typed /\ Queued
  BY DEF Scheduled
<1> QED
  BY <1>1, <1>2, ScheduledInvariant, PTL DEF Spec, Nearer
=============================================================================
