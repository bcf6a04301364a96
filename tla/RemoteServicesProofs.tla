------------------------- MODULE RemoteServicesProofs -------------------------
(***************************************************************************)
(* What depends on a service outside the process: the model provider of a  *)
(* run (Runtimes) and the issuer of the sign-in tokens (OidcKeys), for any *)
(* number of runs and sign-ins and any timeouts. The two have nothing in   *)
(* common but this module. The budget of Runtimes is a sum over the runs,  *)
(* so its argument needs facts about sums, and they need induction over    *)
(* finite sets: the provers do it through a smallest counterexample.       *)
(***************************************************************************)
EXTENDS Runtimes, OidcKeys, FiniteSetTheorems, WellFoundedInduction, TLAPS

-----------------------------------------------------------------------------
(***************************************************************************)
(* Induction.                                                              *)
(***************************************************************************)
\* A relation that holds below every number and is well-founded gives a set of
\* numbers its least one.
LEMMA LeastBy ==
    ASSUME NEW R, IsWellFoundedOn(R, Nat), NEW T \in SUBSET Nat, T # {}
    PROVE  (\A m, n \in Nat : m < n => <<m, n>> \in R) => \E n \in T : \A m \in T : n <= m
  <1>0. T \subseteq Nat
    OBVIOUS
  <1>1. PICK n \in T : \A m \in T : ~ (<<m, n>> \in R)
    BY <1>0, WFMin
  <1> SUFFICES ASSUME \A i, j \in Nat : i < j => <<i, j>> \in R PROVE \A m \in T : n <= m
    OBVIOUS
  <1>2. \A m \in T : ~(m < n)
    BY <1>0, <1>1, Zenon
  <1> QED BY <1>0, <1>2

\* Every set of numbers has a least one: induction, as a statement about sets.
LEMMA NatLeast ==
    ASSUME NEW T \in SUBSET Nat, T # {}
    PROVE  \E n \in T : \A m \in T : n <= m
  <1>2. \A m, n \in Nat : m < n => <<m, n>> \in OpToRel(<, Nat)
    BY DEF OpToRel
  <1> QED BY <1>2, NatLessThanWellFounded, LeastBy, Zenon

\* What holds of a part of a finite set when it holds of the smaller parts holds
\* of all of them: a smallest part of which it does not hold is none.
LEMMA SubsetInduction ==
    ASSUME NEW S, IsFiniteSet(S), NEW P \in SUBSET SUBSET S,
           \A T \in SUBSET S : (\A U \in SUBSET T : U # T => U \in P) => T \in P
    PROVE  P = SUBSET S
  <1> DEFINE Bad == (SUBSET S) \ P
             C == {Cardinality(T) : T \in Bad}
  <1> SUFFICES ASSUME Bad # {} PROVE FALSE
    OBVIOUS
  <1>1. \A T \in SUBSET S : IsFiniteSet(T) /\ Cardinality(T) \in Nat
    BY FS_Subset, FS_CardinalityType
  <1>2. C \in SUBSET Nat /\ C # {}
    BY <1>1
  <1>3. PICK n \in C : \A m \in C : n <= m
    <2> HIDE DEF C
    <2> QED BY <1>2, NatLeast
  <1>4. PICK T \in Bad : Cardinality(T) = n
    BY <1>3
  <1>5. ASSUME NEW U \in SUBSET T, U # T PROVE U \in P
    <2>1. Cardinality(U) < Cardinality(T) /\ U \in SUBSET S
      BY <1>1, <1>5, FS_Subset
    <2>2. U \in Bad => Cardinality(U) \in C
      OBVIOUS
    <2> QED
      BY <1>1, <1>2, <1>3, <1>4, <2>1, <2>2
  <1> QED
    BY <1>4, <1>5

-----------------------------------------------------------------------------
(***************************************************************************)
(* The library defines a sum over a set by recursion over its subsets.     *)
(* Such a function exists and is unique when the set is finite, and then   *)
(* the sum is what one expects of it.                                      *)
(***************************************************************************)
\* The element that the recursion takes next, its equation, and its solution.
Pick(s) == CHOOSE x \in s : TRUE
IsSum(g, f, S) ==
   g = [s \in SUBSET S |-> IF s = {} THEN 0 ELSE f[Pick(s)] + g[s \ {Pick(s)}]]
TheSum(f, S) == CHOOSE g : IsSum(g, f, S)

\* SumFunctionOnSet is that solution, for the whole set.
LEMMA Unfold == ASSUME NEW f, NEW S PROVE SumFunctionOnSet(f, S) = TheSum(f, S)[S]
 BY DEF SumFunctionOnSet, FoldFunctionOnSet, MapThenFoldSet, TheSum, IsSum, Pick

\* The element is one of the set.
LEMMA PickIn == ASSUME NEW s, s # {} PROVE Pick(s) \in s
  BY DEF Pick

\* Two solutions agree on what both are about.
LEMMA SumUnique ==
    ASSUME NEW f, NEW T, IsFiniteSet(T), NEW S \in SUBSET T, NEW g, NEW h,
           IsSum(g, f, S), IsSum(h, f, T)
    PROVE  \A s \in SUBSET S : g[s] = h[s]
  <1> DEFINE P == {s \in SUBSET S : g[s] = h[s]}
  <1>1. ASSUME NEW s \in SUBSET S, \A u \in SUBSET s : u # s => u \in P PROVE s \in P
    <2>1. CASE s = {}
      BY <2>1 DEF IsSum
    <2>2. CASE s # {}
      <3>1. Pick(s) \in s
        BY <2>2, PickIn
      <3>2. g[s \ {Pick(s)}] = h[s \ {Pick(s)}]
        BY <1>1, <3>1
      <3>3. g[s] = f[Pick(s)] + g[s \ {Pick(s)}]
        BY <2>2 DEF IsSum
      <3>4. h[s] = f[Pick(s)] + h[s \ {Pick(s)}]
        BY <2>2 DEF IsSum
      <3> QED BY <3>2, <3>3, <3>4
    <2> QED BY <2>1, <2>2
  <1>2. P = SUBSET S
    <2>1. IsFiniteSet(S) /\ P \in SUBSET SUBSET S
      BY FS_Subset
    <2> HIDE DEF P
    <2> QED BY <1>1, <2>1, SubsetInduction
  <1> QED BY <1>2

\* There is a solution.
LEMMA SumExists ==
    ASSUME NEW f, NEW S, IsFiniteSet(S)
    PROVE  IsSum(TheSum(f, S), f, S)
  <1> DEFINE P == {T \in SUBSET S : IsSum(TheSum(f, T), f, T)}
  <1>1. ASSUME NEW T \in SUBSET S, \A U \in SUBSET T : U # T => U \in P PROVE T \in P
    <2> DEFINE g == [s \in SUBSET T |-> IF s = {} THEN 0 ELSE f[Pick(s)] +
                       TheSum(f, s \ {Pick(s)})[s \ {Pick(s)}]]
    <2>1. ASSUME NEW s \in SUBSET T, s # T PROVE g[s] = TheSum(f, s)[s]
      <3>1. IsSum(TheSum(f, s), f, s)
        BY <1>1, <2>1
      <3>2. TheSum(f, s)[s] = IF s = {} THEN 0 ELSE f[Pick(s)] + TheSum(f, s)[s \ {Pick(s)}]
        <4> DEFINE h == TheSum(f, s)
        <4> HIDE DEF h
        <4>1. IsSum(h, f, s) => h[s] = IF s = {} THEN 0 ELSE f[Pick(s)] + h[s \ {Pick(s)}]
          BY DEF IsSum
        <4> QED BY <3>1, <4>1 DEF h
      <3>3. CASE s # {}
        <4> DEFINE u == s \ {Pick(s)}
        <4>1. u \in SUBSET s /\ u # T /\ u \in SUBSET T
          BY <2>1
        <4>2. IsSum(TheSum(f, u), f, u) /\ IsFiniteSet(s)
          BY <1>1, <4>1, FS_Subset
        <4>3. TheSum(f, u)[u] = TheSum(f, s)[u]
          <5> HIDE DEF u
          <5> QED BY <3>1, <4>1, <4>2, SumUnique
        <4> QED
          BY <3>2, <3>3, <4>3
      <3> QED BY <3>2, <3>3
    <2>2. ASSUME NEW s \in SUBSET T, s # {} PROVE s \ {Pick(s)} \in SUBSET T /\ s \ {Pick(s)} # T
      BY <2>2, PickIn
    <2>3. IsSum(g, f, T)
      <3>1. ASSUME NEW s \in SUBSET T
            PROVE g[s] = IF s = {} THEN 0 ELSE f[Pick(s)] + g[s \ {Pick(s)}]
        <4>1. CASE s # {}
          <5>1. g[s] = f[Pick(s)] + TheSum(f, s \ {Pick(s)})[s \ {Pick(s)}]
            BY <4>1
          <5>2. g[s \ {Pick(s)}] = TheSum(f, s \ {Pick(s)})[s \ {Pick(s)}]
            <6> HIDE DEF g
            <6> QED BY <2>1, <2>2, <4>1
          <5> HIDE DEF g
          <5> QED BY <4>1, <5>1, <5>2
        <4> QED BY <4>1
      <3>2. g = [s \in SUBSET T |-> g[s]]
        OBVIOUS
      <3> HIDE DEF g
      <3> QED BY <3>1, <3>2 DEF IsSum
    <2> HIDE DEF g
    <2>4. IsSum(TheSum(f, T), f, T)
      BY <2>3, Zenon DEF TheSum
    <2> QED BY <2>4
  <1>2. P = SUBSET S
    <2>1. P \in SUBSET SUBSET S
      OBVIOUS
    <2> HIDE DEF P
    <2> QED BY <1>1, <2>1, SubsetInduction
  <1> QED BY <1>2

\* The sum over no element.
LEMMA SumEmpty == ASSUME NEW f PROVE SumFunctionOnSet(f, {}) = 0
  <1>1. IsSum(TheSum(f, {}), f, {})
    BY SumExists, FS_EmptySet
  <1> DEFINE h == TheSum(f, {})
  <1> HIDE DEF h
  <1>2. IsSum(h, f, {}) => h[{}] = 0
    BY DEF IsSum
  <1> QED BY <1>1, <1>2, Unfold DEF h

\* The sum without the element that is taken next.
LEMMA SumPick ==
    ASSUME NEW f, NEW S, IsFiniteSet(S), S # {}
    PROVE  SumFunctionOnSet(f, S) = f[Pick(S)] + SumFunctionOnSet(f, S \ {Pick(S)})
  <1> DEFINE h == TheSum(f, S)
             U == S \ {Pick(S)}
  <1>1. IsSum(h, f, S) /\ IsSum(TheSum(f, U), f, U)
    BY SumExists, FS_Subset
  <1>2. TheSum(f, U)[U] = h[U]
    <2>1. U \in SUBSET S
      OBVIOUS
    <2> HIDE DEF h, U
    <2> QED BY <1>1, <2>1, SumUnique
  <1> HIDE DEF h
  <1>3. h[S] = f[Pick(S)] + h[U]
    BY <1>1 DEF IsSum
  <1> QED BY <1>2, <1>3, Unfold DEF h

\* The sum without any element: it does not depend on the order.
LEMMA SumRemove ==
    ASSUME NEW f, NEW S, IsFiniteSet(S), \A x \in S : f[x] \in Nat
    PROVE  /\ SumFunctionOnSet(f, S) \in Nat
           /\ \A x \in S : SumFunctionOnSet(f, S) = f[x] + SumFunctionOnSet(f, S \ {x})
  <1> DEFINE Total(T) == SumFunctionOnSet(f, T)
             P == {T \in SUBSET S : Total(T) \in Nat /\ \A x \in T : Total(T) = f[x] + Total(T \ {x})}
  <1>1. ASSUME NEW T \in SUBSET S, \A U \in SUBSET T : U # T => U \in P PROVE T \in P
    <2>1. CASE T = {}
      BY <2>1, SumEmpty
    <2>2. CASE T # {}
      <3> DEFINE y == Pick(T)
      <3>1. y \in T
        BY <2>2, PickIn
      <3>2. Total(T) = f[y] + Total(T \ {y})
        BY <2>2, SumPick, FS_Subset
      <3> HIDE DEF y, Total
      <3>3. T \ {y} \in P
        BY <1>1, <3>1
      <3>4. Total(T) \in Nat
        BY <3>1, <3>2, <3>3
      <3>5. ASSUME NEW x \in T PROVE Total(T) = f[x] + Total(T \ {x})
        <4>1. CASE x # y
          <5>1. T \ {x} \in P /\ (T \ {x}) \ {y} = (T \ {y}) \ {x} /\ (T \ {y}) \ {x} \in P
            BY <1>1, <3>1
          <5>2. Total(T \ {y}) = f[x] + Total((T \ {y}) \ {x})
            BY <3>3, <4>1
          <5>3. Total(T \ {x}) = f[y] + Total((T \ {y}) \ {x})
            BY <3>1, <4>1, <5>1
          <5>4. f[x] \in Nat /\ f[y] \in Nat /\ Total((T \ {y}) \ {x}) \in Nat
            BY <3>1, <5>1
          <5> QED
            BY <3>2, <5>2, <5>3, <5>4
        <4> QED
          BY <3>2, <4>1
      <3> QED
        BY <3>4, <3>5
    <2> QED
      BY <2>1, <2>2
  <1>2. P = SUBSET S
    <2>1. P \in SUBSET SUBSET S
      OBVIOUS
    <2> HIDE DEF P
    <2> QED BY <1>1, <2>1, SubsetInduction
  <1>3. S \in P
    BY <1>2
  <1> QED
    BY <1>3

\* The sum over two sets that have nothing in common.
LEMMA SumUnion ==
    ASSUME NEW f, NEW S, NEW T, IsFiniteSet(S), IsFiniteSet(T), S \cap T = {},
           \A x \in S \cup T : f[x] \in Nat
    PROVE  SumFunctionOnSet(f, S \cup T) = SumFunctionOnSet(f, S) + SumFunctionOnSet(f, T)
  <1> DEFINE Total(U) == SumFunctionOnSet(f, U)
             P == {U \in SUBSET S : Total(U \cup T) = Total(U) + Total(T)}
  <1>0. \A U \in SUBSET (S \cup T) : IsFiniteSet(U) /\ Total(U) \in Nat
    <2>1. IsFiniteSet(S \cup T)
      BY FS_Union
    <2> QED
      BY <2>1, FS_Subset, SumRemove
  <1>1. ASSUME NEW U \in SUBSET S, \A V \in SUBSET U : V # U => V \in P PROVE U \in P
    <2>1. CASE U = {}
      <3>1. Total({}) = 0 /\ {} \cup T = T /\ Total(T) \in Nat
        BY <1>0, SumEmpty
      <3> HIDE DEF Total
      <3> QED BY <2>1, <3>1
    <2>2. CASE U # {}
      <3>1. PICK x \in U : TRUE
        BY <2>2
      <3>2. Total(U) = f[x] + Total(U \ {x})
        BY <1>0, SumRemove
      <3>3. Total(U \cup T) = f[x] + Total((U \cup T) \ {x})
        BY <1>0, SumRemove
      <3>4. (U \cup T) \ {x} = (U \ {x}) \cup T /\ U \ {x} \in P
        BY <1>1
      <3>5. Total((U \ {x}) \cup T) = Total(U \ {x}) + Total(T)
        BY <3>4
      <3>6. f[x] \in Nat /\ Total(U \ {x}) \in Nat /\ Total(T) \in Nat
        BY <1>0
      <3> HIDE DEF Total
      <3>8. Total((U \cup T) \ {x}) = Total(U \ {x}) + Total(T)
        BY <3>4, <3>5, Zenon
      <3>7. Total(U \cup T) = Total(U) + Total(T)
        BY <3>2, <3>3, <3>6, <3>8
      <3> QED BY <3>7
    <2> QED BY <2>1, <2>2
  <1>2. P = SUBSET S
    <2>1. P \in SUBSET SUBSET S
      OBVIOUS
    <2> HIDE DEF P
    <2> QED BY <1>1, <2>1, SubsetInduction
  <1>3. S \in P
    BY <1>2
  <1> QED
    BY <1>3

\* A bound on the summands bounds the sum.
LEMMA SumBound ==
    ASSUME NEW f, NEW S, IsFiniteSet(S), NEW e \in Nat,
           \A x \in S : f[x] \in Nat /\ f[x] <= e
    PROVE  SumFunctionOnSet(f, S) <= Cardinality(S) * e
  <1> DEFINE Total(U) == SumFunctionOnSet(f, U)
             P == {U \in SUBSET S : Total(U) <= Cardinality(U) * e}
  <1>0. \A U \in SUBSET S : IsFiniteSet(U) /\ Total(U) \in Nat
    BY FS_Subset, SumRemove
  <1>1. ASSUME NEW U \in SUBSET S, \A V \in SUBSET U : V # U => V \in P PROVE U \in P
    <2>1. CASE U = {}
      BY <2>1, SumEmpty, FS_EmptySet
    <2>2. CASE U # {}
      <3>1. PICK x \in U : TRUE
        BY <2>2
      <3>2. Total(U) = f[x] + Total(U \ {x})
        BY <1>0, SumRemove
      <3>3. Cardinality(U \ {x}) = Cardinality(U) - 1 /\ Cardinality(U) \in Nat
        BY <1>0, FS_RemoveElement, FS_CardinalityType
      <3>4. Total(U \ {x}) <= Cardinality(U \ {x}) * e
        BY <1>1
      <3>5. f[x] \in Nat /\ f[x] <= e /\ Total(U \ {x}) \in Nat
        BY <1>0
      <3> DEFINE n == Cardinality(U)
      <3>6. (n - 1) * e = n * e - e /\ n * e \in Int
        BY <3>3
      <3> HIDE DEF Total, n
      <3>7. Total(U) <= n * e
        BY <3>2, <3>3, <3>4, <3>5, <3>6 DEF n
      <3> QED BY <3>7 DEF n
    <2> QED BY <2>1, <2>2
  <1>2. P = SUBSET S
    <2>1. P \in SUBSET SUBSET S
      OBVIOUS
    <2> HIDE DEF P
    <2> QED BY <1>1, <2>1, SubsetInduction
  <1>3. S \in P
    BY <1>2
  <1> QED
    BY <1>3

\* The sum depends on the summands only.
LEMMA SumSame ==
    ASSUME NEW f, NEW g, NEW S, IsFiniteSet(S),
           \A x \in S : f[x] \in Nat /\ f[x] = g[x]
    PROVE  SumFunctionOnSet(f, S) = SumFunctionOnSet(g, S)
  <1> DEFINE P == {U \in SUBSET S : SumFunctionOnSet(f, U) = SumFunctionOnSet(g, U)}
  <1>1. ASSUME NEW U \in SUBSET S, \A V \in SUBSET U : V # U => V \in P PROVE U \in P
    <2>1. CASE U = {}
      BY <2>1, SumEmpty
    <2>2. CASE U # {}
      <3>1. PICK x \in U : TRUE
        BY <2>2
      <3>2. IsFiniteSet(U) /\ \A y \in U : f[y] \in Nat /\ g[y] \in Nat
        BY FS_Subset
      <3>3. SumFunctionOnSet(f, U) = f[x] + SumFunctionOnSet(f, U \ {x})
        BY <3>2, SumRemove
      <3>4. SumFunctionOnSet(g, U) = g[x] + SumFunctionOnSet(g, U \ {x})
        BY <3>2, SumRemove
      <3>5. U \ {x} \in P
        BY <1>1
      <3> QED BY <3>3, <3>4, <3>5
    <2> QED BY <2>1, <2>2
  <1>2. P = SUBSET S
    <2>1. P \in SUBSET SUBSET S
      OBVIOUS
    <2> HIDE DEF P
    <2> QED BY <1>1, <2>1, SubsetInduction
  <1>3. S \in P
    BY <1>2
  <1> QED
    BY <1>3

-----------------------------------------------------------------------------
(***************************************************************************)
(* The inductive invariant of Runtimes.                                    *)
(***************************************************************************)
RunRecord ==
    [pc : {"new", "start", "attempt", "wait", "succeeded", "failed", "orphan"},
     provider : Provider \cup {"none"}, block : Int, alone : BOOLEAN, attempt : Nat, max : Nat,
     started : Nat, wake : Nat, retryable : BOOLEAN, p : Nat, c : Nat, total : Int]

Types ==
    /\ clock \in Nat /\ env \in Environment /\ cfg \in Configuration
    /\ registry = Built(env)
    /\ run \in [Run -> RunRecord]

\* No run is under way past its deadline, and who waits may try again.
AttemptsInTime ==
    \A r \in Run :
        /\ run[r].pc \in {"new", "start"} => run[r].attempt = 0
        /\ run[r].pc \in {"attempt", "wait"} =>
              run[r].attempt <= run[r].max /\ clock <= run[r].started + Timeout
        /\ run[r].pc = "wait" => run[r].retryable /\ run[r].attempt < run[r].max
        /\ run[r].pc = "failed" /\ run[r].retryable =>
              run[r].attempt = run[r].max \/ clock >= run[r].started + Timeout

\* The runtime of a run is the default of the registry it found without error.
RuntimeFixed ==
    \A r \in Run : run[r].provider # "none" => run[r].provider = registry.default /\ ~registry.err

\* A run is charged when it ends.
ChargedAtEnd ==
    \A r \in Run : run[r].pc \notin {"succeeded", "failed"} => run[r].p = 0 /\ run[r].c = 0

\* What ensureTokenBudgetAllowsRun expects a run to cost.
Projected == Estimate.p + Estimate.c

\* Runs that were started alone are one after the other.  For the last of them,
\* the check saw all charges of the runs before it; all runs since are beside
\* another one.
LastAlone(a, before) ==
    /\ a \notin before /\ run[a].pc # "new"
    /\ \A r \in before : run[r].pc \in {"succeeded", "failed", "orphan"}
    /\ \A r \in Run \ (before \cup {a}) : run[r].pc # "new" => ~run[r].alone
    /\ run[a].block > 0 => SumFunctionOnSet(Cost, before) + Projected < run[a].block

\* Some run was the last to be checked alone, unless none was started.
BudgetChecked ==
    \/ \A r \in Run : run[r].pc = "new"
    \/ \E a \in Run, before \in SUBSET Run : LastAlone(a, before)

RuntimesInv == Types /\ AttemptsInTime /\ RuntimeFixed /\ ChargedAtEnd /\ BudgetChecked

-----------------------------------------------------------------------------
\* The constants, and what is computed from them.
LEMMA Constants ==
    /\ IsFiniteSet(Run) /\ Timeout \in Nat /\ BaseDelay \in Nat
    /\ Estimate.p \in Nat /\ Estimate.c \in Nat /\ Projected \in Nat
    /\ FailedUsage \in [p : Nat, c : Nat] /\ Estimate \in [p : Nat, c : Nat]
  <1>1. Estimate \in [p : Nat, c : Nat] /\ IsFiniteSet(Run) /\ Timeout \in Nat /\ BaseDelay \in Nat
    BY RuntimesAssumption
  <1>2. Estimate.p \in Nat /\ Estimate.c \in Nat
    BY <1>1
  <1>3. Estimate.c \div 2 \in Nat
    BY <1>2
  <1> QED
    BY <1>1, <1>2, <1>3 DEF Projected, FailedUsage

\* What New builds from any environment.
LEMMA BuiltType ==
    ASSUME NEW e \in Environment
    PROVE  /\ Built(e).default \in Provider /\ Built(e).err \in BOOLEAN
           /\ Built(e).default = Selected(e) /\ Built(e).runners = Registered(e)
           /\ Built(e).err = (InitFailed(e) \/ Selected(e) \notin Registered(e))
           /\ ~Built(e).err /\ Built(e).default = "http" => Built(e).attempts \in Nat \ {0}
           /\ [e EXCEPT !.provider = Selected(e)] \in Configuration
  <1>1. e \in Configuration
    BY RuntimesAssumption
  <1>2. Selected(e) \in Provider
    BY <1>1 DEF Configuration, Selected, Provider
  <1>3. /\ Built(e).default = Selected(e) /\ Built(e).runners = Registered(e)
        /\ Built(e).err = (InitFailed(e) \/ Selected(e) \notin Registered(e))
        /\ Built(e).attempts = IF e.attempts = 0 THEN 1 ELSE e.attempts
    BY DEF Built
  <1>4. "http" \in Registered(e) => e.attempts >= 0
    BY DEF Registered, NewHTTPRunner
  <1>5. (InitFailed(e) \/ Selected(e) \notin Registered(e)) \in BOOLEAN
    OBVIOUS
  <1>6. ASSUME ~Built(e).err, Built(e).default = "http"
        PROVE  Built(e).attempts \in Nat \ {0}
    <2>1. "http" \in Registered(e)
      BY <1>3, <1>6
    <2>2. e.attempts \in Int
      BY <1>1 DEF Configuration
    <2>3. Built(e).attempts = IF e.attempts = 0 THEN 1 ELSE e.attempts
      BY <1>3
    <2>4. e.attempts >= 0
      BY <1>4, <2>1
    <2> QED
      BY <2>2, <2>3, <2>4
  <1> QED
    BY <1>1, <1>2, <1>3, <1>5, <1>6 DEF Configuration, Provider

\* What a run has cost so far.
LEMMA CostType ==
    ASSUME Types
    PROVE  /\ \A r \in Run : Cost[r] \in Nat /\ Cost[r] = run[r].p + run[r].c
           /\ \A S \in SUBSET Run : IsFiniteSet(S) /\ SumFunctionOnSet(Cost, S) \in Nat
           /\ Spent = SumFunctionOnSet(Cost, Run)
  <1>1. \A r \in Run : Cost[r] \in Nat /\ Cost[r] = run[r].p + run[r].c
    BY DEF Types, RunRecord, Cost
  <1>2. \A S \in SUBSET Run : IsFiniteSet(S) /\ SumFunctionOnSet(Cost, S) \in Nat
    BY <1>1, Constants, FS_Subset, SumRemove
  <1>3. Spent = SumFunctionOnSet(Cost, Run)
    BY DEF Spent, SumFunction, Cost
  <1> QED
    BY <1>1, <1>2, <1>3

\* The runs that are not under way, and have no charge, do not count.
LEMMA SpentBy ==
    ASSUME Types, NEW S \in SUBSET Run, \A r \in Run \ S : run[r].p = 0 /\ run[r].c = 0
    PROVE  Spent = SumFunctionOnSet(Cost, S)
  <1>1. IsFiniteSet(S) /\ IsFiniteSet(Run \ S) /\ \A r \in Run : Cost[r] \in Nat
    BY CostType
  <1>2. \A r \in Run \ S : Cost[r] \in Nat /\ Cost[r] <= 0
    BY CostType
  <1>3. SumFunctionOnSet(Cost, Run \ S) <= Cardinality(Run \ S) * 0
    BY <1>1, <1>2, SumBound
  <1>4. SumFunctionOnSet(Cost, Run \ S) = 0
    BY <1>1, <1>3, CostType, FS_CardinalityType
  <1>5. S \cup (Run \ S) = Run /\ S \cap (Run \ S) = {}
    OBVIOUS
  <1>6. SumFunctionOnSet(Cost, S \cup (Run \ S))
            = SumFunctionOnSet(Cost, S) + SumFunctionOnSet(Cost, Run \ S)
    BY <1>1, <1>5, SumUnion
  <1> QED
    BY <1>4, <1>5, <1>6, CostType

-----------------------------------------------------------------------------
(* Steps of a run that is under way. *)

\* What all of them have in common.
Proceeds(r) ==
    /\ run' \in [Run -> RunRecord]
    /\ run[r].pc \in {"start", "attempt", "wait"} /\ run'[r].pc \notin {"new", "start"}
    /\ run'[r].alone = run[r].alone /\ run'[r].block = run[r].block
    /\ \A q \in Run \ {r} : run'[q] = run[q]
    /\ UNCHANGED <<clock, env, cfg, registry>>

\* A step of a run that is under way leaves the last check as it was.
LEMMA BudgetKept ==
    ASSUME Types, Types', BudgetChecked,
           \A r \in Run : /\ run[r].pc = "new" <=> run'[r].pc = "new"
                          /\ run'[r].alone = run[r].alone /\ run'[r].block = run[r].block
                          /\ run[r].pc \in {"succeeded", "failed", "orphan"} =>
                                run'[r].pc = run[r].pc /\ run'[r].p = run[r].p /\ run'[r].c = run[r].c
    PROVE  BudgetChecked'
  <1>1. CASE \A r \in Run : run[r].pc = "new"
    BY <1>1 DEF BudgetChecked
  <1>2. ASSUME NEW a \in Run, NEW before \in SUBSET Run, LastAlone(a, before)
        PROVE  LastAlone(a, before)'
    <2>1. \A r \in before : Cost[r] \in Nat /\ Cost[r] = Cost'[r]
      <3>1. \A r \in Run : Cost'[r] = run'[r].p + run'[r].c
        BY DEF Cost
      <3> QED
        BY <1>2, <3>1, CostType DEF LastAlone
    <2>2. SumFunctionOnSet(Cost, before) = SumFunctionOnSet(Cost', before)
      BY <2>1, CostType, SumSame
    <2>3. SumFunctionOnSet(Cost, before)' = SumFunctionOnSet(Cost', before)
      OBVIOUS
    <2> QED
      BY <1>2, <2>2 DEF LastAlone, Projected
  <1> QED
    BY <1>1, <1>2 DEF BudgetChecked

\* A run that goes on keeps the invariant, when its own part of it holds.
LEMMA ProceedsKeeps ==
    ASSUME RuntimesInv, NEW r \in Run, Proceeds(r), run'[r].pc # "orphan",
           run'[r].provider # "none" => run'[r].provider = registry.default /\ ~registry.err,
           run'[r].pc \notin {"succeeded", "failed"} => run'[r].p = 0 /\ run'[r].c = 0,
           run'[r].pc \in {"attempt", "wait"} =>
              run'[r].attempt <= run'[r].max /\ clock <= run'[r].started + Timeout,
           run'[r].pc = "wait" => run'[r].retryable /\ run'[r].attempt < run'[r].max,
           run'[r].pc = "failed" /\ run'[r].retryable =>
              run'[r].attempt = run'[r].max \/ clock >= run'[r].started + Timeout
    PROVE  RuntimesInv'
  <1>1. Types'
    BY DEF RuntimesInv, Types, Proceeds
  <1>2. AttemptsInTime'
    BY DEF RuntimesInv, AttemptsInTime, Proceeds
  <1>3. RuntimeFixed'
    BY DEF RuntimesInv, RuntimeFixed, Proceeds
  <1>4. ChargedAtEnd'
    BY DEF RuntimesInv, ChargedAtEnd, Proceeds
  <1>5. BudgetChecked'
    BY <1>1, BudgetKept DEF RuntimesInv, Proceeds
  <1> QED
    BY <1>1, <1>2, <1>3, <1>4, <1>5 DEF RuntimesInv

\* A run that ends, with the charge `usage'.
LEMMA EndedKeeps ==
    ASSUME RuntimesInv, NEW r \in Run, run[r].pc \in {"start", "attempt", "wait"},
           NEW pc \in {"succeeded", "failed"}, NEW retryable \in BOOLEAN,
           NEW usage \in [p : Nat, c : Nat], Ended(r, pc, retryable, usage),
           UNCHANGED <<clock, env, cfg, registry>>,
           pc = "failed" /\ retryable =>
              run[r].attempt = run[r].max \/ clock >= run[r].started + Timeout
    PROVE  RuntimesInv'
  <1>1. run[r] \in RunRecord /\ run \in [Run -> RunRecord]
    BY DEF RuntimesInv, Types
  <1>2. usage.p \in Nat /\ usage.c \in Nat /\ usage.p + usage.c \in Int
    OBVIOUS
  <1> DEFINE new == [run[r] EXCEPT !.pc = pc, !.retryable = retryable, !.p = usage.p,
                                   !.c = usage.c, !.total = usage.p + usage.c]
  <1>3. run' = [run EXCEPT ![r] = new]
    BY <1>1 DEF Ended
  <1>4. /\ new \in RunRecord /\ new.pc = pc /\ new.retryable = retryable
        /\ new.alone = run[r].alone /\ new.block = run[r].block
        /\ new.attempt = run[r].attempt /\ new.max = run[r].max
        /\ new.started = run[r].started /\ new.provider = run[r].provider
    BY <1>1, <1>2 DEF RunRecord
  <1> HIDE DEF new
  <1>5. /\ run' \in [Run -> RunRecord] /\ run'[r] = new
        /\ \A q \in Run \ {r} : run'[q] = run[q]
    BY <1>1, <1>3, <1>4
  <1>6. Proceeds(r)
    BY <1>4, <1>5 DEF Proceeds
  <1> QED
    BY <1>4, <1>5, <1>6, ProceedsKeeps DEF RuntimesInv, RuntimeFixed

\* The loop of HTTPRunner.Run: another try within the deadline, or the end.
LEMMA RetryOrFailKeeps ==
    ASSUME RuntimesInv, NEW r \in Run, run[r].pc = "attempt", NEW retryable \in BOOLEAN,
           RetryOrFail(r, retryable), UNCHANGED <<clock, env, cfg, registry>>
    PROVE  RuntimesInv'
  <1>1. run[r] \in RunRecord /\ run \in [Run -> RunRecord] /\ clock \in Nat
    BY DEF RuntimesInv, Types
  <1>2. CASE run[r].attempt = run[r].max \/ ~retryable
    <2>1. Ended(r, "failed", retryable, FailedUsage)
      BY <1>2 DEF RetryOrFail
    <2> QED
      BY <1>2, <2>1, EndedKeeps, Constants
  <1>3. CASE ~(run[r].attempt = run[r].max \/ ~retryable)
    <2> DEFINE wake == clock + BaseDelay * run[r].attempt
               new == [run[r] EXCEPT !.pc = "wait", !.wake = wake, !.retryable = TRUE]
    <2>1. run' = [run EXCEPT ![r] = new]
      BY <1>1, <1>3 DEF RetryOrFail
    <2>2. wake \in Nat
      <3>1. run[r].attempt \in Nat
        BY <1>1 DEF RunRecord
      <3> QED
        BY <1>1, <3>1, Constants
    <2> HIDE DEF wake
    <2>3. /\ new \in RunRecord /\ new.pc = "wait" /\ new.retryable
          /\ new.alone = run[r].alone /\ new.block = run[r].block
          /\ new.attempt = run[r].attempt /\ new.max = run[r].max
          /\ new.started = run[r].started /\ new.provider = run[r].provider
          /\ new.p = run[r].p /\ new.c = run[r].c
      BY <1>1, <2>2 DEF RunRecord
    <2> HIDE DEF new
    <2>4. /\ run' \in [Run -> RunRecord] /\ run'[r] = new
          /\ \A q \in Run \ {r} : run'[q] = run[q]
      BY <1>1, <2>1, <2>3
    <2>5. Proceeds(r)
      BY <2>3, <2>4 DEF Proceeds
    <2>6. run[r].attempt < run[r].max /\ clock <= run[r].started + Timeout
      <3>1. run[r].attempt \in Nat /\ run[r].max \in Nat
        BY <1>1 DEF RunRecord
      <3> QED
        BY <1>3, <3>1 DEF RuntimesInv, AttemptsInTime
    <2>7. run[r].p = 0 /\ run[r].c = 0
      BY DEF RuntimesInv, ChargedAtEnd
    <2>8. run[r].attempt <= run[r].max
      BY DEF RuntimesInv, AttemptsInTime
    <2> QED
      BY <2>3, <2>4, <2>5, <2>6, <2>7, <2>8, ProceedsKeeps DEF RuntimesInv, RuntimeFixed
  <1> QED
    BY <1>2, <1>3

\* What a reply says it used is not negative once it is normalized.
LEMMA NormalizedUsage ==
    ASSUME NEW u \in [p : Int, c : Int, total : Int]
    PROVE  normalizeUsage(u) \in [p : Nat, c : Nat, total : Int]
  <1>1. AtLeast0(u.p) \in Nat /\ AtLeast0(u.c) \in Nat
    BY DEF AtLeast0
  <1> QED
    BY <1>1 DEF normalizeUsage

\* A run that succeeds, with the usage that its reply is taken to report.
LEMMA SucceedKeeps ==
    ASSUME RuntimesInv, NEW r \in Run, run[r].pc = "attempt", NEW reply \in Reported,
           Succeed(r, reply), UNCHANGED <<clock, env, cfg, registry>>
    PROVE  RuntimesInv'
  <1> DEFINE u == normalizeUsage(reply.usage)
  <1>1. run[r] \in RunRecord /\ run \in [Run -> RunRecord]
    BY DEF RuntimesInv, Types
  <1>2. u \in [p : Nat, c : Nat, total : Int]
    BY NormalizedUsage DEF Reported
  <1>3. CASE u.p > 0 \/ u.c > 0 \/ u.total > 0
    <2>1. run' = [run EXCEPT ![r].pc = "succeeded", ![r].p = u.p, ![r].c = u.c, ![r].total = u.total]
      BY <1>3 DEF Succeed
    <2> HIDE DEF u
    <2> DEFINE new == [run[r] EXCEPT !.pc = "succeeded", !.p = u.p, !.c = u.c, !.total = u.total]
    <2>2. run' = [run EXCEPT ![r] = new]
      BY <1>1, <2>1
    <2>3. /\ new \in RunRecord /\ new.pc = "succeeded"
          /\ new.alone = run[r].alone /\ new.block = run[r].block
          /\ new.provider = run[r].provider
      BY <1>1, <1>2 DEF RunRecord
    <2> HIDE DEF new
    <2>4. /\ run' \in [Run -> RunRecord] /\ run'[r] = new
          /\ \A q \in Run \ {r} : run'[q] = run[q]
      BY <1>1, <2>2, <2>3
    <2>5. Proceeds(r)
      BY <2>3, <2>4 DEF Proceeds
    <2> QED
      BY <2>3, <2>4, <2>5, ProceedsKeeps DEF RuntimesInv, RuntimeFixed
  <1>4. CASE ~(u.p > 0 \/ u.c > 0 \/ u.total > 0)
    <2>1. Ended(r, "succeeded", FALSE, Estimate)
      BY <1>4 DEF Succeed
    <2> QED
      BY <2>1, EndedKeeps, Constants
  <1> QED
    BY <1>3, <1>4

\* executeRun and the runners, from the start of a run to its end.
LEMMA RunStep ==
    ASSUME RuntimesInv, NEW r \in Run, Agent(r) \/ Answer(r)
    PROVE  RuntimesInv'
  <1>1. run[r] \in RunRecord /\ run \in [Run -> RunRecord] /\ clock \in Nat
        /\ registry = Built(env) /\ env \in Environment
    BY DEF RuntimesInv, Types
  <1>2. UNCHANGED <<clock, env, cfg, registry>>
    BY DEF Agent, Answer, executeRuntimeRun, MockRun, DeadlineExceeded, waitForRuntimeRetry,
           ContainerRun, runOnce
  <1>3. CASE executeRuntimeRun(r)
    <2>1. CASE registry.err
      <3>1. run[r].pc = "start" /\ Ended(r, "failed", FALSE, FailedUsage)
        BY <1>3, <2>1 DEF executeRuntimeRun
      <3> QED
        BY <1>2, <3>1, EndedKeeps, Constants
    <2>2. CASE ~registry.err
      <3> DEFINE max == IF registry.default = "http" THEN registry.attempts ELSE 1
                 new == [run[r] EXCEPT !.pc = "attempt", !.attempt = 1, !.started = clock,
                                       !.provider = registry.default, !.max = max]
      <3>1. run[r].pc = "start" /\ run' = [run EXCEPT ![r] = new]
        BY <1>1, <1>3, <2>2 DEF executeRuntimeRun
      <3>2. max \in Nat \ {0} /\ registry.default \in Provider
        <4>1. registry.default = "http" => registry.attempts \in Nat \ {0}
          BY <1>1, <2>2, BuiltType
        <4>2. registry.default \in Provider
          BY <1>1, BuiltType
        <4> QED
          BY <4>1, <4>2
      <3> HIDE DEF max
      <3>3. /\ new \in RunRecord /\ new.pc = "attempt" /\ new.provider = registry.default
            /\ new.alone = run[r].alone /\ new.block = run[r].block
            /\ new.attempt = 1 /\ new.max = max /\ new.started = clock
            /\ new.p = run[r].p /\ new.c = run[r].c
        BY <1>1, <3>2 DEF RunRecord
      <3> HIDE DEF new
      <3>4. /\ run' \in [Run -> RunRecord] /\ run'[r] = new
            /\ \A q \in Run \ {r} : run'[q] = run[q]
        BY <1>1, <3>1, <3>3
      <3>5. Proceeds(r)
        BY <1>2, <3>1, <3>3, <3>4 DEF Proceeds
      <3>6. run[r].p = 0 /\ run[r].c = 0
        BY <3>1 DEF RuntimesInv, ChargedAtEnd
      <3>7. 1 <= max /\ clock <= clock + Timeout
        BY <1>1, <3>2, Constants
      <3> QED
        BY <2>2, <3>3, <3>4, <3>5, <3>6, <3>7, ProceedsKeeps
    <2> QED
      BY <2>1, <2>2
  <1>4. CASE MockRun(r) \/ ContainerRun(r)
    <2>1. /\ run[r].pc = "attempt"
          /\ \/ Ended(r, "succeeded", FALSE, Estimate)
             \/ Ended(r, "failed", FALSE, FailedUsage)
      BY <1>4 DEF MockRun, ContainerRun
    <2> QED
      BY <1>2, <2>1, EndedKeeps, Constants
  <1>5. CASE DeadlineExceeded(r)
    <2>1. CASE run[r].pc = "attempt"
      <3>1. RetryOrFail(r, TRUE)
        BY <1>5, <2>1 DEF DeadlineExceeded
      <3> QED
        BY <1>2, <2>1, <3>1, RetryOrFailKeeps
    <2>2. CASE run[r].pc = "wait"
      <3>1. Ended(r, "failed", TRUE, FailedUsage) /\ clock = run[r].started + Timeout
        BY <1>5, <2>2 DEF DeadlineExceeded
      <3>2. clock >= run[r].started + Timeout
        BY <1>1, <3>1
      <3> QED
        BY <1>2, <2>2, <3>1, <3>2, EndedKeeps, Constants
    <2> QED
      BY <1>5, <2>1, <2>2 DEF DeadlineExceeded
  <1>6. CASE waitForRuntimeRetry(r)
    <2> DEFINE another == run[r].attempt + 1
               new == [run[r] EXCEPT !.pc = "attempt", !.attempt = another]
    <2>1. run[r].pc = "wait" /\ run' = [run EXCEPT ![r] = new]
      BY <1>1, <1>6 DEF waitForRuntimeRetry
    <2>2. run[r].attempt \in Nat /\ run[r].max \in Nat /\ another \in Nat
      BY <1>1 DEF RunRecord
    <2> HIDE DEF another
    <2>3. /\ new \in RunRecord /\ new.pc = "attempt" /\ new.provider = run[r].provider
          /\ new.alone = run[r].alone /\ new.block = run[r].block
          /\ new.attempt = another /\ new.max = run[r].max
          /\ new.started = run[r].started /\ new.p = run[r].p /\ new.c = run[r].c
      BY <1>1, <2>2 DEF RunRecord
    <2> HIDE DEF new
    <2>4. /\ run' \in [Run -> RunRecord] /\ run'[r] = new
          /\ \A q \in Run \ {r} : run'[q] = run[q]
      BY <1>1, <2>1, <2>3
    <2>5. Proceeds(r)
      BY <1>2, <2>1, <2>3, <2>4 DEF Proceeds
    <2>6. /\ run[r].p = 0 /\ run[r].c = 0 /\ run[r].attempt < run[r].max
          /\ clock <= run[r].started + Timeout
      BY <2>1 DEF RuntimesInv, ChargedAtEnd, AttemptsInTime
    <2>7. another <= run[r].max
      BY <2>2, <2>6 DEF another
    <2> QED
      BY <2>3, <2>4, <2>5, <2>6, <2>7, ProceedsKeeps DEF RuntimesInv, RuntimeFixed
  <1>7. CASE runOnce(r)
    <2>1. PICK reply \in Replies :
             IF reply # NoReply /\ Succeeds(run[r].provider, reply)
             THEN Succeed(r, reply)
             ELSE RetryOrFail(r, Retryable(run[r].provider, reply))
      BY <1>7 DEF runOnce
    <2>2. run[r].pc = "attempt"
      BY <1>7 DEF runOnce
    <2>3. reply \in {NoReply} \cup Reported
      BY RuntimesAssumption
    <2>4. CASE reply # NoReply /\ Succeeds(run[r].provider, reply)
      BY <1>2, <2>1, <2>2, <2>3, <2>4, SucceedKeeps
    <2>5. CASE ~(reply # NoReply /\ Succeeds(run[r].provider, reply))
      <3>1. Retryable(run[r].provider, reply) \in BOOLEAN
        <4>1. reply # NoReply => reply.retryable \in BOOLEAN
          BY <2>3 DEF Reported
        <4> QED
          BY <4>1 DEF Retryable, retryableStatus
      <3> QED
        BY <1>2, <2>1, <2>2, <2>5, <3>1, RetryOrFailKeeps
    <2> QED
      BY <2>4, <2>5
  <1> QED
    BY <1>3, <1>4, <1>5, <1>6, <1>7 DEF Agent, Answer

-----------------------------------------------------------------------------
(***************************************************************************)
(* The other steps.                                                        *)
(***************************************************************************)

\* StartRun: the check of the budget, beside other runs or alone.
LEMMA StartRunStep ==
    ASSUME RuntimesInv, NEW r \in Run, StartRun(r)
    PROVE  RuntimesInv'
  <1>1. run[r] \in RunRecord /\ run \in [Run -> RunRecord] /\ Types /\ cfg.block \in Int
    BY DEF RuntimesInv, Types, Configuration
  <1> DEFINE new == [run[r] EXCEPT !.pc = "start", !.block = cfg.block, !.alone = (Running = {})]
  <1>2. /\ run[r].pc = "new" /\ run' = [run EXCEPT ![r] = new]
        /\ UNCHANGED <<clock, env, cfg, registry>> /\ ensureTokenBudgetAllowsRun
    BY <1>1 DEF StartRun
  <1>3. /\ new \in RunRecord /\ new.pc = "start" /\ new.block = cfg.block
        /\ new.alone = (Running = {}) /\ new.provider = run[r].provider
        /\ new.attempt = run[r].attempt /\ new.p = run[r].p /\ new.c = run[r].c
    BY <1>1 DEF RunRecord
  <1> HIDE DEF new
  <1>4. /\ run' \in [Run -> RunRecord] /\ run'[r] = new
        /\ \A q \in Run \ {r} : run'[q] = run[q]
    BY <1>1, <1>2, <1>3
  <1>5. Types'
    BY <1>2, <1>4 DEF RuntimesInv, Types
  <1>6. AttemptsInTime'
    BY <1>2, <1>3, <1>4 DEF RuntimesInv, AttemptsInTime
  <1>7. RuntimeFixed'
    BY <1>2, <1>3, <1>4 DEF RuntimesInv, RuntimeFixed
  <1>8. ChargedAtEnd'
    BY <1>2, <1>3, <1>4 DEF RuntimesInv, ChargedAtEnd
  <1>9. run[r].p = 0 /\ run[r].c = 0
    BY <1>2 DEF RuntimesInv, ChargedAtEnd
  <1>10. \A S \in SUBSET Run : SumFunctionOnSet(Cost, S) = SumFunctionOnSet(Cost', S)
    <2>1. \A q \in Run : Cost[q] \in Nat /\ Cost'[q] = Cost[q]
      <3>1. \A q \in Run : Cost'[q] = run'[q].p + run'[q].c
        BY DEF Cost
      <3>2. \A q \in Run : run'[q].p = run[q].p /\ run'[q].c = run[q].c
        BY <1>3, <1>4
      <3> QED
        BY <1>1, <3>1, <3>2, CostType
    <2> SUFFICES ASSUME NEW S \in SUBSET Run
                 PROVE  SumFunctionOnSet(Cost, S) = SumFunctionOnSet(Cost', S)
      OBVIOUS
    <2>2. IsFiniteSet(S) /\ \A x \in S : Cost[x] \in Nat /\ Cost[x] = Cost'[x]
      BY <1>1, <2>1, CostType
    <2> QED
      BY <2>2, SumSame
  <1>11. BudgetChecked'
    <2>1. CASE Running = {}
      <3>1. PICK before \in SUBSET Run : before = {q \in Run : run[q].pc # "new"}
        OBVIOUS
      <3>2. \A q \in before : run[q].pc \in {"succeeded", "failed", "orphan"} /\ q # r
        BY <1>1, <1>2, <2>1, <3>1 DEF Running, RunRecord
      <3>3. \A q \in Run \ before : run[q].p = 0 /\ run[q].c = 0
        BY <3>1 DEF RuntimesInv, ChargedAtEnd
      <3>4. Spent = SumFunctionOnSet(Cost, before)
        BY <1>1, <3>3, SpentBy
      <3>5. cfg.block > 0 => SumFunctionOnSet(Cost', before) + Projected < cfg.block
        <4>1. SumFunctionOnSet(Cost', before) = Spent /\ Spent \in Nat
          BY <1>1, <1>10, <3>4, CostType
        <4>2. cfg.block > 0 => Spent + Estimate.p + Estimate.c < cfg.block
          BY <1>2 DEF ensureTokenBudgetAllowsRun
        <4> QED
          BY <1>1, <4>1, <4>2, Constants DEF Projected
      <3>6. LastAlone(r, before)'
        <4>1. \A q \in Run \ (before \cup {r}) : run'[q].pc = "new"
          BY <1>4, <3>1
        <4>2. \A q \in before : run'[q].pc \in {"succeeded", "failed", "orphan"}
          BY <1>4, <3>2
        <4> QED
          BY <1>2, <1>3, <1>4, <3>2, <3>5, <4>1, <4>2 DEF LastAlone, Projected
      <3> QED
        BY <3>6 DEF BudgetChecked
    <2>2. CASE Running # {}
      <3>1. ~\A q \in Run : run[q].pc = "new"
        BY <2>2 DEF Running
      <3>2. PICK a \in Run, before \in SUBSET Run : LastAlone(a, before)
        BY <3>1 DEF RuntimesInv, BudgetChecked
      <3>3. a # r /\ r \notin before
        BY <1>2, <3>2 DEF LastAlone
      <3>4. LastAlone(a, before)'
        BY <1>3, <1>4, <1>10, <2>2, <3>2, <3>3 DEF LastAlone, Projected
      <3> QED
        BY <3>4 DEF BudgetChecked
    <2> QED
      BY <2>1, <2>2
  <1> QED
    BY <1>5, <1>6, <1>7, <1>8, <1>11 DEF RuntimesInv

\* Time passes.
LEMMA TickStep ==
    ASSUME RuntimesInv, Tick
    PROVE  RuntimesInv'
  <1>1. /\ clock \in Nat /\ clock' = clock + 1
        /\ env' = env /\ cfg' = cfg /\ registry' = registry /\ run' = run
        /\ \A r \in Run : run[r].pc \in {"attempt", "wait"} => clock < run[r].started + Timeout
        /\ \A r \in Run : run[r].started \in Nat
    BY DEF RuntimesInv, Types, RunRecord, Tick
  <1>2. Types'
    BY <1>1 DEF RuntimesInv, Types
  <1>3. AttemptsInTime'
    BY <1>1, Constants DEF RuntimesInv, AttemptsInTime
  <1>4. RuntimeFixed' /\ ChargedAtEnd'
    BY <1>1 DEF RuntimesInv, RuntimeFixed, ChargedAtEnd
  <1>5. BudgetChecked'
    BY <1>1, <1>2, BudgetKept DEF RuntimesInv
  <1> QED
    BY <1>2, <1>3, <1>4, <1>5 DEF RuntimesInv

\* UpdateRuntimeConfig does not touch the registry.
LEMMA UpdateRuntimeConfigStep ==
    ASSUME RuntimesInv, UpdateRuntimeConfig
    PROVE  RuntimesInv'
  <1>1. /\ clock' = clock /\ env' = env /\ registry' = registry /\ run' = run
        /\ cfg' \in Configuration
    BY RuntimesAssumption DEF UpdateRuntimeConfig
  <1>2. Types'
    BY <1>1 DEF RuntimesInv, Types
  <1>3. BudgetChecked'
    BY <1>1, <1>2, BudgetKept DEF RuntimesInv
  <1> QED
    BY <1>1, <1>2, <1>3 DEF RuntimesInv, AttemptsInTime, RuntimeFixed, ChargedAtEnd

\* A restart builds the registry from the environment and orphans the runs.
LEMMA RestartStep ==
    ASSUME RuntimesInv, Restart
    PROVE  RuntimesInv'
  <1>1. /\ clock' = clock /\ env' = env /\ registry' = registry /\ env \in Environment
        /\ cfg' = [env EXCEPT !.provider = Selected(env)]
        /\ run \in [Run -> RunRecord]
        /\ run' = [r \in Run |-> IF r \in Running THEN [run[r] EXCEPT !.pc = "orphan"] ELSE run[r]]
    BY DEF RuntimesInv, Types, Restart
  <1>2. ASSUME NEW r \in Run
        PROVE  /\ run'[r] \in RunRecord
               /\ run'[r].pc = IF r \in Running THEN "orphan" ELSE run[r].pc
               /\ run'[r].alone = run[r].alone /\ run'[r].block = run[r].block
               /\ run'[r].p = run[r].p /\ run'[r].c = run[r].c
               /\ run'[r].attempt = run[r].attempt /\ run'[r].max = run[r].max
               /\ run'[r].started = run[r].started /\ run'[r].provider = run[r].provider
               /\ run'[r].retryable = run[r].retryable
               /\ r \in Running <=> run[r].pc \in {"start", "attempt", "wait"}
    <2>1. run[r] \in RunRecord
      BY <1>1
    <2>2. run'[r] = IF r \in Running THEN [run[r] EXCEPT !.pc = "orphan"] ELSE run[r]
      BY <1>1
    <2>3. r \in Running <=> run[r].pc \in {"start", "attempt", "wait"}
      BY DEF Running
    <2> QED
      BY <2>1, <2>2, <2>3 DEF RunRecord
  <1>3. Types'
    <2>1. run' \in [Run -> RunRecord]
      BY <1>1, <1>2
    <2> QED
      BY <1>1, <2>1, BuiltType DEF RuntimesInv, Types
  <1>4. AttemptsInTime'
    BY <1>1, <1>2 DEF RuntimesInv, AttemptsInTime
  <1>5. RuntimeFixed' /\ ChargedAtEnd'
    BY <1>1, <1>2 DEF RuntimesInv, RuntimeFixed, ChargedAtEnd
  <1>6. BudgetChecked'
    BY <1>2, <1>3, BudgetKept DEF RuntimesInv
  <1> QED
    BY <1>3, <1>4, <1>5, <1>6 DEF RuntimesInv

-----------------------------------------------------------------------------
\* The invariant holds at first,
LEMMA InitRuntimesInv == Init => RuntimesInv
  <1> SUFFICES ASSUME Init PROVE RuntimesInv
    OBVIOUS
  <1>1. Unstarted \in RunRecord
    BY DEF Unstarted, RunRecord, Provider
  <1>2. Types
    BY <1>1, BuiltType DEF Init, Types
  <1>3. \A r \in Run : run[r] = Unstarted
    BY DEF Init
  <1> QED
    BY <1>2, <1>3 DEF RuntimesInv, AttemptsInTime, RuntimeFixed, ChargedAtEnd, BudgetChecked, Unstarted

\* and every step keeps it.
LEMMA NextRuntimesInv == RuntimesInv /\ [Next]_vars => RuntimesInv'
  <1> SUFFICES ASSUME RuntimesInv, [Next]_vars PROVE RuntimesInv'
    OBVIOUS
  <1>1. CASE UNCHANGED vars
    <2>1. Types'
      BY <1>1 DEF vars, RuntimesInv, Types
    <2>2. BudgetChecked'
      BY <1>1, <2>1, BudgetKept DEF vars, RuntimesInv
    <2> QED
      BY <1>1, <2>1, <2>2 DEF vars, RuntimesInv, AttemptsInTime, RuntimeFixed, ChargedAtEnd
  <1> QED
    BY <1>1, RunStep, StartRunStep, TickStep, UpdateRuntimeConfigStep, RestartStep DEF Next

\* For any number of runs, any environments and any updates: the runtime that
\* executeRun takes from the registry is the one the process was started with,
\* whatever UpdateRuntimeConfig says meanwhile.
THEOREM RuntimeIsSelected == Spec => []RunsUseSelectedRuntime
  <1>1. RuntimesInv => RunsUseSelectedRuntime
    <2> SUFFICES ASSUME RuntimesInv, NEW r \in Run, run[r].provider # "none"
                 PROVE  /\ run[r].provider \in registry.runners
                        /\ run[r].provider = Selected(env) /\ ~InitFailed(env)
      BY DEF RunsUseSelectedRuntime
    <2>1. /\ registry = Built(env) /\ env \in Environment
          /\ run[r].provider = registry.default /\ ~registry.err
      BY DEF RuntimesInv, Types, RuntimeFixed
    <2> QED
      BY <2>1, BuiltType
  <1> QED
    BY <1>1, InitRuntimesInv, NextRuntimesInv, PTL DEF Spec

\* Only executeRuntimeRun and the retry loop count an attempt.
LEMMA AttemptChanges ==
    ASSUME RuntimesInv, Next, NEW r \in Run, run'[r].attempt > run[r].attempt
    PROVE  run[r].pc = "start" \/ waitForRuntimeRetry(r)
  <1>1. run \in [Run -> RunRecord] /\ run[r].attempt \in Nat
    BY DEF RuntimesInv, Types, RunRecord
  <1> SUFFICES ASSUME run[r].pc # "start", ~waitForRuntimeRetry(r)
               PROVE  run'[r].attempt = run[r].attempt
    BY <1>1
  <1>2. CASE Tick \/ UpdateRuntimeConfig \/ Restart
    BY <1>1, <1>2 DEF Tick, UpdateRuntimeConfig, Restart, RunRecord
  <1>3. ASSUME NEW q \in Run, StartRun(q) \/ Agent(q) \/ Answer(q)
        PROVE  run'[r].attempt = run[r].attempt
    <2>1. CASE q # r
      BY <1>1, <1>3, <2>1 DEF StartRun, Agent, Answer, executeRuntimeRun, MockRun, DeadlineExceeded,
         waitForRuntimeRetry, ContainerRun, runOnce, Succeed, RetryOrFail, Ended
    <2>2. CASE q = r
      <3>1. CASE MockRun(r) \/ ContainerRun(r) \/ DeadlineExceeded(r) \/ runOnce(r)
        <4>1. \/ \E pc, retryable, usage : Ended(r, pc, retryable, usage)
              \/ \E retryable : RetryOrFail(r, retryable)
              \/ \E reply : Succeed(r, reply)
          BY <3>1 DEF MockRun, ContainerRun, DeadlineExceeded, runOnce
        <4>2. CASE \E pc, retryable, usage : Ended(r, pc, retryable, usage)
          BY <1>1, <4>2 DEF Ended, RunRecord
        <4>3. CASE \E retryable : RetryOrFail(r, retryable)
          BY <1>1, <4>3 DEF RetryOrFail, Ended, RunRecord
        <4>4. CASE \E reply : Succeed(r, reply)
          BY <1>1, <4>4 DEF Succeed, Ended, RunRecord
        <4> QED
          BY <4>1, <4>2, <4>3, <4>4
      <3>2. CASE StartRun(r)
        BY <1>1, <3>2 DEF StartRun, RunRecord
      <3> QED
        BY <1>3, <2>2, <3>1, <3>2 DEF Agent, Answer, executeRuntimeRun
    <2> QED
      BY <2>1, <2>2
  <1> QED
    BY <1>2, <1>3 DEF Next

\* For any replies, delays and timeouts: HTTPRunner.Run tries again exactly after
\* failures that may be retried, within its attempts and its deadline.
THEOREM RetriesExact == Spec => RetriesAreExact
  <1> DEFINE Exact == \A r \in Run :
          /\ run'[r].attempt > run[r].attempt /\ run[r].attempt > 0 =>
                /\ run[r].retryable
                /\ run[r].attempt < run[r].max
                /\ clock <= run[r].started + Timeout
          /\ run'[r].pc = "failed" /\ run'[r].retryable =>
                \/ run'[r].attempt = run'[r].max
                \/ clock' >= run'[r].started + Timeout
  <1>1. RuntimesInv /\ RuntimesInv' /\ [Next]_vars => [Exact]_vars
    <2> SUFFICES ASSUME RuntimesInv, RuntimesInv', Next, NEW r \in Run
                 PROVE  /\ run'[r].attempt > run[r].attempt /\ run[r].attempt > 0 =>
                              /\ run[r].retryable
                              /\ run[r].attempt < run[r].max
                              /\ clock <= run[r].started + Timeout
                        /\ run'[r].pc = "failed" /\ run'[r].retryable =>
                              \/ run'[r].attempt = run'[r].max
                              \/ clock' >= run'[r].started + Timeout
      OBVIOUS
    <2>1. run'[r].pc = "failed" /\ run'[r].retryable =>
              \/ run'[r].attempt = run'[r].max
              \/ clock' >= run'[r].started + Timeout
      BY DEF RuntimesInv, AttemptsInTime
    <2>2. ASSUME run'[r].attempt > run[r].attempt, run[r].attempt > 0
          PROVE  waitForRuntimeRetry(r)
      BY <2>2, AttemptChanges DEF RuntimesInv, AttemptsInTime
    <2>3. waitForRuntimeRetry(r) => /\ run[r].retryable
                                    /\ run[r].attempt < run[r].max
                                    /\ clock <= run[r].started + Timeout
      BY DEF waitForRuntimeRetry, RuntimesInv, AttemptsInTime
    <2> QED
      BY <2>1, <2>2, <2>3
  <1> QED
    BY <1>1, InitRuntimesInv, NextRuntimesInv, PTL DEF Spec, RetriesAreExact

\* For any number of runs that are started beside each other, and any history of
\* updates and restarts: ensureTokenBudgetAllowsRun, which counts only the runs
\* that have ended, lets a project exceed its budget by at most the estimates of the
\* runs that were started beside another one, if none costs more than estimated.
\* The charges are a sum over the runs: those before the last check that was made
\* alone are below the budget with one estimate to spare, the others ran beside.
THEOREM OverspendIsBounded == Spec => []OverspendBounded
  <1>1. RuntimesInv => OverspendBounded
    <2> DEFINE beside == {r \in Run : ~run[r].alone}
    <2> SUFFICES ASSUME RuntimesInv, cfg.block > 0,
                        \A r \in Run : run[r].pc # "new" => run[r].block = cfg.block,
                        \A r \in Run : Cost[r] <= Projected
                 PROVE  Spent < cfg.block + Cardinality(beside) * Projected
      BY DEF OverspendBounded, Projected
    <2>1. Types /\ Projected \in Nat /\ cfg.block \in Int /\ IsFiniteSet(beside)
      BY CostType, Constants DEF RuntimesInv, Types, Configuration
    <2> DEFINE n == Cardinality(beside)
    <2>2. n \in Nat /\ n * Projected \in Nat
      BY <2>1, FS_CardinalityType
    <2>3. CASE \A r \in Run : run[r].pc = "new"
      <3>1. Spent = SumFunctionOnSet(Cost, {})
        BY <2>1, <2>3, SpentBy DEF RuntimesInv, ChargedAtEnd
      <3>2. Spent = 0
        BY <3>1, SumEmpty
      <3> HIDE DEF n
      <3> QED
        BY <2>1, <2>2, <3>2 DEF n
    <2>4. ASSUME NEW a \in Run, NEW before \in SUBSET Run, LastAlone(a, before)
          PROVE  Spent < cfg.block + Cardinality(beside) * Projected
      <3> DEFINE since == {r \in Run \ (before \cup {a}) : run[r].pc # "new"}
      <3>1. \A r \in Run \ (before \cup {a} \cup since) : run[r].p = 0 /\ run[r].c = 0
        BY DEF RuntimesInv, ChargedAtEnd
      <3>2. Spent = SumFunctionOnSet(Cost, before \cup {a} \cup since)
        <4>1. before \cup {a} \cup since \in SUBSET Run
          OBVIOUS
        <4> HIDE DEF since
        <4> QED
          BY <2>1, <3>1, <4>1, SpentBy
      <3>3. \A S \in SUBSET Run : IsFiniteSet(S) /\ SumFunctionOnSet(Cost, S) \in Nat
        BY <2>1, CostType
      <3>4. SumFunctionOnSet(Cost, before \cup {a} \cup since)
                = SumFunctionOnSet(Cost, before \cup {a}) + SumFunctionOnSet(Cost, since)
        <4>1. /\ (before \cup {a}) \cap since = {} /\ since \in SUBSET Run
              /\ before \cup {a} \in SUBSET Run
          OBVIOUS
        <4>2. \A x \in (before \cup {a}) \cup since : Cost[x] \in Nat
          BY <2>1, CostType
        <4> HIDE DEF since
        <4> QED
          BY <3>3, <4>1, <4>2, SumUnion
      <3>5. SumFunctionOnSet(Cost, before \cup {a}) = Cost[a] + SumFunctionOnSet(Cost, before)
        <4>1. a \in before \cup {a} /\ (before \cup {a}) \ {a} = before
          BY <2>4 DEF LastAlone
        <4>2. IsFiniteSet(before \cup {a}) /\ \A x \in before \cup {a} : Cost[x] \in Nat
          BY <2>1, <3>3, CostType
        <4>3. SumFunctionOnSet(Cost, before \cup {a})
                  = Cost[a] + SumFunctionOnSet(Cost, (before \cup {a}) \ {a})
          BY <4>1, <4>2, SumRemove
        <4> QED
          BY <4>1, <4>3
      <3>6. SumFunctionOnSet(Cost, since) <= n * Projected
        <4>1. since \subseteq beside /\ IsFiniteSet(since)
          BY <2>4, <3>3 DEF LastAlone
        <4>2. Cardinality(since) <= n /\ Cardinality(since) \in Nat
          BY <2>1, <4>1, FS_Subset, FS_CardinalityType
        <4>3. SumFunctionOnSet(Cost, since) <= Cardinality(since) * Projected
          <5>1. \A x \in since : Cost[x] \in Nat /\ Cost[x] <= Projected
            BY <2>1, CostType
          <5> HIDE DEF since
          <5> QED
            BY <2>1, <4>1, <5>1, SumBound
        <4>4. \A i, j, e \in Nat : i <= j => i * e <= j * e /\ i * e \in Nat /\ j * e \in Nat
          OBVIOUS
        <4>5. SumFunctionOnSet(Cost, since) \in Nat
          BY <3>3
        <4> HIDE DEF since, n
        <4>6. Cardinality(since) * Projected <= n * Projected
          BY <2>1, <2>2, <4>2, <4>4
        <4>7. Cardinality(since) * Projected \in Nat
          BY <2>1, <4>2, <4>4
        <4> QED
          BY <2>2, <4>3, <4>5, <4>6, <4>7
      <3>7. SumFunctionOnSet(Cost, before) + Projected < cfg.block
        BY <2>4 DEF LastAlone
      <3>8. Cost[a] \in Nat /\ Cost[a] <= Projected
        BY <2>1, CostType
      <3>9. SumFunctionOnSet(Cost, before) \in Nat /\ SumFunctionOnSet(Cost, since) \in Nat
        BY <3>3
      <3> DEFINE b == SumFunctionOnSet(Cost, before)
                 s == SumFunctionOnSet(Cost, since)
                 m == n * Projected
      <3>10. Spent = Cost[a] + b + s /\ s <= m /\ m \in Nat
        BY <2>2, <3>2, <3>4, <3>5, <3>6
      <3> HIDE DEF b, s, m, n
      <3>11. Spent < cfg.block + m
        BY <2>1, <3>7, <3>8, <3>9, <3>10 DEF b, s
      <3> QED
        BY <3>11 DEF m, n
    <2> QED
      BY <2>3, <2>4 DEF RuntimesInv, BudgetChecked
  <1> QED
    BY <1>1, InitRuntimesInv, NextRuntimesInv, PTL DEF Spec

-----------------------------------------------------------------------------
(***************************************************************************)
(* OidcKeys. How long a withdrawn key can be accepted depends on where its *)
(* key set is on its way from the issuer to a check: in an answer, in the  *)
(* cache, or in the hands of a sign-in. The invariant gives each place its *)
(* age.                                                                    *)
(***************************************************************************)
Calls == [pc : {"idle", "read", "fetch", "store", "reread", "check"},
          kid : 0 .. MaxKeys, keys : SUBSET Kid, age : 0 .. Delay]

KeysTypes ==
    /\ current \in Kid
    /\ gone \in [Kid -> -1 .. Long]
    /\ cache \in [keys : SUBSET Kid, loaded : BOOLEAN, left : -1 .. Ttl]
    /\ call \in [SignIn -> Calls]

\* No key of the set is withdrawn for longer than the limit.
NotOlder(keys, limit) == \A k \in keys : gone[k] <= limit

\* An answer that is not stored yet came during the sign-in that waits for it.
AnswersFresh ==
    \A l \in SignIn : call[l].pc = "store" => NotOlder(call[l].keys, call[l].age)

\* The cache was filled by a sign-in, Ttl - left ticks ago.
CacheFresh ==
    cache.left >= 0 => NotOlder(cache.keys, Delay + Ttl - cache.left)

\* Who reads the keys again has stored his own before: whatever is there now is
\* not older than that, even if the cache has expired meanwhile.
RereadFresh ==
    \A l \in SignIn : call[l].pc = "reread" =>
        NotOlder(cache.keys, Delay + call[l].age)

CheckedFresh ==
    \A l \in SignIn : call[l].pc = "check" =>
        NotOlder(call[l].keys, Ttl + Delay + call[l].age)

KeysInv == KeysTypes /\ AnswersFresh /\ CacheFresh /\ RereadFresh /\ CheckedFresh

-----------------------------------------------------------------------------
LEMMA InitKeysInv == KeysInit => KeysInv
  <1> SUFFICES ASSUME KeysInit PROVE KeysInv
    OBVIOUS
  <1>1. Ttl \in Nat \ {0} /\ Delay \in Nat \ {0} /\ MaxKeys \in Nat \ {0}
    BY OidcAssumption
  <1>2. KeysTypes
    BY <1>1 DEF KeysInit, KeysTypes, Calls, NoCall, Kid, Long
  <1>3. AnswersFresh /\ CacheFresh /\ RereadFresh /\ CheckedFresh
    BY DEF KeysInit, NoCall, AnswersFresh, CacheFresh, RereadFresh, CheckedFresh
  <1> QED
    BY <1>2, <1>3 DEF KeysInv

\* A step of one sign-in that leaves the keys of the issuer alone.
LEMMA SignInStep ==
    ASSUME KeysInv, NEW l \in SignIn, ExchangeCode(l) \/ ExchangeFails(l) \/ Step(l)
    PROVE  KeysInv'
  <1>1. /\ Ttl \in Nat \ {0} /\ Delay \in Nat \ {0} /\ MaxKeys \in Nat \ {0}
        /\ current' = current /\ gone' = gone /\ KeysTypes
        /\ \A k \in Kid : gone[k] \in Int
    BY OidcAssumption DEF KeysInv, KeysTypes, ExchangeCode, ExchangeFails, Step, ReadCache, Answered,
        FetchFails, StoreKeys, Reread, verifyRS256Signature, Kid
  <1>2. \A m \in SignIn : /\ call[m].age \in 0 .. Delay /\ call[m].keys \subseteq Kid
                          /\ call[m].pc \in {"idle", "read", "fetch", "store", "reread", "check"}
    BY <1>1 DEF KeysTypes, Calls
  <1>3. NoCall \in Calls /\ [NoCall EXCEPT !.pc = "read", !.kid = current] \in Calls
    <2>1. NoCall \in Calls
      BY <1>1 DEF NoCall, Calls
    <2>2. current \in 0 .. MaxKeys
      BY <1>1 DEF Kid, KeysTypes
    <2> QED
      BY <2>1, <2>2 DEF Calls
  <1>4. ASSUME NEW pc \in {"fetch", "store", "reread", "check"}, NEW keys \in SUBSET Kid,
               Advance(l, pc, keys)
        PROVE  /\ call' \in [SignIn -> Calls]
               /\ call'[l].pc = pc /\ call'[l].keys = keys /\ call'[l].age = call[l].age
               /\ \A m \in SignIn \ {l} : call'[m] = call[m]
    BY <1>1, <1>4 DEF KeysTypes, Calls, Advance
  <1>5. CASE ExchangeCode(l) \/ ExchangeFails(l) \/ FetchFails(l) \/ verifyRS256Signature(l)
    <2>1. /\ cache' = cache
          /\ call' \in [SignIn -> Calls]
          /\ call'[l].pc \in {"idle", "read"}
          /\ \A m \in SignIn \ {l} : call'[m] = call[m]
      <3>1. cache' = cache
        BY <1>5 DEF ExchangeCode, ExchangeFails, FetchFails, verifyRS256Signature
      <3>2. \E c \in Calls : c.pc \in {"idle", "read"} /\ call' = [call EXCEPT ![l] = c]
        <4>1. CASE ExchangeCode(l)
          BY <1>3, <4>1 DEF ExchangeCode, NoCall
        <4>2. CASE ~ExchangeCode(l)
          BY <1>3, <1>5, <4>2 DEF ExchangeFails, FetchFails, verifyRS256Signature, Finish, NoCall
        <4> QED
          BY <4>1, <4>2
      <3> QED
        BY <1>1, <3>1, <3>2 DEF KeysTypes
    <2> QED
      BY <1>1, <2>1 DEF KeysInv, KeysTypes, AnswersFresh, CacheFresh, RereadFresh, CheckedFresh, NotOlder
  <1>6. CASE ReadCache(l)
    <2>1. CASE Advance(l, "fetch", {})
      <3>1. cache' = cache
        BY <1>6 DEF ReadCache
      <3> QED
        BY <1>1, <1>4, <2>1, <3>1 DEF KeysInv, KeysTypes, AnswersFresh, CacheFresh, RereadFresh, CheckedFresh, NotOlder
    <2>2. CASE cache.left >= 0 /\ Advance(l, "check", cache.keys)
      <3>1. cache' = cache /\ cache.keys \in SUBSET Kid /\ cache.left \in 0 .. Ttl
        BY <1>1, <1>6, <2>2 DEF ReadCache, KeysTypes
      <3>2. \A k \in cache.keys : gone[k] <= Ttl + Delay + call[l].age
        BY <1>1, <1>2, <2>2, <3>1 DEF KeysInv, CacheFresh, NotOlder
      <3> QED
        BY <1>1, <1>4, <2>2, <3>1, <3>2 DEF KeysInv, KeysTypes, AnswersFresh, CacheFresh, RereadFresh, CheckedFresh, NotOlder
    <2> QED
      BY <1>1, <1>6, <2>1, <2>2 DEF ReadCache, KeysTypes
  <1>7. CASE Answered(l)
    <2>1. /\ cache' = cache
          /\ \E keys \in SUBSET Kid : /\ Advance(l, "store", keys)
                                      /\ \A k \in keys : gone[k] = -1
      BY <1>7 DEF Answered, Published
    <2>2. PICK keys \in SUBSET Kid : /\ Advance(l, "store", keys)
                                     /\ \A k \in keys : gone[k] = -1
      BY <2>1
    <2> QED
      BY <1>1, <1>2, <1>4, <2>1, <2>2 DEF KeysInv, KeysTypes, AnswersFresh, CacheFresh, RereadFresh, CheckedFresh, NotOlder
  <1>8. CASE StoreKeys(l)
    <2>1. /\ call[l].pc = "store" /\ Advance(l, "reread", {})
          /\ cache' = [keys |-> call[l].keys, loaded |-> TRUE, left |-> Ttl]
      BY <1>8 DEF StoreKeys
    <2>2. cache' \in [keys : SUBSET Kid, loaded : BOOLEAN, left : -1 .. Ttl]
      BY <1>1, <1>2, <2>1
    <2>3. \A k \in cache'.keys : gone[k] <= call[l].age
      BY <2>1 DEF KeysInv, AnswersFresh, NotOlder
    <2>4. KeysTypes'
      BY <1>1, <1>4, <2>1, <2>2 DEF KeysTypes
    <2>5. CacheFresh' /\ RereadFresh'
      BY <1>1, <1>2, <1>4, <2>1, <2>2, <2>3 DEF CacheFresh, RereadFresh, NotOlder
    <2>6. AnswersFresh' /\ CheckedFresh'
      BY <1>1, <1>4, <2>1 DEF KeysInv, AnswersFresh, CheckedFresh, NotOlder
    <2> QED
      BY <2>4, <2>5, <2>6 DEF KeysInv
  <1>9. CASE Reread(l)
    <2>1. /\ cache' = cache /\ Advance(l, "check", cache.keys) /\ cache.keys \in SUBSET Kid
          /\ call[l].pc = "reread"
      BY <1>1, <1>9 DEF Reread, KeysTypes
    <2>2. \A k \in cache.keys : gone[k] <= Ttl + Delay + call[l].age
      BY <1>1, <1>2, <2>1 DEF KeysInv, RereadFresh, NotOlder
    <2> QED
      BY <1>1, <1>4, <2>1, <2>2 DEF KeysInv, KeysTypes, AnswersFresh, CacheFresh, RereadFresh, CheckedFresh, NotOlder
  <1> QED
    BY <1>5, <1>6, <1>7, <1>8, <1>9 DEF Step

\* A key that is withdrawn now is withdrawn for no time at all.
LEMMA IssuerStep ==
    ASSUME KeysInv, Rotate \/ Retire
    PROVE  KeysInv'
  <1>1. Ttl \in Nat \ {0} /\ Delay \in Nat \ {0} /\ MaxKeys \in Nat \ {0}
    BY OidcAssumption
  <1>2. /\ cache' = cache /\ call' = call /\ current' \in Kid
        /\ gone' \in [Kid -> -1 .. Long]
        /\ \A k \in Kid : gone'[k] = gone[k] \/ gone'[k] = 0
    <2>1. current \in Kid /\ gone \in [Kid -> -1 .. Long] /\ 0 \in -1 .. Long
      BY <1>1 DEF KeysInv, KeysTypes, Long
    <2>2. CASE Rotate
      BY <1>1, <2>1, <2>2 DEF Rotate, Kid
    <2>3. CASE Retire
      <3>1. PICK k \in Kid : gone' = [gone EXCEPT ![k] = 0]
        BY <2>3 DEF Retire, Published
      <3> QED
        BY <2>1, <2>3, <3>1 DEF Retire
    <2> QED
      BY <2>2, <2>3
  <1>3. \A l \in SignIn : call[l].age \in 0 .. Delay /\ call[l].keys \subseteq Kid
    BY DEF KeysInv, KeysTypes, Calls
  <1>4. cache.keys \subseteq Kid /\ cache.left \in -1 .. Ttl
    BY DEF KeysInv, KeysTypes
  <1>5. ASSUME NEW keys \in SUBSET Kid, NEW limit \in Nat, NotOlder(keys, limit)
        PROVE  \A k \in keys : gone'[k] <= limit
    BY <1>2, <1>5 DEF NotOlder
  <1>6. KeysTypes'
    BY <1>2 DEF KeysInv, KeysTypes
  <1>7. AnswersFresh'
    BY <1>1, <1>2, <1>3, <1>5 DEF KeysInv, AnswersFresh, NotOlder
  <1>8. CacheFresh'
    BY <1>1, <1>2, <1>4, <1>5 DEF KeysInv, CacheFresh, NotOlder
  <1>9. RereadFresh'
    BY <1>1, <1>2, <1>3, <1>4, <1>5 DEF KeysInv, RereadFresh, NotOlder
  <1>10. CheckedFresh'
    BY <1>1, <1>2, <1>3, <1>5 DEF KeysInv, CheckedFresh, NotOlder
  <1> QED
    BY <1>6, <1>7, <1>8, <1>9, <1>10 DEF KeysInv

\* With every tick the sign-ins, the cache and the withdrawn keys age alike.
LEMMA KeysTickStep ==
    ASSUME KeysInv, KeysTick
    PROVE  KeysInv'
  <1>1. Ttl \in Nat \ {0} /\ Delay \in Nat \ {0} /\ MaxKeys \in Nat \ {0}
    BY OidcAssumption
  <1>2. /\ current' = current
        /\ gone' \in [Kid -> -1 .. Long]
        /\ \A k \in Kid : gone[k] \in Int /\ gone'[k] \in Int /\ gone'[k] <= gone[k] + 1
    BY <1>1 DEF KeysInv, KeysTypes, KeysTick, Older, Long
  <1>3. /\ cache' \in [keys : SUBSET Kid, loaded : BOOLEAN, left : -1 .. Ttl]
        /\ cache'.keys = cache.keys /\ cache.keys \subseteq Kid
        /\ cache.left \in Int /\ (cache'.left >= 0 => cache.left = cache'.left + 1)
    BY <1>1 DEF KeysInv, KeysTypes, KeysTick
  <1>4. /\ call' \in [SignIn -> Calls]
        /\ \A l \in SignIn :
             /\ call'[l].pc = call[l].pc /\ call'[l].keys = call[l].keys
             /\ call[l].keys \subseteq Kid /\ call[l].age \in Nat
             /\ call[l].pc # "idle" => call'[l].age = call[l].age + 1
    <2> SUFFICES ASSUME NEW l \in SignIn
                 PROVE  /\ call'[l] \in Calls
                        /\ call'[l].pc = call[l].pc /\ call'[l].keys = call[l].keys
                        /\ call[l].keys \subseteq Kid /\ call[l].age \in Nat
                        /\ call[l].pc # "idle" => call'[l].age = call[l].age + 1
      BY <1>1 DEF KeysInv, KeysTypes, KeysTick, Calls
    <2>1. call[l] \in Calls /\ (call[l].pc # "idle" => call[l].age < Delay)
      BY DEF KeysInv, KeysTypes, KeysTick
    <2>2. call'[l] = IF call[l].pc = "idle" THEN call[l] ELSE [call[l] EXCEPT !.age = @ + 1]
      BY DEF KeysTick
    <2> QED
      BY <1>1, <2>1, <2>2 DEF Calls
  <1>5. ASSUME NEW keys \in SUBSET Kid, NEW limit \in Int, NotOlder(keys, limit)
        PROVE  \A k \in keys : gone'[k] <= limit + 1
    BY <1>2, <1>5 DEF NotOlder
  <1>6. KeysTypes'
    BY <1>2, <1>3, <1>4 DEF KeysInv, KeysTypes
  <1>7. AnswersFresh'
    BY <1>1, <1>4, <1>5 DEF KeysInv, AnswersFresh, NotOlder
  <1>8. CacheFresh'
    <2> SUFFICES ASSUME cache'.left >= 0
                 PROVE  \A k \in cache.keys : gone'[k] <= Delay + Ttl - cache'.left
      BY <1>3 DEF CacheFresh, NotOlder
    <2>1. NotOlder(cache.keys, Delay + Ttl - cache.left) /\ cache.left = cache'.left + 1
      BY <1>3 DEF KeysInv, CacheFresh
    <2>2. Delay + Ttl - cache.left \in Int
      BY <1>1, <1>3
    <2>3. \A k \in cache.keys : gone'[k] <= Delay + Ttl - cache.left + 1
      BY <1>3, <1>5, <2>1, <2>2
    <2> QED
      BY <1>1, <1>3, <2>1, <2>3
  <1>9. RereadFresh'
    <2> SUFFICES ASSUME NEW l \in SignIn, call[l].pc = "reread"
                 PROVE  \A k \in cache.keys : gone'[k] <= Delay + (call[l].age + 1)
      BY <1>3, <1>4 DEF RereadFresh, NotOlder
    <2>1. NotOlder(cache.keys, Delay + call[l].age) /\ Delay + call[l].age \in Int
      BY <1>1, <1>4 DEF KeysInv, RereadFresh
    <2>2. \A k \in cache.keys : gone'[k] <= Delay + call[l].age + 1
      BY <1>3, <1>5, <2>1
    <2> QED
      BY <1>1, <1>4, <2>2
  <1>10. CheckedFresh'
    <2> SUFFICES ASSUME NEW l \in SignIn, call[l].pc = "check"
                 PROVE  \A k \in call[l].keys : gone'[k] <= Ttl + Delay + (call[l].age + 1)
      BY <1>4 DEF CheckedFresh, NotOlder
    <2>1. /\ NotOlder(call[l].keys, Ttl + Delay + call[l].age)
          /\ Ttl + Delay + call[l].age \in Int
      BY <1>1, <1>4 DEF KeysInv, CheckedFresh
    <2>2. \A k \in call[l].keys : gone'[k] <= Ttl + Delay + call[l].age + 1
      BY <1>4, <1>5, <2>1
    <2> QED
      BY <1>1, <1>4, <2>2
  <1> QED
    BY <1>6, <1>7, <1>8, <1>9, <1>10 DEF KeysInv

-----------------------------------------------------------------------------
LEMMA NextKeysInv == KeysInv /\ [KeysNext]_keyVars => KeysInv'
  <1> SUFFICES ASSUME KeysInv, [KeysNext]_keyVars PROVE KeysInv'
    OBVIOUS
  <1>1. CASE UNCHANGED keyVars
    BY <1>1 DEF keyVars, KeysInv, KeysTypes, AnswersFresh, CacheFresh, RereadFresh, CheckedFresh, NotOlder
  <1> QED
    BY <1>1, SignInStep, IssuerStep, KeysTickStep DEF KeysNext

\* For any number of concurrent sign-ins, any lifetime of the cache and any
\* timeout of a sign-in: VerifyIDToken checks with no key that the issuer has
\* withdrawn for longer than the lifetime and two timeouts.
THEOREM KeysExpire == KeysSpec => []WithdrawnKeysExpire
  <1>1. KeysInv => WithdrawnKeysExpire
    <2> SUFFICES ASSUME KeysInv, NEW l \in SignIn, call[l].pc = "check", NEW k \in call[l].keys
                 PROVE  gone[k] <= Ttl + 2 * Delay
      BY DEF WithdrawnKeysExpire
    <2>1. gone[k] \in Int /\ call[l].age \in 0 .. Delay /\ Ttl \in Nat /\ Delay \in Nat
      BY OidcAssumption DEF KeysInv, KeysTypes, Calls, Kid
    <2>2. gone[k] <= Ttl + Delay + call[l].age
      BY DEF KeysInv, CheckedFresh, NotOlder
    <2> QED
      BY <2>1, <2>2
  <1> QED
    BY <1>1, InitKeysInv, NextKeysInv, PTL DEF KeysSpec
=============================================================================
