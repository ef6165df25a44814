-------------------------- MODULE ArithmeticProofs --------------------------
(***************************************************************************)
(* The arithmetic the proofs share: sums, and the schedule of an advance.   *)
(*                                                                         *)
(* The models total money and days with SumFunction of the community        *)
(* modules, which folds over a recursive function; every fact about sums is *)
(* proved from that definition.  Inductions are arguments about a minimal   *)
(* counterexample among the subsets of a finite set.                        *)
(***************************************************************************)
EXTENDS LoanSchedule, FiniteSetTheorems, TLAPS

-----------------------------------------------------------------------------
(* The fold behind a sum *)

\* The element a fold takes out of a set first.
Pick(s) == CHOOSE x \in s : TRUE

\* One level of the recursive function behind a sum of f.
Unfold(f, iter, s) == IF s = {} THEN 0 ELSE f[Pick(s)] + iter[s \ {Pick(s)}]

\* g is the recursive function behind a sum of f, on the subsets of S.
IsFold(g, f, S) == \A s \in SUBSET S : g[s] = Unfold(f, g, s)

-----------------------------------------------------------------------------
(* Minimal counterexamples *)

\* A non-empty family of subsets of a finite set has a member none of whose
\* strict subsets is in the family: the induction principle of this module.
LEMMA MinimalSubset ==
    ASSUME NEW S, IsFiniteSet(S), NEW Bad \in SUBSET SUBSET S, Bad # {}
    PROVE  \E T \in Bad : \A U \in SUBSET T : U # T => U \notin Bad
<1>1. IsWellFoundedOn(StrictSubsetOrdering(S), FiniteSubsetsOf(S))
    BY FS_StrictSubsetOrderingWellFounded
<1>2. Bad \subseteq FiniteSubsetsOf(S)
    BY FS_FiniteSubsetsOfFinite
<1>3. PICK T \in Bad : \A U \in Bad : <<U, T>> \notin StrictSubsetOrdering(S)
    BY <1>1, <1>2, WFMin
<1>4. ASSUME NEW U \in SUBSET T, U # T, U \in Bad  PROVE FALSE
    BY <1>3, <1>4 DEF StrictSubsetOrdering
<1> QED BY <1>4

\* Every member of a non-empty set can be picked from it.
LEMMA PickIsMember == ASSUME NEW s, s # {} PROVE Pick(s) \in s
BY DEF Pick

-----------------------------------------------------------------------------
(* The recursive function behind a sum *)

\* Two functions that satisfy the equation of the fold agree on every finite
\* set both are defined on: the fold over a subset is a part of the fold.
LEMMA FoldIsUnique ==
    ASSUME NEW f, NEW S, IsFiniteSet(S),
           NEW g, IsFold(g, f, S), NEW h, IsFold(h, f, S)
    PROVE  \A s \in SUBSET S : g[s] = h[s]
<1> DEFINE Bad == {s \in SUBSET S : g[s] # h[s]}
<1> SUFFICES ASSUME Bad # {} PROVE FALSE
    OBVIOUS
<1>1. PICK T \in Bad : \A U \in SUBSET T : U # T => U \notin Bad
  <2> HIDE DEF Bad
  <2>1. Bad \in SUBSET SUBSET S
    BY DEF Bad
  <2> QED BY <2>1, MinimalSubset
<1>2. T # {}
    BY DEF Unfold, IsFold
<1>3. Pick(T) \in T
    BY <1>2, PickIsMember
<1>4. g[T \ {Pick(T)}] = h[T \ {Pick(T)}]
    BY <1>1, <1>3
<1>5. g[T] = h[T]
    BY <1>2, <1>4 DEF Unfold, IsFold
<1> QED BY <1>5

\* The subsets of S with at most n members.
Small(S, n) == {s \in SUBSET S : Cardinality(s) <= n}

\* The fold exists on the subsets of a bounded size, whatever the bound.
LEMMA FoldExistsUpTo ==
    ASSUME NEW f, NEW S, IsFiniteSet(S)
    PROVE  \A n \in Nat : \E g : g = [s \in Small(S, n) |-> Unfold(f, g, s)]
<1> DEFINE Bad == {n \in Nat : ~ \E g : g = [s \in Small(S, n) |-> Unfold(f, g, s)]}
<1> SUFFICES ASSUME Bad # {} PROVE FALSE
    OBVIOUS
<1>1. PICK n \in Bad : \A m \in Bad : <<m, n>> \notin OpToRel(<, Nat)
  <2>1. Bad \subseteq Nat
    OBVIOUS
  <2> HIDE DEF Bad
  <2> QED BY <2>1, NatLessThanWellFounded, WFMin
<1>2. \A m \in Bad : ~(m < n)
    BY <1>1 DEF OpToRel
<1>3. ASSUME n = 0 PROVE FALSE
  <2>1. \A s \in Small(S, 0) : s = {}
    BY FS_Subset, FS_EmptySet, FS_CardinalityType DEF Small
  <2> DEFINE g == [s \in Small(S, 0) |-> 0]
  <2>2. \A s \in Small(S, 0) : 0 = Unfold(f, g, s)
    BY <2>1 DEF Unfold
  <2>3. g = [s \in Small(S, 0) |-> Unfold(f, g, s)]
    BY <2>2
  <2> HIDE DEF g
  <2> QED BY <2>3, <1>3
<1>4. ASSUME n > 0 PROVE FALSE
  <2>1. n - 1 \in Nat /\ n - 1 \notin Bad
    BY <1>2, <1>4
  <2>2. PICK g : g = [s \in Small(S, n - 1) |-> Unfold(f, g, s)]
    BY <2>1
  <2> DEFINE h == [s \in Small(S, n) |-> Unfold(f, g, s)]
  <2>3. ASSUME NEW s \in Small(S, n), s # {}
        PROVE  s \ {Pick(s)} \in Small(S, n - 1)
    <3>1. Pick(s) \in s
      BY <2>3, PickIsMember
    <3>2. IsFiniteSet(s) /\ Cardinality(s) <= n
      BY FS_Subset DEF Small
    <3>3. Cardinality(s \ {Pick(s)}) = Cardinality(s) - 1
      BY <3>1, <3>2, FS_RemoveElement
    <3> QED BY <3>2, <3>3, FS_CardinalityType DEF Small
  <2>4. Small(S, n - 1) \subseteq Small(S, n)
    <3>1. \A s \in SUBSET S : Cardinality(s) \in Nat
      BY FS_Subset, FS_CardinalityType
    <3> QED BY <3>1, <2>1 DEF Small
  <2>5. \A s \in Small(S, n - 1) : h[s] = g[s]
    BY <2>2, <2>4
  <2>6. \A s \in Small(S, n) : Unfold(f, g, s) = Unfold(f, h, s)
    <3> HIDE DEF h
    <3> QED BY <2>3, <2>5 DEF Unfold
  <2>7. h = [s \in Small(S, n) |-> Unfold(f, h, s)]
    BY <2>6
  <2> HIDE DEF h
  <2> QED BY <2>7
<1> QED BY <1>3, <1>4

\* The fold exists on all the subsets of a finite set.
LEMMA FoldExists ==
    ASSUME NEW f, NEW S, IsFiniteSet(S)
    PROVE  \E g : g = [s \in SUBSET S |-> Unfold(f, g, s)]
<1>1. Cardinality(S) \in Nat
    BY FS_CardinalityType
<1>2. Small(S, Cardinality(S)) = SUBSET S
    BY FS_Subset DEF Small
<1>3. \A n \in Nat : \E g : g = [s \in Small(S, n) |-> Unfold(f, g, s)]
    BY FoldExistsUpTo
<1>4. \E g : g = [s \in Small(S, Cardinality(S)) |-> Unfold(f, g, s)]
    BY <1>1, <1>3, Zenon
<1> QED BY <1>2, <1>4, Zenon

\* A sum is the value at its set of any function that satisfies the equation.
LEMMA SumIsFold ==
    ASSUME NEW f, NEW S, IsFiniteSet(S)
    PROVE  \E g : IsFold(g, f, S) /\ SumFunctionOnSet(f, S) = g[S]
<1> DEFINE P(g) == g = [s \in SUBSET S |-> Unfold(f, g, s)]
           fold == CHOOSE g : P(g)
<1>1. P(fold)
  <2>1. \E g : P(g)
    BY FoldExists
  <2> QED BY <2>1, Zenon
<1>2. SumFunctionOnSet(f, S) = fold[S]
    BY DEF SumFunctionOnSet, FoldFunctionOnSet, MapThenFoldSet, Unfold, Pick
<1>3. IsFold(fold, f, S)
  <2> HIDE DEF fold
  <2> QED BY <1>1 DEF IsFold
<1> QED BY <1>2, <1>3, Zenon

\* A sum takes its picked element out and adds the rest.
LEMMA SumUnfolds ==
    ASSUME NEW f, NEW S, IsFiniteSet(S), S # {}
    PROVE  SumFunctionOnSet(f, S) = f[Pick(S)] + SumFunctionOnSet(f, S \ {Pick(S)})
<1> DEFINE R == S \ {Pick(S)}
<1>1. PICK g : IsFold(g, f, S) /\ SumFunctionOnSet(f, S) = g[S]
    BY SumIsFold
<1>2. IsFiniteSet(R)
    BY FS_RemoveElement
<1>3. PICK h : IsFold(h, f, R) /\ SumFunctionOnSet(f, R) = h[R]
    BY <1>2, SumIsFold
<1>4. IsFold(g, f, R)
    BY <1>1 DEF IsFold
<1>5. \A s \in SUBSET R : g[s] = h[s]
  <2> HIDE DEF R
  <2> QED BY <1>2, <1>3, <1>4, FoldIsUnique
<1> QED BY <1>1, <1>3, <1>5 DEF Unfold, IsFold

\* The sum over no index is zero.
LEMMA SumEmpty == ASSUME NEW f PROVE SumFunctionOnSet(f, {}) = 0
BY SumIsFold, FS_EmptySet DEF Unfold, IsFold

-----------------------------------------------------------------------------
(* Facts about sums *)

\* A sum of integers is an integer.
LEMMA SumType ==
    ASSUME NEW f, NEW S, IsFiniteSet(S), \A x \in S : f[x] \in Int
    PROVE  SumFunctionOnSet(f, S) \in Int
<1> DEFINE Bad == {T \in SUBSET S : SumFunctionOnSet(f, T) \notin Int}
<1> SUFFICES ASSUME Bad # {} PROVE FALSE
    OBVIOUS
<1>1. PICK T \in Bad : \A U \in SUBSET T : U # T => U \notin Bad
  <2>1. Bad \in SUBSET SUBSET S
    OBVIOUS
  <2> HIDE DEF Bad
  <2> QED BY <2>1, MinimalSubset
<1>2. T # {} /\ IsFiniteSet(T)
  <2>1. SumFunctionOnSet(f, {}) \in Int
    BY SumEmpty
  <2> QED BY <2>1, FS_Subset
<1>3. Pick(T) \in T
    BY <1>2, PickIsMember
<1>4. SumFunctionOnSet(f, T) = f[Pick(T)] + SumFunctionOnSet(f, T \ {Pick(T)})
    BY <1>2, SumUnfolds
<1>5. SumFunctionOnSet(f, T \ {Pick(T)}) \in Int
    BY <1>1, <1>3
<1> QED BY <1>3, <1>4, <1>5

\* Any element can be taken out of a sum, not only the picked one.
LEMMA SumRemove ==
    ASSUME NEW f, NEW S, IsFiniteSet(S), \A x \in S : f[x] \in Int,
           NEW x \in S
    PROVE  SumFunctionOnSet(f, S) = f[x] + SumFunctionOnSet(f, S \ {x})
<1> DEFINE Holds(T) == \A y \in T :
              SumFunctionOnSet(f, T) = f[y] + SumFunctionOnSet(f, T \ {y})
           Bad == {T \in SUBSET S : ~Holds(T)}
<1> SUFFICES ASSUME Bad # {} PROVE FALSE
    OBVIOUS
<1>1. PICK T \in Bad : \A U \in SUBSET T : U # T => U \notin Bad
  <2>1. Bad \in SUBSET SUBSET S
    OBVIOUS
  <2> HIDE DEF Bad
  <2> QED BY <2>1, MinimalSubset
<1>2. PICK y \in T : SumFunctionOnSet(f, T) # f[y] + SumFunctionOnSet(f, T \ {y})
    OBVIOUS
<1> DEFINE c == Pick(T)
<1>3. c \in T
    BY PickIsMember
<1>4. IsFiniteSet(T)
    BY FS_Subset
<1>5. SumFunctionOnSet(f, T) = f[c] + SumFunctionOnSet(f, T \ {c})
    BY <1>4, SumUnfolds
<1>6. c # y
    BY <1>2, <1>5
<1> HIDE DEF c
<1>7. Holds(T \ {c}) /\ Holds(T \ {y})
    BY <1>1, <1>3
<1>8. /\ SumFunctionOnSet(f, T \ {c}) = f[y] + SumFunctionOnSet(f, (T \ {c}) \ {y})
      /\ SumFunctionOnSet(f, T \ {y}) = f[c] + SumFunctionOnSet(f, (T \ {y}) \ {c})
    BY <1>3, <1>6, <1>7
<1>9. (T \ {c}) \ {y} = (T \ {y}) \ {c}
    OBVIOUS
<1>10. SumFunctionOnSet(f, (T \ {y}) \ {c}) \in Int
  <2>1. IsFiniteSet((T \ {y}) \ {c})
    BY <1>4, FS_RemoveElement
  <2> QED BY <2>1, SumType
<1>11. f[c] \in Int /\ f[y] \in Int
    BY <1>3
<1> DEFINE rest == SumFunctionOnSet(f, (T \ {y}) \ {c})
<1>12. /\ SumFunctionOnSet(f, T) = f[c] + (f[y] + rest)
       /\ SumFunctionOnSet(f, T \ {y}) = f[c] + rest
    BY <1>5, <1>8, <1>9
<1> HIDE DEF rest
<1>13. f[c] + (f[y] + rest) = f[y] + (f[c] + rest)
    BY <1>10, <1>11 DEF rest
<1> QED BY <1>2, <1>12, <1>13

\* A new index adds its value to the sum.
LEMMA SumAdd ==
    ASSUME NEW f, NEW S, IsFiniteSet(S), NEW x, x \notin S,
           f[x] \in Int, \A y \in S : f[y] \in Int
    PROVE  SumFunctionOnSet(f, S \cup {x}) = f[x] + SumFunctionOnSet(f, S)
<1>1. IsFiniteSet(S \cup {x})
    BY FS_AddElement
<1>2. (S \cup {x}) \ {x} = S
    OBVIOUS
<1>3. \A y \in S \cup {x} : f[y] \in Int
    OBVIOUS
<1>4. SumFunctionOnSet(f, S \cup {x}) = f[x] + SumFunctionOnSet(f, (S \cup {x}) \ {x})
    BY <1>1, <1>3, SumRemove
<1> QED BY <1>2, <1>4

\* Functions that agree on a set have the same sum over it.
LEMMA SumSame ==
    ASSUME NEW f, NEW g, NEW S, IsFiniteSet(S), \A x \in S : f[x] = g[x]
    PROVE  SumFunctionOnSet(f, S) = SumFunctionOnSet(g, S)
<1> DEFINE Bad == {T \in SUBSET S : SumFunctionOnSet(f, T) # SumFunctionOnSet(g, T)}
<1> SUFFICES ASSUME Bad # {} PROVE FALSE
    OBVIOUS
<1>1. PICK T \in Bad : \A U \in SUBSET T : U # T => U \notin Bad
  <2>1. Bad \in SUBSET SUBSET S
    OBVIOUS
  <2> HIDE DEF Bad
  <2> QED BY <2>1, MinimalSubset
<1>2. T # {} /\ IsFiniteSet(T)
    BY SumEmpty, FS_Subset
<1>3. Pick(T) \in T
    BY <1>2, PickIsMember
<1>4. /\ SumFunctionOnSet(f, T) = f[Pick(T)] + SumFunctionOnSet(f, T \ {Pick(T)})
      /\ SumFunctionOnSet(g, T) = g[Pick(T)] + SumFunctionOnSet(g, T \ {Pick(T)})
    BY <1>2, SumUnfolds
<1>5. SumFunctionOnSet(f, T \ {Pick(T)}) = SumFunctionOnSet(g, T \ {Pick(T)})
    BY <1>1, <1>3
<1> QED BY <1>3, <1>4, <1>5

\* A constant is added once for every index.
LEMMA SumConstant ==
    ASSUME NEW f, NEW S, IsFiniteSet(S), NEW c \in Int, \A x \in S : f[x] = c
    PROVE  SumFunctionOnSet(f, S) = c * Cardinality(S)
<1> DEFINE Bad == {T \in SUBSET S : SumFunctionOnSet(f, T) # c * Cardinality(T)}
<1> SUFFICES ASSUME Bad # {} PROVE FALSE
    OBVIOUS
<1>1. PICK T \in Bad : \A U \in SUBSET T : U # T => U \notin Bad
  <2>1. Bad \in SUBSET SUBSET S
    OBVIOUS
  <2> HIDE DEF Bad
  <2> QED BY <2>1, MinimalSubset
<1>2. T # {} /\ IsFiniteSet(T)
    BY SumEmpty, FS_Subset, FS_EmptySet
<1>3. Pick(T) \in T
    BY <1>2, PickIsMember
<1>4. SumFunctionOnSet(f, T) = c + SumFunctionOnSet(f, T \ {Pick(T)})
    BY <1>2, <1>3, SumUnfolds
<1>5. SumFunctionOnSet(f, T \ {Pick(T)}) = c * Cardinality(T \ {Pick(T)})
    BY <1>1, <1>3
<1>6. Cardinality(T) \in Nat /\ Cardinality(T \ {Pick(T)}) = Cardinality(T) - 1
    BY <1>2, <1>3, FS_RemoveElement, FS_CardinalityType
<1>7. c + c * (Cardinality(T) - 1) = c * Cardinality(T)
    BY <1>6
<1> QED BY <1>4, <1>5, <1>6, <1>7

\* Leaving out indices of non-negative values does not make a sum larger.
LEMMA SumOfPart ==
    ASSUME NEW f, NEW S, IsFiniteSet(S), \A x \in S : f[x] \in Nat, NEW R \in SUBSET S
    PROVE  SumFunctionOnSet(f, R) <= SumFunctionOnSet(f, S)
<1> DEFINE Bad == {T \in SUBSET S :
                      R \subseteq T /\ ~(SumFunctionOnSet(f, R) <= SumFunctionOnSet(f, T))}
<1> SUFFICES ASSUME Bad # {} PROVE FALSE
    OBVIOUS
<1>1. PICK T \in Bad : \A U \in SUBSET T : U # T => U \notin Bad
  <2>1. Bad \in SUBSET SUBSET S
    OBVIOUS
  <2> HIDE DEF Bad
  <2> QED BY <2>1, MinimalSubset
<1>2. IsFiniteSet(T) /\ \A x \in T : f[x] \in Int
    BY FS_Subset
<1>3. SumFunctionOnSet(f, T) \in Int
    BY <1>2, SumType
<1>4. PICK x \in T : x \notin R
    BY <1>3
<1>5. SumFunctionOnSet(f, T) = f[x] + SumFunctionOnSet(f, T \ {x})
    BY <1>2, SumRemove
<1>6. SumFunctionOnSet(f, R) <= SumFunctionOnSet(f, T \ {x})
    BY <1>1, <1>4
<1>7. SumFunctionOnSet(f, T \ {x}) \in Int
    <2>1. IsFiniteSet(T \ {x})
      BY <1>2, FS_RemoveElement
    <2> QED BY <1>2, <2>1, SumType
<1>8. SumFunctionOnSet(f, R) \in Int
    <2>1. IsFiniteSet(R) /\ \A y \in R : f[y] \in Int
      BY FS_Subset
    <2> QED BY <2>1, SumType
<1> QED BY <1>3, <1>5, <1>6, <1>7, <1>8

\* The differences of consecutive values add up to the whole difference.
LEMMA SumTelescopes ==
    ASSUME NEW n \in Nat, NEW f, NEW g, \A m \in 0..n : g[m] \in Int,
           \A m \in 1..n : f[m] = g[m] - g[m - 1]
    PROVE  SumFunctionOnSet(f, 1..n) = g[n] - g[0]
<1> DEFINE Bad == {m \in 0..n : SumFunctionOnSet(f, 1..m) # g[m] - g[0]}
<1> SUFFICES ASSUME Bad # {} PROVE FALSE
    OBVIOUS
<1>1. PICK m \in Bad : \A k \in Bad : ~(k < m)
  <2>1. Bad \subseteq Nat
    OBVIOUS
  <2> HIDE DEF Bad
  <2>2. PICK m \in Bad : \A k \in Bad : <<k, m>> \notin OpToRel(<, Nat)
    BY <2>1, NatLessThanWellFounded, WFMin
  <2> QED BY <2>1, <2>2 DEF OpToRel
<1>2. m # 0
    <2>1. 1..0 = {}
      OBVIOUS
    <2> QED BY <2>1, SumEmpty
<1>3. m - 1 \in 0..n /\ SumFunctionOnSet(f, 1..(m - 1)) = g[m - 1] - g[0]
    BY <1>1, <1>2
<1>4. m \in 1..n /\ m - 1 \in Int
    BY <1>2
<1>5. /\ 1..m = (1..(m - 1)) \cup {m} /\ m \notin 1..(m - 1) /\ IsFiniteSet(1..(m - 1))
      /\ \A k \in 1..m : f[k] \in Int
    <2>1. IsFiniteSet(1..(m - 1))
      BY <1>4, FS_Interval
    <2>2. 1..m = (1..(m - 1)) \cup {m} /\ m \notin 1..(m - 1)
      BY <1>4
    <2>3. ASSUME NEW k \in 1..m PROVE f[k] \in Int
      <3>1. k \in 1..n /\ k \in 0..n /\ k - 1 \in 0..n
        BY <1>4
      <3>2. g[k] \in Int /\ g[k - 1] \in Int /\ f[k] = g[k] - g[k - 1]
        BY <3>1
      <3> HIDE DEF Bad
      <3> QED BY <3>2
    <2> QED BY <2>1, <2>2, <2>3
<1>6. SumFunctionOnSet(f, 1..m) = f[m] + SumFunctionOnSet(f, 1..(m - 1))
    <2>1. f[m] \in Int /\ \A k \in 1..(m - 1) : f[k] \in Int
      BY <1>2, <1>5
    <2> QED BY <1>5, <2>1, SumAdd
<1>7. f[m] = g[m] - g[m - 1] /\ g[m] \in Int /\ g[m - 1] \in Int /\ g[0] \in Int
    BY <1>2, <1>3
<1> QED BY <1>3, <1>6, <1>7

-----------------------------------------------------------------------------
(* The schedule of an advance *)

\* A function on 1..m is a sequence of length m.
LEMMA SequenceOfFunction ==
    ASSUME NEW m \in Nat, NEW S, NEW f \in [1..m -> S]
    PROVE  f \in Seq(S) /\ Len(f) = m
    OBVIOUS

\* The smaller of two numbers is one of them, and below both.
LEMMA MinOfTwo ==
    ASSUME NEW a \in Nat, NEW b \in Nat
    PROVE  Min({a, b}) \in {a, b} /\ Min({a, b}) <= a /\ Min({a, b}) <= b
<1>1. \E x \in {a, b} : \A y \in {a, b} : x <= y
    BY SMT
<1> QED
    BY <1>1 DEF Min

\* A principal is worth at least one step, rounded up.
LEMMA CeilDivPositive ==
    ASSUME NEW a \in Nat \ {0}, NEW b \in Nat \ {0}
    PROVE  CeilDiv(a, b) \in Nat \ {0}
<1>1. a + b - 1 \in Nat /\ a + b - 1 >= b
    OBVIOUS
<1>2. ASSUME NEW n \in Nat, n >= b PROVE n \div b \in Nat \ {0}
    BY <1>2, SMT
<1> QED
    BY <1>1, <1>2 DEF CeilDiv

\* The base instalment is a natural number, and the term is never empty.
LEMMA BaseInstallmentType ==
    ASSUME NEW P \in Nat \ {0}, NEW N \in Nat \ {0}
    PROVE  BaseInstallment(P, N) \in [base : Nat, months : Nat \ {0}]
<1>1. RoundingStep \in Nat \ {0}
    BY RoundingStepAssumption
<1>2. N * RoundingStep \in Nat \ {0}
    BY <1>1
<1>3. P \div (N * RoundingStep) \in Nat
    BY <1>2, SMT
<1>4. (P \div (N * RoundingStep)) * RoundingStep \in Nat
    BY <1>1, <1>3
<1>5. Min({N, CeilDiv(P, RoundingStep)}) \in Nat \ {0}
    <2> DEFINE c == CeilDiv(P, RoundingStep)
    <2>1. c \in Nat \ {0}
        BY <1>1, CeilDivPositive
    <2> HIDE DEF c
    <2>2. Min({N, c}) \in {N, c}
        BY <2>1, MinOfTwo
    <2> QED
        BY <2>1, <2>2 DEF c
<1> QED
    BY <1>1, <1>4, <1>5 DEF BaseInstallment

\* A plan is a sequence of due months and amounts with at least one row.
LEMMA PlanType ==
    ASSUME NEW P \in Nat \ {0}, NEW N \in Nat \ {0}, NEW s \in Nat
    PROVE  /\ Plan(P, N, s) \in Seq([due : Nat, amount : Int])
           /\ Len(Plan(P, N, s)) \in Nat \ {0}
<1> DEFINE b == BaseInstallment(P, N)
           first == P - b.base * (b.months - 1)
<1>1. b.base \in Nat /\ b.months \in Nat \ {0}
    BY BaseInstallmentType
<1> HIDE DEF b
<1>2. first \in Int
    BY <1>1
<1> HIDE DEF first
<1>3. Plan(P, N, s) = [seq \in 1..b.months |->
                          [due |-> s + seq - 1,
                           amount |-> IF seq = 1 THEN first ELSE b.base]]
    BY DEF Plan, b, first
<1>4. Plan(P, N, s) \in [1..b.months -> [due : Nat, amount : Int]]
    BY <1>1, <1>2, <1>3
<1> QED
    BY <1>1, <1>4, SequenceOfFunction

\* Division by a positive number leaves a remainder smaller than it.
LEMMA Division ==
    ASSUME NEW a \in Nat, NEW b \in Nat \ {0}
    PROVE  /\ a \div b \in Nat
           /\ b * (a \div b) <= a
           /\ a < b * (a \div b) + b
BY SMT

\* Rounding up reaches the dividend with the least multiple of the divisor.
LEMMA CeilDivBounds ==
    ASSUME NEW a \in Nat \ {0}, NEW b \in Nat \ {0}
    PROVE  /\ b * CeilDiv(a, b) >= a
           /\ b * (CeilDiv(a, b) - 1) < a
<1> DEFINE n == a + b - 1
           c == n \div b
<1>1. n \in Nat
    OBVIOUS
<1> HIDE DEF n
<1>2. c \in Nat /\ b * c <= n /\ n < b * c + b
    BY <1>1, Division
<1> HIDE DEF c
<1>3. b * c \in Nat /\ b * (c - 1) = b * c - b
    BY <1>2
<1>4. b * c >= a /\ b * c - b < a
    BY <1>2, <1>3 DEF n
<1>5. c = CeilDiv(a, b)
    BY DEF c, n, CeilDiv
<1> QED
    BY <1>3, <1>4, <1>5

\* The two ways a base instalment comes about: a whole number of steps that
\* fits the agreed term, or one step over as many months as it takes.
LEMMA BaseInstallmentCases ==
    ASSUME NEW P \in Nat \ {0}, NEW N \in Nat \ {0}
    PROVE  LET b == BaseInstallment(P, N)
               R == RoundingStep
           IN  \/ /\ P >= N * R
                  /\ b.base >= R /\ b.months = N /\ b.base * N <= P
               \/ /\ P < N * R
                  /\ b.base = R /\ b.months = Min({N, CeilDiv(P, R)})
<1> DEFINE R == RoundingStep
           q == P \div (N * R)
<1>1. R \in Nat \ {0}
    BY RoundingStepAssumption
<1> HIDE DEF R
<1>2. N * R \in Nat \ {0}
    BY <1>1
<1>3. q \in Nat /\ (N * R) * q <= P /\ P < (N * R) * q + N * R
    BY <1>2, Division
<1>4. BaseInstallment(P, N) =
          IF q * R < R
          THEN [base |-> R, months |-> Min({N, CeilDiv(P, R)})]
          ELSE [base |-> q * R, months |-> N]
    BY DEF BaseInstallment, R, q
<1> HIDE DEF q
<1>5. CASE q = 0
    <2>1. q * R < R /\ P < N * R
        BY <1>1, <1>2, <1>3, <1>5
    <2> QED
        BY <1>4, <2>1 DEF R
<1>6. CASE q >= 1
    <2>1. q * R >= R /\ q * R \in Nat
        BY <1>1, <1>3, <1>6
    <2>2. ~(q * R < R)
        BY <1>1, <2>1
    <2>3. (N * R) * q >= N * R
        BY <1>2, <1>3, <1>6
    <2>4. P >= N * R
        BY <1>2, <1>3, <2>3
    <2>5. (q * R) * N = (N * R) * q
        BY <1>1, <1>3
    <2>6. (q * R) * N <= P
        BY <1>3, <2>5
    <2> QED
        BY <1>4, <2>1, <2>2, <2>4, <2>6 DEF R
<1> QED
    BY <1>3, <1>5, <1>6

\* The instalment is never empty, the term is never longer than agreed, and
\* the months after the first leave something for the first to repay.
LEMMA BaseInstallmentBounds ==
    ASSUME NEW P \in Nat \ {0}, NEW N \in Nat \ {0}
    PROVE  LET b == BaseInstallment(P, N)
           IN  /\ b.base \in Nat \ {0} /\ b.months \in Nat \ {0}
               /\ b.months <= N
               /\ b.base * (b.months - 1) < P
<1> DEFINE R == RoundingStep
           b == BaseInstallment(P, N)
           c == CeilDiv(P, R)
<1>1. R \in Nat \ {0}
    BY RoundingStepAssumption
<1>2. b.base \in Nat /\ b.months \in Nat \ {0}
    BY BaseInstallmentType
<1>3. \/ b.base >= R /\ b.months = N /\ b.base * N <= P
      \/ b.base = R /\ b.months = Min({N, c})
    BY BaseInstallmentCases
<1>4. c \in Nat \ {0} /\ R * (c - 1) < P
    BY <1>1, CeilDivPositive, CeilDivBounds
<1> HIDE DEF R, b, c
<1>5. CASE b.base >= R /\ b.months = N /\ b.base * N <= P
    <2>1. b.base * (N - 1) = b.base * N - b.base
        BY <1>2
    <2>2. b.base * N \in Nat
        BY <1>2
    <2> QED
        BY <1>1, <1>2, <1>5, <2>1, <2>2 DEF b
<1>6. CASE b.base = R /\ b.months = Min({N, c})
    <2>1. b.months <= N /\ b.months <= c
        BY <1>4, <1>6, MinOfTwo
    <2>2. R * (b.months - 1) <= R * (c - 1)
        BY <1>1, <1>2, <1>4, <2>1
    <2>3. R * (b.months - 1) \in Int /\ R * (c - 1) \in Int
        BY <1>1, <1>2, <1>4
    <2> QED
        BY <1>1, <1>2, <1>4, <1>6, <2>1, <2>2, <2>3 DEF b
<1> QED
    BY <1>3, <1>5, <1>6

\* The shortened term plans what the agreed term planned.
LEMMA PlanningAgain ==
    ASSUME NEW P \in Nat \ {0}, NEW N \in Nat \ {0}
    PROVE  BaseInstallment(P, BaseInstallment(P, N).months) = BaseInstallment(P, N)
<1> DEFINE R == RoundingStep
           c == CeilDiv(P, R)
           b == BaseInstallment(P, N)
<1>1. R \in Nat \ {0}
    BY RoundingStepAssumption
<1>2. c \in Nat \ {0} /\ R * c >= P /\ R * (c - 1) < P
    BY <1>1, CeilDivPositive, CeilDivBounds
<1>3. b \in [base : Nat, months : Nat \ {0}]
    BY BaseInstallmentType
<1>4. \/ b.months = N
      \/ P < N * R /\ b.base = R /\ b.months = Min({N, c})
    BY BaseInstallmentCases
<1>5. CASE b.months = N
    BY <1>5
<1>6. CASE P < N * R /\ b.base = R /\ b.months = Min({N, c}) /\ b.months # N
    <2>1. b.months = c
        BY <1>2, <1>6, MinOfTwo
    <2> DEFINE d == BaseInstallment(P, c)
    <2>2. d \in [base : Nat, months : Nat \ {0}]
        BY <1>2, BaseInstallmentType
    <2>3. \/ P >= c * R /\ d.base >= R /\ d.months = c /\ d.base * c <= P
          \/ P < c * R /\ d.base = R /\ d.months = Min({c, c})
        BY <1>2, BaseInstallmentCases
    <2>4. Min({c, c}) = c
        BY <1>2, MinOfTwo
    <2> HIDE DEF R, c, d
    <2>5. CASE P >= c * R /\ d.base >= R /\ d.months = c /\ d.base * c <= P
        <3>1. c * R = R * c /\ c * R \in Nat
            BY <1>1, <1>2
        <3>2. P = c * R
            BY <1>2, <2>5, <3>1
        <3>3. ASSUME d.base >= R + 1 PROVE FALSE
            <4>1. d.base * c >= (R + 1) * c
                BY <1>1, <1>2, <2>2, <3>3
            <4>2. (R + 1) * c = c * R + c /\ d.base * c \in Nat
                BY <1>1, <1>2, <2>2
            <4> QED
                BY <1>2, <2>5, <3>1, <3>2, <4>1, <4>2
        <3>4. d.base = R
            BY <1>1, <2>2, <2>5, <3>3
        <3> QED
            BY <1>3, <1>6, <2>1, <2>2, <2>5, <3>4 DEF d
    <2> QED
        BY <1>3, <1>6, <2>1, <2>2, <2>3, <2>4, <2>5 DEF d
<1> QED
    BY <1>4, <1>5, <1>6

\* The rows of a plan, one by one.
LEMMA PlanRows ==
    ASSUME NEW P \in Nat \ {0}, NEW N \in Nat \ {0}, NEW s \in Nat
    PROVE  LET b    == BaseInstallment(P, N)
               plan == Plan(P, N, s)
           IN  /\ Len(plan) = b.months /\ DOMAIN plan = 1..b.months
               /\ plan[1].amount = P - b.base * (b.months - 1)
               /\ \A i \in 2..b.months : plan[i].amount = b.base
<1> DEFINE b == BaseInstallment(P, N)
           first == P - b.base * (b.months - 1)
<1>1. b.base \in Nat \ {0} /\ b.months \in Nat \ {0}
    BY BaseInstallmentBounds
<1>2. Plan(P, N, s) = [seq \in 1..b.months |->
                          [due |-> s + seq - 1,
                           amount |-> IF seq = 1 THEN first ELSE b.base]]
    BY DEF Plan
<1>3. Len(Plan(P, N, s)) \in Nat /\ DOMAIN Plan(P, N, s) = 1..Len(Plan(P, N, s))
    BY PlanType
<1> HIDE DEF b, first
<1>4. Len(Plan(P, N, s)) = b.months
    BY <1>1, <1>2, <1>3
<1>5. /\ Plan(P, N, s)[1].amount = first
      /\ \A i \in 2..b.months : Plan(P, N, s)[i].amount = b.base
    BY <1>1, <1>2
<1> QED
    BY <1>3, <1>4, <1>5 DEF b, first

\* The rows of any schedule whose amounts agree with a plan from the second
\* row on, summed from some row to the last.
LEMMA LevelRows ==
    ASSUME NEW schedule, NEW c \in Int, NEW t \in Nat \ {0}, NEW m \in Nat, t <= m,
           \A i \in 2..m : schedule[i].amount = c
    PROVE  AmountOf(schedule, (t + 1)..m) = (m - t) * c
<1> DEFINE S == (t + 1)..m
           f == [i \in S |-> schedule[i].amount]
<1>1. IsFiniteSet(S) /\ Cardinality(S) = m - t
    <2>1. t + 1 \in Int /\ m \in Int
        OBVIOUS
    <2>2. Cardinality(S) = IF t + 1 > m THEN 0 ELSE m - (t + 1) + 1
        BY <2>1, FS_Interval
    <2> QED
        BY <2>1, <2>2, FS_Interval
<1>2. \A i \in S : f[i] = c
    OBVIOUS
<1>3. AmountOf(schedule, S) = SumFunctionOnSet(f, S)
    BY DEF AmountOf, SumFunction
<1> HIDE DEF f, S
<1>4. SumFunctionOnSet(f, S) = c * Cardinality(S)
    BY <1>1, <1>2, SumConstant
<1>5. c * (m - t) = (m - t) * c
    OBVIOUS
<1> QED
    BY <1>1, <1>3, <1>4, <1>5 DEF S

\* A schedule of one row of its own and level rows after it.
LEMMA RowsAddUp ==
    ASSUME NEW rows, NEW m \in Nat \ {0}, NEW c \in Int, rows[1].amount \in Int,
           \A i \in 2..m : rows[i].amount = c
    PROVE  AmountOf(rows, 1..m) = rows[1].amount + (m - 1) * c
<1> DEFINE D == 1..m
           f == [i \in D |-> rows[i].amount]
<1>1. IsFiniteSet(D) /\ 1 \in D
    BY FS_Interval
<1>2. \A i \in D : f[i] = IF i = 1 THEN rows[1].amount ELSE c
    OBVIOUS
<1>3. AmountOf(rows, D) = SumFunctionOnSet(f, D)
    BY DEF AmountOf, SumFunction
<1>4. IsFiniteSet(D \ {1}) /\ Cardinality(D \ {1}) = m - 1
    <2>1. Cardinality(D) = m
        BY FS_Interval
    <2> HIDE DEF D
    <2> QED
        BY <1>1, <2>1, FS_RemoveElement
<1> HIDE DEF f, D
<1>5. SumFunctionOnSet(f, D) = f[1] + SumFunctionOnSet(f, D \ {1})
    <2>1. \A i \in D : f[i] \in Int
        BY <1>2
    <2> QED
        BY <1>1, <2>1, SumRemove
<1>6. SumFunctionOnSet(f, D \ {1}) = c * Cardinality(D \ {1})
    <2>1. \A i \in D \ {1} : f[i] = c
        BY <1>2
    <2> QED
        BY <1>4, <2>1, SumConstant
<1>7. c * (m - 1) = (m - 1) * c
    OBVIOUS
<1> QED
    BY <1>1, <1>2, <1>3, <1>4, <1>5, <1>6, <1>7 DEF D

\* A plan repays the principal to the unit, and every row repays something.
LEMMA PlanRepaysPrincipal ==
    ASSUME NEW P \in Nat \ {0}, NEW N \in Nat \ {0}, NEW s \in Nat,
           NEW rows, DOMAIN rows = DOMAIN Plan(P, N, s),
           \A i \in DOMAIN rows : rows[i].amount = Plan(P, N, s)[i].amount
    PROVE  /\ AmountOf(rows, DOMAIN rows) = P
           /\ \A i \in DOMAIN rows : rows[i].amount > 0
<1>1. PICK base, m :
          /\ base \in Nat \ {0} /\ m \in Nat \ {0} /\ base * (m - 1) < P
          /\ DOMAIN Plan(P, N, s) = 1..m
          /\ Plan(P, N, s)[1].amount = P - base * (m - 1)
          /\ \A i \in 2..m : Plan(P, N, s)[i].amount = base
    <2> DEFINE b == BaseInstallment(P, N)
    <2>1. /\ b.base \in Nat \ {0} /\ b.months \in Nat \ {0} /\ b.base * (b.months - 1) < P
        BY BaseInstallmentBounds
    <2>2. /\ DOMAIN Plan(P, N, s) = 1..b.months
          /\ Plan(P, N, s)[1].amount = P - b.base * (b.months - 1)
          /\ \A i \in 2..b.months : Plan(P, N, s)[i].amount = b.base
        BY PlanRows
    <2> HIDE DEF b
    <2> QED
        BY <2>1, <2>2, Zenon
<1> DEFINE rest == base * (m - 1)
<1>2. rest \in Nat /\ rest < P /\ rest = (m - 1) * base
    BY <1>1
<1>3. DOMAIN rows = 1..m /\ \A i \in 2..m : rows[i].amount = base
    BY <1>1
<1>4. rows[1].amount = P - rest
    BY <1>1
<1> HIDE DEF rest
<1>5. rows[1].amount \in Int /\ rows[1].amount > 0
    BY <1>2, <1>4
<1>6. AmountOf(rows, 1..m) = rows[1].amount + (m - 1) * base
    <2>1. base \in Int /\ m \in Nat \ {0} /\ rows[1].amount \in Int
        BY <1>1, <1>5
    <2> QED
        BY <1>3, <2>1, RowsAddUp, Zenon
<1>7. \A i \in 1..m : rows[i].amount > 0
    BY <1>1, <1>3, <1>5
<1> QED
    BY <1>2, <1>3, <1>4, <1>6, <1>7

=============================================================================
