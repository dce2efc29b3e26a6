------------------------------ MODULE DataFacts -------------------------------
(***************************************************************************)
(* Facts about the data the components share: sums over finite sets and    *)
(* queues (SumFunctionOnSet of the community modules) and what is kept of  *)
(* a sequence (Queues).  They hold by induction; the induction theorems of *)
(* the library take an operator as a parameter, so each induction is made  *)
(* by looking at a smallest counterexample instead.                        *)
(***************************************************************************)
EXTENDS Queues, Integers, SequencesExt, FiniteSetTheorems, WellFoundedInduction, TLAPS

\* A set of natural numbers that is not empty has a smallest element: applied to
\* the counterexamples of a claim, this is induction.
LEMMA Smallest ==
  ASSUME NEW T \in SUBSET Nat, T # {}
  PROVE  \E n \in T : \A m \in T : n <= m
<1>1. DEFINE R == OpToRel(<, Nat)
<1>2. IsWellFoundedOn(R, Nat) BY NatLessThanWellFounded DEF OpToRel
<1> HIDE DEF R
<1>3. PICK n \in T : \A m \in T : ~(<<m, n>> \in R) BY <1>2, WFMin
<1>4. ASSUME NEW m \in T PROVE n <= m
  <2>1. ~(<<m, n>> \in R) BY <1>3
  <2>2. m \in Nat /\ n \in Nat OBVIOUS
  <2>3. R = {ss \in Nat \X Nat : ss[1] < ss[2]} BY DEF R, OpToRel
  <2> QED BY <2>1, <2>2, <2>3
<1> QED BY <1>3, <1>4

\* What holds of 0 and of k whenever it holds of k - 1 holds up to n.
LEMMA UpTo ==
  ASSUME NEW n \in Nat, NEW P \in SUBSET (0..n), 0 \in P,
         \A k \in 1..n : k - 1 \in P => k \in P
  PROVE  P = 0..n
<1> SUFFICES ASSUME P # 0..n PROVE FALSE OBVIOUS
<1> DEFINE C == (0..n) \ P
<1>1. C \in SUBSET Nat /\ C # {}
  <2>1. \E x \in 0..n : x \notin P OBVIOUS
  <2> QED BY <2>1
<1>2. PICK k \in C : \A j \in C : k <= j BY <1>1, Smallest
<1>3. k \in 1..n /\ k - 1 \in 0..n OBVIOUS
<1>4. k - 1 \in P BY <1>2, <1>3
<1> QED BY <1>3, <1>4

\* A collection of subsets of a finite set has a member none of whose proper
\* subsets is in it: induction over finite sets.
LEMMA SmallestSet ==
  ASSUME NEW S, IsFiniteSet(S), NEW C \in SUBSET SUBSET S, C # {}
  PROVE  \E T \in C : IsFiniteSet(T) /\ \A U \in SUBSET T : U # T => U \notin C
<1>1. \A T \in SUBSET S : IsFiniteSet(T) /\ Cardinality(T) \in Nat
  BY FS_Subset, FS_CardinalityType
<1> DEFINE N == {Cardinality(T) : T \in C}
<1>2. N \in SUBSET Nat /\ N # {} BY <1>1
<1> HIDE DEF N
<1>3. PICK n \in N : \A m \in N : n <= m BY <1>2, Smallest
<1>4. PICK T \in C : n = Cardinality(T) BY DEF N
<1>5. ASSUME NEW U \in SUBSET T, U # T, U \in C PROVE FALSE
  <2>1. IsFiniteSet(T) /\ Cardinality(T) \in Nat /\ Cardinality(U) \in Nat BY <1>1
  <2>2. Cardinality(U) <= Cardinality(T) /\ Cardinality(U) # Cardinality(T)
    BY <2>1, <1>5, FS_Subset
  <2>3. n <= Cardinality(U) BY <1>3, <1>5 DEF N
  <2> QED BY <2>1, <2>2, <2>3, <1>4
<1> QED BY <1>1, <1>5

-----------------------------------------------------------------------------
(* Sums *)

SumPick(T) == CHOOSE x \in T : TRUE

IsTable(f, S, g) ==
  g = [T \in SUBSET S |-> IF T = {} THEN 0 ELSE f[SumPick(T)] + g[T \ {SumPick(T)}]]

SumTableOf(f, S) == CHOOSE g : IsTable(f, S, g)

\* The sum of the community modules reads a table of partial sums.
LEMMA SumIsTable == ASSUME NEW f, NEW S PROVE SumFunctionOnSet(f, S) = SumTableOf(f, S)[S]
  BY DEF SumFunctionOnSet, FoldFunctionOnSet, MapThenFoldSet, SumTableOf, IsTable, SumPick

IsSumTable(f, S) == IsTable(f, S, SumTableOf(f, S))

\* What the table says of the empty set, and of any other one.
LEMMA TableStep ==
  ASSUME NEW f, NEW S, IsSumTable(f, S)
  PROVE  /\ SumTableOf(f, S)[{}] = 0
         /\ \A T \in SUBSET S : T # {} =>
              /\ SumPick(T) \in T
              /\ SumTableOf(f, S)[T] = f[SumPick(T)] + SumTableOf(f, S)[T \ {SumPick(T)}]
<1> DEFINE g == SumTableOf(f, S)
<1>1. g = [T \in SUBSET S |-> IF T = {} THEN 0 ELSE f[SumPick(T)] + g[T \ {SumPick(T)}]]
  BY DEF IsSumTable, IsTable
<1> HIDE DEF g
<1>2. ASSUME NEW T \in SUBSET S, T # {}
      PROVE  SumPick(T) \in T /\ g[T] = f[SumPick(T)] + g[T \ {SumPick(T)}]
  <2>1. SumPick(T) \in T BY <1>2 DEF SumPick
  <2>2. g[T] = IF T = {} THEN 0 ELSE f[SumPick(T)] + g[T \ {SumPick(T)}] BY <1>1
  <2> QED BY <2>1, <2>2, <1>2
<1>3. g[{}] = 0
  <2>1. {} \in SUBSET S OBVIOUS
  <2> QED BY <1>1, <2>1
<1> QED BY <1>2, <1>3 DEF g

\* Two tables agree where both are defined.
LEMMA TablesAgree ==
  ASSUME NEW f, NEW S, NEW R, IsFiniteSet(R), R \subseteq S, IsSumTable(f, S), IsSumTable(f, R)
  PROVE  SumTableOf(f, S)[R] = SumTableOf(f, R)[R]
<1> DEFINE C == {T \in SUBSET R : SumTableOf(f, S)[T] # SumTableOf(f, R)[T]}
<1> SUFFICES ASSUME C # {} PROVE FALSE BY DEF C
<1>1. PICK T \in C : \A U \in SUBSET T : U # T => U \notin C
  <2>1. C \in SUBSET SUBSET R OBVIOUS
  <2> HIDE DEF C
  <2> QED BY <2>1, SmallestSet
<1>2. T # {} BY TableStep
<1>3. SumPick(T) \in T /\ T \ {SumPick(T)} \in SUBSET R BY <1>2, TableStep
<1>4. SumTableOf(f, S)[T \ {SumPick(T)}] = SumTableOf(f, R)[T \ {SumPick(T)}] BY <1>1, <1>3
<1>5. SumTableOf(f, S)[T] = SumTableOf(f, R)[T] BY <1>2, <1>4, TableStep
<1> QED BY <1>5

\* There is such a table over every finite set: the recursion is well-founded.
LEMMA TableExists ==
  ASSUME NEW f, NEW S, IsFiniteSet(S)
  PROVE  IsSumTable(f, S)
<1> DEFINE C == {T \in SUBSET S : ~IsSumTable(f, T)}
<1> SUFFICES ASSUME C # {} PROVE FALSE BY DEF C
<1>1. PICK T \in C : IsFiniteSet(T) /\ \A U \in SUBSET T : U # T => U \notin C
  <2>1. C \in SUBSET SUBSET S OBVIOUS
  <2> HIDE DEF C
  <2> QED BY <2>1, SmallestSet
<1>2. \A U \in SUBSET T : U # T => IsSumTable(f, U) /\ IsFiniteSet(U) BY <1>1, FS_Subset
<1> DEFINE h(U) == IF U = {} THEN 0 ELSE f[SumPick(U)] + SumTableOf(f, U \ {SumPick(U)})[U \ {SumPick(U)}]
           g == [U \in SUBSET T |-> h(U)]
<1>3. ASSUME NEW U \in SUBSET T, U # {}
      PROVE  g[U \ {SumPick(U)}] = SumTableOf(f, U \ {SumPick(U)})[U \ {SumPick(U)}]
  <2> DEFINE V == U \ {SumPick(U)}
  <2>1. SumPick(U) \in U BY <1>3 DEF SumPick
  <2>2. V \in SUBSET T /\ V # T BY <2>1
  <2>3. IsSumTable(f, V) /\ IsFiniteSet(V) BY <1>2, <2>2
  <2>4. g[V] = h(V) BY <2>2
  <2>5. CASE V = {} 
    <3>1. SumTableOf(f, V)[{}] = 0 BY <2>3, TableStep
    <3> QED BY <3>1, <2>4, <2>5
  <2>6. CASE V # {}
    <3> DEFINE W == V \ {SumPick(V)}
    <3> HIDE DEF V
    <3>1. SumPick(V) \in V /\ SumTableOf(f, V)[V] = f[SumPick(V)] + SumTableOf(f, V)[W]
      BY <2>3, <2>6, TableStep
    <3>2. W \subseteq V /\ W \in SUBSET T /\ W # T BY <2>2, <3>1
    <3>3. IsSumTable(f, W) /\ IsFiniteSet(W) BY <1>2, <3>2
    <3>4. SumTableOf(f, V)[W] = SumTableOf(f, W)[W] BY <2>3, <3>2, <3>3, TablesAgree
    <3>5. h(V) = f[SumPick(V)] + SumTableOf(f, W)[W] BY <2>6
    <3> QED BY <2>4, <3>1, <3>4, <3>5 DEF V
  <2> QED BY <2>5, <2>6
<1>4. IsTable(f, T, g)
  <2>1. ASSUME NEW U \in SUBSET T
        PROVE  h(U) = IF U = {} THEN 0 ELSE f[SumPick(U)] + g[U \ {SumPick(U)}]
    BY <1>3
  <2> QED BY <2>1 DEF IsTable
<1>5. IsSumTable(f, T) BY <1>4 DEF IsSumTable, SumTableOf
<1> QED BY <1>1, <1>5

\* Nothing sums up to zero.
LEMMA SumEmpty == ASSUME NEW f PROVE SumFunctionOnSet(f, {}) = 0
BY SumIsTable, TableExists, TableStep, FS_EmptySet

\* The element the recursion takes out first.
LEMMA SumChosen ==
  ASSUME NEW f, NEW S, IsFiniteSet(S), S # {}
  PROVE  /\ SumPick(S) \in S
         /\ SumFunctionOnSet(f, S) = f[SumPick(S)] + SumFunctionOnSet(f, S \ {SumPick(S)})
<1> DEFINE R == S \ {SumPick(S)}
<1>1. IsSumTable(f, S) BY TableExists
<1>2. SumPick(S) \in S /\ SumTableOf(f, S)[S] = f[SumPick(S)] + SumTableOf(f, S)[R] BY <1>1, TableStep
<1>3. IsFiniteSet(R) BY FS_RemoveElement
<1>4. IsSumTable(f, R) BY <1>3, TableExists
<1>5. R \subseteq S OBVIOUS
<1> HIDE DEF R
<1>6. SumTableOf(f, S)[R] = SumTableOf(f, R)[R] BY <1>1, <1>3, <1>4, <1>5, TablesAgree
<1> QED BY <1>2, <1>6, SumIsTable DEF R

\* A sum of naturals is a natural.
LEMMA SumType ==
  ASSUME NEW S, IsFiniteSet(S), NEW f, \A x \in S : f[x] \in Nat
  PROVE  SumFunctionOnSet(f, S) \in Nat
<1> DEFINE C == {T \in SUBSET S : SumFunctionOnSet(f, T) \notin Nat}
<1> SUFFICES ASSUME C # {} PROVE FALSE BY DEF C
<1>1. PICK T \in C : IsFiniteSet(T) /\ \A U \in SUBSET T : U # T => U \notin C
  <2>1. C \in SUBSET SUBSET S OBVIOUS
  <2> HIDE DEF C
  <2> QED BY <2>1, SmallestSet
<1>2. T # {}
  <2>1. 0 \in Nat OBVIOUS
  <2>2. SumFunctionOnSet(f, T) \notin Nat BY <1>1
  <2> QED BY <2>1, <2>2, SumEmpty
<1>3. /\ SumPick(T) \in T
      /\ SumFunctionOnSet(f, T) = f[SumPick(T)] + SumFunctionOnSet(f, T \ {SumPick(T)})
  BY <1>1, <1>2, SumChosen
<1>4. SumFunctionOnSet(f, T \ {SumPick(T)}) \in Nat BY <1>1, <1>3
<1> QED BY <1>1, <1>3, <1>4

\* Any element may be taken out of a sum first.
LEMMA SumRemove ==
  ASSUME NEW S, IsFiniteSet(S), NEW f, \A x \in S : f[x] \in Nat, NEW x \in S
  PROVE  SumFunctionOnSet(f, S) = f[x] + SumFunctionOnSet(f, S \ {x})
<1> DEFINE sum(T) == SumFunctionOnSet(f, T)
           C == {T \in SUBSET S : \E y \in T : sum(T) # f[y] + sum(T \ {y})}
<1> SUFFICES ASSUME C # {} PROVE FALSE BY DEF C
<1>1. PICK T \in C : IsFiniteSet(T) /\ \A U \in SUBSET T : U # T => U \notin C
  <2>1. C \in SUBSET SUBSET S OBVIOUS
  <2> HIDE DEF C
  <2> QED BY <2>1, SmallestSet
<1>2. PICK y \in T : sum(T) # f[y] + sum(T \ {y}) BY <1>1
<1>3. \A U \in SUBSET T : IsFiniteSet(U) /\ sum(U) \in Nat
  <2> TAKE U \in SUBSET T
  <2>1. IsFiniteSet(U) BY <1>1, FS_Subset
  <2>2. \A z \in U : f[z] \in Nat BY <1>1
  <2> QED BY <2>1, <2>2, SumType
<1> HIDE DEF sum
<1> DEFINE c == SumPick(T)
<1>4. c \in T /\ sum(T) = f[c] + sum(T \ {c}) BY <1>1, <1>2, SumChosen DEF sum
<1> HIDE DEF c
<1>5. y # c BY <1>2, <1>4
<1>6. sum(T \ {c}) = f[y] + sum((T \ {c}) \ {y}) BY <1>1, <1>4, <1>5
<1>7. sum(T \ {y}) = f[c] + sum((T \ {y}) \ {c}) BY <1>1, <1>4, <1>5
<1>8. (T \ {c}) \ {y} = (T \ {y}) \ {c} OBVIOUS
<1>9. sum((T \ {y}) \ {c}) \in Nat /\ f[c] \in Nat /\ f[y] \in Nat BY <1>1, <1>3, <1>4
<1> QED BY <1>2, <1>4, <1>6, <1>7, <1>8, <1>9

\* No summand exceeds the sum: one queue is no longer than all of them.
LEMMA SumBounds ==
  ASSUME NEW S, IsFiniteSet(S), NEW f, \A x \in S : f[x] \in Nat, NEW x \in S
  PROVE  f[x] <= SumFunctionOnSet(f, S)
<1>1. IsFiniteSet(S \ {x}) BY FS_RemoveElement
<1>2. SumFunctionOnSet(f, S \ {x}) \in Nat BY <1>1, SumType
<1> QED BY <1>2, SumRemove

\* The sum depends on the summands only.
LEMMA SumSame ==
  ASSUME NEW S, IsFiniteSet(S), NEW f, NEW g, \A x \in S : f[x] = g[x]
  PROVE  SumFunctionOnSet(f, S) = SumFunctionOnSet(g, S)
<1> DEFINE C == {T \in SUBSET S : SumFunctionOnSet(f, T) # SumFunctionOnSet(g, T)}
<1> SUFFICES ASSUME C # {} PROVE FALSE BY DEF C
<1>1. PICK T \in C : IsFiniteSet(T) /\ \A U \in SUBSET T : U # T => U \notin C
  <2>1. C \in SUBSET SUBSET S OBVIOUS
  <2> HIDE DEF C
  <2> QED BY <2>1, SmallestSet
<1>2. T # {} BY <1>1, SumEmpty
<1>3. /\ SumPick(T) \in T
      /\ SumFunctionOnSet(f, T) = f[SumPick(T)] + SumFunctionOnSet(f, T \ {SumPick(T)})
      /\ SumFunctionOnSet(g, T) = g[SumPick(T)] + SumFunctionOnSet(g, T \ {SumPick(T)})
  BY <1>1, <1>2, SumChosen
<1> QED BY <1>1, <1>3

\* Nothing but zeros sums up to zero.
LEMMA SumZero ==
  ASSUME NEW S, IsFiniteSet(S), NEW f, \A x \in S : f[x] = 0
  PROVE  SumFunctionOnSet(f, S) = 0
<1> DEFINE C == {T \in SUBSET S : SumFunctionOnSet(f, T) # 0}
<1> SUFFICES ASSUME C # {} PROVE FALSE BY DEF C
<1>1. PICK T \in C : IsFiniteSet(T) /\ \A U \in SUBSET T : U # T => U \notin C
  <2>1. C \in SUBSET SUBSET S OBVIOUS
  <2> HIDE DEF C
  <2> QED BY <2>1, SmallestSet
<1>2. T # {} BY <1>1, SumEmpty
<1>3. /\ SumPick(T) \in T
      /\ SumFunctionOnSet(f, T) = f[SumPick(T)] + SumFunctionOnSet(f, T \ {SumPick(T)})
  BY <1>1, <1>2, SumChosen
<1>4. SumFunctionOnSet(f, T \ {SumPick(T)}) = 0 BY <1>1, <1>3
<1> QED BY <1>1, <1>3, <1>4

\* Smaller summands have a smaller sum.
LEMMA SumLess ==
  ASSUME NEW S, IsFiniteSet(S), NEW f, NEW g,
         \A x \in S : f[x] \in Nat /\ g[x] \in Nat /\ f[x] <= g[x]
  PROVE  SumFunctionOnSet(f, S) <= SumFunctionOnSet(g, S)
<1> DEFINE sumf(T) == SumFunctionOnSet(f, T)
           sumg(T) == SumFunctionOnSet(g, T)
           C == {T \in SUBSET S : ~(sumf(T) <= sumg(T))}
<1> SUFFICES ASSUME C # {} PROVE FALSE BY DEF C
<1>1. PICK T \in C : IsFiniteSet(T) /\ \A U \in SUBSET T : U # T => U \notin C
  <2>1. C \in SUBSET SUBSET S OBVIOUS
  <2> HIDE DEF C
  <2> QED BY <2>1, SmallestSet
<1>2. T # {}
  <2>1. sumf({}) = 0 /\ sumg({}) = 0 BY SumEmpty
  <2>2. ~(sumf(T) <= sumg(T)) BY <1>1
  <2> HIDE DEF sumf, sumg
  <2> QED BY <2>1, <2>2
<1>3. PICK x : x \in T BY <1>2
<1> DEFINE R == T \ {x}
<1>4. IsFiniteSet(R) /\ R \subseteq S /\ T \subseteq S BY <1>1, FS_RemoveElement
<1>5. sumf(T) = f[x] + sumf(R) BY <1>1, <1>3, <1>4, SumRemove
<1>6. sumg(T) = g[x] + sumg(R) BY <1>1, <1>3, <1>4, SumRemove
<1>7. sumf(R) \in Nat /\ sumg(R) \in Nat BY <1>4, SumType
<1>8. sumf(R) <= sumg(R) BY <1>1, <1>3, <1>4
<1>9. ~(sumf(T) <= sumg(T)) BY <1>1
<1>10. f[x] \in Nat /\ g[x] \in Nat /\ f[x] <= g[x] BY <1>3, <1>4
<1> HIDE DEF sumf, sumg, R
<1> QED BY <1>5, <1>6, <1>7, <1>8, <1>9, <1>10

\* One summand changes, and the sum with it.
LEMMA SumUpdate ==
  ASSUME NEW S, IsFiniteSet(S), NEW f, NEW g, NEW x \in S,
         \A y \in S : f[y] \in Nat /\ g[y] \in Nat,
         \A y \in S \ {x} : f[y] = g[y]
  PROVE  SumFunctionOnSet(g, S) + f[x] = SumFunctionOnSet(f, S) + g[x]
<1> DEFINE R == S \ {x}
<1>1. IsFiniteSet(R) BY FS_RemoveElement
<1>2. SumFunctionOnSet(f, R) = SumFunctionOnSet(g, R) BY <1>1, SumSame
<1>3. SumFunctionOnSet(f, S) = f[x] + SumFunctionOnSet(f, R) BY SumRemove
<1>4. SumFunctionOnSet(g, S) = g[x] + SumFunctionOnSet(g, R) BY SumRemove
<1>5. SumFunctionOnSet(f, R) \in Nat BY <1>1, SumType
<1> QED BY <1>2, <1>3, <1>4, <1>5

\* A queue grows at its end by one summand.
LEMMA QueueSumAppend ==
  ASSUME NEW n \in Nat, NEW f, NEW g, \A i \in 1..n + 1 : g[i] \in Nat,
         \A i \in 1..n : f[i] = g[i]
  PROVE  SumFunctionOnSet(g, 1..n + 1) = SumFunctionOnSet(f, 1..n) + g[n + 1]
<1>1. IsFiniteSet(1..n + 1) /\ IsFiniteSet(1..n) BY FS_Interval
<1>2. n + 1 \in 1..n + 1 /\ (1..n + 1) \ {n + 1} = 1..n OBVIOUS
<1>3. SumFunctionOnSet(g, 1..n + 1) = g[n + 1] + SumFunctionOnSet(g, 1..n)
  BY <1>1, <1>2, SumRemove
<1>4. SumFunctionOnSet(g, 1..n) = SumFunctionOnSet(f, 1..n) BY <1>1, SumSame
<1>5. SumFunctionOnSet(g, 1..n) \in Nat
  <2>1. \A i \in 1..n : g[i] \in Nat OBVIOUS
  <2> QED BY <1>1, <2>1, SumType
<1>6. g[n + 1] \in Nat OBVIOUS
<1> QED BY <1>3, <1>4, <1>5, <1>6

\* A queue loses its first summand.
LEMMA QueueSumTail ==
  ASSUME NEW n \in Nat \ {0}, NEW f, NEW g, \A i \in 1..n : f[i] \in Nat,
         \A i \in 1..n - 1 : g[i] = f[i + 1]
  PROVE  SumFunctionOnSet(f, 1..n) = f[1] + SumFunctionOnSet(g, 1..n - 1)
<1> DEFINE P == {k \in 0..n - 1 : SumFunctionOnSet(f, 1..k + 1) = f[1] + SumFunctionOnSet(g, 1..k)}
<1>0. \A k \in Nat : IsFiniteSet(1..k) BY FS_Interval
<1>1. 0 \in P
  <2>1. 1..0 = {} /\ 1..(0 + 1) = {1} /\ {1} \ {1} = {} /\ 0 \in 0..n - 1 OBVIOUS
  <2>2. SumFunctionOnSet(g, {}) = 0 /\ SumFunctionOnSet(f, {}) = 0 BY SumEmpty
  <2>3. SumFunctionOnSet(f, {1}) = f[1] + SumFunctionOnSet(f, {1} \ {1})
    <3>1. IsFiniteSet({1}) BY FS_Singleton
    <3> QED BY <3>1, SumRemove
  <2> QED BY <2>1, <2>2, <2>3
<1>2. ASSUME NEW k \in 1..n - 1, k - 1 \in P PROVE k \in P
  <2>1. (k - 1) + 1 = k /\ k \in 0..n - 1 /\ k \in Nat /\ k - 1 \in Nat OBVIOUS
  <2>2. SumFunctionOnSet(f, 1..k) = f[1] + SumFunctionOnSet(g, 1..k - 1) BY <1>2, <2>1
  <2>3. SumFunctionOnSet(f, 1..k + 1) = SumFunctionOnSet(f, 1..k) + f[k + 1]
    <3>1. \A i \in 1..k + 1 : f[i] \in Nat OBVIOUS
    <3> QED BY <2>1, <3>1, QueueSumAppend
  <2>4. SumFunctionOnSet(g, 1..k) = SumFunctionOnSet(g, 1..k - 1) + g[k]
    <3>1. \A i \in 1..(k - 1) + 1 : g[i] \in Nat
      <4>1. \A i \in 1..(k - 1) + 1 : i \in 1..n - 1 /\ i + 1 \in 1..n OBVIOUS
      <4> QED BY <4>1
    <3>2. SumFunctionOnSet(g, 1..(k - 1) + 1) = SumFunctionOnSet(g, 1..k - 1) + g[(k - 1) + 1]
      BY <2>1, <3>1, QueueSumAppend
    <3> QED BY <2>1, <3>2
  <2>5. SumFunctionOnSet(g, 1..k - 1) \in Nat
    <3>1. \A i \in 1..k - 1 : i \in 1..n - 1 /\ i + 1 \in 1..n OBVIOUS
    <3>2. \A i \in 1..k - 1 : g[i] \in Nat BY <3>1
    <3> QED BY <1>0, <2>1, <3>2, SumType
  <2>6. g[k] = f[k + 1] /\ f[k + 1] \in Nat /\ f[1] \in Nat
    <3>1. k \in 1..n - 1 /\ k + 1 \in 1..n /\ 1 \in 1..n OBVIOUS
    <3> QED BY <3>1
  <2>7. SumFunctionOnSet(f, 1..k + 1) = f[1] + SumFunctionOnSet(g, 1..k)
    BY <2>2, <2>3, <2>4, <2>5, <2>6
  <2> QED BY <2>1, <2>7
<1>3. P = 0..n - 1
  <2>1. P \in SUBSET (0..n - 1) /\ n - 1 \in Nat OBVIOUS
  <2> HIDE DEF P
  <2> QED BY <1>1, <1>2, <2>1, UpTo
<1>4. n - 1 \in P /\ (n - 1) + 1 = n BY <1>3
<1> QED BY <1>4

-----------------------------------------------------------------------------
(* Sequences *)

KeptStep(s, S, g, n) == IF n = 0 THEN <<>>
                    ELSE IF s[n] \in S THEN Append(g[n - 1], s[n]) ELSE g[n - 1]
KeptTable(s, S, g, n) == g = [k \in 0..n |-> KeptStep(s, S, g, k)]
KeptRun(s, S) == CHOOSE g : KeptTable(s, S, g, Len(s))

\* A filtered sequence is the last entry of a table over its prefixes.
LEMMA KeptIsRun == ASSUME NEW s, NEW S PROVE Kept(s, S) = KeptRun(s, S)[Len(s)]
BY DEF Kept, KeptRun, KeptTable, KeptStep

\* What the table says of the empty prefix, and of any other one.
LEMMA RunStep ==
  ASSUME NEW s, NEW S, Len(s) \in Nat
  PROVE  /\ KeptRun(s, S)[0] = <<>>
         /\ \A n \in 1..Len(s) : KeptRun(s, S)[n] = IF s[n] \in S THEN Append(KeptRun(s, S)[n - 1], s[n])
                                                             ELSE KeptRun(s, S)[n - 1]
<1> DEFINE P == {n \in 0..Len(s) : \E g : KeptTable(s, S, g, n)}
<1>1. 0 \in P
  <2>1. KeptTable(s, S, [k \in 0..0 |-> <<>>], 0) BY DEF KeptTable, KeptStep
  <2> QED BY <2>1
<1>2. ASSUME NEW n \in 1..Len(s), n - 1 \in P PROVE n \in P
  <2>1. PICK g : KeptTable(s, S, g, n - 1) BY <1>2
  <2> DEFINE h == [k \in 0..n |-> IF k = n THEN KeptStep(s, S, g, n) ELSE g[k]]
  <2>2. ASSUME NEW k \in 0..n PROVE h[k] = KeptStep(s, S, h, k)
    <3>1. CASE k = 0 BY <3>1, <2>1 DEF KeptTable, KeptStep
    <3>2. CASE k \in 1..(n - 1)
      <4>1. h[k] = g[k] /\ h[k - 1] = g[k - 1] BY <3>2
      <4>2. g[k] = KeptStep(s, S, g, k) BY <3>2, <2>1 DEF KeptTable
      <4> QED BY <4>1, <4>2, <3>2 DEF KeptStep
    <3>3. CASE k = n
      <4>1. h[n - 1] = g[n - 1] /\ h[n] = KeptStep(s, S, g, n) OBVIOUS
      <4> QED BY <4>1, <3>3 DEF KeptStep
    <3> QED BY <3>1, <3>2, <3>3
  <2>3. h = [k \in 0..n |-> h[k]] OBVIOUS
  <2> HIDE DEF h
  <2>4. KeptTable(s, S, h, n) BY <2>2, <2>3 DEF KeptTable
  <2> QED BY <2>4
<1>3. P = 0..Len(s)
  <2>1. P \in SUBSET (0..Len(s)) OBVIOUS
  <2> HIDE DEF P
  <2> QED BY <1>1, <1>2, <2>1, UpTo
<1>4. Len(s) \in P BY <1>3
<1>5. KeptTable(s, S, KeptRun(s, S), Len(s)) BY <1>4 DEF KeptRun
<1>6. \A n \in 0..Len(s) : KeptRun(s, S)[n] = KeptStep(s, S, KeptRun(s, S), n) BY <1>5 DEF KeptTable
<1> QED BY <1>6 DEF KeptStep

\* An element more: it is kept or not, and what was kept before stays.
LEMMA KeptAppend ==
  ASSUME NEW X, NEW s \in Seq(X), NEW x \in X, NEW S
  PROVE  Kept(Append(s, x), S) = IF x \in S THEN Append(Kept(s, S), x) ELSE Kept(s, S)
<1> DEFINE t == Append(s, x)
           L == Len(s)
           P == {n \in 0..L : KeptRun(t, S)[n] = KeptRun(s, S)[n]}
<1>1. /\ L \in Nat /\ Len(t) = L + 1 /\ t[L + 1] = x
      /\ \A n \in 1..L : t[n] = s[n]
  OBVIOUS
<1>2. /\ KeptRun(s, S)[0] = <<>>
      /\ \A n \in 1..L : KeptRun(s, S)[n] = IF s[n] \in S THEN Append(KeptRun(s, S)[n - 1], s[n])
                                                           ELSE KeptRun(s, S)[n - 1]
  BY <1>1, RunStep
<1> HIDE DEF t
<1>3. /\ KeptRun(t, S)[0] = <<>>
      /\ \A n \in 1..Len(t) : KeptRun(t, S)[n] = IF t[n] \in S THEN Append(KeptRun(t, S)[n - 1], t[n])
                                                               ELSE KeptRun(t, S)[n - 1]
  <2>1. Len(t) \in Nat BY <1>1
  <2> QED BY <2>1, RunStep
<1> HIDE DEF L
<1>4. 0 \in P BY <1>1, <1>2, <1>3
<1>5. ASSUME NEW n \in 1..L, n - 1 \in P PROVE n \in P
  <2>1. n \in 1..Len(t) /\ n \in 0..L BY <1>1
  <2>2. KeptRun(t, S)[n - 1] = KeptRun(s, S)[n - 1] BY <1>5
  <2>3. KeptRun(t, S)[n] = KeptRun(s, S)[n] BY <2>1, <2>2, <1>1, <1>2, <1>3
  <2> QED BY <2>1, <2>3
<1>6. P = 0..L
  <2>1. P \in SUBSET (0..L) OBVIOUS
  <2> HIDE DEF P
  <2> QED BY <1>1, <1>4, <1>5, <2>1, UpTo
<1>7. KeptRun(t, S)[L] = KeptRun(s, S)[L]
  <2>1. L \in 0..L BY <1>1
  <2> QED BY <1>6, <2>1
<1>8. KeptRun(t, S)[L + 1] = IF x \in S THEN Append(KeptRun(t, S)[L], x) ELSE KeptRun(t, S)[L]
  <2>1. L + 1 \in 1..Len(t) /\ (L + 1) - 1 = L BY <1>1
  <2> QED BY <2>1, <1>1, <1>3
<1>9. Kept(t, S) = KeptRun(t, S)[L + 1] /\ Kept(s, S) = KeptRun(s, S)[L]
  BY <1>1, KeptIsRun DEF L
<1> QED BY <1>7, <1>8, <1>9 DEF t

FirstOf(q, n) == {q[i] : i \in 1..n}
DrawnFrom(q, s, n) == \A i, j \in 1..Len(q) : i < j =>
                    \E a, b \in 1..n : a < b /\ q[i] = s[a] /\ q[j] = s[b]

\* One more element is kept.
LEMMA DrawnStep ==
  ASSUME NEW X, NEW s, NEW n \in Nat \ {0}, NEW S, NEW t \in Seq(X), s[n] \in X, s[n] \in S,
         Len(t) <= n - 1, FirstOf(t, Len(t)) = FirstOf(s, n - 1) \cap S, DrawnFrom(t, s, n - 1)
  PROVE  /\ Append(t, s[n]) \in Seq(X) /\ Len(Append(t, s[n])) <= n
         /\ FirstOf(Append(t, s[n]), Len(Append(t, s[n]))) = FirstOf(s, n) \cap S
         /\ DrawnFrom(Append(t, s[n]), s, n)
<1> DEFINE L == Len(t)
           u == Append(t, s[n])
<1>2. L \in Nat OBVIOUS
<1>3. /\ u \in Seq(X) /\ Len(u) = L + 1 /\ u[L + 1] = s[n]
      /\ \A i \in 1..L : u[i] = t[i]
  OBVIOUS
<1> HIDE DEF u
<1>4. FirstOf(u, Len(u)) = FirstOf(t, L) \cup {s[n]}
  <2>1. \A i \in 1..Len(u) : i = L + 1 \/ i \in 1..L BY <1>2, <1>3
  <2>2. 1..L \subseteq 1..Len(u) /\ L + 1 \in 1..Len(u) BY <1>2, <1>3
  <2> HIDE DEF L
  <2> QED BY <2>1, <2>2, <1>3 DEF FirstOf
<1>5. FirstOf(s, n) = FirstOf(s, n - 1) \cup {s[n]}
  BY DEF FirstOf
<1>6. FirstOf(u, Len(u)) = FirstOf(s, n) \cap S BY <1>4, <1>5
<1>7. ASSUME NEW i \in 1..Len(u), NEW j \in 1..Len(u), i < j
      PROVE  \E a, b \in 1..n : a < b /\ u[i] = s[a] /\ u[j] = s[b]
  <2>1. CASE j \in 1..L
    <3>1. i \in 1..L BY <1>2, <1>7, <2>1
    <3>2. PICK a \in 1..(n - 1), b \in 1..(n - 1) : a < b /\ t[i] = s[a] /\ t[j] = s[b]
      BY <2>1, <3>1, <1>7 DEF DrawnFrom
    <3>3. a \in 1..n /\ b \in 1..n OBVIOUS
    <3> QED BY <3>1, <3>2, <3>3, <2>1, <1>3
  <2>2. CASE j = L + 1
    <3>1. i \in 1..L BY <1>2, <1>7, <2>2
    <3>2. t[i] \in FirstOf(s, n - 1) BY <3>1 DEF FirstOf
    <3>3. PICK a \in 1..(n - 1) : t[i] = s[a] BY <3>2 DEF FirstOf
    <3>4. a \in 1..n /\ n \in 1..n /\ a < n OBVIOUS
    <3> QED BY <3>1, <3>3, <3>4, <2>2, <1>3
  <2> QED BY <2>1, <2>2, <1>2, <1>3
<1>8. DrawnFrom(u, s, n) BY <1>7 DEF DrawnFrom
<1>9. Len(u) <= n BY <1>2, <1>3
<1> QED BY <1>3, <1>6, <1>8, <1>9 DEF u

\* What is kept of a sequence: no more than it has, exactly the elements asked for,
\* in their order.
LEMMA KeptFacts ==
  ASSUME NEW X, NEW s \in Seq(X), NEW S
  PROVE  /\ Kept(s, S) \in Seq(X)
         /\ Len(Kept(s, S)) <= Len(s)
         /\ ToSet(Kept(s, S)) = ToSet(s) \cap S
         /\ \A i, j \in 1..Len(Kept(s, S)) : i < j =>
              \E a, b \in 1..Len(s) : a < b /\ Kept(s, S)[i] = s[a] /\ Kept(s, S)[j] = s[b]
<1> DEFINE k(n) == KeptRun(s, S)[n]
           Fine(q, n) == /\ q \in Seq(X) /\ Len(q) <= n
                         /\ FirstOf(q, Len(q)) = FirstOf(s, n) \cap S
                         /\ DrawnFrom(q, s, n)
           P == {n \in 0..Len(s) : Fine(k(n), n)}
<1>0. Len(s) \in Nat /\ DOMAIN s = 1..Len(s) /\ \A n \in 1..Len(s) : s[n] \in X OBVIOUS
<1>1. k(0) = <<>> /\ \A n \in 1..Len(s) : k(n) = IF s[n] \in S THEN Append(k(n - 1), s[n]) ELSE k(n - 1)
  BY <1>0, RunStep
<1>k. Kept(s, S) = k(Len(s)) BY KeptIsRun
<1> HIDE DEF k
<1>2. 0 \in P
  <2>1. 1..0 = {} /\ Len(<<>>) = 0 OBVIOUS
  <2>2. FirstOf(<<>>, 0) = {} /\ FirstOf(s, 0) = {} /\ DrawnFrom(<<>>, s, 0) BY <2>1 DEF FirstOf, DrawnFrom
  <2>3. Fine(<<>>, 0) BY <2>1, <2>2
  <2>4. 0 \in 0..Len(s) BY <1>0
  <2> HIDE DEF Fine
  <2> QED BY <1>1, <2>3, <2>4
<1>3. ASSUME NEW n \in 1..Len(s), n - 1 \in P PROVE n \in P
  <2>1. Fine(k(n - 1), n - 1) BY <1>3
  <2>2. CASE s[n] \notin S
    <3>1. k(n) = k(n - 1) BY <1>1, <2>2
    <3>2. FirstOf(s, n) = FirstOf(s, n - 1) \cup {s[n]} BY DEF FirstOf
    <3>3. FirstOf(s, n) \cap S = FirstOf(s, n - 1) \cap S BY <3>2, <2>2
    <3>4. DrawnFrom(k(n - 1), s, n)
      <4>1. 1..(n - 1) \subseteq 1..n OBVIOUS
      <4> QED BY <4>1, <2>1 DEF DrawnFrom
    <3>5. Len(k(n - 1)) <= n
      <4>1. Len(k(n - 1)) \in Nat /\ Len(k(n - 1)) <= n - 1 BY <2>1
      <4> QED BY <4>1
    <3>6. Fine(k(n), n) BY <3>1, <3>3, <3>4, <3>5, <2>1
    <3> QED BY <3>6
  <2>3. CASE s[n] \in S
    <3>1. k(n) = Append(k(n - 1), s[n]) BY <1>1, <2>3
    <3>2. n \in Nat \ {0} /\ s[n] \in X BY <1>0
    <3> DEFINE t == k(n - 1)
               u == k(n)
    <3>3. /\ t \in Seq(X) /\ Len(t) <= n - 1
          /\ FirstOf(t, Len(t)) = FirstOf(s, n - 1) \cap S /\ DrawnFrom(t, s, n - 1)
      BY <2>1
    <3>4. u = Append(t, s[n]) BY <3>1
    <3> HIDE DEF t, u
    <3>5. Fine(Append(t, s[n]), n) BY <3>2, <3>3, <2>3, DrawnStep
    <3>6. Fine(k(n), n)
      <4> HIDE DEF Fine
      <4> QED BY <3>4, <3>5 DEF u
    <3> QED BY <3>6
  <2> QED BY <2>2, <2>3
<1>4. P = 0..Len(s)
  <2>1. P \in SUBSET (0..Len(s)) OBVIOUS
  <2> HIDE DEF P
  <2> QED BY <1>0, <1>2, <1>3, <2>1, UpTo
<1>5. Fine(k(Len(s)), Len(s))
  <2>1. Len(s) \in P BY <1>4, <1>0
  <2> HIDE DEF Fine
  <2> QED BY <2>1
<1> DEFINE q == Kept(s, S)
<1>6. q \in Seq(X) /\ Len(q) <= Len(s) /\ FirstOf(q, Len(q)) = FirstOf(s, Len(s)) \cap S
      /\ DrawnFrom(q, s, Len(s))
  BY <1>5, <1>k
<1>7. DOMAIN q = 1..Len(q) BY <1>6
<1> HIDE DEF q
<1>8. ToSet(q) = FirstOf(q, Len(q)) /\ ToSet(s) = FirstOf(s, Len(s)) BY <1>0, <1>7 DEF ToSet, FirstOf
<1> QED BY <1>6, <1>8 DEF q, DrawnFrom

\* Nothing is filtered out of a sequence whose elements are all asked for.
LEMMA KeptAll ==
  ASSUME NEW X, NEW s \in Seq(X), NEW S, \A n \in 1..Len(s) : s[n] \in S
  PROVE  Kept(s, S) = s
<1> DEFINE k(n) == KeptRun(s, S)[n]
           Same(q, n) == q \in Seq(X) /\ Len(q) = n /\ \A i \in 1..n : q[i] = s[i]
           P == {n \in 0..Len(s) : Same(k(n), n)}
<1>0. Len(s) \in Nat /\ \A n \in 1..Len(s) : s[n] \in X OBVIOUS
<1>1. k(0) = <<>> /\ \A n \in 1..Len(s) : k(n) = Append(k(n - 1), s[n]) BY <1>0, RunStep
<1>2. Kept(s, S) = k(Len(s)) BY KeptIsRun
<1> HIDE DEF k
<1>3. 0 \in P
  <2>1. Same(<<>>, 0) /\ 0 \in 0..Len(s) BY <1>0
  <2> HIDE DEF Same
  <2> QED BY <1>1, <2>1
<1>4. ASSUME NEW n \in 1..Len(s), n - 1 \in P PROVE n \in P
  <2>1. PICK q : q = k(n - 1) OBVIOUS
  <2>2. q \in Seq(X) /\ Len(q) = n - 1 /\ \A i \in 1..n - 1 : q[i] = s[i] BY <1>4, <2>1
  <2>3. s[n] \in X /\ k(n) = Append(q, s[n]) BY <1>0, <1>1, <2>1
  <2>4. Same(Append(q, s[n]), n) BY <2>2, <2>3
  <2>5. n \in 0..Len(s) BY <1>0
  <2> HIDE DEF Same
  <2> QED BY <2>3, <2>4, <2>5
<1>5. P = 0..Len(s)
  <2>1. P \in SUBSET (0..Len(s)) OBVIOUS
  <2> HIDE DEF P
  <2> QED BY <1>0, <1>3, <1>4, <2>1, UpTo
<1>6. Same(k(Len(s)), Len(s))
  <2>1. Len(s) \in P BY <1>0, <1>5
  <2> HIDE DEF Same
  <2> QED BY <2>1
<1>7. PICK q : q = k(Len(s)) OBVIOUS
<1>8. q \in Seq(X) /\ Len(q) = Len(s) /\ \A i \in 1..Len(s) : q[i] = s[i] BY <1>6, <1>7
<1>9. q = s BY <1>8
<1> QED BY <1>2, <1>7, <1>9

\* A sequence is split in two by a filter and its opposite.
LEMMA KeptSplit ==
  ASSUME NEW X, NEW s \in Seq(X), NEW S, NEW T, \A n \in 1..Len(s) : s[n] \in S <=> s[n] \notin T
  PROVE  Len(Kept(s, S)) + Len(Kept(s, T)) = Len(s)
<1> DEFINE k(n) == KeptRun(s, S)[n]
           l(n) == KeptRun(s, T)[n]
           Split(p, q, n) == p \in Seq(X) /\ q \in Seq(X) /\ Len(p) + Len(q) = n
           P == {n \in 0..Len(s) : Split(k(n), l(n), n)}
<1>0. Len(s) \in Nat /\ \A n \in 1..Len(s) : s[n] \in X OBVIOUS
<1>1. k(0) = <<>> /\ \A n \in 1..Len(s) : k(n) = IF s[n] \in S THEN Append(k(n - 1), s[n]) ELSE k(n - 1)
  BY <1>0, RunStep
<1>2. l(0) = <<>> /\ \A n \in 1..Len(s) : l(n) = IF s[n] \in T THEN Append(l(n - 1), s[n]) ELSE l(n - 1)
  BY <1>0, RunStep
<1>3. Kept(s, S) = k(Len(s)) /\ Kept(s, T) = l(Len(s)) BY KeptIsRun
<1> HIDE DEF k, l
<1>4. 0 \in P
  <2>1. Split(<<>>, <<>>, 0) /\ 0 \in 0..Len(s) BY <1>0
  <2> HIDE DEF Split
  <2> QED BY <1>1, <1>2, <2>1
<1>5. ASSUME NEW n \in 1..Len(s), n - 1 \in P PROVE n \in P
  <2>1. PICK p : p = k(n - 1) OBVIOUS
  <2>2. PICK q : q = l(n - 1) OBVIOUS
  <2>3. p \in Seq(X) /\ q \in Seq(X) /\ Len(p) + Len(q) = n - 1 BY <1>5, <2>1, <2>2
  <2>4. s[n] \in X BY <1>0
  <2>5. \/ k(n) = Append(p, s[n]) /\ l(n) = q
        \/ k(n) = p /\ l(n) = Append(q, s[n])
    BY <1>1, <1>2, <2>1, <2>2
  <2>6. Split(Append(p, s[n]), q, n) /\ Split(p, Append(q, s[n]), n)
    <3>1. Len(Append(p, s[n])) = Len(p) + 1 /\ Len(Append(q, s[n])) = Len(q) + 1
          /\ Append(p, s[n]) \in Seq(X) /\ Append(q, s[n]) \in Seq(X)
      BY <2>3, <2>4
    <3> QED BY <2>3, <3>1
  <2>7. n \in 0..Len(s) BY <1>0
  <2> HIDE DEF Split
  <2> QED BY <2>5, <2>6, <2>7
<1>6. P = 0..Len(s)
  <2>1. P \in SUBSET (0..Len(s)) OBVIOUS
  <2> HIDE DEF P
  <2> QED BY <1>0, <1>4, <1>5, <2>1, UpTo
<1>7. Split(k(Len(s)), l(Len(s)), Len(s))
  <2>1. Len(s) \in P BY <1>0, <1>6
  <2> HIDE DEF Split
  <2> QED BY <2>1
<1> QED BY <1>3, <1>7

\* A filter makes no two places of what were no two.
LEMMA KeptInjective ==
  ASSUME NEW X, NEW s \in Seq(X), NEW S, IsInjective(s)
  PROVE  IsInjective(Kept(s, S))
<1>1. PICK q : q = Kept(s, S) OBVIOUS
<1>2. q \in Seq(X) /\ \A i, j \in 1..Len(q) : i < j =>
        \E a, b \in 1..Len(s) : a < b /\ q[i] = s[a] /\ q[j] = s[b]
  <2>1. /\ Kept(s, S) \in Seq(X)
        /\ \A i, j \in 1..Len(Kept(s, S)) : i < j =>
             \E a, b \in 1..Len(s) : a < b /\ Kept(s, S)[i] = s[a] /\ Kept(s, S)[j] = s[b]
    BY KeptFacts
  <2> QED BY <1>1, <2>1
<1>3. \A a, b \in 1..Len(s) : s[a] = s[b] => a = b BY DEF IsInjective
<1>4. \A i, j \in 1..Len(q) : i < j => q[i] # q[j]
  <2> TAKE i, j \in 1..Len(q)
  <2> HAVE i < j
  <2>1. PICK a \in 1..Len(s), b \in 1..Len(s) : a < b /\ q[i] = s[a] /\ q[j] = s[b] BY <1>2
  <2>2. a # b BY <2>1
  <2> QED BY <1>3, <2>1, <2>2
<1>5. DOMAIN q = 1..Len(q) /\ Len(q) \in Nat BY <1>2
<1>6. \A i, j \in 1..Len(q) : i < j \/ j < i \/ i = j BY <1>5
<1>7. IsInjective(q) BY <1>4, <1>5, <1>6 DEF IsInjective
<1> QED BY <1>1, <1>7
===============================================================================
