-------------------------- MODULE RebalanceProofs --------------------------
(***************************************************************************)
(* Proofs about Rebalance and the planner it is built on, for every number *)
(* of tokens, levels, rounds of the bisection and moves, and all books,    *)
(* positions, fees and limits.  The planner folds along levels, assets and *)
(* rounds and sums over sets: the first part finds the functions behind    *)
(* those folds, from the least counterexample among the subsets of a       *)
(* finite set, and the second the steps they take.  From there on a quote  *)
(* is a walk along its levels, and an estimate a sum of quotes.            *)
(***************************************************************************)
EXTENDS Rebalance, SequenceTheorems, FiniteSetTheorems, WellFoundedInduction, TLAPS

-----------------------------------------------------------------------------
\* Sums, folds and greatest elements of finite sets.

\* The least counterexample of a claim about the subsets of a finite set.
LEMMA SmallestSubset ==
    ASSUME NEW S, IsFiniteSet(S), NEW Bad, Bad \subseteq SUBSET S, Bad # {}
    PROVE  \E T \in Bad : \A U \in Bad : ~(U \subseteq T /\ U # T)
<1>1. /\ IsWellFoundedOn(StrictSubsetOrdering(S), FiniteSubsetsOf(S))
      /\ FiniteSubsetsOf(S) = SUBSET S
  BY FS_StrictSubsetOrderingWellFounded, FS_FiniteSubsetsOfFinite
<1>2. PICK T \in Bad : \A U \in Bad : ~(<<U, T>> \in StrictSubsetOrdering(S))
  BY <1>1, WFMin
<1>3. QED
  BY <1>2 DEF StrictSubsetOrdering

\* The equation of a fold over a set, with the functions that pick the next
\* element and take it in.
IsFold(g, S, Y, base, pick, step) ==
    /\ g \in [SUBSET S -> Y]
    /\ \A s \in SUBSET S :
           g[s] = IF s = {} THEN base ELSE step[<<pick[s], g[s \ {pick[s]}]>>]
Picks(pick, S)    == \A s \in SUBSET S : s # {} => pick[s] \in s
Steps(step, S, Y) == \A x \in S, y \in Y : step[<<x, y>>] \in Y

\* It has a solution.
LEMMA FoldExists ==
    ASSUME NEW S, IsFiniteSet(S), NEW Y, NEW base \in Y,
           NEW pick, Picks(pick, S), NEW step, Steps(step, S, Y)
    PROVE  \E g : IsFold(g, S, Y, base, pick, step)
<1> USE DEF IsFold, Picks, Steps
<1> DEFINE Upto(T) == {s \in SUBSET S : Cardinality(s) <= Cardinality(T)}
           Good(T, g) == /\ g \in [Upto(T) -> Y]
                         /\ \A s \in Upto(T) :
                              g[s] = IF s = {} THEN base
                                     ELSE step[<<pick[s], g[s \ {pick[s]}]>>]
           Bad == {T \in SUBSET S : ~\E g : Good(T, g)}
<1>1. \A s \in SUBSET S : IsFiniteSet(s) /\ Cardinality(s) \in Nat
  BY FS_Subset, FS_CardinalityType
<1>2. ASSUME NEW T \in Bad, \A U \in Bad : ~(U \subseteq T /\ U # T) PROVE FALSE
  <2>1. CASE T = {}
    <3>1. Upto(T) = {{}}
      BY <2>1, <1>1, FS_EmptySet
    <3>2. Good(T, [s \in {{}} |-> base])
      BY <3>1
    <3>3. QED
      BY <3>2
  <2>2. CASE T # {}
    <3>1. PICK x \in T : TRUE
      BY <2>2
    <3> DEFINE V == T \ {x}
    <3>2. V \in SUBSET S /\ Cardinality(V) = Cardinality(T) - 1
      BY <1>1, FS_RemoveElement
    <3>3. PICK g : Good(V, g)
      <4>1. V \notin Bad
        <5>1. V \subseteq T /\ V # T
          BY <3>1
        <5>2. QED
          BY <5>1, <1>2
      <4>2. QED
        BY <4>1, <3>2
    <3> DEFINE h == [s \in Upto(T) |-> IF s = {} THEN base
                                       ELSE step[<<pick[s], g[s \ {pick[s]}]>>]]
    <3>4. ASSUME NEW s \in Upto(T), s # {}
          PROVE  pick[s] \in S /\ s \ {pick[s]} \in Upto(V)
      <4>1. /\ pick[s] \in s /\ s \in SUBSET S
            /\ Cardinality(s \ {pick[s]}) = Cardinality(s) - 1
        BY <3>4, <1>1, FS_RemoveElement
      <4>2. QED
        BY <4>1, <3>2, <1>1
    <3>5. h \in [Upto(T) -> Y]
      BY <3>3, <3>4
    <3>6. ASSUME NEW s \in Upto(V) PROVE s \in Upto(T) /\ h[s] = g[s]
      <4>1. s \in Upto(T)
        BY <3>2, <1>1, <1>2
      <4>2. g[s] = IF s = {} THEN base ELSE step[<<pick[s], g[s \ {pick[s]}]>>]
        BY <3>3
      <4>3. QED
        BY <4>1, <4>2
    <3>7. \A s \in Upto(T) : h[s] = IF s = {} THEN base
                                    ELSE step[<<pick[s], h[s \ {pick[s]}]>>]
      BY <3>4, <3>6
    <3>8. Good(T, h)
      BY <3>5, <3>7
    <3>9. QED
      BY <3>8
  <2>3. QED
    BY <2>1, <2>2
<1>3. Bad = {}
  <2>1. SUFFICES ASSUME Bad # {} PROVE FALSE
    OBVIOUS
  <2> HIDE DEF Bad
  <2>2. PICK T \in Bad : \A U \in Bad : ~(U \subseteq T /\ U # T)
    <3>1. Bad \subseteq SUBSET S
      BY DEF Bad
    <3>2. QED
      BY <2>1, <3>1, SmallestSubset
  <2>3. QED
    BY <2>2, <1>2
<1>4. PICK g : Good(S, g)
  BY <1>3
<1>5. Upto(S) = SUBSET S
  BY FS_Subset
<1>6. QED
  BY <1>4, <1>5

\* What a function that folds the same way comes to.
FoldsAs(h, S, Y, base, pick, step) ==
    /\ h[{}] = base
    /\ \A s \in SUBSET S : s # {} /\ h[s \ {pick[s]}] \in Y =>
          h[s] = step[<<pick[s], h[s \ {pick[s]}]>>]

\* What a fold goes through stays inside.
LEMMA FoldStays ==
    ASSUME NEW S, IsFiniteSet(S), NEW Y, NEW base \in Y,
           NEW pick, Picks(pick, S), NEW step, Steps(step, S, Y),
           NEW h, FoldsAs(h, S, Y, base, pick, step)
    PROVE  \A s \in SUBSET S : h[s] \in Y
<1> DEFINE Bad == {u \in SUBSET S : h[u] \notin Y}
<1>1. ASSUME NEW u \in Bad, \A v \in Bad : ~(v \subseteq u /\ v # u) PROVE FALSE
  <2>1. u # {} /\ u \in SUBSET S
    BY DEF FoldsAs
  <2>2. pick[u] \in u
    BY <2>1 DEF Picks
  <2>3. h[u \ {pick[u]}] \in Y
    <3>1. u \ {pick[u]} \in SUBSET S /\ u \ {pick[u]} \subseteq u /\ u \ {pick[u]} # u
      BY <2>1, <2>2
    <3>2. QED
      BY <1>1, <3>1
  <2>4. h[u] = step[<<pick[u], h[u \ {pick[u]}]>>]
    BY <2>1, <2>3 DEF FoldsAs
  <2>5. QED
    BY <2>1, <2>2, <2>3, <2>4 DEF Steps
<1>2. Bad \subseteq SUBSET S
  OBVIOUS
<1>3. Bad = {}
  <2> HIDE DEF Bad
  <2>1. QED
    BY <1>1, <1>2, SmallestSubset
<1>4. QED
  BY <1>3

\* A sum over a set takes its elements in some order.
Pick(s) == CHOOSE x \in s : TRUE

Summed(h, c, S) ==
    h = [s \in SUBSET S |-> IF s = {} THEN 0 ELSE c[Pick(s)] + h[s \ {Pick(s)}]]

\* Choosing is picking.
LEMMA PickPicks ==
    /\ \A s : s # {} => Pick(s) \in s
    /\ \A S : Picks([s \in SUBSET S |-> Pick(s)], S)
<1>1. \A s : s # {} => Pick(s) \in s
  BY DEF Pick
<1>2. QED
  BY <1>1 DEF Picks

\* A sum of a finite set is there, for whoever chooses one.
LEMMA SumExists ==
    ASSUME NEW S, IsFiniteSet(S), NEW c \in [S -> Nat]
    PROVE  \E h : Summed(h, c, S)
<1> DEFINE pick == [s \in SUBSET S |-> Pick(s)]
           step == [z \in S \X Nat |-> c[z[1]] + z[2]]
<1>1. \A x \in S, y \in Nat : step[<<x, y>>] = c[x] + y /\ c[x] + y \in Nat
  OBVIOUS
<1> HIDE DEF step
<1>2. Steps(step, S, Nat)
  BY <1>1 DEF Steps
<1>3. PICK h : IsFold(h, S, Nat, 0, pick, step)
  BY <1>2, PickPicks, FoldExists
<1>4. ASSUME NEW s \in SUBSET S, s # {} PROVE Pick(s) \in S /\ s \ {Pick(s)} \in SUBSET S
  BY <1>4, PickPicks
<1>5. ASSUME NEW s \in SUBSET S
      PROVE  h[s] = IF s = {} THEN 0 ELSE c[Pick(s)] + h[s \ {Pick(s)}]
  BY <1>1, <1>3, <1>4 DEF IsFold
<1>6. h = [s \in SUBSET S |-> h[s]]
  BY <1>3 DEF IsFold
<1>7. QED
  BY <1>5, <1>6 DEF Summed

\* Whatever the order, the sum with an element is the sum without it and its number.
Takes(h, c, S) ==
    /\ h \in [SUBSET S -> Nat] /\ h[{}] = 0
    /\ \A s \in SUBSET S : \A x \in s : h[s] = c[x] + h[s \ {x}]

\* It is the one that does not depend on the order.
LEMMA SumTakes ==
    ASSUME NEW S, IsFiniteSet(S), NEW c \in [S -> Nat], NEW h, Summed(h, c, S)
    PROVE  Takes(h, c, S)
<1>0. \A s \in SUBSET S : h[s] = IF s = {} THEN 0 ELSE c[Pick(s)] + h[s \ {Pick(s)}]
  BY DEF Summed
<1>1. h \in [SUBSET S -> Nat] /\ h[{}] = 0
  <2> DEFINE pick == [s \in SUBSET S |-> Pick(s)]
             step == [z \in S \X Nat |-> c[z[1]] + z[2]]
  <2>1. \A x \in S, y \in Nat : step[<<x, y>>] = c[x] + y /\ c[x] + y \in Nat
    OBVIOUS
  <2> HIDE DEF step
  <2>2. Steps(step, S, Nat) /\ Picks(pick, S)
    BY <2>1, PickPicks DEF Steps
  <2>3. h[{}] = 0
    BY <1>0
  <2>4. ASSUME NEW s \in SUBSET S, s # {}, h[s \ {pick[s]}] \in Nat
        PROVE  h[s] = step[<<pick[s], h[s \ {pick[s]}]>>]
    <3>1. Pick(s) \in S /\ pick[s] = Pick(s)
      BY <2>4, PickPicks
    <3>2. QED
      BY <1>0, <2>1, <2>4, <3>1
  <2> HIDE DEF pick
  <2>5. FoldsAs(h, S, Nat, 0, pick, step)
    BY <2>3, <2>4 DEF FoldsAs
  <2>6. \A s \in SUBSET S : h[s] \in Nat
    BY <2>2, <2>5, FoldStays
  <2>7. h = [s \in SUBSET S |-> h[s]]
    BY DEF Summed
  <2>8. QED
    BY <2>3, <2>6, <2>7
<1>2. ASSUME NEW T \in SUBSET S, NEW x \in T
      PROVE  h[T] = c[x] + h[T \ {x}]
  <2> DEFINE Bad == {s \in SUBSET S : \E y \in s : h[s] # c[y] + h[s \ {y}]}
  <2>1. ASSUME NEW s \in Bad, \A u \in Bad : ~(u \subseteq s /\ u # s) PROVE FALSE
    <3>1. PICK y \in s : h[s] # c[y] + h[s \ {y}]
      OBVIOUS
    <3> DEFINE p == Pick(s)
               r == (s \ {p}) \ {y}
    <3>2. p \in s /\ s \in SUBSET S
      BY <3>1, PickPicks
    <3>3. h[s] = c[p] + h[s \ {p}] /\ p # y
      BY <1>0, <3>1
    <3>4. s \ {p} \notin Bad /\ s \ {y} \notin Bad
      BY <2>1, <3>1, <3>2
    <3>5. h[s \ {p}] = c[y] + h[r]
      BY <3>1, <3>2, <3>3, <3>4
    <3>6. h[s \ {y}] = c[p] + h[r]
      <4>1. (s \ {y}) \ {p} = r
        OBVIOUS
      <4>2. QED
        BY <3>1, <3>2, <3>3, <3>4, <4>1
    <3>7. r \in SUBSET S /\ c[p] \in Nat /\ c[y] \in Nat /\ h[r] \in Nat
      BY <1>1, <3>1, <3>2
    <3> HIDE DEF p, r
    <3>8. c[p] + (c[y] + h[r]) = c[y] + (c[p] + h[r])
      BY <3>7
    <3>9. QED
      BY <3>1, <3>3, <3>5, <3>6, <3>8
  <2>2. Bad = {}
    <3>1. Bad \subseteq SUBSET S
      OBVIOUS
    <3> HIDE DEF Bad
    <3>2. QED
      BY <2>1, <3>1, SmallestSubset
  <2>3. QED
    BY <2>2
<1>3. QED
  BY <1>1, <1>2 DEF Takes

\* A sum is at least that of a part with any element left out of it, and nothing
\* adds up to nothing.
LEMMA SumGrows ==
    ASSUME NEW S, IsFiniteSet(S), NEW c \in [S -> Nat], NEW h, Summed(h, c, S)
    PROVE  \A T \in SUBSET S :
              /\ h[T] \in Nat
              /\ \A U \in SUBSET T : h[U] <= h[T] /\ \A x \in T \ U : h[U] + c[x] <= h[T]
              /\ (\A x \in T : c[x] = 0) => h[T] = 0
<1>1. /\ h \in [SUBSET S -> Nat] /\ h[{}] = 0
      /\ \A s \in SUBSET S : \A x \in s : h[s] = c[x] + h[s \ {x}]
  <2>1. Takes(h, c, S)
    BY SumTakes
  <2>2. QED
    BY <2>1 DEF Takes
<1>2. ASSUME NEW U \in SUBSET S, NEW T \in SUBSET S, U \subseteq T
      PROVE  h[U] <= h[T]
  <2> DEFINE Bad == {s \in SUBSET S : U \subseteq s /\ ~(h[U] <= h[s])}
  <2>1. ASSUME NEW s \in Bad, \A u \in Bad : ~(u \subseteq s /\ u # s) PROVE FALSE
    <3>1. PICK x \in s : x \notin U
      <4>1. h[U] \in Nat
        BY <1>1
      <4>2. s # U /\ U \subseteq s
        BY <2>1, <4>1
      <4>3. QED
        BY <4>2
    <3>2. s \ {x} \in SUBSET S /\ U \subseteq s \ {x} /\ s \ {x} \notin Bad
      BY <2>1, <3>1
    <3>3. h[s] = c[x] + h[s \ {x}] /\ h[U] <= h[s \ {x}] /\ c[x] \in Nat
      BY <1>1, <3>1, <3>2
    <3>4. h[U] \in Nat /\ h[s] \in Nat /\ h[s \ {x}] \in Nat
      BY <1>1, <3>2
    <3>5. QED
      BY <3>3, <3>4
  <2>2. Bad \subseteq SUBSET S
    OBVIOUS
  <2>3. Bad = {}
    <3> HIDE DEF Bad
    <3>1. QED
      BY <2>1, <2>2, SmallestSubset
  <2>4. QED
    BY <1>2, <2>3
<1>3. ASSUME NEW T \in SUBSET S, NEW U \in SUBSET T, NEW x \in T \ U PROVE h[U] + c[x] <= h[T]
  <2>1. h[T] = c[x] + h[T \ {x}]
    BY <1>1
  <2>2. h[U] <= h[T \ {x}]
    BY <1>2
  <2>3. h[U] \in Nat /\ h[T \ {x}] \in Nat /\ c[x] \in Nat
    BY <1>1
  <2>4. QED
    BY <2>1, <2>2, <2>3
<1>4. ASSUME NEW T \in SUBSET S, \A x \in T : c[x] = 0 PROVE h[T] = 0
  <2> DEFINE Bad == {s \in SUBSET T : h[s] # 0}
  <2>1. ASSUME NEW s \in Bad, \A u \in Bad : ~(u \subseteq s /\ u # s) PROVE FALSE
    <3>1. PICK x \in s : TRUE
      BY <1>1
    <3>2. s \ {x} \in SUBSET T /\ s \ {x} \notin Bad
      BY <2>1, <3>1
    <3>3. h[s] = c[x] + h[s \ {x}] /\ c[x] = 0 /\ h[s \ {x}] = 0
      BY <1>1, <1>4, <3>1, <3>2
    <3>4. QED
      BY <3>3
  <2>2. Bad \subseteq SUBSET T /\ IsFiniteSet(T)
    BY FS_Subset
  <2>3. Bad = {}
    <3> HIDE DEF Bad
    <3>1. QED
      BY <2>1, <2>2, SmallestSubset
  <2>4. QED
    BY <2>3
<1>5. \A T \in SUBSET S : h[T] \in Nat
  BY <1>1
<1>6. QED
  BY <1>2, <1>3, <1>4, <1>5

\* Fewer and smaller numbers have a smaller sum.
LEMMA SumsCompare ==
    ASSUME NEW S, IsFiniteSet(S), NEW R \in SUBSET S,
           NEW c \in [R -> Nat], NEW d \in [S -> Nat],
           NEW h, Summed(h, c, R), NEW k, Summed(k, d, S),
           \A x \in R : c[x] <= d[x]
    PROVE  h[R] \in Nat /\ k[S] \in Nat /\ h[R] <= k[S]
<1>0. IsFiniteSet(R)
  BY FS_Subset
<1>1. /\ h \in [SUBSET R -> Nat] /\ h[{}] = 0
      /\ \A s \in SUBSET R : \A x \in s : h[s] = c[x] + h[s \ {x}]
      /\ k \in [SUBSET S -> Nat] /\ k[{}] = 0
      /\ \A s \in SUBSET S : \A x \in s : k[s] = d[x] + k[s \ {x}]
  <2>1. Takes(h, c, R) /\ Takes(k, d, S)
    BY <1>0, SumTakes
  <2>2. QED
    BY <2>1 DEF Takes
<1> DEFINE Bad == {s \in SUBSET R : ~(h[s] <= k[s])}
<1>2. ASSUME NEW s \in Bad, \A u \in Bad : ~(u \subseteq s /\ u # s) PROVE FALSE
  <2>0. s # {}
    <3>1. s = {} => h[s] = 0 /\ k[s] = 0
      BY <1>1
    <3>2. QED
      BY <3>1
  <2>1. PICK x \in s : TRUE
    BY <2>0
  <2>2. s \ {x} \in SUBSET R /\ s \ {x} \notin Bad
    BY <1>2, <2>1
  <2>3. h[s] = c[x] + h[s \ {x}] /\ k[s] = d[x] + k[s \ {x}] /\ h[s \ {x}] <= k[s \ {x}]
    BY <1>1, <2>1, <2>2
  <2>4. /\ c[x] \in Nat /\ d[x] \in Nat /\ c[x] <= d[x]
        /\ h[s \ {x}] \in Nat /\ k[s \ {x}] \in Nat
    BY <1>1, <2>1, <2>2
  <2>5. QED
    BY <2>3, <2>4
<1>3. Bad \subseteq SUBSET R
  OBVIOUS
<1>4. Bad = {}
  <2> HIDE DEF Bad
  <2>1. QED
    BY <1>0, <1>2, <1>3, SmallestSubset
<1>5. h[R] <= k[R]
  BY <1>4
<1>6. k[R] <= k[S]
  BY SumGrows
<1>7. h[R] \in Nat /\ k[R] \in Nat /\ k[S] \in Nat
  BY <1>1
<1>8. QED
  BY <1>5, <1>6, <1>7

AreNumbers(A) == A \subseteq Int
HasGreatest(A) == \E m \in A : \A y \in A : m >= y

\* A finite set of numbers has a greatest one.
LEMMA Greatest ==
    ASSUME NEW A, IsFiniteSet(A), A # {}, AreNumbers(A)
    PROVE  HasGreatest(A)
<1> DEFINE Above(x) == {y \in A : y > x}
           Sets == {Above(x) : x \in A}
<1>2. Sets \subseteq SUBSET A /\ Sets # {}
  OBVIOUS
<1>3. ASSUME NEW T \in Sets, \A U \in Sets : ~(U \subseteq T /\ U # T)
      PROVE  HasGreatest(A)
  <2>0. \A z \in A : z \in Int
    BY DEF AreNumbers
  <2>1. PICK m \in A : T = Above(m)
    OBVIOUS
  <2>2. ASSUME NEW y \in A, y > m PROVE FALSE
    <3>1. y \in T /\ y \notin Above(y) /\ Above(y) \in Sets
      BY <2>1, <2>2, <2>0
    <3>2. ASSUME NEW z \in Above(y) PROVE z \in T
      <4>1. z \in A /\ z > y /\ z \in Int /\ y \in Int /\ m \in Int
        BY <2>0
      <4>2. z > m
        BY <2>2, <4>1
      <4>3. QED
        BY <2>1, <4>1, <4>2
    <3>3. QED
      BY <1>3, <3>1, <3>2
  <2>3. QED
    BY <2>0, <2>2 DEF HasGreatest
<1>4. QED
  <2> HIDE DEF Sets
  <2>1. PICK T \in Sets : \A U \in Sets : ~(U \subseteq T /\ U # T)
    BY <1>2, SmallestSubset
  <2>2. QED
    BY <2>1, <1>3

\* Max is it.
LEMMA MaxExists ==
    ASSUME NEW n \in Nat, NEW A \in SUBSET (0..n), A # {}
    PROVE  Max(A) \in A /\ \A x \in A : x <= Max(A)
<1>1. AreNumbers(A) /\ IsFiniteSet(A)
  <2>1. A \in SUBSET Nat /\ \A x \in A : x <= n
    OBVIOUS
  <2>2. QED
    BY <2>1, FS_BoundedSetOfNaturals DEF AreNumbers
<1>2. HasGreatest(A)
  BY <1>1, Greatest, Zenon
<1>3. PICK m \in A : \A y \in A : m >= y
  BY <1>2 DEF HasGreatest
<1>4. \A x \in A : x \in Int
  OBVIOUS
<1>5. QED
  BY <1>3, <1>4 DEF Max

-----------------------------------------------------------------------------
\* The walk along the levels of a book and along the assets.

\* The steps of a fold along a sequence of n elements.
Runs(g, n, Y, base, step) ==
    /\ g \in [0..n -> Y] /\ g[0] = base
    /\ \A i \in 1..n : g[i] = step[<<i, g[i - 1]>>]

\* Induction along the numbers up to n, for a set.
LEMMA Induction ==
    ASSUME NEW n \in Nat, NEW A, 0 \in A, \A i \in 1..n : i - 1 \in A => i \in A
    PROVE  0..n \subseteq A
<1> DEFINE B == {k \in 0..n : n - k \notin A}
<1>1. SUFFICES ASSUME B # {} PROVE FALSE
  <2>1. SUFFICES ASSUME NEW i \in 0..n, i \notin A PROVE B # {}
    OBVIOUS
  <2>2. n - i \in 0..n /\ n - (n - i) = i
    OBVIOUS
  <2>3. n - i \in B
    BY <2>1, <2>2
  <2>4. QED
    BY <2>3
<1>2. B \in SUBSET (0..n)
  OBVIOUS
<1>3. PICK m \in B : \A k \in B : k <= m
  <2> HIDE DEF B
  <2>1. QED
    BY <1>1, <1>2, MaxExists
<1>4. m \in 0..n /\ n - m \notin A
  OBVIOUS
<1>5. n - m # 0
  BY <1>4
<1>6. n - m \in 1..n /\ m + 1 \in 0..n /\ n - (m + 1) = n - m - 1
  BY <1>4, <1>5
<1>7. m + 1 \notin B
  BY <1>3, <1>4
<1>8. n - m - 1 \in A
  BY <1>6, <1>7
<1>9. QED
  BY <1>4, <1>6, <1>8

\* The intervals of the bisection, round by round.
Gap == [i \in 0..Bits |-> 2 ^ (Bits - i)]

\* They begin with the whole grid, are halved, and end with one step of it.
LEMMA Gaps ==
    /\ Gap[0] = Grid /\ Gap[Bits] = 1
    /\ \A i \in 0..Bits : Gap[i] \in Nat \ {0}
    /\ \A i \in 1..Bits : Gap[i - 1] = 2 * Gap[i]
<1> DEFINE P == [n \in 0..Bits |-> 2 ^ n]
<1>1. Bits \in Nat
  BY TargetPositionAssumption
<1>2. P[0] = 1 /\ \A n \in 1..Bits : P[n] = 2 * P[n - 1]
  BY <1>1, PowersAssumption
<1>3. Grid = P[Bits] /\ \A i \in 0..Bits : Gap[i] = P[Bits - i]
  BY <1>1 DEF Grid, Gap
<1> HIDE DEF P
<1> DEFINE A == {n \in 0..Bits : P[n] \in Nat \ {0}}
<1>4. 0 \in A
  BY <1>1, <1>2
<1>5. ASSUME NEW n \in 1..Bits, n - 1 \in A PROVE n \in A
  <2>1. P[n - 1] \in Nat /\ P[n - 1] # 0 /\ n \in 0..Bits
    BY <1>1, <1>5
  <2>2. P[n] = 2 * P[n - 1]
    BY <1>2
  <2>3. QED
    BY <2>1, <2>2
<1>6. \A n \in 0..Bits : P[n] \in Nat \ {0}
  <2> HIDE DEF A
  <2>1. 0..Bits \subseteq A
    BY <1>1, <1>4, <1>5, Induction
  <2>2. QED
    BY <2>1 DEF A
<1>7. ASSUME NEW i \in 1..Bits PROVE Gap[i - 1] = 2 * Gap[i]
  <2>1. /\ i - 1 \in 0..Bits /\ i \in 0..Bits /\ Bits - (i - 1) \in 1..Bits
        /\ Bits - (i - 1) - 1 = Bits - i
    BY <1>1
  <2>2. QED
    BY <1>2, <1>3, <2>1
<1>8. Gap[0] = Grid /\ Gap[Bits] = 1
  <2>1. Bits - 0 = Bits /\ Bits - Bits = 0 /\ 0 \in 0..Bits /\ Bits \in 0..Bits
    BY <1>1
  <2>2. QED
    BY <1>2, <1>3, <2>1
<1>9. ASSUME NEW i \in 0..Bits PROVE Gap[i] \in Nat \ {0}
  <2>1. Bits - i \in 0..Bits
    BY <1>1
  <2>2. QED
    BY <1>3, <1>6, <2>1
<1>10. QED
  BY <1>7, <1>8, <1>9

\* A scale has at least one step.
LEMMA GridType == Grid \in Nat \ {0}
<1>1. 0 \in 0..Bits
  BY TargetPositionAssumption
<1>2. QED
  BY <1>1, Gaps

MaxOf(n) == [s \in SUBSET (1..n) |-> Max(s)]

\* A function on sets of indices that takes the greatest one last.
FoldsAlong(h, n, Y, base, step) ==
    /\ h[{}] = base
    /\ \A s \in SUBSET (1..n) : s # {} /\ h[s \ {Max(s)}] \in Y =>
          h[s] = step[<<Max(s), h[s \ {Max(s)}]>>]

\* A set of indices can be taken apart from its greatest one.
LEMMA MaxPicks ==
    ASSUME NEW n \in Nat
    PROVE  /\ Picks(MaxOf(n), 1..n) /\ IsFiniteSet(1..n)
           /\ \A s \in SUBSET (1..n) : s # {} => Max(s) \in s
           /\ \A i \in 1..n : Max(1..i) = i
<1>1. ASSUME NEW s \in SUBSET (1..n), s # {} PROVE Max(s) \in s /\ \A x \in s : x <= Max(s)
  <2>1. s \in SUBSET (0..n)
    OBVIOUS
  <2>2. QED
    BY <1>1, <2>1, MaxExists
<1>2. ASSUME NEW i \in 1..n PROVE Max(1..i) = i
  <2>1. 1..i \in SUBSET (1..n) /\ i \in 1..i /\ i \in Nat
    OBVIOUS
  <2>2. Max(1..i) \in 1..i /\ i <= Max(1..i)
    BY <1>1, <2>1
  <2>3. QED
    BY <2>1, <2>2
<1>3. IsFiniteSet(1..n)
  BY FS_Interval
<1>4. Picks(MaxOf(n), 1..n)
  BY <1>1 DEF Picks, MaxOf
<1>5. QED
  BY <1>1, <1>2, <1>3, <1>4

\* Such a function runs along the indices, one step after another.
LEMMA LeftFold ==
    ASSUME NEW n \in Nat, NEW Y, NEW base \in Y, NEW step, Steps(step, 1..n, Y),
           NEW h, FoldsAlong(h, n, Y, base, step)
    PROVE  \E g : Runs(g, n, Y, base, step) /\ g[n] = h[1..n]
<1> DEFINE S == 1..n
<1>1. IsFiniteSet(S) /\ \A s \in SUBSET S : s # {} => Max(s) \in s
  BY MaxPicks
<1>2. ASSUME NEW s \in SUBSET S PROVE h[s] \in Y
  <2> DEFINE Bad == {u \in SUBSET S : h[u] \notin Y}
  <2>1. ASSUME NEW u \in Bad, \A v \in Bad : ~(v \subseteq u /\ v # u) PROVE FALSE
    <3>1. u # {}
      BY DEF FoldsAlong
    <3>2. Max(u) \in u /\ u \in SUBSET S
      BY <1>1, <3>1
    <3>3. h[u \ {Max(u)}] \in Y
      <4>1. u \ {Max(u)} \in SUBSET S /\ u \ {Max(u)} \subseteq u /\ u \ {Max(u)} # u
        BY <3>2
      <4>2. QED
        BY <2>1, <4>1
    <3>4. h[u] = step[<<Max(u), h[u \ {Max(u)}]>>]
      BY <3>1, <3>2, <3>3 DEF FoldsAlong
    <3>5. QED
      BY <3>2, <3>3, <3>4 DEF Steps
  <2>2. Bad \subseteq SUBSET S
    OBVIOUS
  <2>3. Bad = {}
    <3> HIDE DEF Bad, S
    <3>1. QED
      BY <1>1, <2>1, <2>2, SmallestSubset
  <2>4. QED
    BY <2>3
<1> DEFINE g == [i \in 0..n |-> h[1..i]]
<1>3. g \in [0..n -> Y]
  <2>1. \A i \in 0..n : 1..i \in SUBSET S
    OBVIOUS
  <2>2. QED
    BY <1>2, <2>1
<1>4. g[0] = base
  <2>1. 1..0 = {} /\ 0 \in 0..n
    OBVIOUS
  <2>2. QED
    BY <2>1 DEF FoldsAlong
<1>5. ASSUME NEW i \in 1..n PROVE g[i] = step[<<i, g[i - 1]>>]
  <2>0. Max(1..i) = i
    BY MaxPicks
  <2>1. 1..i \in SUBSET S /\ 1..i # {} /\ i \in 0..n /\ i - 1 \in 0..n
    <3>1. i \in Nat /\ 1 <= i /\ i <= n
      OBVIOUS
    <3>2. i \in 1..i /\ 1..i \in SUBSET S
      BY <3>1
    <3>3. i \in 0..n /\ i - 1 \in 0..n
      BY <3>1
    <3>4. QED
      BY <3>2, <3>3
  <2>2. (1..i) \ {i} = 1..(i - 1) /\ 1..(i - 1) \in SUBSET S
    OBVIOUS
  <2>3. h[1..(i - 1)] \in Y
    BY <1>2, <2>2
  <2>4. h[1..i] = step[<<i, h[1..(i - 1)]>>]
    BY <2>0, <2>1, <2>2, <2>3 DEF FoldsAlong
  <2>5. QED
    BY <2>1, <2>4
<1>6. Runs(g, n, Y, base, step) /\ g[n] = h[1..n]
  BY <1>3, <1>4, <1>5 DEF Runs
<1>7. QED
  BY <1>6

-----------------------------------------------------------------------------
LevelSet == [price : AnyPrice, size : Nat]

\* A quote on the way through the levels, of which r shares are asked.
Quotes(r) ==
    {q \in [remaining : 0..r, notional : Nat, fee : Nat, worstPrice : 0..Ticks] :
        /\ q.remaining < r => q.worstPrice > 0 /\ q.notional > 0
        /\ q.remaining = r => q.notional = 0 /\ q.fee = 0}

Asked(r) == [remaining |-> r, notional |-> 0, fee |-> 0, worstPrice |-> 0]

Taken(q, level, allowed) == IF level.price \in allowed THEN Fill(q, level) ELSE q

\* Products of amounts.
LEMMA Products == \A a, b \in Nat : a * b \in Nat /\ (a > 0 /\ b > 0 => a * b > 0)
  OBVIOUS

\* The numbers that prices and fees are made of.
LEMMA Sizes ==
    /\ Ticks \in Nat /\ Ticks > 0 /\ FeeScale \in Nat /\ FeeScale > 0 /\ FeeRate \in Nat
    /\ AnyPrice \subseteq Nat /\ \A p \in AnyPrice : p > 0 /\ Ticks - p \in Nat
  BY TargetPositionAssumption DEF AnyPrice

\* A level taken leaves a quote of the same shares.
LEMMA FillTypes ==
    ASSUME NEW r \in Nat, NEW q \in Quotes(r), NEW level \in LevelSet
    PROVE  Fill(q, level) \in Quotes(r)
<1> DEFINE fill == Lower(q.remaining, level.size)
           gain == fill * level.price * Ticks * FeeScale
           toll == calculateTakerFee(fill, level.price)
<1>1. /\ q.remaining \in 0..r /\ q.notional \in Nat /\ q.fee \in Nat /\ q.worstPrice \in 0..Ticks
      /\ q.remaining < r => q.worstPrice > 0 /\ q.notional > 0
      /\ q.remaining = r => q.notional = 0 /\ q.fee = 0
  BY DEF Quotes
<1>2. level.price \in AnyPrice /\ level.size \in Nat
  BY DEF LevelSet
<1>3. fill \in Nat /\ fill <= q.remaining
  BY <1>1, <1>2 DEF Lower
<1> HIDE DEF fill
<1>4. gain \in Nat /\ (fill > 0 => gain > 0) /\ (fill = 0 => gain = 0)
  <2>1. level.price \in Nat /\ level.price > 0
    BY <1>2, Sizes
  <2>2. fill * level.price \in Nat /\ (fill > 0 => fill * level.price > 0)
    BY <1>3, <2>1, Products
  <2>3. /\ fill * level.price * Ticks \in Nat
        /\ fill > 0 => fill * level.price * Ticks > 0
    BY <2>2, Sizes, Products
  <2>4. gain \in Nat /\ (fill > 0 => gain > 0)
    BY <2>3, Sizes, Products
  <2>5. ASSUME fill = 0 PROVE gain = 0
    <3>1. fill * level.price = 0
      BY <2>1, <2>5
    <3>2. fill * level.price * Ticks = 0
      BY <3>1, Sizes
    <3>3. QED
      BY <3>2, Sizes
  <2>6. QED
    BY <2>4, <2>5
<1>5. toll \in Nat /\ (fill = 0 => toll = 0)
  <2>1. level.price \in Nat /\ Ticks - level.price \in Nat
    BY <1>2, Sizes
  <2>2. fill * FeeRate \in Nat
    BY <1>3, Sizes, Products
  <2>3. fill * FeeRate * level.price \in Nat
    BY <2>1, <2>2, Products
  <2>4. fill * FeeRate * level.price * (Ticks - level.price) \in Nat
    BY <2>1, <2>3, Products
  <2>5. ASSUME fill = 0 PROVE toll = 0
    <3>1. fill * FeeRate = 0
      BY <2>5, Sizes
    <3>2. fill * FeeRate * level.price = 0
      BY <2>1, <3>1
    <3>3. fill * FeeRate * level.price * (Ticks - level.price) = 0
      BY <2>1, <3>2
    <3>4. QED
      BY <3>3 DEF calculateTakerFee
  <2>6. QED
    BY <2>4, <2>5 DEF calculateTakerFee
<1>6. level.price \in 0..Ticks /\ level.price > 0
  BY <1>2, Sizes DEF AnyPrice
<1> DEFINE next == Fill(q, level)
<1> HIDE DEF gain, toll
<1>7. next = [remaining  |-> q.remaining - fill, notional |-> q.notional + gain,
              fee |-> q.fee + toll,
              worstPrice |-> IF fill > 0 THEN level.price ELSE q.worstPrice]
  BY DEF Fill, fill, gain, toll
<1>8. /\ q.remaining - fill \in 0..r /\ q.notional + gain \in Nat /\ q.fee + toll \in Nat
      /\ (IF fill > 0 THEN level.price ELSE q.worstPrice) \in 0..Ticks
  BY <1>1, <1>3, <1>4, <1>5, <1>6
<1>9. q.remaining - fill < r =>
        (IF fill > 0 THEN level.price ELSE q.worstPrice) > 0 /\ q.notional + gain > 0
  BY <1>1, <1>3, <1>4, <1>6
<1>10. q.remaining - fill = r => q.notional + gain = 0 /\ q.fee + toll = 0
  BY <1>1, <1>3, <1>4, <1>5
<1> HIDE DEF next
<1>11. next \in Quotes(r)
  BY <1>7, <1>8, <1>9, <1>10 DEF Quotes
<1>12. QED
  BY <1>11 DEF next

\* The quote after each level.
Walk(g, r, levels, allowed) ==
    /\ g \in [0..Len(levels) -> Quotes(r)] /\ g[0] = Asked(r)
    /\ \A i \in 1..Len(levels) : g[i] = Taken(g[i - 1], levels[i], allowed)

\* A quote is the end of a walk along the levels.
LEMMA QuoteWalks ==
    ASSUME NEW r \in Nat, NEW levels \in Seq(LevelSet), NEW allowed
    PROVE  \E g : Walk(g, r, levels, allowed)
                  /\ quoteLevels(r, levels, allowed) = g[Len(levels)]
<1> DEFINE n == Len(levels)
           S == 1..n
           Y == Quotes(r)
           step == [z \in S \X Y |-> Taken(z[2], levels[z[1]], allowed)]
           Body(f) == [s \in SUBSET S |-> IF s = {} THEN Asked(r)
                          ELSE Taken(f[s \ {Max(s)}], levels[Max(s)], allowed)]
           iter == CHOOSE f : f = Body(f)
<1>1. n \in Nat /\ DOMAIN levels = S /\ \A i \in S : levels[i] \in LevelSet
  OBVIOUS
<1>2. quoteLevels(r, levels, allowed) = iter[S]
  BY <1>1 DEF quoteLevels, FoldLeft, MapThenFoldSet, Asked, Taken
<1>3. Asked(r) \in Y
  BY Sizes DEF Asked, Quotes
<1> HIDE DEF Y
<1>4. \A x \in S, y \in Y : step[<<x, y>>] = Taken(y, levels[x], allowed)
  OBVIOUS
<1>5. Steps(step, S, Y)
  <2> SUFFICES ASSUME NEW x \in S, NEW y \in Y PROVE Taken(y, levels[x], allowed) \in Y
    BY <1>4 DEF Steps
  <2>1. QED
    BY <1>1, FillTypes DEF Taken, Y
<1> HIDE DEF step
<1>6. \A s \in SUBSET S : s # {} => Max(s) \in s /\ s \ {Max(s)} \in SUBSET S
  BY <1>1, MaxPicks
<1>7. iter = Body(iter)
  <2>1. PICK g : IsFold(g, S, Y, Asked(r), MaxOf(n), step)
    BY <1>1, <1>3, <1>5, MaxPicks, FoldExists
  <2>2. g = Body(g)
    <3>1. ASSUME NEW s \in SUBSET S
          PROVE  g[s] = IF s = {} THEN Asked(r)
                        ELSE Taken(g[s \ {Max(s)}], levels[Max(s)], allowed)
      BY <1>4, <1>6, <2>1 DEF IsFold, MaxOf
    <3>2. g = [s \in SUBSET S |-> g[s]]
      BY <2>1 DEF IsFold
    <3> HIDE DEF S
    <3>3. QED
      BY <3>1, <3>2
  <2>3. QED
    BY <2>2
<1> HIDE DEF iter
<1>8. FoldsAlong(iter, n, Y, Asked(r), step)
  BY <1>4, <1>6, <1>7 DEF FoldsAlong
<1>9. PICK g : Runs(g, n, Y, Asked(r), step) /\ g[n] = iter[S]
  BY <1>1, <1>3, <1>5, <1>8, LeftFold
<1>10. ASSUME NEW i \in 1..n PROVE g[i] = Taken(g[i - 1], levels[i], allowed)
  <2>1. g[i - 1] \in Y
    BY <1>1, <1>9 DEF Runs
  <2>2. QED
    BY <1>4, <1>9, <2>1 DEF Runs
<1>11. Walk(g, r, levels, allowed)
  BY <1>9, <1>10 DEF Runs, Walk, Y
<1>12. QED
  BY <1>2, <1>9, <1>11

\* A quote leaves no more than was asked, and has a price if something was found.
LEMMA QuoteTypes ==
    ASSUME NEW r \in Nat, NEW levels \in Seq(LevelSet), NEW allowed
    PROVE  quoteLevels(r, levels, allowed) \in Quotes(r)
<1>1. PICK g : /\ Walk(g, r, levels, allowed)
               /\ quoteLevels(r, levels, allowed) = g[Len(levels)]
  BY QuoteWalks
<1>2. Len(levels) \in 0..Len(levels)
  OBVIOUS
<1>3. QED
  BY <1>1, <1>2 DEF Walk

\* The same along the assets, for the orders of a plan.
LEMMA PlanTypes ==
    ASSUME NEW input, NEW deltas, NEW Good,
           \A t \in Tokens :
              /\ deltas[t] > 0 /\ (Buys(input, t, deltas[t]) \/ Sells(input, t, deltas[t])) =>
                   BuyOrder(t, BuyQuote(input, t, deltas[t])) \in Good
              /\ ~(deltas[t] > 0) /\ (Buys(input, t, deltas[t]) \/ Sells(input, t, deltas[t])) =>
                   SellOrder(t, -deltas[t],
                             SellQuote(input, t, SellSize(input, t, deltas[t]))) \in Good
    PROVE  Actionable(input, deltas) \in Seq(Good)
<1> DEFINE Acts(t)     == Buys(input, t, deltas[t]) \/ Sells(input, t, deltas[t])
           Decision(t) == IF deltas[t] > 0
                          THEN BuyOrder(t, BuyQuote(input, t, deltas[t]))
                          ELSE SellOrder(t, -deltas[t],
                                         SellQuote(input, t, SellSize(input, t, deltas[t])))
           Add(orders, t) == IF Acts(t) THEN Append(orders, Decision(t)) ELSE orders
           n == Len(Assets)
           S == 1..n
           Y == Seq(Good)
           step == [z \in S \X Y |-> Add(z[2], Assets[z[1]])]
           Body(f) == [s \in SUBSET S |-> IF s = {} THEN <<>>
                                          ELSE Add(f[s \ {Max(s)}], Assets[Max(s)])]
           iter == CHOOSE f : f = Body(f)
<1>1. n \in Nat /\ DOMAIN Assets = S /\ \A i \in S : Assets[i] \in Tokens
  BY TargetPositionAssumption
<1>2. Actionable(input, deltas) = iter[S]
  BY <1>1 DEF Actionable, FoldLeft, MapThenFoldSet
<1>3. <<>> \in Y
  OBVIOUS
<1>4. \A t \in Tokens : Acts(t) => Decision(t) \in Good
  OBVIOUS
<1> HIDE DEF Acts, Decision
<1>5. \A x \in S, y \in Y : step[<<x, y>>] = Add(y, Assets[x]) /\ Add(y, Assets[x]) \in Y
  <2> SUFFICES ASSUME NEW x \in S, NEW y \in Y
               PROVE step[<<x, y>>] = Add(y, Assets[x]) /\ Add(y, Assets[x]) \in Y
    OBVIOUS
  <2>1. step[<<x, y>>] = Add(y, Assets[x])
    OBVIOUS
  <2>2. Add(y, Assets[x]) \in Y
    BY <1>1, <1>4
  <2>3. QED
    BY <2>1, <2>2
<1> HIDE DEF step, Y, Add
<1>6. Steps(step, S, Y)
  BY <1>5 DEF Steps
<1>7. \A s \in SUBSET S : s # {} => Max(s) \in s /\ s \ {Max(s)} \in SUBSET S
  BY <1>1, MaxPicks
<1>8. iter = Body(iter)
  <2>1. PICK g : IsFold(g, S, Y, <<>>, MaxOf(n), step)
    BY <1>1, <1>3, <1>6, MaxPicks, FoldExists
  <2>2. g = Body(g)
    <3>1. ASSUME NEW s \in SUBSET S
          PROVE  g[s] = IF s = {} THEN <<>> ELSE Add(g[s \ {Max(s)}], Assets[Max(s)])
      BY <1>5, <1>7, <2>1 DEF IsFold, MaxOf
    <3>2. g = [s \in SUBSET S |-> g[s]]
      BY <2>1 DEF IsFold
    <3> HIDE DEF S
    <3>3. QED
      BY <3>1, <3>2
  <2>3. QED
    BY <2>2
<1> HIDE DEF iter
<1>9. FoldsAlong(iter, n, Y, <<>>, step)
  BY <1>5, <1>7, <1>8 DEF FoldsAlong
<1>10. PICK g : Runs(g, n, Y, <<>>, step) /\ g[n] = iter[S]
  BY <1>1, <1>3, <1>6, <1>9, LeftFold
<1>11. iter[S] \in Y
  BY <1>1, <1>10 DEF Runs
<1>12. QED
  BY <1>2, <1>11 DEF Y

\* The rounds of the bisection, whose lower end is nothing or fits.
Intervals(raw, books, available) ==
    {I \in [low : 0..Grid, high : 0..Grid] :
        I.low <= I.high /\ (I.low = 0 \/ Fits(I.low, raw, books, available))}

Middle(I) == (I.low + I.high) \div 2

Halved(I, raw, books, available) ==
    IF Fits(Middle(I), raw, books, available) THEN [I EXCEPT !.low = Middle(I)]
    ELSE [I EXCEPT !.high = Middle(I)]

Bisection(g, raw, books, available) ==
    /\ g \in [0..Bits -> Intervals(raw, books, available)]
    /\ g[0] = [low |-> 0, high |-> Grid]
    /\ \A i \in 1..Bits : g[i] = Halved(g[i - 1], raw, books, available)

\* A round stays within the interval, and its lower end is nothing or fits.
LEMMA HalvedInside ==
    ASSUME NEW raw, NEW books, NEW available, NEW I \in Intervals(raw, books, available)
    PROVE  /\ Halved(I, raw, books, available) \in Intervals(raw, books, available)
           /\ Middle(I) \in 0..Grid /\ I.low <= Middle(I) /\ Middle(I) <= I.high
<1> DEFINE m == Middle(I)
<1>1. /\ I.low \in 0..Grid /\ I.high \in 0..Grid /\ I = [low |-> I.low, high |-> I.high]
      /\ I.low <= I.high /\ (I.low = 0 \/ Fits(I.low, raw, books, available))
  BY DEF Intervals
<1>2. m \in 0..Grid /\ I.low <= m /\ m <= I.high
  BY <1>1, GridType DEF Middle
<1> HIDE DEF m
<1>3. CASE Fits(m, raw, books, available)
  <2>1. Halved(I, raw, books, available) = [low |-> m, high |-> I.high]
    BY <1>1, <1>3 DEF Halved, m
  <2>2. QED
    BY <1>1, <1>2, <1>3, <2>1 DEF Intervals, m
<1>4. CASE ~Fits(m, raw, books, available)
  <2>1. Halved(I, raw, books, available) = [low |-> I.low, high |-> m]
    BY <1>1, <1>4 DEF Halved, m
  <2>2. QED
    BY <1>1, <1>2, <2>1 DEF Intervals, m
<1>5. QED
  BY <1>3, <1>4

\* The scale is the lower end of the last interval.
LEMMA ScaleBisects ==
    ASSUME NEW raw, NEW books, NEW available
    PROVE  \E g : /\ Bisection(g, raw, books, available)
                  /\ solveCapScale(raw, books, available)
                       = IF Fits(Grid, raw, books, available) THEN Grid ELSE g[Bits].low
<1> DEFINE fits(k) == Fits(k, raw, books, available)
           Halve(interval, i) ==
              LET middle == (interval.low + interval.high) \div 2
              IN  IF fits(middle) THEN [interval EXCEPT !.low = middle]
                  ELSE [interval EXCEPT !.high = middle]
           seq == [i \in 1..Bits |-> i]
           S == 1..Bits
           Y == Intervals(raw, books, available)
           base == [low |-> 0, high |-> Grid]
           step == [z \in S \X Y |-> Halve(z[2], seq[z[1]])]
           Body(f) == [s \in SUBSET S |-> IF s = {} THEN base
                                          ELSE Halve(f[s \ {Max(s)}], seq[Max(s)])]
           iter == CHOOSE f : f = Body(f)
<1>1. Bits \in Nat /\ DOMAIN seq = S /\ Grid \in Nat
  BY TargetPositionAssumption, GridType
<1>2. solveCapScale(raw, books, available) = IF fits(Grid) THEN Grid ELSE iter[S].low
  BY <1>1 DEF solveCapScale, FoldLeft, MapThenFoldSet
<1>3. base \in Y
  BY <1>1 DEF Intervals
<1>4. \A y, i : Halve(y, i) = Halved(y, raw, books, available)
  BY DEF Halved, Middle
<1> HIDE DEF fits, Y, Halve
<1>5. \A x \in S, y \in Y : step[<<x, y>>] = Halve(y, seq[x]) /\ Halve(y, seq[x]) \in Y
  BY <1>4, HalvedInside DEF Y
<1> HIDE DEF step, base, seq
<1>6. Steps(step, S, Y)
  BY <1>5 DEF Steps
<1>7. \A s \in SUBSET S : s # {} => Max(s) \in s /\ s \ {Max(s)} \in SUBSET S
  BY <1>1, MaxPicks
<1>8. iter = Body(iter)
  <2>1. PICK g : IsFold(g, S, Y, base, MaxOf(Bits), step)
    BY <1>1, <1>3, <1>6, MaxPicks, FoldExists
  <2>2. g = Body(g)
    <3>1. ASSUME NEW s \in SUBSET S
          PROVE  g[s] = IF s = {} THEN base ELSE Halve(g[s \ {Max(s)}], seq[Max(s)])
      BY <1>5, <1>7, <2>1 DEF IsFold, MaxOf
    <3>2. g = [s \in SUBSET S |-> g[s]]
      BY <2>1 DEF IsFold
    <3> HIDE DEF S
    <3>3. QED
      BY <3>1, <3>2
  <2>3. QED
    BY <2>2
<1> HIDE DEF iter
<1>9. FoldsAlong(iter, Bits, Y, base, step)
  BY <1>5, <1>7, <1>8 DEF FoldsAlong
<1>10. PICK g : Runs(g, Bits, Y, base, step) /\ g[Bits] = iter[S]
  BY <1>1, <1>3, <1>6, <1>9, LeftFold
<1>11. ASSUME NEW i \in 1..Bits PROVE g[i] = Halved(g[i - 1], raw, books, available)
  <2>1. g[i - 1] \in Y
    BY <1>1, <1>10 DEF Runs
  <2>2. QED
    BY <1>4, <1>5, <1>10, <2>1 DEF Runs
<1>12. Bisection(g, raw, books, available)
  BY <1>10, <1>11 DEF Runs, Bisection, Y, base
<1>13. QED
  BY <1>2, <1>10, <1>12 DEF fits

\* The scale is nothing, or one that fits.
LEMMA ScaleFits ==
    ASSUME NEW raw, NEW books, NEW available
    PROVE  /\ solveCapScale(raw, books, available) \in 0..Grid
           /\ \/ solveCapScale(raw, books, available) = 0
              \/ Fits(solveCapScale(raw, books, available), raw, books, available)
<1>1. PICK g : /\ Bisection(g, raw, books, available)
               /\ solveCapScale(raw, books, available)
                    = IF Fits(Grid, raw, books, available) THEN Grid ELSE g[Bits].low
  BY ScaleBisects
<1>2. Bits \in 0..Bits /\ Grid \in 0..Grid
  BY TargetPositionAssumption, GridType
<1>3. g[Bits].low \in 0..Grid /\ (g[Bits].low = 0 \/ Fits(g[Bits].low, raw, books, available))
  BY <1>1, <1>2 DEF Bisection, Intervals
<1>4. QED
  BY <1>1, <1>2, <1>3

-----------------------------------------------------------------------------
\* What a plan may have in it: a SELL only of a token whose position is there, or is
\* confirmed to be gone.
Sound(snapshot) ==
    {o \in Orders : o.side = "SELL" /\ snapshot[o.token].size = 0 => zeros[o.token] >= 1}

\* The two sides of a book are levels.
LEMMA BookTypes ==
    ASSUME NEW book \in Books
    PROVE  book.asks \in Seq(LevelSet) /\ book.bids \in Seq(LevelSet)
<1>1. book \in [asks : Seq([price : 1..Ticks, size : Nat]),
                bids : Seq([price : 1..Ticks, size : Nat])]
  BY RebalanceAssumption
<1>2. QED
  BY <1>1 DEF LevelSet, AnyPrice

\* A quote of some shares that is complete has a price and costs something.
LEMMA CompleteQuote ==
    ASSUME NEW r \in Nat, r > 0, NEW q \in Quotes(r), Complete(q)
    PROVE  q.worstPrice \in 1..Ticks /\ TotalDebit(q) \in Nat \ {0}
<1>1. /\ q.notional \in Nat /\ q.fee \in Nat /\ q.worstPrice \in 0..Ticks
      /\ q.remaining < r => q.worstPrice > 0 /\ q.notional > 0
  BY DEF Quotes
<1>2. q.remaining = 0
  BY DEF Complete
<1>3. QED
  BY <1>1, <1>2 DEF TotalDebit

\* How far a holding is from its target is a number.
LEMMA DeltaTypes ==
    ASSUME TypeOK, NEW snapshot \in [Tokens -> LeaderPositions], NEW missing,
           NEW t \in Tokens
    PROVE  Deltas(Input(snapshot, missing))[t] \in Int
<1> DEFINE input == Input(snapshot, missing)
           raw == RawTargets(input)
           scale == solveCapScale(raw, input.books, calculateAvailableRisk(input.loss))
<1>1. /\ input.held = held /\ input.resting = resting /\ input.leader = snapshot
  BY DEF Input
<1> HIDE DEF input
<1>2. scale \in Int
  <2>1. scale \in 0..Grid
    BY ScaleFits
  <2> HIDE DEF scale
  <2>2. QED
    BY <2>1, GridType
<1>3. raw[t] \in Nat
  <2>1. snapshot[t].size \in Nat /\ CopyRatio \in Nat
    BY RebalanceAssumption, TargetPositionAssumption
  <2>2. raw[t] = snapshot[t].size * CopyRatio
    BY <1>1 DEF RawTargets
  <2>3. QED
    BY <2>1, <2>2, Products
<1>4. held[t] \in Int /\ resting[t] \in Int
  <2>1. held[t] \in Nat /\ resting[t] \in OwnOrders \cup {0}
    BY DEF TypeOK
  <2>2. \A own \in OwnOrders : own \in Int
    BY RebalanceAssumption
  <2>3. resting[t] \in Int
    BY <2>1, <2>2
  <2>4. QED
    BY <2>1, <2>3
<1>5. Deltas(input)[t] = raw[t] * scale - (held[t] + resting[t])
  BY <1>1 DEF Deltas, effectiveSize
<1> HIDE DEF raw, scale
<1>6. raw[t] * scale \in Int
  BY <1>2, <1>3
<1>7. QED
  BY <1>4, <1>5, <1>6 DEF input

\* The first order of a plan is none, or one that its snapshot allows: a SELL needs
\* two zeros, and had one before this cycle.
LEMMA PlansAreSound ==
    ASSUME TypeOK, NEW snapshot \in [Tokens -> LeaderPositions], NEW missing
    PROVE  First(buildReconciliationPlan(Input(snapshot, missing)))
              \in Sound(snapshot) \cup {NoOrder}
<1> DEFINE input == Input(snapshot, missing)
           deltas == Deltas(input)
           Good == Sound(snapshot)
<1>1. /\ input.held = held /\ input.leader = snapshot
      /\ \A t \in DOMAIN input.books : input.books[t] = market[t]
      /\ input.unconfirmed = {t \in Tokens : snapshot[t].size = 0
                                              /\ observeLeaderPositions(snapshot)[t] < 2}
  BY DEF Input
<1>2. \A t \in Tokens : deltas[t] \in Int
  BY DeltaTypes
<1>3. Epsilon \in Nat /\ MinOrderSize \in Nat /\ MinOrderSize > 0
  BY TargetPositionAssumption
<1> HIDE DEF input, deltas, Good
<1>4. ASSUME NEW t \in Tokens, t \in DOMAIN input.books
      PROVE  /\ input.books[t].asks \in Seq(LevelSet)
             /\ input.books[t].bids \in Seq(LevelSet)
  BY <1>1, <1>4, BookTypes DEF TypeOK
<1>5. ASSUME NEW t \in Tokens, Buys(input, t, deltas[t])
      PROVE  deltas[t] > 0 /\ BuyOrder(t, BuyQuote(input, t, deltas[t])) \in Good
  <2> DEFINE q == BuyQuote(input, t, deltas[t])
  <2>1. /\ deltas[t] > Epsilon /\ t \in DOMAIN input.books /\ Complete(q)
    BY <1>5 DEF Buys
  <2>2. deltas[t] \in Nat /\ deltas[t] > 0
    BY <1>2, <1>3, <2>1
  <2>3. q \in Quotes(deltas[t])
    BY <1>4, <2>1, <2>2, QuoteTypes DEF BuyQuote, quoteBuy
  <2> HIDE DEF q
  <2>4. q.worstPrice \in 1..Ticks /\ TotalDebit(q) \in Nat \ {0}
    BY <2>1, <2>2, <2>3, CompleteQuote
  <2>5. BuyOrder(t, q) \in Orders /\ BuyOrder(t, q).side = "BUY"
    BY <2>4 DEF BuyOrder, Orders
  <2>6. QED
    BY <2>2, <2>5 DEF q, Good, Sound
<1>6. ASSUME NEW t \in Tokens, Sells(input, t, deltas[t])
      PROVE  ~(deltas[t] > 0)
             /\ SellOrder(t, -deltas[t],
                          SellQuote(input, t, SellSize(input, t, deltas[t]))) \in Good
  <2> DEFINE size == SellSize(input, t, deltas[t])
             q == SellQuote(input, t, size)
             o == SellOrder(t, -deltas[t], q)
  <2>1. /\ deltas[t] < -Epsilon /\ -deltas[t] >= MinOrderSize /\ t \notin input.unconfirmed
        /\ t \in DOMAIN input.books /\ size >= MinOrderSize /\ Complete(q)
    BY <1>6 DEF Sells
  <2>2. size \in Int
    BY <1>1, <1>2 DEF SellSize, Lower, TypeOK
  <2> HIDE DEF size
  <2>3. /\ size \in Nat /\ size > 0 /\ ~(deltas[t] > 0) /\ -deltas[t] \in Nat \ {0}
    BY <1>2, <1>3, <2>1, <2>2
  <2>4. q \in Quotes(size)
    BY <1>4, <2>1, <2>3, QuoteTypes DEF SellQuote, quoteSell
  <2> HIDE DEF q
  <2>5. q.worstPrice \in 1..Ticks
    BY <2>1, <2>3, <2>4, CompleteQuote
  <2>6. o \in Orders /\ o.side = "SELL" /\ o.token = t
    BY <2>3, <2>5 DEF SellOrder, Orders
  <2>7. snapshot[t].size = 0 => zeros[t] >= 1
    <3>1. SUFFICES ASSUME snapshot[t].size = 0 PROVE zeros[t] >= 1
      OBVIOUS
    <3>2. ~(observeLeaderPositions(snapshot)[t] < 2)
      BY <1>1, <2>1, <3>1
    <3>3. observeLeaderPositions(snapshot)[t] = Lower(zeros[t] + 1, 2) /\ zeros[t] \in 0..2
      BY <3>1 DEF observeLeaderPositions, TypeOK
    <3>4. QED
      BY <3>2, <3>3 DEF Lower
  <2>8. o \in Good
    BY <2>6, <2>7 DEF Good, Sound
  <2>9. QED
    BY <2>3, <2>8 DEF q, size
<1>7. Actionable(input, deltas) \in Seq(Good)
  <2>1. ASSUME NEW t \in Tokens
        PROVE
           /\ deltas[t] > 0 /\ (Buys(input, t, deltas[t]) \/ Sells(input, t, deltas[t])) =>
                BuyOrder(t, BuyQuote(input, t, deltas[t])) \in Good
           /\ ~(deltas[t] > 0) /\ (Buys(input, t, deltas[t]) \/ Sells(input, t, deltas[t])) =>
                SellOrder(t, -deltas[t],
                          SellQuote(input, t, SellSize(input, t, deltas[t]))) \in Good
    BY <1>5, <1>6
  <2>2. QED
    BY <2>1, PlanTypes
<1>8. QED
  BY <1>7 DEF First, buildReconciliationPlan, deltas, input, Good

\* The part of a cost that is released with a part of the shares is a part of it.
LEMMA PartOfCost ==
    ASSUME NEW c \in Nat, NEW size \in Nat, NEW all \in Nat, all > 0, size <= all
    PROVE  (c * size) \div all \in 0..c
<1> DEFINE x == c * size
           q == x \div all
<1>1. x \in Nat /\ x <= c * all
  <2>1. PICK d \in Nat : all = size + d
    <3>1. all - size \in Nat /\ all = size + (all - size)
      OBVIOUS
    <3>2. QED
      BY <3>1
  <2>2. c * all = c * size + c * d /\ c * d \in Nat /\ c * size \in Nat
    BY <2>1
  <2>3. QED
    BY <2>2
<1> HIDE DEF x
<1>2. q \in Int /\ q * all <= x /\ x < (q + 1) * all
  BY <1>1
<1> HIDE DEF q
<1>3. q >= 0
  <2>1. SUFFICES ASSUME q + 1 <= 0 PROVE FALSE
    BY <1>2
  <2>2. (q + 1) * all <= 0
    BY <1>2, <2>1
  <2>3. QED
    BY <1>1, <1>2, <2>2
<1>4. q <= c
  <2>1. SUFFICES ASSUME q >= c + 1 PROVE FALSE
    BY <1>2
  <2>2. q * all >= (c + 1) * all /\ (c + 1) * all = c * all + all
    BY <1>2, <2>1
  <2>3. c * all \in Nat /\ q * all \in Int
    BY <1>2
  <2>4. QED
    BY <1>1, <1>2, <2>2, <2>3
<1>5. QED
  BY <1>2, <1>3, <1>4 DEF q, x

\* A sale leaves amounts, and never less of a loss.
LEMMA SaleTypes ==
    ASSUME TypeOK, NEW t \in Tokens, NEW size \in Nat, size > 0, size <= held[t],
           NEW proceeds \in Int, BookSale(t, size, proceeds)
    PROVE  cost' \in [Tokens -> Nat] /\ loss' \in Nat /\ loss' >= loss
<1> DEFINE released == (cost[t] * size) \div held[t]
<1>1. cost \in [Tokens -> Nat] /\ cost[t] \in Nat /\ held[t] \in Nat /\ loss \in Nat
  BY DEF TypeOK
<1>2. released \in 0..cost[t]
  BY <1>1, PartOfCost
<1> HIDE DEF released
<1>3. /\ cost' = [cost EXCEPT ![t] = IF held[t] = size THEN 0 ELSE cost[t] - released]
      /\ loss' = loss + Higher(0, released - proceeds)
  BY DEF BookSale, released
<1>4. cost[t] - released \in Nat
  BY <1>1, <1>2
<1>5. (IF held[t] = size THEN 0 ELSE cost[t] - released) \in Nat
  BY <1>4
<1>6. cost' \in [Tokens -> Nat]
  BY <1>1, <1>3, <1>5
<1>7. loss' \in Nat /\ loss' >= loss
  BY <1>1, <1>2, <1>3 DEF Higher
<1>8. QED
  BY <1>6, <1>7

-----------------------------------------------------------------------------
\* What an amount of money buys.

\* The sum over a set of what a function has there.
SumOf(c, S) == (CHOOSE h : Summed(h, c, S))[S]

\* It is the sum of one of the functions above.
LEMMA SumOfSet ==
    ASSUME NEW S, IsFiniteSet(S), NEW c \in [S -> Nat]
    PROVE  SumOf(c, S) \in Nat /\ \E h : Summed(h, c, S) /\ SumOf(c, S) = h[S]
<1> DEFINE h == CHOOSE h : Summed(h, c, S)
<1>1. Summed(h, c, S)
  <2>1. \E g : Summed(g, c, S)
    BY SumExists
  <2>2. QED
    BY <2>1
<1>2. SumOf(c, S) = h[S]
  BY DEF SumOf
<1> HIDE DEF h
<1>3. Takes(h, c, S)
  BY <1>1, SumTakes
<1>4. h[S] \in Nat
  BY <1>3 DEF Takes
<1>5. QED
  BY <1>1, <1>2, <1>4

\* The shares that an amount of money buys are a number.
Depth(book, worstPrice) ==
    MapThenSumSet(LAMBDA i : book.asks[i].size,
                  {i \in DOMAIN book.asks : book.asks[i].price <= worstPrice})

\* What a book offers up to a price is a number.
LEMMA DepthType ==
    ASSUME NEW book \in Books, NEW worstPrice
    PROVE  Depth(book, worstPrice) \in Nat
<1> DEFINE S == {i \in DOMAIN book.asks : book.asks[i].price <= worstPrice}
           c == [i \in S |-> book.asks[i].size]
<1>1. /\ book.asks \in Seq(LevelSet) /\ DOMAIN book.asks = 1..Len(book.asks)
      /\ Len(book.asks) \in Nat
  BY BookTypes
<1>2. IsFiniteSet(S)
  <2>1. IsFiniteSet(1..Len(book.asks))
    BY <1>1, FS_Interval
  <2>2. QED
    BY <1>1, <2>1, FS_Subset
<1>3. c \in [S -> Nat]
  <2>1. \A i \in DOMAIN book.asks : book.asks[i] \in LevelSet
    BY <1>1
  <2>2. \A i \in S : book.asks[i].size \in Nat
    BY <2>1 DEF LevelSet
  <2>3. QED
    BY <2>2
<1>4. Depth(book, worstPrice) = SumOf(c, S)
  BY DEF Depth, MapThenSumSet, MapThenFoldSet, Summed, Pick, SumOf
<1> HIDE DEF S, c
<1>5. QED
  BY <1>2, <1>3, <1>4, SumOfSet

\* What an amount of money buys is a number.
LEMMA SharesType ==
    ASSUME NEW book \in Books, NEW amount \in Nat, NEW worstPrice
    PROVE  SharesFor(book, amount, worstPrice) \in Nat
<1> DEFINE depth == Depth(book, worstPrice)
           Debit == [shares \in 0..depth |-> TotalDebit(quoteBuy(book, shares, 1..worstPrice))]
           A == {shares \in 0..depth : Debit[shares] <= amount}
<1>1. depth \in Nat
  BY DepthType
<1>2. SharesFor(book, amount, worstPrice) = IF Debit[depth] < amount THEN 0 ELSE Max(A)
  BY DEF SharesFor, Depth
<1> HIDE DEF depth
<1>3. 0 \in A
  <2> DEFINE q == quoteBuy(book, 0, 1..worstPrice)
  <2>1. q \in Quotes(0)
    BY BookTypes, QuoteTypes DEF quoteBuy
  <2> HIDE DEF q
  <2>2. TotalDebit(q) = 0
    BY <2>1 DEF Quotes, TotalDebit
  <2>3. Debit[0] = 0 /\ 0 \in 0..depth
    BY <1>1, <2>2 DEF q
  <2>4. QED
    BY <2>3
<1>4. Max(A) \in 0..depth
  <2>1. A \in SUBSET (0..depth) /\ A # {}
    BY <1>3
  <2> HIDE DEF A
  <2>2. QED
    BY <1>1, <2>1, MaxExists
<1>5. QED
  BY <1>1, <1>2, <1>4

-----------------------------------------------------------------------------
\* Types, and the exits.

\* A zero has been counted only for a token that the last snapshot lacked.
ZerosAreGone == \A t \in Tokens : zeros[t] > 0 => t \in gone

RInv == TypeOK /\ ZerosAreGone

\* No order has no side.
LEMMA Sides == NoOrder.side = "NONE" /\ \A o \in Orders : o.side \in {"BUY", "SELL"}
  BY DEF NoOrder, Orders

\* The initial states.
LEMMA RInit == Init => RInv
<1> SUFFICES ASSUME Init PROVE RInv
  OBVIOUS
<1> USE DEF Init
<1>1. leader \in [Tokens -> LeaderPositions]
  BY NothingAssumption
<1>2. market \in [Tokens -> Books]
  OBVIOUS
<1>3. moves \in 0..MaxMoves
  BY RebalanceAssumption
<1>4. resting \in [Tokens -> OwnOrders \cup {0}] /\ zeros \in [Tokens -> 0..2]
  OBVIOUS
<1>5. TypeOK
  BY <1>1, <1>2, <1>3, <1>4 DEF TypeOK
<1>6. QED
  BY <1>5 DEF RInv, ZerosAreGone

\* The first half of a cycle.
LEMMA PlanPreserves ==
    ASSUME RInv, NEW snapshot \in [Tokens -> LeaderPositions], NEW missing,
           Plan(snapshot, missing)
    PROVE  /\ ZerosAreGone' /\ order' \in Orders \cup {NoOrder} /\ pc' \in {"read", "act"}
           /\ zeros' \in [Tokens -> 0..2] /\ gone' \in SUBSET Tokens
           /\ order'.side = "SELL" /\ order'.token \in gone' => order'.token \in gone
<1>1. /\ order' = First(buildReconciliationPlan(Input(snapshot, missing)))
      /\ zeros' = observeLeaderPositions(snapshot)
      /\ gone' = {t \in Tokens : snapshot[t].size = 0}
      /\ pc' = "act"
  BY DEF Plan
<1>2. order' \in Sound(snapshot) \cup {NoOrder}
  BY <1>1, PlansAreSound DEF RInv
<1>3. order' \in Orders \cup {NoOrder}
  BY <1>2 DEF Sound
<1>4. ASSUME NEW t \in Tokens
      PROVE  /\ zeros'[t] = IF snapshot[t].size = 0 THEN Lower(zeros[t] + 1, 2) ELSE 0
             /\ Lower(zeros[t] + 1, 2) \in 0..2
  BY <1>1 DEF observeLeaderPositions, RInv, TypeOK, Lower
<1>5. zeros' \in [Tokens -> 0..2]
  <2>1. zeros' = [t \in Tokens |-> zeros'[t]]
    BY <1>1 DEF observeLeaderPositions
  <2>2. \A t \in Tokens : zeros'[t] \in 0..2
    BY <1>4
  <2>3. QED
    BY <2>1, <2>2
<1>6. ZerosAreGone'
  BY <1>1, <1>4 DEF ZerosAreGone
<1>7. ASSUME order'.side = "SELL", order'.token \in gone' PROVE order'.token \in gone
  <2>1. order' \in Sound(snapshot)
    BY <1>2, <1>7, Sides
  <2>2. order'.token \in Tokens /\ snapshot[order'.token].size = 0
    BY <1>1, <1>7
  <2>3. zeros[order'.token] >= 1
    BY <1>7, <2>1, <2>2 DEF Sound
  <2>4. zeros[order'.token] \in 0..2
    BY <2>2 DEF RInv, TypeOK
  <2>5. QED
    BY <2>2, <2>3, <2>4 DEF RInv, ZerosAreGone
<1>8. QED
  BY <1>1, <1>3, <1>5, <1>6, <1>7

\* What a cycle leaves as it was, or moves.
LEMMA CycleTypes ==
    ASSUME TypeOK, zeros' \in [Tokens -> 0..2], gone' \in SUBSET Tokens,
           order' \in Orders \cup {NoOrder}, pc' \in {"read", "act"},
           sold' \in SUBSET Tokens, moves' \in 0..MaxMoves,
           UNCHANGED <<leader, market, buyable, held, resting, cost, loss>>
    PROVE  TypeOK'
  BY DEF TypeOK

\* A move is counted, and forgets what was sold.
LEMMA MoveTypes ==
    ASSUME TypeOK, Move
    PROVE  moves' \in 0..MaxMoves /\ sold' = {}
<1>1. moves \in 0..MaxMoves /\ moves < MaxMoves /\ moves' = moves + 1 /\ sold' = {}
  BY DEF TypeOK, Move
<1>2. MaxMoves \in Nat
  BY RebalanceAssumption
<1>3. QED
  BY <1>1, <1>2

Cycles == Reconcile \/ ReconcileGlitch \/ ReconcileBlind

\* A cycle plans from some snapshot, with all books or all but one.
LEMMA CyclePlans ==
    ASSUME RInv, Cycles
    PROVE  \E snapshot \in [Tokens -> LeaderPositions], missing \in {{}} \cup {{t} : t \in Tokens} :
              Plan(snapshot, missing)
<1>1. leader \in [Tokens -> LeaderPositions]
  BY DEF RInv, TypeOK
<1>2. \A t \in Tokens : [leader EXCEPT ![t] = Nothing] \in [Tokens -> LeaderPositions]
  BY <1>1, NothingAssumption
<1>3. QED
  BY <1>1, <1>2 DEF Cycles, Reconcile, ReconcileGlitch, ReconcileBlind

\* Cycles keep the invariant.
LEMMA CyclePreserves == RInv /\ Cycles => RInv'
<1> SUFFICES ASSUME RInv, Cycles PROVE RInv'
  OBVIOUS
<1>1. PICK snapshot \in [Tokens -> LeaderPositions],
           missing \in {{}} \cup {{t} : t \in Tokens} : Plan(snapshot, missing)
  BY CyclePlans
<1>2. /\ ZerosAreGone' /\ order' \in Orders \cup {NoOrder} /\ pc' \in {"read", "act"}
      /\ zeros' \in [Tokens -> 0..2] /\ gone' \in SUBSET Tokens
  BY <1>1, PlanPreserves
<1>3. UNCHANGED <<leader, market, buyable, held, resting, cost, loss>>
  BY <1>1 DEF Plan
<1>4. sold' \in SUBSET Tokens /\ moves' \in 0..MaxMoves
  <2>1. CASE Reconcile
    <3>1. order'.side = "SELL" => order'.token \in Tokens
      <4>1. order'.side = "SELL" => order' \in Orders
        BY <1>2, Sides
      <4>2. QED
        BY <4>1 DEF Orders
    <3>2. sold \subseteq Tokens /\ moves \in 0..MaxMoves
      BY DEF RInv, TypeOK
    <3>3. /\ sold' = IF order'.side = "SELL" THEN sold \cup {order'.token} ELSE sold
          /\ moves' = moves
      BY <2>1 DEF Reconcile
    <3>4. QED
      BY <3>1, <3>2, <3>3
  <2>2. CASE ReconcileGlitch \/ ReconcileBlind
    <3>1. Move
      BY <2>2 DEF ReconcileGlitch, ReconcileBlind
    <3>2. QED
      BY <3>1, MoveTypes DEF RInv
  <2>3. QED
    BY <2>1, <2>2 DEF Cycles
<1>5. TypeOK'
  BY <1>2, <1>3, <1>4, CycleTypes DEF RInv
<1>6. QED
  BY <1>2, <1>5 DEF RInv

-----------------------------------------------------------------------------
\* Moves of the leader, the market and the operator.
LEMMA LeaderPreserves == RInv /\ (LeaderMoves \/ MarketMoves \/ BuyingEnds) => RInv'
<1> SUFFICES ASSUME RInv, LeaderMoves \/ MarketMoves \/ BuyingEnds PROVE RInv'
  OBVIOUS
<1>1. moves' \in 0..MaxMoves /\ sold' = {}
  <2>1. Move
    BY DEF LeaderMoves, MarketMoves, BuyingEnds
  <2>2. QED
    BY <2>1, MoveTypes DEF RInv
<1>2. UNCHANGED <<held, resting, cost, loss, zeros, pc, order, gone>>
  BY DEF LeaderMoves, MarketMoves, BuyingEnds
<1>3. leader' \in [Tokens -> LeaderPositions]
  BY DEF LeaderMoves, MarketMoves, BuyingEnds, RInv, TypeOK
<1>4. market' \in [Tokens -> Books] /\ buyable' \subseteq Tokens
  BY DEF LeaderMoves, MarketMoves, BuyingEnds, RInv, TypeOK
<1>5. TypeOK'
  BY <1>1, <1>2, <1>3, <1>4 DEF RInv, TypeOK
<1>6. QED
  BY <1>2, <1>5 DEF RInv, ZerosAreGone

\* So do orders that the operator puts in the book and takes out of it,
LEMMA OrderingPreserves == RInv /\ (Placed \/ Cancelled) => RInv'
<1> SUFFICES ASSUME RInv, Placed \/ Cancelled PROVE RInv'
  OBVIOUS
<1>1. moves' \in 0..MaxMoves /\ sold' = {}
  <2>1. Move
    BY DEF Placed, Cancelled
  <2>2. QED
    BY <2>1, MoveTypes DEF RInv
<1>2. UNCHANGED <<leader, market, buyable, held, cost, loss, zeros, pc, order, gone>>
  BY DEF Placed, Cancelled
<1>3. resting' \in [Tokens -> OwnOrders \cup {0}]
  BY DEF Placed, Cancelled, RInv, TypeOK
<1>4. TypeOK'
  BY <1>1, <1>2, <1>3 DEF RInv, TypeOK
<1>5. QED
  BY <1>2, <1>4 DEF RInv, ZerosAreGone

\* (what they cost is a number,
LEMMA MoneyType == \A shares, price \in Nat : Money(shares, price) \in Nat
<1> SUFFICES ASSUME NEW shares \in Nat, NEW price \in Nat PROVE Money(shares, price) \in Nat
  OBVIOUS
<1>1. shares * price \in Nat
  OBVIOUS
<1>2. shares * price * Ticks \in Nat
  BY <1>1, Sizes, Products
<1>3. shares * price * Ticks * FeeScale \in Nat
  BY <1>2, Sizes, Products
<1>4. QED
  BY <1>3 DEF Money

\* at a price that is one too)
LEMMA BestLevel ==
    ASSUME NEW levels \in Seq(LevelSet), levels # <<>>
    PROVE  levels[1].price \in Nat
<1>1. levels[1] \in LevelSet
  OBVIOUS
<1>2. QED
  BY <1>1, Sizes DEF LevelSet

\* and the fills of them.
LEMMA OwnFillPreserves == RInv /\ OwnOrderFills => RInv'
<1> SUFFICES ASSUME RInv, OwnOrderFills PROVE RInv'
  OBVIOUS
<1>1. moves' \in 0..MaxMoves /\ sold' = {}
  BY MoveTypes DEF OwnOrderFills, RInv
<1>2. UNCHANGED <<leader, market, buyable, zeros, pc, order, gone>>
  BY DEF OwnOrderFills
<1>3. PICK t \in Tokens :
         /\ resting[t] # 0 /\ held[t] + resting[t] >= 0
         /\ resting' = [resting EXCEPT ![t] = 0]
         /\ held' = [held EXCEPT ![t] = held[t] + resting[t]]
         /\ \/ /\ resting[t] > 0 /\ market[t].bids # <<>>
               /\ cost' = [cost EXCEPT ![t] = cost[t] + Money(resting[t], market[t].bids[1].price)]
               /\ UNCHANGED loss
            \/ /\ resting[t] < 0 /\ market[t].asks # <<>>
               /\ BookSale(t, -resting[t], Money(-resting[t], market[t].asks[1].price))
  BY DEF OwnOrderFills
<1>4. resting' \in [Tokens -> OwnOrders \cup {0}]
  BY <1>3 DEF RInv, TypeOK
<1>5. held[t] \in Nat /\ resting[t] \in Int /\ cost[t] \in Nat /\ cost \in [Tokens -> Nat]
      /\ held \in [Tokens -> Nat] /\ loss \in Nat
  <2>1. /\ held \in [Tokens -> Nat] /\ resting[t] \in OwnOrders \cup {0}
        /\ cost \in [Tokens -> Nat] /\ loss \in Nat
    BY DEF RInv, TypeOK
  <2>2. \A own \in OwnOrders : own \in Int
    BY RebalanceAssumption
  <2>3. resting[t] \in Int
    BY <2>1, <2>2
  <2>4. QED
    BY <2>1, <2>3
<1>6. held' \in [Tokens -> Nat]
  <2>1. held[t] + resting[t] \in Nat
    BY <1>3, <1>5
  <2>2. QED
    BY <1>3, <1>5, <2>1
<1>7. market[t] \in Books
  BY DEF RInv, TypeOK
<1>8. cost' \in [Tokens -> Nat] /\ loss' \in Nat
  <2>1. CASE /\ resting[t] > 0 /\ market[t].bids # <<>>
             /\ cost' = [cost EXCEPT ![t] = cost[t] + Money(resting[t], market[t].bids[1].price)]
             /\ UNCHANGED loss
    <3>1. market[t].bids[1].price \in Nat
      BY <1>7, <2>1, BookTypes, BestLevel
    <3>2. resting[t] \in Nat
      BY <1>5, <2>1
    <3>3. Money(resting[t], market[t].bids[1].price) \in Nat
      BY <3>1, <3>2, MoneyType
    <3>4. cost[t] + Money(resting[t], market[t].bids[1].price) \in Nat
      BY <1>5, <3>3
    <3>5. QED
      BY <1>5, <2>1, <3>4
  <2>2. CASE /\ resting[t] < 0 /\ market[t].asks # <<>>
             /\ BookSale(t, -resting[t], Money(-resting[t], market[t].asks[1].price))
    <3>1. market[t].asks[1].price \in Nat
      BY <1>7, <2>2, BookTypes, BestLevel
    <3>2. -resting[t] \in Nat /\ -resting[t] > 0 /\ -resting[t] <= held[t]
      BY <1>3, <1>5, <2>2
    <3>3. Money(-resting[t], market[t].asks[1].price) \in Nat
      BY <3>1, <3>2, MoneyType
    <3>4. QED
      BY <2>2, <3>2, <3>3, SaleTypes DEF RInv
  <2>3. QED
    BY <1>3, <2>1, <2>2
<1>9. TypeOK'
  BY <1>1, <1>2, <1>4, <1>6, <1>8 DEF RInv, TypeOK
<1>10. QED
  BY <1>2, <1>9 DEF RInv, ZerosAreGone

-----------------------------------------------------------------------------
\* The second half of a cycle.
Fills == BuyFills \/ SellFills \/ Kill

\* A fill of a planned order leaves amounts.
LEMMA FillTypesOK ==
    ASSUME RInv, order \in Orders, Fills
    PROVE  /\ held' \in [Tokens -> Nat] /\ cost' \in [Tokens -> Nat]
           /\ loss' \in Nat /\ loss' >= loss
<1> DEFINE t == order.token
<1>1. t \in Tokens /\ order.amount \in Nat /\ order.amount > 0
  BY DEF Orders
<1> HIDE DEF t
<1>2. /\ held \in [Tokens -> Nat] /\ cost \in [Tokens -> Nat] /\ loss \in Nat
      /\ market[t] \in Books
  BY <1>1 DEF RInv, TypeOK
<1>3. ASSUME NEW shares \in Nat PROVE TotalDebit(quoteBuy(market[t], shares, AnyPrice)) \in Nat
  <2>1. quoteBuy(market[t], shares, AnyPrice) \in Quotes(shares)
    BY <1>2, BookTypes, QuoteTypes DEF quoteBuy
  <2>2. QED
    BY <2>1 DEF Quotes, TotalDebit
<1>4. CASE BuyFills
  <2>1. PICK shares \in {SharesFor(market[t], order.amount, order.worstPrice)} :
             shares > 0 /\ Filled(t, shares)
    BY <1>4 DEF BuyFills, t
  <2>2. shares \in Nat
    BY <1>1, <1>2, <2>1, SharesType
  <2>3. held[t] + shares \in Nat
    BY <1>1, <1>2, <2>2
  <2>4. cost[t] + TotalDebit(quoteBuy(market[t], shares, AnyPrice)) \in Nat
    BY <1>1, <1>2, <1>3, <2>2
  <2>5. loss' \in Nat /\ loss' >= loss
    BY <1>2, <2>1 DEF Filled
  <2>6. QED
    BY <1>2, <2>1, <2>3, <2>4, <2>5 DEF Filled
<1>5. CASE SellFills
  <2> DEFINE proceeds == NetProceeds(OrderedSale)
  <2>1. /\ order.amount <= held[t]
        /\ held' = [held EXCEPT ![t] = held[t] - order.amount]
        /\ BookSale(t, order.amount, proceeds)
    BY <1>5 DEF SellFills, Covered, t
  <2>2. proceeds \in Int
    <3>1. OrderedSale \in Quotes(order.amount)
      BY <1>1, <1>2, BookTypes, QuoteTypes DEF OrderedSale, quoteSell, t
    <3>2. QED
      BY <3>1 DEF Quotes, NetProceeds
  <2> HIDE DEF proceeds
  <2>3. cost' \in [Tokens -> Nat] /\ loss' \in Nat /\ loss' >= loss
    BY <1>1, <2>1, <2>2, SaleTypes DEF RInv
  <2>4. held[t] - order.amount \in Nat
    BY <1>1, <1>2, <2>1
  <2>5. QED
    BY <1>2, <2>1, <2>3, <2>4
<1>6. CASE Kill
  BY <1>2, <1>6 DEF Kill
<1>7. QED
  BY <1>4, <1>5, <1>6 DEF Fills

\* It keeps the invariant, and so does an order that is not sent.
LEMMA ActPreserves == RInv /\ (Act \/ Hold) => RInv'
<1> SUFFICES ASSUME RInv, Act \/ Hold PROVE RInv'
  OBVIOUS
<1>1. /\ pc' = "read" /\ order' = NoOrder
      /\ UNCHANGED <<leader, market, buyable, resting, zeros, moves, sold, gone>>
  BY DEF Act, Hold
<1>2. held' \in [Tokens -> Nat] /\ cost' \in [Tokens -> Nat] /\ loss' \in Nat
  <2>1. CASE UNCHANGED <<held, cost, loss>>
    BY <2>1 DEF RInv, TypeOK
  <2>2. CASE order # NoOrder /\ Fills
    BY <2>2, FillTypesOK DEF RInv, TypeOK
  <2>3. QED
    BY <2>1, <2>2 DEF Act, Hold, Fills
<1>3. TypeOK'
  BY <1>1, <1>2 DEF RInv, TypeOK
<1>4. QED
  BY <1>1, <1>3 DEF RInv, ZerosAreGone

\* Every step does.
LEMMA RNext == RInv /\ [Next]_vars => RInv'
<1>1. RInv /\ UNCHANGED vars => RInv'
  BY DEF vars, RInv, TypeOK, ZerosAreGone
<1>2. QED
  BY <1>1, LeaderPreserves, OrderingPreserves, OwnFillPreserves, CyclePreserves, ActPreserves
  DEF Next, Cycles

\* The invariant holds.
LEMMA RInvariance == Spec => []RInv
  BY RInit, RNext, PTL DEF Spec

\* Holdings, costs and losses stay amounts, and what is planned is an order with a price:
\* no fill takes more than is held, no sale releases more than was paid (applyTradeReport).
THEOREM TypeCorrect == Spec => []TypeOK
<1>1. RInv => TypeOK
  BY DEF RInv
<1>2. QED
  BY <1>1, RInvariance, PTL

\* No exit for one zero, whatever else moves between two cycles: a SELL of a token
\* that the snapshot lacks has a zero counted before this cycle, and a zero that is
\* counted is of a token that the snapshot before lacked (observeLeaderPositions).
THEOREM ExitsAreConfirmed == Spec => OneZeroSellsNothing
<1> DEFINE Confirmed ==
        order' # order /\ order'.side = "SELL" /\ order'.token \in gone'
            => order'.token \in gone
<1>1. RInv /\ [Next]_vars => [Confirmed]_vars
  <2> SUFFICES ASSUME RInv, Next, order' # order, order'.side = "SELL",
                      order'.token \in gone'
               PROVE  order'.token \in gone
    OBVIOUS
  <2>1. CASE Cycles
    <3>1. PICK snapshot \in [Tokens -> LeaderPositions],
               missing \in {{}} \cup {{t} : t \in Tokens} : Plan(snapshot, missing)
      BY <2>1, CyclePlans
    <3>2. QED
      BY <3>1, PlanPreserves
  <2>2. CASE Act \/ Hold
    <3>1. order' = NoOrder
      BY <2>2 DEF Act, Hold
    <3>2. QED
      BY <3>1, Sides
  <2>3. CASE LeaderMoves \/ MarketMoves \/ BuyingEnds \/ Placed \/ Cancelled \/ OwnOrderFills
    BY <2>3 DEF LeaderMoves, MarketMoves, BuyingEnds, Placed, Cancelled, OwnOrderFills
  <2>4. QED
    BY <2>1, <2>2, <2>3 DEF Next, Cycles
<1>2. QED
  BY <1>1, RInvariance, PTL DEF Spec, OneZeroSellsNothing

-----------------------------------------------------------------------------
\* The estimate rises with the scale.

\* A quote of fewer shares leaves no more of them, and costs no more.
NoMore(q, p) ==
    q.remaining <= p.remaining /\ q.notional <= p.notional /\ q.fee <= p.fee

\* More shares of a level cost more and bear more of a fee.
LEMMA GainsGrow ==
    ASSUME NEW a \in Nat, NEW b \in Nat, a <= b, NEW price \in AnyPrice
    PROVE  /\ a * price * Ticks * FeeScale <= b * price * Ticks * FeeScale
           /\ calculateTakerFee(a, price) <= calculateTakerFee(b, price)
<1>0. \A x, y, z \in Nat : x <= y => x * z \in Nat /\ y * z \in Nat /\ x * z <= y * z
  <2> SUFFICES ASSUME NEW x \in Nat, NEW y \in Nat, NEW z \in Nat, x <= y
               PROVE  x * z \in Nat /\ y * z \in Nat /\ x * z <= y * z
    OBVIOUS
  <2>1. PICK d \in Nat : y = x + d
    <3>1. y - x \in Nat /\ y = x + (y - x)
      OBVIOUS
    <3>2. QED
      BY <3>1
  <2>2. y * z = x * z + d * z /\ d * z \in Nat /\ x * z \in Nat
    BY <2>1
  <2>3. QED
    BY <2>2
<1>1. price \in Nat /\ Ticks - price \in Nat
  BY Sizes
<1>2. a * price \in Nat /\ b * price \in Nat /\ a * price <= b * price
  BY <1>0, <1>1
<1>3. /\ a * price * Ticks \in Nat /\ b * price * Ticks \in Nat
      /\ a * price * Ticks <= b * price * Ticks
  BY <1>0, <1>2, Sizes
<1>4. a * price * Ticks * FeeScale <= b * price * Ticks * FeeScale
  BY <1>0, <1>3, Sizes
<1>5. a * FeeRate \in Nat /\ b * FeeRate \in Nat /\ a * FeeRate <= b * FeeRate
  BY <1>0, Sizes
<1>6. /\ a * FeeRate * price \in Nat /\ b * FeeRate * price \in Nat
      /\ a * FeeRate * price <= b * FeeRate * price
  BY <1>0, <1>1, <1>5
<1>7. a * FeeRate * price * (Ticks - price) <= b * FeeRate * price * (Ticks - price)
  BY <1>0, <1>1, <1>6
<1>8. QED
  BY <1>4, <1>7 DEF calculateTakerFee

\* A level keeps a quote of fewer shares behind.
LEMMA FillTakesNoMore ==
    ASSUME NEW r \in Nat, NEW s \in Nat, NEW q \in Quotes(r), NEW p \in Quotes(s),
           NoMore(q, p), NEW level \in LevelSet
    PROVE  NoMore(Fill(q, level), Fill(p, level))
<1> DEFINE a == Lower(q.remaining, level.size)
           b == Lower(p.remaining, level.size)
           gain(x) == x * level.price * Ticks * FeeScale
           toll(x) == calculateTakerFee(x, level.price)
<1>1. /\ q.remaining \in Nat /\ q.notional \in Nat /\ q.fee \in Nat
      /\ p.remaining \in Nat /\ p.notional \in Nat /\ p.fee \in Nat
      /\ level.size \in Nat /\ level.price \in AnyPrice
      /\ q.remaining <= p.remaining /\ q.notional <= p.notional /\ q.fee <= p.fee
  BY DEF Quotes, LevelSet, NoMore
<1>2. a \in Nat /\ b \in Nat /\ a <= b /\ q.remaining - a <= p.remaining - b
  BY <1>1 DEF Lower
<1> HIDE DEF a, b
<1>3. gain(a) <= gain(b) /\ toll(a) <= toll(b)
  BY <1>1, <1>2, GainsGrow
<1>4. gain(a) \in Int /\ gain(b) \in Int /\ toll(a) \in Int /\ toll(b) \in Int
  <2>1. level.price \in Int /\ Ticks \in Int /\ FeeScale \in Int /\ FeeRate \in Int
    <3>1. level.price \in Nat /\ Ticks \in Nat /\ FeeScale \in Nat /\ FeeRate \in Nat
      BY <1>1, Sizes
    <3>2. QED
      BY <3>1
  <2>2. \A x, y \in Int : x * y \in Int /\ x - y \in Int
    OBVIOUS
  <2>3. QED
    BY <1>2, <2>1, <2>2 DEF calculateTakerFee
<1>5. /\ Fill(q, level).remaining = q.remaining - a
      /\ Fill(q, level).notional = q.notional + gain(a) /\ Fill(q, level).fee = q.fee + toll(a)
      /\ Fill(p, level).remaining = p.remaining - b
      /\ Fill(p, level).notional = p.notional + gain(b) /\ Fill(p, level).fee = p.fee + toll(b)
  BY DEF Fill, a, b
<1> HIDE DEF gain, toll
<1>6. q.notional + gain(a) <= p.notional + gain(b) /\ q.fee + toll(a) <= p.fee + toll(b)
  BY <1>1, <1>3, <1>4
<1>7. QED
  BY <1>2, <1>5, <1>6 DEF NoMore

\* So do all levels.
LEMMA QuotesGrow ==
    ASSUME NEW r \in Nat, NEW s \in Nat, r <= s, NEW levels \in Seq(LevelSet), NEW allowed
    PROVE  NoMore(quoteLevels(r, levels, allowed), quoteLevels(s, levels, allowed))
<1> DEFINE n == Len(levels)
<1>1. PICK g : Walk(g, r, levels, allowed) /\ quoteLevels(r, levels, allowed) = g[n]
  BY QuoteWalks
<1>2. PICK h : Walk(h, s, levels, allowed) /\ quoteLevels(s, levels, allowed) = h[n]
  BY QuoteWalks
<1>3. n \in Nat /\ \A i \in 1..n : levels[i] \in LevelSet
  OBVIOUS
<1> DEFINE A == {i \in 0..n : NoMore(g[i], h[i])}
<1>4. 0 \in A
  <2>1. g[0] = Asked(r) /\ h[0] = Asked(s) /\ 0 \in 0..n
    BY <1>1, <1>2, <1>3 DEF Walk
  <2>2. NoMore(Asked(r), Asked(s))
    BY DEF NoMore, Asked
  <2>3. QED
    BY <2>1, <2>2
<1>5. ASSUME NEW i \in 1..n, i - 1 \in A PROVE i \in A
  <2>1. i - 1 \in 0..n /\ i \in 0..n
    BY <1>3
  <2>2. g[i - 1] \in Quotes(r) /\ h[i - 1] \in Quotes(s) /\ NoMore(g[i - 1], h[i - 1])
    BY <1>1, <1>2, <1>5, <2>1 DEF Walk
  <2>3. g[i] = Taken(g[i - 1], levels[i], allowed) /\ h[i] = Taken(h[i - 1], levels[i], allowed)
    BY <1>1, <1>2 DEF Walk
  <2>4. NoMore(g[i], h[i])
    <3>1. levels[i] \in LevelSet
      BY <1>3
    <3>2. NoMore(Fill(g[i - 1], levels[i]), Fill(h[i - 1], levels[i]))
      BY <2>2, <3>1, FillTakesNoMore
    <3>3. QED
      BY <2>2, <2>3, <3>2 DEF Taken
  <2>5. QED
    BY <2>1, <2>4
<1>6. n \in A
  <2> HIDE DEF A, n
  <2>1. 0..n \subseteq A
    BY <1>3, <1>4, <1>5, Induction
  <2>2. QED
    BY <1>3, <2>1
<1>7. QED
  BY <1>1, <1>2, <1>6

\* If the asks cover more shares, they cover fewer, for less money.
LEMMA CompleteGrows ==
    ASSUME NEW r \in Nat, NEW s \in Nat, r <= s, NEW levels \in Seq(LevelSet), NEW allowed,
           Complete(quoteLevels(s, levels, allowed))
    PROVE  /\ Complete(quoteLevels(r, levels, allowed))
           /\ TotalDebit(quoteLevels(r, levels, allowed)) \in Nat
           /\ TotalDebit(quoteLevels(s, levels, allowed)) \in Nat
           /\ TotalDebit(quoteLevels(r, levels, allowed))
                 <= TotalDebit(quoteLevels(s, levels, allowed))
<1> DEFINE q == quoteLevels(r, levels, allowed)
           p == quoteLevels(s, levels, allowed)
<1>1. NoMore(q, p) /\ q \in Quotes(r) /\ p \in Quotes(s)
  BY QuotesGrow, QuoteTypes
<1> HIDE DEF q, p
<1>2. /\ q.remaining \in Nat /\ q.notional \in Nat /\ q.fee \in Nat
      /\ p.remaining \in Nat /\ p.notional \in Nat /\ p.fee \in Nat
      /\ q.remaining <= p.remaining /\ q.notional <= p.notional /\ q.fee <= p.fee
  BY <1>1 DEF Quotes, NoMore
<1>3. Complete(p) => Complete(q)
  BY <1>2 DEF Complete
<1>4. TotalDebit(q) \in Nat /\ TotalDebit(p) \in Nat /\ TotalDebit(q) <= TotalDebit(p)
  BY <1>2 DEF TotalDebit
<1>5. QED
  BY <1>3, <1>4 DEF q, p

-----------------------------------------------------------------------------
\* The tokens are those of a list.
LEMMA TokensFinite == IsFiniteSet(Tokens)
<1>1. IsFiniteSet(DOMAIN Assets)
  BY TargetPositionAssumption, FS_Interval
<1>2. Assets \in Surjection(DOMAIN Assets, Tokens)
  <2>1. Assets \in [DOMAIN Assets -> Tokens]
    BY TargetPositionAssumption
  <2>2. \A t \in Tokens : \E i \in DOMAIN Assets : Assets[i] = t
    BY DEF Tokens, ToSet
  <2>3. QED
    BY <2>1, <2>2 DEF Surjection
<1>3. QED
  BY <1>1, <1>2, FS_Surjection

AreTargets(raw)  == \A t \in Tokens : raw[t] \in Nat
AreBooks(books)  == \A t \in DOMAIN books : books[t] \in Books

\* What a scale that fits wants, and what it costs.
Costs(k, raw, books) ==
    [t \in Wanted(k, raw) |-> TotalDebit(quoteBuy(books[t], raw[t] * k, AnyPrice))]

Covers(k, raw, books) ==
    \A t \in Wanted(k, raw) : t \in DOMAIN books
                               /\ Complete(quoteBuy(books[t], raw[t] * k, AnyPrice))

\* What each wanted token costs is a number.
LEMMA CostTypes ==
    ASSUME NEW k \in Nat, NEW raw, AreTargets(raw), NEW books, AreBooks(books),
           Wanted(k, raw) \subseteq DOMAIN books
    PROVE  Costs(k, raw, books) \in [Wanted(k, raw) -> Nat]
<1> SUFFICES ASSUME NEW t \in Wanted(k, raw)
             PROVE  TotalDebit(quoteBuy(books[t], raw[t] * k, AnyPrice)) \in Nat
  BY DEF Costs
<1>1. t \in Tokens /\ books[t] \in Books
  BY DEF Wanted, AreBooks
<1>2. raw[t] * k \in Nat
  <2>1. raw[t] \in Nat
    BY <1>1 DEF AreTargets
  <2>2. QED
    BY <2>1, Products
<1>3. quoteBuy(books[t], raw[t] * k, AnyPrice) \in Quotes(raw[t] * k)
  BY <1>1, <1>2, BookTypes, QuoteTypes DEF quoteBuy
<1>4. QED
  BY <1>3 DEF Quotes, TotalDebit

\* The estimate is their sum, if all are covered.
LEMMA EstimateIsSum ==
    ASSUME NEW k \in Nat, NEW raw, AreTargets(raw), NEW books, AreBooks(books)
    PROVE  estimateTargetRisk(k, raw, books)
              = IF Covers(k, raw, books) THEN SumOf(Costs(k, raw, books), Wanted(k, raw))
                ELSE NoQuote
<1> DEFINE quotes == TargetQuotes(k, raw, books)
           W == Wanted(k, raw)
           c == Costs(k, raw, books)
<1>1. /\ DOMAIN quotes = W \cap DOMAIN books
      /\ \A t \in DOMAIN quotes : quotes[t] = quoteBuy(books[t], raw[t] * k, AnyPrice)
  BY DEF TargetQuotes
<1> HIDE DEF quotes
<1>2. (\A t \in W : t \in DOMAIN quotes /\ Complete(quotes[t])) <=> Covers(k, raw, books)
  BY <1>1 DEF Covers
<1>3. ASSUME Covers(k, raw, books)
      PROVE  MapThenSumSet(LAMBDA t : TotalDebit(quotes[t]), W) = SumOf(c, W)
  <2> DEFINE e == [t \in W |-> TotalDebit(quotes[t])]
  <2>1. MapThenSumSet(LAMBDA t : TotalDebit(quotes[t]), W) = SumOf(e, W)
    <3> HIDE DEF W
    <3>1. QED
      BY DEF MapThenSumSet, MapThenFoldSet, Summed, Pick, SumOf
  <2>2. \A t \in W : TotalDebit(quotes[t]) = TotalDebit(quoteBuy(books[t], raw[t] * k, AnyPrice))
    BY <1>1, <1>3 DEF Covers
  <2>3. e = c
    BY <2>2 DEF Costs
  <2>4. QED
    BY <2>1, <2>3
<1>4. QED
  BY <1>2, <1>3 DEF estimateTargetRisk, SumOfQuotes, quotes

\* A scale below one that fits wants fewer tokens, fewer shares of each, and fits.
LEMMA EstimateRises ==
    ASSUME NEW j \in Nat, NEW k \in Nat, j <= k,
           NEW raw, AreTargets(raw), NEW books, AreBooks(books), NEW available \in Int,
           Fits(k, raw, books, available)
    PROVE  Fits(j, raw, books, available)
<1> DEFINE V == Wanted(j, raw)
           W == Wanted(k, raw)
           c == Costs(j, raw, books)
           d == Costs(k, raw, books)
<1>1. ASSUME NEW t \in Tokens
      PROVE  raw[t] * j \in Nat /\ raw[t] * k \in Nat /\ raw[t] * j <= raw[t] * k
  <2>1. raw[t] \in Nat
    BY DEF AreTargets
  <2>2. PICK e \in Nat : k = j + e
    <3>1. k - j \in Nat /\ k = j + (k - j)
      OBVIOUS
    <3>2. QED
      BY <3>1
  <2>3. raw[t] * k = raw[t] * j + raw[t] * e /\ raw[t] * e \in Nat /\ raw[t] * j \in Nat
    BY <2>1, <2>2
  <2>4. QED
    BY <2>3
<1>2. V \subseteq W /\ W \subseteq Tokens
  <2>1. Epsilon \in Nat
    BY TargetPositionAssumption
  <2>2. QED
    BY <1>1, <2>1 DEF Wanted
<1>3. Covers(k, raw, books)
  BY EstimateIsSum DEF Fits, Within
<1>4. ASSUME NEW t \in V
      PROVE  /\ t \in DOMAIN books
             /\ Complete(quoteBuy(books[t], raw[t] * j, AnyPrice))
             /\ c[t] <= d[t]
  <2>1. /\ t \in Tokens /\ t \in W /\ t \in DOMAIN books /\ books[t] \in Books
        /\ Complete(quoteBuy(books[t], raw[t] * k, AnyPrice))
    BY <1>2, <1>3 DEF Covers, AreBooks
  <2>2. books[t].asks \in Seq(LevelSet)
    BY <2>1, BookTypes
  <2>3. /\ Complete(quoteLevels(raw[t] * j, books[t].asks, AnyPrice))
        /\ TotalDebit(quoteLevels(raw[t] * j, books[t].asks, AnyPrice))
             <= TotalDebit(quoteLevels(raw[t] * k, books[t].asks, AnyPrice))
    BY <1>1, <2>1, <2>2, CompleteGrows DEF quoteBuy
  <2>4. QED
    BY <2>1, <2>3 DEF quoteBuy, Costs
<1>5. Covers(j, raw, books)
  BY <1>4 DEF Covers
<1>6. c \in [V -> Nat] /\ d \in [W -> Nat]
  BY <1>3, <1>4, CostTypes DEF Covers
<1>7. IsFiniteSet(W) /\ IsFiniteSet(V)
  BY <1>2, TokensFinite, FS_Subset
<1> HIDE DEF V, W, c, d
<1>8. SumOf(c, V) \in Nat /\ SumOf(d, W) \in Nat /\ SumOf(c, V) <= SumOf(d, W)
  <2>1. PICK h : Summed(h, c, V) /\ SumOf(c, V) = h[V]
    BY <1>6, <1>7, SumOfSet
  <2>2. PICK g : Summed(g, d, W) /\ SumOf(d, W) = g[W]
    BY <1>6, <1>7, SumOfSet
  <2>3. h[V] \in Nat /\ g[W] \in Nat /\ h[V] <= g[W]
    BY <1>2, <1>4, <1>6, <1>7, <2>1, <2>2, SumsCompare
  <2>4. QED
    BY <2>1, <2>2, <2>3
<1>9. estimateTargetRisk(j, raw, books) = SumOf(c, V)
  BY <1>5, EstimateIsSum DEF c, V
<1>10. estimateTargetRisk(k, raw, books) = SumOf(d, W)
  BY <1>3, EstimateIsSum DEF d, W
<1>11. SumOf(d, W) <= available
  BY <1>10 DEF Fits, Within
<1>12. SumOf(c, V) <= available /\ SumOf(c, V) # NoQuote
  BY <1>8, <1>11 DEF NoQuote
<1>13. QED
  BY <1>9, <1>12 DEF Fits, Within

\* The estimate of a cycle rises with the scale, whatever books, positions, fees and
\* losses it reads: the assumption of CapScale holds for the planner's own quotes
\* (estimateTargetRisk over quoteLevels).
THEOREM CurvesRise == Spec => []CurveRises
<1>1. RInv => CurveRises
  <2> SUFFICES ASSUME RInv PROVE CurveRises
    OBVIOUS
  <2> DEFINE input == Input(leader, {})
             raw == RawTargets(input)
             available == calculateAvailableRisk(loss)
             affordable == {k \in 0..Grid : Fits(k, raw, input.books, available)}
  <2>1. AreTargets(raw)
    <3>1. input.leader = leader
      BY DEF Input
    <3>2. \A t \in Tokens : leader[t].size \in Nat
      BY RebalanceAssumption DEF RInv, TypeOK
    <3>3. CopyRatio \in Nat
      BY TargetPositionAssumption
    <3>4. \A t \in Tokens : leader[t].size * CopyRatio \in Nat
      BY <3>2, <3>3, Products
    <3>5. QED
      BY <3>1, <3>4 DEF AreTargets, RawTargets
  <2>2. AreBooks(input.books)
    BY DEF AreBooks, Input, RInv, TypeOK
  <2>3. available \in Int
    BY TargetPositionAssumption DEF calculateAvailableRisk, Lower, Higher, RInv, TypeOK
  <2> HIDE DEF input, raw, available
  <2>4. ASSUME NEW k \in affordable, k # 0 PROVE k - 1 \in affordable
    <3>1. k \in Nat /\ k - 1 \in Nat /\ k - 1 <= k /\ k - 1 \in 0..Grid
      BY <2>4, GridType
    <3>2. Fits(k - 1, raw, input.books, available)
      BY <2>1, <2>2, <2>3, <3>1, EstimateRises
    <3>3. QED
      BY <3>1, <3>2
  <2>5. QED
    BY <2>4 DEF CurveRises, input, raw, available
<1>2. QED
  BY <1>1, RInvariance, PTL

-----------------------------------------------------------------------------
\* More shares cost more, and a book holds its depth.

\* Of two quotes of the same levels the larger costs at least a unit more for each
\* share more that it takes.
Ahead(q, r, p, s) ==
    /\ q.remaining <= p.remaining
    /\ (s - p.remaining) - (r - q.remaining) <= p.notional - q.notional
    /\ q.fee <= p.fee

\* A share costs at least one unit of money.
LEMMA PricesCount ==
    ASSUME NEW a \in Nat, NEW b \in Nat, a <= b, NEW price \in AnyPrice
    PROVE  b - a <= b * price * Ticks * FeeScale - a * price * Ticks * FeeScale
<1>1. PICK d \in Nat : b = a + d
  <2>1. b - a \in Nat /\ b = a + (b - a)
    OBVIOUS
  <2>2. QED
    BY <2>1
<1>2. price \in Nat /\ price > 0 /\ price * Ticks \in Nat /\ price * Ticks > 0
  <2>1. price \in Nat /\ price > 0
    BY Sizes
  <2>2. QED
    BY <2>1, Sizes, Products
<1> DEFINE unit == price * Ticks * FeeScale
<1>3. unit \in Nat /\ unit >= 1
  <2>1. unit \in Nat /\ unit > 0
    BY <1>2, Sizes, Products
  <2>2. QED
    BY <2>1
<1>4. \A x \in Nat : x * price * Ticks * FeeScale = x * unit
  <2>1. price \in Int /\ Ticks \in Int /\ FeeScale \in Int
    <3>1. price \in Nat /\ Ticks \in Nat /\ FeeScale \in Nat
      BY <1>2, Sizes
    <3>2. QED
      BY <3>1
  <2>2. QED
    BY <2>1
<1> HIDE DEF unit
<1>5. b * unit = a * unit + d * unit /\ a * unit \in Nat /\ d * unit \in Nat
  BY <1>1, <1>3
<1>6. d * unit >= d
  <2>1. PICK e \in Nat : unit = 1 + e
    <3>1. unit - 1 \in Nat /\ unit = 1 + (unit - 1)
      BY <1>3
    <3>2. QED
      BY <3>1
  <2>2. d * unit = d + d * e /\ d * e \in Nat
    BY <2>1
  <2>3. QED
    BY <2>2
<1>7. QED
  BY <1>1, <1>4, <1>5, <1>6

\* A level keeps a quote of more shares ahead.
LEMMA FillStaysAhead ==
    ASSUME NEW r \in Nat, NEW s \in Nat, NEW q \in Quotes(r), NEW p \in Quotes(s),
           Ahead(q, r, p, s), NEW level \in LevelSet
    PROVE  Ahead(Fill(q, level), r, Fill(p, level), s)
<1> DEFINE a == Lower(q.remaining, level.size)
           b == Lower(p.remaining, level.size)
           gain(x) == x * level.price * Ticks * FeeScale
           toll(x) == calculateTakerFee(x, level.price)
<1>1. /\ q.remaining \in Nat /\ q.notional \in Nat /\ q.fee \in Nat
      /\ p.remaining \in Nat /\ p.notional \in Nat /\ p.fee \in Nat
      /\ level.size \in Nat /\ level.price \in AnyPrice
      /\ q.remaining <= p.remaining /\ q.fee <= p.fee
      /\ (s - p.remaining) - (r - q.remaining) <= p.notional - q.notional
  BY DEF Quotes, LevelSet, Ahead
<1>2. a \in Nat /\ b \in Nat /\ a <= b /\ q.remaining - a <= p.remaining - b
  BY <1>1 DEF Lower
<1> HIDE DEF a, b
<1>3. b - a <= gain(b) - gain(a) /\ toll(a) <= toll(b)
  BY <1>1, <1>2, GainsGrow, PricesCount
<1>4. gain(a) \in Int /\ gain(b) \in Int /\ toll(a) \in Int /\ toll(b) \in Int
  <2>1. level.price \in Int /\ Ticks \in Int /\ FeeScale \in Int /\ FeeRate \in Int
    <3>1. level.price \in Nat /\ Ticks \in Nat /\ FeeScale \in Nat /\ FeeRate \in Nat
      BY <1>1, Sizes
    <3>2. QED
      BY <3>1
  <2>2. \A x, y \in Int : x * y \in Int /\ x - y \in Int
    OBVIOUS
  <2>3. QED
    BY <1>2, <2>1, <2>2 DEF calculateTakerFee
<1>5. /\ Fill(q, level).remaining = q.remaining - a
      /\ Fill(q, level).notional = q.notional + gain(a) /\ Fill(q, level).fee = q.fee + toll(a)
      /\ Fill(p, level).remaining = p.remaining - b
      /\ Fill(p, level).notional = p.notional + gain(b) /\ Fill(p, level).fee = p.fee + toll(b)
  BY DEF Fill, a, b
<1> HIDE DEF gain, toll
<1>6. /\ (s - (p.remaining - b)) - (r - (q.remaining - a))
           <= (p.notional + gain(b)) - (q.notional + gain(a))
      /\ q.fee + toll(a) <= p.fee + toll(b)
  BY <1>1, <1>2, <1>3, <1>4
<1>7. QED
  BY <1>2, <1>5, <1>6 DEF Ahead

\* So do all levels.
LEMMA QuotesStayAhead ==
    ASSUME NEW r \in Nat, NEW s \in Nat, r <= s, NEW levels \in Seq(LevelSet), NEW allowed
    PROVE  Ahead(quoteLevels(r, levels, allowed), r, quoteLevels(s, levels, allowed), s)
<1> DEFINE n == Len(levels)
<1>1. PICK g : Walk(g, r, levels, allowed) /\ quoteLevels(r, levels, allowed) = g[n]
  BY QuoteWalks
<1>2. PICK h : Walk(h, s, levels, allowed) /\ quoteLevels(s, levels, allowed) = h[n]
  BY QuoteWalks
<1>3. n \in Nat /\ \A i \in 1..n : levels[i] \in LevelSet
  OBVIOUS
<1> DEFINE A == {i \in 0..n : Ahead(g[i], r, h[i], s)}
<1>4. 0 \in A
  <2>1. g[0] = Asked(r) /\ h[0] = Asked(s) /\ 0 \in 0..n
    BY <1>1, <1>2, <1>3 DEF Walk
  <2>2. Ahead(Asked(r), r, Asked(s), s)
    BY DEF Ahead, Asked
  <2>3. QED
    BY <2>1, <2>2
<1>5. ASSUME NEW i \in 1..n, i - 1 \in A PROVE i \in A
  <2>1. i - 1 \in 0..n /\ i \in 0..n
    BY <1>3
  <2>2. g[i - 1] \in Quotes(r) /\ h[i - 1] \in Quotes(s) /\ Ahead(g[i - 1], r, h[i - 1], s)
    BY <1>1, <1>2, <1>5, <2>1 DEF Walk
  <2>3. g[i] = Taken(g[i - 1], levels[i], allowed) /\ h[i] = Taken(h[i - 1], levels[i], allowed)
    BY <1>1, <1>2 DEF Walk
  <2>4. Ahead(g[i], r, h[i], s)
    <3>1. levels[i] \in LevelSet
      BY <1>3
    <3>2. Ahead(Fill(g[i - 1], levels[i]), r, Fill(h[i - 1], levels[i]), s)
      BY <2>2, <3>1, FillStaysAhead
    <3>3. QED
      BY <2>2, <2>3, <3>2 DEF Taken
  <2>5. QED
    BY <2>1, <2>4
<1>6. n \in A
  <2> HIDE DEF A, n
  <2>1. 0..n \subseteq A
    BY <1>3, <1>4, <1>5, Induction
  <2>2. QED
    BY <1>3, <2>1
<1>7. QED
  BY <1>1, <1>2, <1>6

\* More shares, if the levels have them, cost more.
LEMMA MoreCostsMore ==
    ASSUME NEW r \in Nat, NEW s \in Nat, r < s, NEW levels \in Seq(LevelSet), NEW allowed,
           Complete(quoteLevels(s, levels, allowed))
    PROVE  TotalDebit(quoteLevels(r, levels, allowed)) < TotalDebit(quoteLevels(s, levels, allowed))
<1> DEFINE q == quoteLevels(r, levels, allowed)
           p == quoteLevels(s, levels, allowed)
<1>1. Ahead(q, r, p, s) /\ q \in Quotes(r) /\ p \in Quotes(s)
  BY QuotesStayAhead, QuoteTypes
<1>2. p.remaining = 0
  BY DEF Complete
<1> HIDE DEF q, p
<1>3. /\ q.remaining \in Nat /\ q.notional \in Nat /\ q.fee \in Nat
      /\ p.notional \in Nat /\ p.fee \in Nat
  BY <1>1 DEF Quotes
<1>4. /\ q.remaining = 0 /\ q.fee <= p.fee
      /\ (s - 0) - (r - q.remaining) <= p.notional - q.notional
  BY <1>1, <1>2, <1>3 DEF Ahead
<1>5. TotalDebit(q) < TotalDebit(p)
  BY <1>3, <1>4 DEF TotalDebit
<1>6. QED
  BY <1>5 DEF q, p

Below(S, i) == {j \in S : j <= i}

\* The indices of a set, one after another.
LEMMA BelowFacts ==
    ASSUME NEW n \in Nat, NEW S \in SUBSET (1..n)
    PROVE  /\ Below(S, 0) = {} /\ Below(S, n) = S
           /\ \A i \in 0..n : Below(S, i) \in SUBSET S
           /\ \A i \in 1..n : i \notin S => Below(S, i) = Below(S, i - 1)
           /\ \A i \in S : i \in Below(S, i) /\ Below(S, i) \ {i} = Below(S, i - 1)
<1>1. \A j \in S : j \in Int /\ 1 <= j /\ j <= n
  OBVIOUS
<1>2. Below(S, 0) = {} /\ Below(S, n) = S
  <2>1. ASSUME NEW j \in S PROVE ~(j <= 0) /\ j <= n
    BY <1>1
  <2>2. QED
    BY <2>1 DEF Below
<1>3. ASSUME NEW i \in 1..n, i \notin S PROVE Below(S, i) = Below(S, i - 1)
  <2>1. ASSUME NEW j \in S PROVE j <= i <=> j <= i - 1
    BY <1>1, <1>3
  <2>2. QED
    BY <2>1 DEF Below
<1>4. ASSUME NEW i \in S PROVE i \in Below(S, i) /\ Below(S, i) \ {i} = Below(S, i - 1)
  <2>1. ASSUME NEW j \in S PROVE (j <= i /\ j # i) <=> j <= i - 1
    BY <1>1
  <2>2. i <= i
    BY <1>1
  <2>3. QED
    BY <2>1, <2>2 DEF Below
<1>5. \A i \in 0..n : Below(S, i) \in SUBSET S
  BY DEF Below
<1>6. QED
  BY <1>2, <1>3, <1>4, <1>5

\* The levels up to a price, and what each of them offers.
UpToPrice(book, worstPrice) == {i \in DOMAIN book.asks : book.asks[i].price <= worstPrice}
Offers(book, worstPrice) == [i \in UpToPrice(book, worstPrice) |-> book.asks[i].size]

\* The depth is a sum over indices.
LEMMA DepthIsSum ==
    ASSUME NEW book, NEW worstPrice
    PROVE  Depth(book, worstPrice) = SumOf(Offers(book, worstPrice), UpToPrice(book, worstPrice))
<1> DEFINE S == {i \in DOMAIN book.asks : book.asks[i].price <= worstPrice}
           c == [i \in S |-> book.asks[i].size]
<1>1. Depth(book, worstPrice) = SumOf(c, S)
  BY DEF Depth, MapThenSumSet, MapThenFoldSet, Summed, Pick, SumOf
<1> HIDE DEF S, c
<1>2. UpToPrice(book, worstPrice) = S /\ Offers(book, worstPrice) = c
  BY DEF UpToPrice, Offers, S, c
<1>3. QED
  BY <1>1, <1>2

\* The levels up to a price hold what Depth says of them.
LEMMA DepthIsEnough ==
    ASSUME NEW book \in Books, NEW worstPrice \in 0..Ticks, NEW s \in Nat,
           s <= Depth(book, worstPrice)
    PROVE  Complete(quoteBuy(book, s, 1..worstPrice))
<1> DEFINE levels == book.asks
           n == Len(levels)
           S == UpToPrice(book, worstPrice)
           c == Offers(book, worstPrice)
<1>1. /\ levels \in Seq(LevelSet) /\ DOMAIN levels = 1..n /\ n \in Nat
      /\ \A i \in 1..n : levels[i] \in LevelSet
  <2>1. levels \in Seq(LevelSet)
    BY BookTypes
  <2>2. QED
    BY <2>1
<1>2. \A i \in 1..n : levels[i].price \in AnyPrice /\ levels[i].size \in Nat
  BY <1>1 DEF LevelSet
<1>3. IsFiniteSet(S) /\ S \subseteq 1..n /\ S \in SUBSET (1..n)
  <2>1. IsFiniteSet(1..n)
    BY <1>1, FS_Interval
  <2>2. S \subseteq 1..n
    BY <1>1 DEF UpToPrice
  <2>3. QED
    BY <2>1, <2>2, FS_Subset
<1>4. c \in [S -> Nat] /\ \A i \in S : c[i] = levels[i].size
  <2>1. \A i \in S : levels[i].size \in Nat
    BY <1>2, <1>3
  <2>2. QED
    BY <2>1 DEF Offers
<1>5. Depth(book, worstPrice) = SumOf(c, S)
  BY DepthIsSum
<1>6. \A i \in 1..n : levels[i].price \in 1..worstPrice <=> i \in S
  <2> SUFFICES ASSUME NEW i \in 1..n PROVE levels[i].price \in 1..worstPrice <=> i \in S
    OBVIOUS
  <2>1. levels[i].price \in Nat /\ levels[i].price > 0
    BY <1>2, Sizes
  <2>2. QED
    BY <1>1, <2>1 DEF UpToPrice
<1>7. PICK g : Walk(g, s, levels, 1..worstPrice) /\ quoteLevels(s, levels, 1..worstPrice) = g[n]
  BY <1>1, QuoteWalks
<1> HIDE DEF c, S
<1>8. PICK h : Takes(h, c, S) /\ SumOf(c, S) = h[S]
  <2>1. PICK h : Summed(h, c, S) /\ SumOf(c, S) = h[S]
    BY <1>3, <1>4, SumOfSet
  <2>2. QED
    BY <1>3, <1>4, <2>1, SumTakes
<1>b. /\ Below(S, 0) = {} /\ Below(S, n) = S
      /\ \A i \in 0..n : Below(S, i) \in SUBSET S
      /\ \A i \in 1..n : i \notin S => Below(S, i) = Below(S, i - 1)
      /\ \A i \in S : i \in Below(S, i) /\ Below(S, i) \ {i} = Below(S, i - 1)
  <2> HIDE DEF n
  <2>1. QED
    BY <1>1, <1>3, BelowFacts
<1>9. \A i \in 0..n : Below(S, i) \in SUBSET S /\ h[Below(S, i)] \in Nat
  BY <1>1, <1>3, <1>8, <1>b DEF Takes
<1> DEFINE A == {i \in 0..n : g[i].remaining = 0 \/ g[i].remaining + h[Below(S, i)] <= s}
<1>10. 0 \in A
  <2>1. g[0].remaining = s /\ 0 \in 0..n
    BY <1>1, <1>7 DEF Walk, Asked
  <2>2. h[Below(S, 0)] = 0
    BY <1>8, <1>b DEF Takes
  <2>3. g[0].remaining + h[Below(S, 0)] <= s
    BY <2>1, <2>2
  <2>4. QED
    BY <2>1, <2>3
<1>11. ASSUME NEW i \in 1..n, i - 1 \in A PROVE i \in A
  <2>1. i - 1 \in 0..n /\ i \in 0..n /\ i \in Nat
    BY <1>1
  <2> DEFINE q == g[i - 1]
             left == q.remaining
  <2>2. q \in Quotes(s) /\ g[i] = Taken(q, levels[i], 1..worstPrice)
    BY <1>7, <2>1 DEF Walk
  <2>3. left \in Nat
    BY <2>2 DEF Quotes
  <2>4. left = 0 \/ left + h[Below(S, i - 1)] <= s
    BY <1>11
  <2> HIDE DEF q
  <2>5. CASE i \notin S
    <3>1. g[i] = q
      BY <1>6, <2>2, <2>5 DEF Taken
    <3>2. Below(S, i) = Below(S, i - 1)
      BY <1>b, <2>5
    <3>3. QED
      BY <2>1, <2>4, <3>1, <3>2
  <2>6. CASE i \in S
    <3>1. g[i].remaining = left - Lower(left, levels[i].size)
      BY <1>6, <2>2, <2>6 DEF Taken, Fill
    <3>2. h[Below(S, i)] = levels[i].size + h[Below(S, i - 1)]
      <4>1. Below(S, i) \ {i} = Below(S, i - 1) /\ i \in Below(S, i) /\ Below(S, i) \in SUBSET S
        BY <1>b, <2>1, <2>6
      <4>2. h[Below(S, i)] = c[i] + h[Below(S, i) \ {i}]
        BY <1>8, <4>1 DEF Takes
      <4>3. QED
        BY <1>4, <2>6, <4>1, <4>2
    <3>3. levels[i].size \in Nat /\ h[Below(S, i - 1)] \in Nat
      BY <1>2, <1>9, <2>1
    <3>4. g[i].remaining = 0 \/ g[i].remaining + h[Below(S, i)] <= s
      <4> DEFINE size == levels[i].size
                 before == h[Below(S, i - 1)]
      <4>1. size \in Nat /\ before \in Nat /\ (left = 0 \/ left + before <= s)
        BY <2>4, <3>3
      <4> HIDE DEF size, before, left
      <4>2. left - Lower(left, size) = 0 \/ left - Lower(left, size) + (size + before) <= s
        BY <2>3, <4>1 DEF Lower
      <4>3. QED
        BY <3>1, <3>2, <4>2 DEF size, before
    <3>5. QED
      BY <2>1, <3>4
  <2>7. QED
    BY <2>5, <2>6
<1>12. n \in A
  <2> HIDE DEF A, n
  <2>1. 0..n \subseteq A
    BY <1>1, <1>10, <1>11, Induction
  <2>2. QED
    BY <1>1, <2>1
<1>13. Below(S, n) = S
  BY <1>b
<1>14. g[n].remaining \in Nat
  BY <1>1, <1>7 DEF Walk, Quotes
<1>15. g[n].remaining = 0
  <2>1. g[n].remaining = 0 \/ g[n].remaining + h[S] <= s
    BY <1>12, <1>13
  <2>2. s <= h[S] /\ h[S] \in Nat
    BY <1>1, <1>5, <1>8, <1>9, <1>13
  <2>3. QED
    BY <1>14, <2>1, <2>2
<1>16. QED
  BY <1>7, <1>15 DEF Complete, quoteBuy

-----------------------------------------------------------------------------
\* A walk that is complete ends at its worst price.

\* A BUY that may pay a price may pay any below it.
LEMMA PricesReachDown ==
    ASSUME NEW average \in Nat, NEW p \in BuyPrices(average), NEW price \in AnyPrice, price <= p
    PROVE  price \in BuyPrices(average)
<1> DEFINE limit == average * (10000 + MaxSlippageBps)
<1>1. /\ p \in Nat /\ price \in Nat /\ MaxPriceDrift \in Nat /\ MaxSlippageBps \in Nat
      /\ p \in AnyPrice
  BY Sizes, TargetPositionAssumption DEF BuyPrices
<1>2. limit \in Int
  BY <1>1
<1>3. average = 0 \/ (p <= average + MaxPriceDrift /\ p * 10000 <= limit)
  BY DEF BuyPrices
<1> HIDE DEF limit
<1>4. average = 0 \/ (price <= average + MaxPriceDrift /\ price * 10000 <= limit)
  BY <1>1, <1>2, <1>3
<1>5. QED
  BY <1>4 DEF BuyPrices, limit

\* A level of which nothing is taken leaves the quote as it is.
LEMMA FillOrNot ==
    ASSUME NEW r \in Nat, NEW q \in Quotes(r), NEW level \in LevelSet
    PROVE  Fill(q, level) = q \/ Fill(q, level).worstPrice = level.price
<1> DEFINE fill == Lower(q.remaining, level.size)
<1>1. /\ q \in [remaining : 0..r, notional : Nat, fee : Nat, worstPrice : 0..Ticks]
      /\ level.size \in Nat /\ level.price \in AnyPrice
  BY DEF Quotes, LevelSet
<1>2. fill \in Nat
  BY <1>1 DEF Lower
<1> HIDE DEF fill
<1>3. CASE fill > 0
  BY <1>3 DEF Fill, fill
<1>4. CASE fill = 0
  <2>1. 0 * level.price * Ticks * FeeScale = 0
    <3>1. level.price \in Int /\ Ticks \in Int /\ FeeScale \in Int
      <4>1. level.price \in Nat /\ Ticks \in Nat /\ FeeScale \in Nat
        BY <1>1, Sizes
      <4>2. QED
        BY <4>1
    <3>2. QED
      BY <3>1
  <2>2. calculateTakerFee(0, level.price) = 0
    <3>1. level.price \in Int /\ FeeRate \in Int /\ Ticks - level.price \in Int
      <4>1. level.price \in Nat /\ FeeRate \in Nat /\ Ticks - level.price \in Nat
        BY <1>1, Sizes
      <4>2. QED
        BY <4>1
    <3> DEFINE left == Ticks - level.price
    <3>2. left \in Int
      BY <3>1
    <3> HIDE DEF left
    <3>3. 0 * FeeRate * level.price * left = 0
      BY <3>1, <3>2
    <3>4. QED
      BY <3>3 DEF calculateTakerFee, left
  <2>3. /\ Fill(q, level) = [remaining |-> q.remaining - 0, notional |-> q.notional + 0,
                             fee |-> q.fee + 0, worstPrice |-> q.worstPrice]
    BY <1>4, <2>1, <2>2 DEF Fill, fill
  <2>4. q.remaining - 0 = q.remaining /\ q.notional + 0 = q.notional /\ q.fee + 0 = q.fee
    BY <1>1
  <2>5. q = [remaining |-> q.remaining, notional |-> q.notional,
             fee |-> q.fee, worstPrice |-> q.worstPrice]
    BY <1>1
  <2>6. QED
    BY <2>3, <2>4, <2>5
<1>5. QED
  BY <1>2, <1>3, <1>4

\* Along sorted asks the worst price is allowed, and is that of the last level taken.
LEMMA WorstIsLast ==
    ASSUME NEW r \in Nat, NEW book \in Books, NEW allowed, NEW g, Walk(g, r, book.asks, allowed)
    PROVE  \A i \in 0..Len(book.asks) :
              /\ g[i].worstPrice \in allowed \cup {0}
              /\ g[i].worstPrice <= g[Len(book.asks)].worstPrice
<1> DEFINE levels == book.asks
           n == Len(levels)
           w(i) == g[i].worstPrice
<1>1. /\ n \in Nat /\ levels \in Seq(LevelSet) /\ \A i \in 1..n : levels[i] \in LevelSet
      /\ DOMAIN levels = 1..n
  <2>1. levels \in Seq(LevelSet)
    BY BookTypes
  <2>2. QED
    BY <2>1
<1>2. \A i \in 1..n : levels[i].price \in Nat
  BY <1>1, Sizes DEF LevelSet
<1>3. \A i, j \in 1..n : i < j => levels[i].price <= levels[j].price
  BY <1>1, RebalanceAssumption DEF BestFirst
<1>4. /\ g[0] = Asked(r) /\ \A i \in 0..n : g[i] \in Quotes(r)
      /\ \A i \in 1..n : g[i] = Taken(g[i - 1], levels[i], allowed)
  BY DEF Walk
<1>5. \A i \in 0..n : w(i) \in 0..Ticks
  BY <1>4 DEF Quotes
<1>6. ASSUME NEW i \in 1..n
      PROVE  g[i] = g[i - 1] \/ (w(i) = levels[i].price /\ levels[i].price \in allowed)
  <2>1. i - 1 \in 0..n
    BY <1>1
  <2>2. g[i - 1] \in Quotes(r) /\ levels[i] \in LevelSet
    BY <1>1, <1>4, <2>1
  <2>3. Fill(g[i - 1], levels[i]) = g[i - 1] \/ Fill(g[i - 1], levels[i]).worstPrice = levels[i].price
    BY <2>2, FillOrNot
  <2>4. QED
    BY <1>4, <2>3 DEF Taken
<1> HIDE DEF levels, n
<1>7. 0 \in 0..n /\ n \in 0..n
  BY <1>1
<1> DEFINE A == {i \in 0..n : w(i) \in allowed \cup {0} /\ \A j \in 1..n : i < j => w(i) <= levels[j].price}
<1>8. 0 \in A
  <2>1. w(0) = 0
    BY <1>4 DEF Asked
  <2>2. QED
    BY <1>2, <1>7, <2>1
<1>9. ASSUME NEW i \in 1..n, i - 1 \in A PROVE i \in A /\ w(i - 1) <= w(i)
  <2>1. i \in 0..n /\ i - 1 \in 0..n /\ i - 1 < i /\ i \in Nat
    BY <1>1
  <2>2. /\ w(i - 1) \in allowed \cup {0} /\ \A j \in 1..n : i - 1 < j => w(i - 1) <= levels[j].price
    BY <1>9
  <2>3. CASE g[i] = g[i - 1]
    <3>1. \A j \in 1..n : i < j => i - 1 < j
      BY <1>1, <2>1
    <3>2. w(i - 1) <= w(i)
      BY <1>5, <2>1, <2>3
    <3>3. QED
      BY <2>1, <2>2, <2>3, <3>1, <3>2
  <2>4. CASE w(i) = levels[i].price /\ levels[i].price \in allowed
    <3>1. \A j \in 1..n : i < j => w(i) <= levels[j].price
      BY <1>3, <2>4
    <3>2. w(i - 1) <= w(i)
      BY <2>1, <2>2, <2>4
    <3>3. QED
      BY <2>1, <2>4, <3>1, <3>2
  <2>5. QED
    BY <1>6, <2>3, <2>4
<1>10. 0..n \subseteq A
  <2>1. \A i \in 1..n : i - 1 \in A => i \in A
    BY <1>9
  <2> HIDE DEF A
  <2>2. QED
    BY <1>1, <1>8, <2>1, Induction
<1>11. \A i \in 1..n : w(i - 1) <= w(i)
  <2> SUFFICES ASSUME NEW i \in 1..n PROVE w(i - 1) <= w(i)
    OBVIOUS
  <2>1. i - 1 \in 0..n
    BY <1>1
  <2>2. QED
    BY <1>9, <1>10, <2>1
<1> DEFINE B == {k \in 0..n : w(n - k) <= w(n)}
<1>12. 0 \in B
  <2>1. n - 0 = n /\ w(n) <= w(n)
    BY <1>1, <1>5, <1>7
  <2>2. QED
    BY <1>7, <2>1
<1>13. ASSUME NEW k \in 1..n, k - 1 \in B PROVE k \in B
  <2>1. k \in 0..n /\ n - (k - 1) \in 1..n /\ n - (k - 1) - 1 = n - k /\ n - k \in 0..n
        /\ n - (k - 1) \in 0..n
    BY <1>1
  <2>2. w(n - k) <= w(n - (k - 1))
    BY <1>11, <2>1
  <2>3. w(n - (k - 1)) <= w(n)
    BY <1>13
  <2>4. w(n - k) \in Int /\ w(n - (k - 1)) \in Int /\ w(n) \in Int
    BY <1>5, <1>7, <2>1
  <2>5. w(n - k) <= w(n)
    BY <2>2, <2>3, <2>4
  <2>6. QED
    BY <2>1, <2>5
<1>14. 0..n \subseteq B
  <2> HIDE DEF B
  <2>1. QED
    BY <1>1, <1>12, <1>13, Induction
<1>15. ASSUME NEW i \in 0..n PROVE w(i) \in allowed \cup {0} /\ w(i) <= w(n)
  <2>1. n - i \in 0..n /\ n - (n - i) = i
    BY <1>1
  <2>2. n - i \in B
    BY <1>14, <2>1
  <2>3. QED
    BY <1>10, <2>1, <2>2
<1>16. QED
  BY <1>15 DEF n, levels

\* A quote within the price limit is the quote up to its own worst price.
LEMMA QuoteToWorst ==
    ASSUME NEW r \in Nat, NEW book \in Books, NEW average \in Nat
    PROVE  LET q == quoteBuy(book, r, BuyPrices(average))
           IN  quoteBuy(book, r, 1..q.worstPrice) = q
<1> DEFINE levels == book.asks
           n == Len(levels)
           allowed == BuyPrices(average)
<1>1. /\ n \in Nat /\ levels \in Seq(LevelSet) /\ \A i \in 1..n : levels[i] \in LevelSet
  <2>1. levels \in Seq(LevelSet)
    BY BookTypes
  <2>2. QED
    BY <2>1
<1> HIDE DEF allowed
<1>2. PICK g : Walk(g, r, levels, allowed) /\ quoteLevels(r, levels, allowed) = g[n]
  BY <1>1, QuoteWalks
<1> DEFINE w == g[n].worstPrice
<1> HIDE DEF w
<1>3. PICK h : Walk(h, r, levels, 1..w) /\ quoteLevels(r, levels, 1..w) = h[n]
  BY <1>1, QuoteWalks
<1>4. \A i \in 0..n : g[i].worstPrice \in allowed \cup {0} /\ g[i].worstPrice <= w
  BY <1>2, WorstIsLast DEF w
<1>5. 0 \in 0..n /\ n \in 0..n
  BY <1>1
<1>6. w \in Nat /\ w \in allowed \cup {0}
  <2>1. g[n] \in Quotes(r)
    BY <1>2, <1>5 DEF Walk
  <2>2. w \in 0..Ticks
    BY <2>1 DEF Quotes, w
  <2>3. QED
    BY <1>4, <1>5, <2>2, Sizes DEF w
<1> DEFINE A == {i \in 0..n : g[i] = h[i]}
<1>7. 0 \in A
  BY <1>2, <1>3, <1>5 DEF Walk
<1>8. ASSUME NEW i \in 1..n, i - 1 \in A PROVE i \in A
  <2> DEFINE q == g[i - 1]
             level == levels[i]
  <2>1. i - 1 \in 0..n /\ i \in 0..n
    BY <1>1
  <2>2. /\ q \in Quotes(r) /\ h[i - 1] = q
        /\ g[i] = Taken(q, level, allowed) /\ h[i] = Taken(q, level, 1..w)
    BY <1>2, <1>3, <1>8, <2>1 DEF Walk
  <2>3. level \in LevelSet /\ level.price \in AnyPrice /\ level.price \in Nat /\ level.price > 0
    BY <1>1, Sizes DEF LevelSet
  <2>4. g[i].worstPrice <= w
    BY <1>4, <2>1
  <2> HIDE DEF q, level
  <2>5. CASE level.price \in allowed /\ level.price \in 1..w
    BY <2>1, <2>2, <2>5 DEF Taken
  <2>6. CASE level.price \notin allowed /\ level.price \notin 1..w
    BY <2>1, <2>2, <2>6 DEF Taken
  <2>7. CASE level.price \in allowed /\ level.price \notin 1..w
    <3>1. level.price > w
      BY <1>6, <2>3, <2>7
    <3>2. Fill(q, level) = q \/ Fill(q, level).worstPrice = level.price
      BY <2>2, <2>3, FillOrNot
    <3>3. g[i] = Fill(q, level) /\ h[i] = q
      BY <2>2, <2>7 DEF Taken
    <3>4. g[i].worstPrice # level.price
      BY <1>6, <2>3, <2>4, <3>1
    <3>5. QED
      BY <2>1, <3>2, <3>3, <3>4
  <2>8. CASE level.price \notin allowed /\ level.price \in 1..w
    <3>1. w # 0 /\ level.price <= w
      BY <1>6, <2>8
    <3>2. w \in BuyPrices(average)
      BY <1>6, <3>1 DEF allowed
    <3>3. level.price \in BuyPrices(average)
      BY <2>3, <3>1, <3>2, PricesReachDown
    <3>4. QED
      BY <2>8, <3>3 DEF allowed
  <2>9. QED
    BY <2>5, <2>6, <2>7, <2>8
<1>9. n \in A
  <2> HIDE DEF A, n
  <2>1. 0..n \subseteq A
    BY <1>1, <1>7, <1>8, Induction
  <2>2. QED
    BY <1>5, <2>1
<1>10. g[n] = h[n]
  BY <1>9
<1>11. QED
  BY <1>2, <1>3, <1>10 DEF quoteBuy, w, allowed

-----------------------------------------------------------------------------
\* The shares that the money of a BUY pays for, and the order that is planned.

\* The money of a BUY pays for no more than the shares it was quoted for.
LEMMA SharesWithinQuote ==
    ASSUME NEW r \in Nat, r > 0, NEW book \in Books, NEW average \in Nat,
           Complete(quoteBuy(book, r, BuyPrices(average)))
    PROVE  LET q == quoteBuy(book, r, BuyPrices(average))
           IN  /\ SharesFor(book, TotalDebit(q), q.worstPrice) \in Nat
               /\ SharesFor(book, TotalDebit(q), q.worstPrice) <= r
<1> DEFINE q == quoteBuy(book, r, BuyPrices(average))
           w == q.worstPrice
           amount == TotalDebit(q)
           debit(s) == TotalDebit(quoteBuy(book, s, 1..w))
           depth == Depth(book, w)
           Debit == [s \in 0..depth |-> debit(s)]
           A == {s \in 0..depth : Debit[s] <= amount}
<1>1. book.asks \in Seq(LevelSet)
  BY BookTypes
<1>2. q \in Quotes(r)
  BY <1>1, QuoteTypes DEF quoteBuy
<1>3. w \in 1..Ticks /\ amount \in Nat \ {0}
  <2> HIDE DEF q
  <2>1. QED
    BY <1>2, CompleteQuote DEF q
<1>4. quoteBuy(book, r, 1..w) = q
  BY QuoteToWorst
<1>5. depth \in Nat
  BY DepthType
<1>6. SharesFor(book, amount, w) = IF Debit[depth] < amount THEN 0 ELSE Max(A)
  BY DEF SharesFor, Depth
<1>7. debit(r) = amount
  BY <1>4
<1> HIDE DEF q, w, amount, depth
<1>8. SharesFor(book, amount, w) \in Nat
  BY <1>3, SharesType
<1>9. \A s \in Nat : debit(s) \in Nat
  <2> SUFFICES ASSUME NEW s \in Nat PROVE debit(s) \in Nat
    OBVIOUS
  <2>1. quoteBuy(book, s, 1..w) \in Quotes(s)
    BY <1>1, QuoteTypes DEF quoteBuy
  <2>2. QED
    BY <2>1 DEF Quotes, TotalDebit
<1>10. ASSUME NEW s \in A PROVE s <= r
  <2>1. s \in Nat /\ s \in 0..depth /\ s <= depth
    BY <1>5
  <2>2. debit(s) <= amount
    BY <1>10, <2>1
  <2>3. SUFFICES ASSUME r < s PROVE FALSE
    BY <2>1
  <2>4. Complete(quoteBuy(book, s, 1..w))
    <3>1. w \in 0..Ticks
      BY <1>3, Sizes
    <3>2. s <= Depth(book, w)
      BY <2>1 DEF depth
    <3>3. QED
      BY <2>1, <3>1, <3>2, DepthIsEnough
  <2>5. debit(r) < debit(s)
    BY <1>1, <2>1, <2>3, <2>4, MoreCostsMore DEF quoteBuy
  <2>6. QED
    BY <1>3, <1>7, <1>9, <2>1, <2>2, <2>5
<1>11. CASE Debit[depth] < amount
  BY <1>6, <1>8, <1>11 DEF q, w, amount
<1>12. CASE ~(Debit[depth] < amount)
  <2>1. 0 \in A
    <3>1. quoteBuy(book, 0, 1..w) \in Quotes(0)
      BY <1>1, QuoteTypes DEF quoteBuy
    <3>2. debit(0) = 0
      BY <3>1 DEF Quotes, TotalDebit
    <3>3. Debit[0] = 0 /\ 0 \in 0..depth
      BY <1>5, <3>2
    <3>4. QED
      BY <1>3, <3>3
  <2>2. Max(A) \in A
    <3>1. A \in SUBSET (0..depth) /\ A # {}
      BY <2>1
    <3> HIDE DEF A
    <3>2. QED
      BY <1>5, <3>1, MaxExists
  <2>3. Max(A) <= r
    <3> HIDE DEF A
    <3>1. QED
      BY <1>10, <2>2
  <2>4. QED
    BY <1>6, <1>8, <1>12, <2>3 DEF q, w, amount
<1>13. QED
  BY <1>11, <1>12

\* One of the numbers of a sum is no more than the sum.
LEMMA SumHolds ==
    ASSUME NEW S, IsFiniteSet(S), NEW c \in [S -> Nat], NEW x \in S
    PROVE  c[x] <= SumOf(c, S)
<1>1. PICK h : Summed(h, c, S) /\ SumOf(c, S) = h[S]
  BY SumOfSet
<1>2. Takes(h, c, S)
  BY <1>1, SumTakes
<1>3. h[S] = c[x] + h[S \ {x}] /\ h[S \ {x}] \in Nat
  BY <1>2 DEF Takes
<1>4. QED
  BY <1>1, <1>3

\* What a plan orders is one of the decisions that act.
Decided(input, deltas) ==
    {BuyOrder(t, BuyQuote(input, t, deltas[t])) :
        t \in {u \in Tokens : deltas[u] > 0 /\ Buys(input, u, deltas[u])}}
    \cup
    {SellOrder(t, -deltas[t], SellQuote(input, t, SellSize(input, t, deltas[t]))) :
        t \in {u \in Tokens : ~(deltas[u] > 0) /\ Sells(input, u, deltas[u])}}

\* The first order of a plan is none, or one of these.
LEMMA PlansAreDecided ==
    ASSUME NEW input, \A t \in Tokens : Deltas(input)[t] \in Int
    PROVE  First(buildReconciliationPlan(input)) \in Decided(input, Deltas(input)) \cup {NoOrder}
<1> DEFINE deltas == Deltas(input)
           Good == Decided(input, deltas)
<1>1. Epsilon \in Nat
  BY TargetPositionAssumption
<1> HIDE DEF deltas
<1>2. \A t \in Tokens : deltas[t] \in Int
  BY DEF deltas
<1>3. ASSUME NEW t \in Tokens
      PROVE  /\ Buys(input, t, deltas[t]) => deltas[t] > 0
             /\ Sells(input, t, deltas[t]) => ~(deltas[t] > 0)
  BY <1>1, <1>2 DEF Buys, Sells
<1>4. \A t \in Tokens :
         /\ deltas[t] > 0 /\ (Buys(input, t, deltas[t]) \/ Sells(input, t, deltas[t])) =>
              BuyOrder(t, BuyQuote(input, t, deltas[t])) \in Good
         /\ ~(deltas[t] > 0) /\ (Buys(input, t, deltas[t]) \/ Sells(input, t, deltas[t])) =>
              SellOrder(t, -deltas[t],
                        SellQuote(input, t, SellSize(input, t, deltas[t]))) \in Good
  BY <1>3 DEF Decided
<1> HIDE DEF Good
<1>5. Actionable(input, deltas) \in Seq(Good)
  BY <1>4, PlanTypes
<1>6. QED
  BY <1>5 DEF First, buildReconciliationPlan, deltas, Good

-----------------------------------------------------------------------------
\* A BUY is within the risk.

\* A BUY that a plan decides on, with what its token has and wants.
LEMMA BuyIsDecided ==
    ASSUME TypeOK, NEW snapshot \in [Tokens -> LeaderPositions], NEW missing,
           NEW o, o = First(buildReconciliationPlan(Input(snapshot, missing))), o.side = "BUY"
    PROVE  LET input == Input(snapshot, missing)
               raw   == RawTargets(input)
               scale == solveCapScale(raw, input.books, calculateAvailableRisk(loss))
               t     == o.token
               delta == raw[t] * scale - (held[t] + resting[t])
           IN  /\ t \in Tokens /\ delta \in Nat /\ delta > Epsilon
               /\ t \in DOMAIN input.books
               /\ Complete(BuyQuote(input, t, delta)) /\ o = BuyOrder(t, BuyQuote(input, t, delta))
<1> DEFINE input == Input(snapshot, missing)
           raw == RawTargets(input)
           scale == solveCapScale(raw, input.books, calculateAvailableRisk(loss))
           deltas == Deltas(input)
<1>1. \A t \in Tokens : deltas[t] \in Int /\ deltas[t] = raw[t] * scale - (held[t] + resting[t])
  <2>1. input.held = held /\ input.resting = resting /\ input.loss = loss
    BY DEF Input
  <2> SUFFICES ASSUME NEW t \in Tokens
               PROVE  /\ deltas[t] \in Int
                      /\ deltas[t] = raw[t] * scale - (held[t] + resting[t])
    OBVIOUS
  <2>2. deltas[t] \in Int
    BY DeltaTypes
  <2> HIDE DEF input
  <2>3. deltas[t] = raw[t] * scale - (held[t] + resting[t])
    BY <2>1 DEF Deltas, effectiveSize
  <2>4. QED
    BY <2>2, <2>3
<1> HIDE DEF input, deltas, raw, scale
<1>2. o \in Decided(input, deltas) \cup {NoOrder}
  <2>1. \A t \in Tokens : Deltas(input)[t] \in Int
    BY <1>1 DEF deltas
  <2>2. First(buildReconciliationPlan(input)) \in Decided(input, Deltas(input)) \cup {NoOrder}
    BY <2>1, PlansAreDecided
  <2>3. QED
    BY <2>2 DEF deltas, input
<1>3. o # NoOrder
  BY Sides
<1>4. PICK t \in Tokens : /\ deltas[t] > 0 /\ Buys(input, t, deltas[t])
                          /\ o = BuyOrder(t, BuyQuote(input, t, deltas[t]))
  BY <1>2, <1>3 DEF Decided, SellOrder
<1>5. o.token = t
  BY <1>4 DEF BuyOrder
<1>6. /\ t \in Tokens /\ deltas[t] \in Nat /\ deltas[t] > Epsilon /\ t \in DOMAIN input.books
      /\ Complete(BuyQuote(input, t, deltas[t])) /\ o = BuyOrder(t, BuyQuote(input, t, deltas[t]))
  BY <1>1, <1>4 DEF Buys
<1>7. deltas[t] = raw[t] * scale - (held[t] + resting[t])
  BY <1>1
<1>8. QED
  BY <1>5, <1>6, <1>7 DEF input, raw, scale

\* What is copied from a snapshot, and the books of a cycle, have their types.
LEMMA InputTypes ==
    ASSUME TypeOK, NEW snapshot \in [Tokens -> LeaderPositions], NEW missing
    PROVE  LET input == Input(snapshot, missing)
           IN  /\ AreTargets(RawTargets(input)) /\ AreBooks(input.books)
               /\ \A t \in DOMAIN input.books : t \in Tokens /\ input.books[t] = market[t]
               /\ input.leader = snapshot
<1> DEFINE input == Input(snapshot, missing)
<1>1. /\ input.leader = snapshot
      /\ \A t \in DOMAIN input.books : t \in Tokens /\ input.books[t] = market[t]
  BY DEF Input
<1> HIDE DEF input
<1>2. AreBooks(input.books)
  BY <1>1 DEF AreBooks, TypeOK
<1>3. AreTargets(RawTargets(input))
  <2>1. \A t \in Tokens : snapshot[t].size \in Nat
    BY RebalanceAssumption
  <2>2. CopyRatio \in Nat
    BY TargetPositionAssumption
  <2>3. \A t \in Tokens : snapshot[t].size * CopyRatio \in Nat
    BY <2>1, <2>2, Products
  <2>4. QED
    BY <1>1, <2>3 DEF AreTargets, RawTargets
<1>4. QED
  BY <1>1, <1>2, <1>3 DEF input

\* A target that fits costs no more than is available.
LEMMA TargetFits ==
    ASSUME NEW k \in Nat, NEW raw, AreTargets(raw), NEW books, AreBooks(books),
           NEW available \in Int, Fits(k, raw, books, available), NEW t \in Wanted(k, raw)
    PROVE  /\ Complete(quoteBuy(books[t], raw[t] * k, AnyPrice))
           /\ TotalDebit(quoteBuy(books[t], raw[t] * k, AnyPrice)) <= available
<1> DEFINE W == Wanted(k, raw)
           c == Costs(k, raw, books)
<1>1. Covers(k, raw, books)
  BY EstimateIsSum DEF Fits, Within
<1>2. c \in [W -> Nat]
  BY <1>1, CostTypes DEF Covers
<1>3. IsFiniteSet(W)
  BY TokensFinite, FS_Subset DEF Wanted
<1>4. estimateTargetRisk(k, raw, books) = SumOf(c, W)
  BY <1>1, EstimateIsSum
<1>5. SumOf(c, W) <= available
  BY <1>4 DEF Fits, Within
<1>6. c[t] = TotalDebit(quoteBuy(books[t], raw[t] * k, AnyPrice))
  BY DEF Costs
<1> HIDE DEF W, c
<1>7. t \in W
  BY DEF W
<1>8. c[t] <= SumOf(c, W) /\ c[t] \in Nat /\ SumOf(c, W) \in Nat
  BY <1>2, <1>3, <1>7, SumHolds, SumOfSet
<1>9. c[t] <= available
  BY <1>5, <1>8
<1>10. QED
  BY <1>1, <1>6, <1>9 DEF Covers

\* A BUY is for no more shares than its token lacks of its target, the target fits,
\* and no token of it costs more than all of them do.
LEMMA PlannedBuyWithinRisk ==
    ASSUME TypeOK, NEW snapshot \in [Tokens -> LeaderPositions], NEW missing,
           NEW o, o = First(buildReconciliationPlan(Input(snapshot, missing))), o.side = "BUY",
           held[o.token] + resting[o.token] >= 0
    PROVE  LET t == o.token
               shares == SharesFor(market[t], o.amount, o.worstPrice)
           IN  TotalDebit(quoteBuy(market[t], held[t] + resting[t] + shares, AnyPrice))
                  <= Lower(MaxOpenDebit, MaxEventLoss - loss)
<1> DEFINE input == Input(snapshot, missing)
           raw == RawTargets(input)
           available == calculateAvailableRisk(loss)
           scale == solveCapScale(raw, input.books, available)
           t == o.token
           eff == held[t] + resting[t]
           target == raw[t] * scale
           delta == target - eff
           q == BuyQuote(input, t, delta)
           shares == SharesFor(market[t], o.amount, o.worstPrice)
           debit(s) == TotalDebit(quoteBuy(market[t], s, AnyPrice))
<1>1. /\ t \in Tokens /\ delta \in Nat /\ delta > Epsilon /\ t \in DOMAIN input.books
      /\ Complete(q) /\ o = BuyOrder(t, q)
  BY BuyIsDecided
<1>2. /\ AreTargets(raw) /\ AreBooks(input.books) /\ input.books[t] = market[t]
      /\ market[t] \in Books /\ input.leader = snapshot
  BY <1>1, InputTypes DEF TypeOK
<1>3. available \in Int
  BY TargetPositionAssumption DEF calculateAvailableRisk, Lower, Higher, TypeOK
<1>4. scale \in 0..Grid /\ (scale = 0 \/ Fits(scale, raw, input.books, available))
  BY ScaleFits
<1>5. q = quoteBuy(market[t], delta, BuyPrices(snapshot[t].avgPrice))
  BY <1>2 DEF BuyQuote
<1> HIDE DEF input, raw, available, scale
<1>6. Epsilon \in Nat /\ scale \in Nat /\ raw[t] \in Nat
  <2>1. Grid \in Nat /\ Epsilon \in Nat
    BY GridType, TargetPositionAssumption
  <2>2. QED
    BY <1>1, <1>2, <1>4, <2>1 DEF AreTargets
<1>7. target \in Nat
  BY <1>6, Products
<1>8. eff \in Nat
  <2>1. held[t] \in Nat /\ resting[t] \in OwnOrders \cup {0}
    BY <1>1 DEF TypeOK
  <2>2. \A own \in OwnOrders : own \in Int
    BY RebalanceAssumption
  <2> HIDE DEF t
  <2>3. resting[t] \in Int
    BY <2>1, <2>2
  <2>4. held[t] + resting[t] >= 0
    BY DEF t
  <2>5. QED
    BY <2>1, <2>3, <2>4
<1>9. scale # 0
  <2>1. scale = 0 => target = 0
    BY <1>6
  <2> HIDE DEF target
  <2>2. QED
    BY <1>1, <1>6, <1>7, <1>8, <2>1
<1>10. t \in Wanted(scale, raw)
  <2>1. target > Epsilon
    <3> HIDE DEF target, eff
    <3>1. QED
      BY <1>1, <1>6, <1>7, <1>8
  <2>2. QED
    BY <1>1, <2>1 DEF Wanted
<1>11. /\ Complete(quoteBuy(market[t], target, AnyPrice)) /\ debit(target) <= available
  <2>1. Fits(scale, raw, input.books, available)
    BY <1>4, <1>9
  <2>2. QED
    BY <1>2, <1>3, <1>6, <1>10, <2>1, TargetFits
<1>12. market[t].asks \in Seq(LevelSet)
  BY <1>2, BookTypes
<1> HIDE DEF target, eff
<1>13. debit(target) \in Nat /\ debit(target) > 0
  <2>1. quoteBuy(market[t], target, AnyPrice) \in Quotes(target)
    BY <1>7, <1>12, QuoteTypes DEF quoteBuy
  <2>2. target > 0
    BY <1>1, <1>6, <1>7, <1>8
  <2>3. debit(target) \in Nat \ {0}
    BY <1>7, <1>11, <2>1, <2>2, CompleteQuote
  <2> HIDE DEF debit
  <2>4. QED
    BY <2>3
<1>14. available <= Lower(MaxOpenDebit, MaxEventLoss - loss)
  <2>1. MaxOpenDebit \in Nat /\ MaxEventLoss \in Nat /\ loss \in Nat
    BY TargetPositionAssumption DEF TypeOK
  <2>2. available > 0
    BY <1>3, <1>11, <1>13
  <2>3. QED
    BY <2>1, <2>2 DEF available, calculateAvailableRisk, Lower, Higher
<1>15. shares \in Nat /\ shares <= delta
  <2> DEFINE average == snapshot[t].avgPrice
  <2>1. average \in Nat
    BY <1>1, RebalanceAssumption
  <2>2. o.amount = TotalDebit(q) /\ o.worstPrice = q.worstPrice
    BY <1>1 DEF BuyOrder
  <2> HIDE DEF average
  <2>3. q = quoteBuy(market[t], delta, BuyPrices(average))
    BY <1>5 DEF average
  <2> HIDE DEF q, delta
  <2>4. delta > 0 /\ delta \in Nat
    BY <1>1, <1>6
  <2>5. QED
    BY <1>1, <1>2, <2>1, <2>2, <2>3, <2>4, SharesWithinQuote
<1> HIDE DEF shares
<1>16. eff + shares \in Nat /\ eff + shares <= target
  BY <1>7, <1>8, <1>15
<1>17. debit(eff + shares) \in Nat /\ debit(eff + shares) <= debit(target)
  BY <1>7, <1>11, <1>12, <1>16, CompleteGrows DEF quoteBuy
<1>18. debit(eff + shares) <= Lower(MaxOpenDebit, MaxEventLoss - loss)
  <2>1. Lower(MaxOpenDebit, MaxEventLoss - loss) \in Int
    BY TargetPositionAssumption DEF TypeOK, Lower
  <2> HIDE DEF debit
  <2>2. QED
    BY <1>3, <1>11, <1>13, <1>14, <1>17, <2>1
<1>19. QED
  BY <1>18 DEF shares, eff

\* No BUY is planned for a position that would cost more than the cap and what losses
\* have left, with its own order in the book counted (buildReconciliationPlan): the
\* shares that its money pays for are those that were quoted, up to the worst price.
THEOREM BuysStayWithinRisk == Spec => BuyWithinRisk
<1>1. ASSUME RInv, [Next]_vars, order' # order, order'.side = "BUY",
             held[order'.token] + resting[order'.token] >= 0
      PROVE  LET t      == order'.token
                 shares == SharesFor(market[t], order'.amount, order'.worstPrice)
             IN  TotalDebit(quoteBuy(market[t], held[t] + resting[t] + shares, AnyPrice))
                     <= Lower(MaxOpenDebit, MaxEventLoss - loss)
  <2>1. Cycles
    <3>1. order' # NoOrder
      BY <1>1, Sides
    <3>2. QED
      BY <1>1, <3>1 DEF Next, vars, Cycles, LeaderMoves, MarketMoves, BuyingEnds, Placed,
                        Cancelled, OwnOrderFills, Act, Hold
  <2>2. PICK snapshot \in [Tokens -> LeaderPositions],
             missing \in {{}} \cup {{t} : t \in Tokens} : Plan(snapshot, missing)
    BY <1>1, <2>1, CyclePlans
  <2>3. order' = First(buildReconciliationPlan(Input(snapshot, missing)))
    BY <2>2 DEF Plan
  <2>4. QED
    BY <1>1, <2>3, PlannedBuyWithinRisk DEF RInv
<1>2. QED
  BY <1>1, RInvariance, PTL DEF Spec, BuyWithinRisk

-----------------------------------------------------------------------------
\* The scale follows what is available.

\* Less available, or less that fits, never gives a larger scale: of two bisections
\* the intervals are the same until one goes up and the other down, and then the
\* one has left the other behind.
LEMMA ScaleFollowsCap ==
    ASSUME NEW raw, NEW books, NEW available, NEW books2, NEW available2,
           \A k \in 0..Grid : Fits(k, raw, books2, available2) => Fits(k, raw, books, available)
    PROVE  solveCapScale(raw, books2, available2) <= solveCapScale(raw, books, available)
<1> DEFINE scale == solveCapScale(raw, books, available)
           scale2 == solveCapScale(raw, books2, available2)
           In == Intervals(raw, books, available)
           In2 == Intervals(raw, books2, available2)
<1>1. Grid \in Nat /\ Grid \in 0..Grid /\ Bits \in Nat /\ Bits \in 0..Bits /\ 0 \in 0..Bits
  BY GridType, TargetPositionAssumption
<1>2. scale \in 0..Grid /\ scale2 \in 0..Grid
  BY ScaleFits
<1>3. PICK g : /\ Bisection(g, raw, books, available)
               /\ scale = IF Fits(Grid, raw, books, available) THEN Grid ELSE g[Bits].low
  BY ScaleBisects
<1>4. PICK h : /\ Bisection(h, raw, books2, available2)
               /\ scale2 = IF Fits(Grid, raw, books2, available2) THEN Grid ELSE h[Bits].low
  BY ScaleBisects
<1> HIDE DEF scale, scale2
<1>5. CASE Fits(Grid, raw, books, available)
  <2>1. scale2 <= scale
    BY <1>1, <1>2, <1>3, <1>5
  <2>2. QED
    BY <2>1 DEF scale, scale2
<1>6. CASE ~Fits(Grid, raw, books, available)
  <2> DEFINE A == {i \in 0..Bits : h[i] = g[i] \/ h[i].high <= g[i].low}
  <2>1. 0 \in A
    BY <1>1, <1>3, <1>4 DEF Bisection
  <2>2. ASSUME NEW i \in 1..Bits, i - 1 \in A PROVE i \in A
    <3>1. i - 1 \in 0..Bits /\ i \in 0..Bits
      BY <1>1
    <3> DEFINE I == g[i - 1]
               J == h[i - 1]
               m == Middle(I)
               l == Middle(J)
    <3>2. /\ I \in In /\ g[i] = Halved(I, raw, books, available)
          /\ J \in In2 /\ h[i] = Halved(J, raw, books2, available2)
      BY <1>3, <1>4, <3>1 DEF Bisection
    <3>3. J = I \/ J.high <= I.low
      BY <2>2
    <3> HIDE DEF I, J
    <3>4. /\ m \in 0..Grid /\ I.low <= m /\ l \in 0..Grid /\ l <= J.high
          /\ I.low \in 0..Grid /\ I.high \in 0..Grid /\ J.low \in 0..Grid /\ J.high \in 0..Grid
          /\ I = [low |-> I.low, high |-> I.high] /\ J = [low |-> J.low, high |-> J.high]
      BY <3>2, HalvedInside DEF Intervals
    <3>5. g[i].low = IF Fits(m, raw, books, available) THEN m ELSE I.low
      BY <3>2, <3>4 DEF Halved
    <3>6. h[i].high = IF Fits(l, raw, books2, available2) THEN J.high ELSE l
      BY <3>2, <3>4 DEF Halved
    <3>7. CASE J = I
      <4>1. CASE Fits(m, raw, books, available) <=> Fits(m, raw, books2, available2)
        <5>1. h[i] = g[i]
          BY <3>2, <3>7, <4>1 DEF Halved
        <5>2. QED
          BY <3>1, <5>1
      <4>2. CASE Fits(m, raw, books, available) /\ ~Fits(m, raw, books2, available2)
        <5>1. g[i].low = m /\ h[i].high = m
          BY <3>5, <3>6, <3>7, <4>2
        <5>2. h[i].high <= g[i].low
          BY <3>4, <5>1, GridType
        <5>3. QED
          BY <3>1, <5>2
      <4>3. QED
        BY <3>4, <4>1, <4>2
    <3>8. CASE J.high <= I.low
      <4> HIDE DEF m, l
      <4>1. I.low <= g[i].low /\ h[i].high <= J.high /\ g[i].low \in 0..Grid /\ h[i].high \in 0..Grid
        BY <3>4, <3>5, <3>6
      <4>2. h[i].high <= g[i].low
        BY <3>4, <3>8, <4>1, GridType
      <4>3. QED
        BY <3>1, <4>2
    <3>9. QED
      BY <3>3, <3>7, <3>8
  <2>3. Bits \in A
    <3> HIDE DEF A
    <3>1. 0..Bits \subseteq A
      BY <1>1, <2>1, <2>2, Induction
    <3>2. QED
      BY <1>1, <3>1
  <2>4. h[Bits] = g[Bits] \/ h[Bits].high <= g[Bits].low
    BY <2>3
  <2>5. /\ g[Bits].low \in 0..Grid /\ h[Bits].low \in 0..Grid /\ h[Bits].high \in 0..Grid
        /\ h[Bits].low <= h[Bits].high
    <3>1. g[Bits] \in In /\ h[Bits] \in In2
      BY <1>1, <1>3, <1>4 DEF Bisection
    <3>2. QED
      BY <3>1 DEF Intervals
  <2>6. ~Fits(Grid, raw, books2, available2)
    BY <1>1, <1>6
  <2>7. scale = g[Bits].low /\ scale2 = h[Bits].low
    BY <1>3, <1>4, <1>6, <2>6
  <2>8. scale2 <= scale
    BY <2>4, <2>5, <2>7, GridType
  <2>9. QED
    BY <2>8 DEF scale, scale2
<1>7. QED
  BY <1>5, <1>6

\* The books that matter are those of the tokens with a target.
LEMMA OnlyTargetsCount ==
    ASSUME NEW k \in Nat, NEW raw, AreTargets(raw), NEW books, AreBooks(books),
           NEW books2, AreBooks(books2),
           \A t \in Tokens : raw[t] > 0 =>
              t \in DOMAIN books /\ t \in DOMAIN books2 /\ books2[t] = books[t]
    PROVE  estimateTargetRisk(k, raw, books2) = estimateTargetRisk(k, raw, books)
<1> DEFINE W == Wanted(k, raw)
<1>1. \A t \in W : t \in DOMAIN books /\ t \in DOMAIN books2 /\ books2[t] = books[t]
  <2> SUFFICES ASSUME NEW t \in W PROVE t \in Tokens /\ raw[t] > 0
    OBVIOUS
  <2>1. t \in Tokens /\ raw[t] \in Nat /\ raw[t] * k > Epsilon /\ Epsilon \in Nat
    BY TargetPositionAssumption DEF Wanted, AreTargets
  <2>2. raw[t] = 0 => raw[t] * k = 0
    BY <2>1
  <2>3. QED
    BY <2>1, <2>2
<1>2. Covers(k, raw, books2) <=> Covers(k, raw, books)
  BY <1>1 DEF Covers
<1>3. Costs(k, raw, books2) = Costs(k, raw, books)
  BY <1>1 DEF Costs
<1>4. QED
  BY <1>2, <1>3, EstimateIsSum

-----------------------------------------------------------------------------
\* Targets.

\* What a cycle with all books aims at, whatever is held.
Copied(positions) == [t \in Tokens |-> positions[t].size * CopyRatio]
Scale(positions, books, lost) ==
    solveCapScale(Copied(positions), books, calculateAvailableRisk(lost))
Target(t, positions, books, lost) == Copied(positions)[t] * Scale(positions, books, lost)

\* A target needs a position of the leader.
LEMMA CopiedTypes ==
    ASSUME NEW positions \in [Tokens -> LeaderPositions]
    PROVE  /\ AreTargets(Copied(positions))
           /\ \A t \in Tokens : Copied(positions)[t] > 0 => positions[t].size > 0
<1>1. ASSUME NEW t \in Tokens
      PROVE  /\ positions[t].size * CopyRatio \in Nat
             /\ positions[t].size * CopyRatio > 0 => positions[t].size > 0
  <2>1. positions[t].size \in Nat /\ CopyRatio \in Nat
    BY RebalanceAssumption, TargetPositionAssumption
  <2>2. positions[t].size = 0 => positions[t].size * CopyRatio = 0
    BY <2>1
  <2>3. positions[t].size * CopyRatio \in Nat
    BY <2>1, Products
  <2>4. QED
    BY <2>1, <2>2, <2>3
<1>2. QED
  BY <1>1 DEF AreTargets, Copied

\* The estimate is a number.
LEMMA EstimateType ==
    ASSUME NEW k \in Nat, NEW raw, AreTargets(raw), NEW books, AreBooks(books)
    PROVE  estimateTargetRisk(k, raw, books) \in Int
<1> DEFINE W == Wanted(k, raw)
           c == Costs(k, raw, books)
<1>1. IsFiniteSet(W)
  BY TokensFinite, FS_Subset DEF Wanted
<1>2. ASSUME Covers(k, raw, books) PROVE SumOf(c, W) \in Nat
  <2>1. c \in [W -> Nat]
    BY <1>2, CostTypes DEF Covers
  <2> HIDE DEF c, W
  <2>2. QED
    BY <1>1, <2>1, SumOfSet
<1>3. QED
  BY <1>2, EstimateIsSum DEF NoQuote

\* So is the scale.
LEMMA ScaleType ==
    ASSUME NEW positions, NEW books, NEW lost
    PROVE  Scale(positions, books, lost) \in Nat
<1>1. Scale(positions, books, lost) \in 0..Grid
  BY ScaleFits DEF Scale
<1>2. QED
  BY <1>1, GridType

\* The plan's deltas are measured from these targets.
LEMMA DeltasFromTargets ==
    ASSUME TypeOK, NEW t \in Tokens
    PROVE  /\ Deltas(Input(leader, {}))[t] = Target(t, leader, market, loss) - (held[t] + resting[t])
           /\ RawTargets(Input(leader, {})) = Copied(leader)
           /\ solveCapScale(RawTargets(Input(leader, {})), Input(leader, {}).books,
                            calculateAvailableRisk(loss)) = Scale(leader, market, loss)
<1> DEFINE input == Input(leader, {})
           raw == Copied(leader)
           available == calculateAvailableRisk(loss)
           scale == Scale(leader, market, loss)
           scale2 == solveCapScale(raw, input.books, available)
<1>1. /\ input.leader = leader /\ input.held = held /\ input.resting = resting
      /\ input.loss = loss
      /\ \A u \in Tokens : leader[u].size > 0 =>
            u \in DOMAIN input.books /\ input.books[u] = market[u]
      /\ DOMAIN market = Tokens
  BY DEF Input, TypeOK
<1>2. RawTargets(input) = raw
  BY <1>1 DEF RawTargets, Copied
<1>3. AreBooks(market) /\ AreBooks(input.books)
  BY InputTypes DEF AreBooks, TypeOK
<1>4. AreTargets(raw) /\ \A u \in Tokens : raw[u] > 0 => leader[u].size > 0
  BY CopiedTypes DEF TypeOK
<1> HIDE DEF input, raw, available
<1>5. ASSUME NEW k \in 0..Grid
      PROVE  Fits(k, raw, input.books, available) <=> Fits(k, raw, market, available)
  <2>1. k \in Nat
    BY GridType
  <2>2. estimateTargetRisk(k, raw, input.books) = estimateTargetRisk(k, raw, market)
    BY <1>1, <1>3, <1>4, <2>1, OnlyTargetsCount
  <2>3. QED
    BY <2>2 DEF Fits
<1>6. scale2 <= scale /\ scale <= scale2
  BY <1>5, ScaleFollowsCap DEF Scale, raw, available
<1>7. scale2 \in Nat /\ scale \in Nat
  <2>1. scale2 \in 0..Grid
    BY ScaleFits
  <2> HIDE DEF scale2
  <2>2. QED
    BY <2>1, GridType, ScaleType
<1>8. scale2 = scale
  <2> HIDE DEF scale, scale2
  <2>1. QED
    BY <1>6, <1>7
<1>9. Deltas(input)[t] = raw[t] * scale2 - (held[t] + resting[t])
  BY <1>1, <1>2 DEF Deltas, effectiveSize, available
<1>10. QED
  BY <1>2, <1>8, <1>9 DEF Target, input, raw, available

\* A loss lowers the targets.
LEMMA TargetsFall ==
    ASSUME NEW positions \in [Tokens -> LeaderPositions], NEW books \in [Tokens -> Books],
           NEW lost \in Nat, NEW more \in Nat, lost <= more, NEW t \in Tokens
    PROVE  /\ Target(t, positions, books, lost) \in Nat /\ Target(t, positions, books, more) \in Nat
           /\ Target(t, positions, books, more) <= Target(t, positions, books, lost)
<1> DEFINE raw == Copied(positions)
           scale == Scale(positions, books, lost)
           scale2 == Scale(positions, books, more)
           a == calculateAvailableRisk(lost)
           b == calculateAvailableRisk(more)
<1>1. AreTargets(raw) /\ AreBooks(books)
  BY CopiedTypes DEF AreBooks
<1>2. a \in Int /\ b \in Int /\ b <= a
  BY TargetPositionAssumption DEF calculateAvailableRisk, Lower, Higher
<1> HIDE DEF a, b, raw
<1>3. ASSUME NEW k \in 0..Grid, Fits(k, raw, books, b) PROVE Fits(k, raw, books, a)
  <2>1. k \in Nat
    BY GridType
  <2>2. estimateTargetRisk(k, raw, books) \in Int
    BY <1>1, <2>1, EstimateType
  <2>3. QED
    BY <1>2, <1>3, <2>2 DEF Fits, Within
<1>4. scale2 <= scale
  BY <1>3, ScaleFollowsCap DEF Scale, a, b, raw
<1>5. scale \in Nat /\ scale2 \in Nat /\ raw[t] \in Nat
  BY <1>1, ScaleType DEF AreTargets
<1> HIDE DEF scale, scale2
<1>6. raw[t] * scale \in Nat /\ raw[t] * scale2 \in Nat /\ raw[t] * scale2 <= raw[t] * scale
  <2>1. PICK e \in Nat : scale = scale2 + e
    <3>1. scale - scale2 \in Nat /\ scale = scale2 + (scale - scale2)
      BY <1>4, <1>5
    <3>2. QED
      BY <3>1
  <2>2. /\ raw[t] * scale = raw[t] * scale2 + raw[t] * e
        /\ raw[t] * e \in Nat /\ raw[t] * scale2 \in Nat
    BY <1>5, <2>1
  <2>3. QED
    BY <2>2
<1>7. QED
  BY <1>6 DEF Target, scale, scale2, raw

\* What was to be sold since the last move is still above its target, and stays so
\* when the order that waits is filled.
SoldHasSurplus ==
    \A t \in sold :
        /\ Target(t, leader, market, loss) <= held[t] + resting[t]
        /\ order.side = "SELL" /\ order.token = t =>
              Target(t, leader, market, loss) <= held[t] + resting[t] - order.amount

\* A plan with all books sells down to a target, and buys up to one.
LEMMA PlansReachTargets ==
    ASSUME TypeOK, NEW o, o = First(buildReconciliationPlan(Input(leader, {}))), o # NoOrder
    PROVE  LET t == o.token
               surplus == held[t] + resting[t] - Target(t, leader, market, loss)
           IN  /\ t \in Tokens /\ surplus \in Int
               /\ o.side = "SELL" => surplus >= 0 /\ o.amount = surplus
               /\ o.side = "BUY" => surplus < 0
<1> DEFINE input == Input(leader, {})
           deltas == Deltas(input)
           target(u) == Target(u, leader, market, loss)
<1>1. ASSUME NEW u \in Tokens
      PROVE  /\ deltas[u] \in Int /\ deltas[u] = target(u) - (held[u] + resting[u])
             /\ target(u) \in Nat /\ held[u] \in Int /\ resting[u] \in Int
  <2>1. deltas[u] = target(u) - (held[u] + resting[u])
    BY DeltasFromTargets
  <2>2. target(u) \in Nat
    <3>1. /\ leader \in [Tokens -> LeaderPositions] /\ market \in [Tokens -> Books]
          /\ loss \in Nat /\ loss <= loss
      BY DEF TypeOK
    <3>2. QED
      BY <3>1, TargetsFall
  <2>3. held[u] \in Int /\ resting[u] \in Int
    <3>1. held[u] \in Nat /\ resting[u] \in OwnOrders \cup {0}
      BY DEF TypeOK
    <3>2. \A own \in OwnOrders : own \in Int
      BY RebalanceAssumption
    <3>3. resting[u] \in Int
      BY <3>1, <3>2
    <3>4. QED
      BY <3>1, <3>3
  <2> HIDE DEF target
  <2>4. QED
    BY <2>1, <2>2, <2>3
<1> HIDE DEF deltas, input
<1>2. o \in Decided(input, deltas)
  <2>1. \A u \in Tokens : Deltas(input)[u] \in Int
    BY <1>1 DEF deltas
  <2>2. First(buildReconciliationPlan(input)) \in Decided(input, Deltas(input)) \cup {NoOrder}
    BY <2>1, PlansAreDecided
  <2>3. QED
    BY <2>2 DEF deltas, input
<1> HIDE DEF target
<1>3. CASE \E t \in Tokens : deltas[t] > 0 /\ o = BuyOrder(t, BuyQuote(input, t, deltas[t]))
  <2>1. PICK t \in Tokens : deltas[t] > 0 /\ o = BuyOrder(t, BuyQuote(input, t, deltas[t]))
    BY <1>3
  <2>2. o.token = t /\ o.side = "BUY"
    BY <2>1 DEF BuyOrder
  <2>3. held[t] + resting[t] - target(t) \in Int /\ held[t] + resting[t] - target(t) < 0
    BY <1>1, <2>1
  <2>4. QED
    BY <2>2, <2>3 DEF target
<1>4. CASE \E t \in Tokens : /\ ~(deltas[t] > 0)
                            /\ o = SellOrder(t, -deltas[t],
                                     SellQuote(input, t, SellSize(input, t, deltas[t])))
  <2>1. PICK t \in Tokens : /\ ~(deltas[t] > 0)
                            /\ o = SellOrder(t, -deltas[t],
                                     SellQuote(input, t, SellSize(input, t, deltas[t])))
    BY <1>4
  <2>2. o.token = t /\ o.side = "SELL" /\ o.amount = -deltas[t]
    BY <2>1 DEF SellOrder
  <2>3. /\ held[t] + resting[t] - target(t) \in Int /\ held[t] + resting[t] - target(t) >= 0
        /\ -deltas[t] = held[t] + resting[t] - target(t)
    BY <1>1, <2>1
  <2>4. QED
    BY <2>2, <2>3 DEF target
<1>5. QED
  BY <1>2, <1>3, <1>4 DEF Decided

-----------------------------------------------------------------------------
\* No reversal while nothing moves.

\* At first nothing was sold.
LEMMA SoldInit == Init => SoldHasSurplus
  BY DEF Init, SoldHasSurplus

\* A cycle that plans a SELL has a surplus to sell, and it buys nothing that has one.
LEMMA ReconcileKeepsSurplus ==
    ASSUME RInv, SoldHasSurplus, Reconcile
    PROVE  SoldHasSurplus' /\ (order'.side = "BUY" => order'.token \notin sold')
<1>1. /\ order' = First(buildReconciliationPlan(Input(leader, {})))
      /\ UNCHANGED <<leader, market, held, resting, loss>>
      /\ sold' = IF order'.side = "SELL" THEN sold \cup {order'.token} ELSE sold
  BY DEF Reconcile, Plan
<1>2. TypeOK
  BY DEF RInv
<1> DEFINE target(t) == Target(t, leader, market, loss)
           target2(t) == Target(t, leader', market', loss')
           surplus(t) == held[t] + resting[t] - target(t)
<1>3. ASSUME order'.side \in {"BUY", "SELL"}
      PROVE  /\ surplus(order'.token) \in Int
             /\ order'.side = "SELL" => surplus(order'.token) >= 0
                                         /\ order'.amount = surplus(order'.token)
             /\ order'.side = "BUY" => surplus(order'.token) < 0
  <2>1. order' # NoOrder
    BY <1>3, Sides
  <2>2. QED
    BY <1>1, <1>2, <2>1, PlansReachTargets
<1>4. ASSUME NEW t \in Tokens
      PROVE  target(t) \in Int /\ held[t] \in Int /\ resting[t] \in Int
  <2>1. /\ leader \in [Tokens -> LeaderPositions] /\ market \in [Tokens -> Books]
        /\ loss \in Nat /\ loss <= loss /\ held[t] \in Nat /\ resting[t] \in OwnOrders \cup {0}
    BY <1>2 DEF TypeOK
  <2>2. target(t) \in Nat
    BY <2>1, TargetsFall
  <2>3. \A own \in OwnOrders : own \in Int
    BY RebalanceAssumption
  <2>4. resting[t] \in Int
    BY <2>1, <2>3
  <2> HIDE DEF target
  <2>5. QED
    BY <2>1, <2>2, <2>4
<1>5. sold \subseteq Tokens /\ (order'.side = "SELL" => order'.token \in Tokens)
  <2>1. order' \in Sound(leader) \cup {NoOrder}
    BY <1>1, <1>2, PlansAreSound DEF TypeOK
  <2>2. order'.side = "SELL" => order' \in Orders
    BY <2>1, Sides DEF Sound
  <2>3. QED
    BY <1>2, <2>2 DEF Orders, TypeOK
<1>6. \A t \in sold : target(t) <= held[t] + resting[t]
  BY DEF SoldHasSurplus
<1>7. \A t : target2(t) = target(t)
  BY <1>1
<1> HIDE DEF target, target2
<1>8. \A t \in Tokens : /\ surplus(t) >= 0 => target(t) <= held[t] + resting[t]
                        /\ surplus(t) < 0 => ~(target(t) <= held[t] + resting[t])
                        /\ target(t) <= held[t] + resting[t] - surplus(t)
  <2> SUFFICES ASSUME NEW t \in Tokens
               PROVE  /\ surplus(t) >= 0 => target(t) <= held[t] + resting[t]
                      /\ surplus(t) < 0 => ~(target(t) <= held[t] + resting[t])
                      /\ target(t) <= held[t] + resting[t] - surplus(t)
    OBVIOUS
  <2>1. target(t) \in Int /\ held[t] \in Int /\ resting[t] \in Int
    BY <1>4
  <2>2. surplus(t) = held[t] + resting[t] - target(t)
    OBVIOUS
  <2> HIDE DEF surplus
  <2>3. QED
    BY <2>1, <2>2
<1> HIDE DEF surplus
<1>9. ASSUME NEW t \in sold'
      PROVE  /\ target2(t) <= held'[t] + resting'[t]
             /\ order'.side = "SELL" /\ order'.token = t =>
                   target2(t) <= held'[t] + resting'[t] - order'.amount
  <2>1. t \in Tokens /\ (t \in sold \/ (order'.side = "SELL" /\ order'.token = t))
    BY <1>1, <1>5, <1>9
  <2>2. held'[t] = held[t] /\ resting'[t] = resting[t] /\ target2(t) = target(t)
    BY <1>1, <1>7
  <2>3. target(t) <= held[t] + resting[t]
    BY <1>3, <1>6, <1>8, <2>1
  <2>4. ASSUME order'.side = "SELL", order'.token = t
        PROVE  target(t) <= held[t] + resting[t] - order'.amount
    BY <1>3, <1>8, <2>1, <2>4
  <2>5. QED
    BY <2>2, <2>3, <2>4
<1>10. SoldHasSurplus'
  BY <1>9 DEF SoldHasSurplus, target2
<1>11. ASSUME order'.side = "BUY" PROVE order'.token \notin sold'
  <2>1. sold' = sold
    BY <1>1, <1>11
  <2>2. SUFFICES ASSUME order'.token \in sold PROVE FALSE
    BY <2>1
  <2> DEFINE t == order'.token
  <2>3. t \in Tokens /\ target(t) <= held[t] + resting[t] /\ surplus(t) < 0
    BY <1>3, <1>5, <1>6, <1>11, <2>2
  <2> HIDE DEF t
  <2>4. QED
    BY <1>8, <2>3
<1>12. QED
  BY <1>10, <1>11

\* The SELL leaves what is held at the target or above it, and a loss on it lowers
\* the scale and with it every target; a BUY of another token changes neither.
LEMMA ActKeepsSurplus ==
    ASSUME RInv, SoldHasSurplus, Act \/ Hold
    PROVE  SoldHasSurplus'
<1>1. order' = NoOrder /\ UNCHANGED <<leader, market, resting, sold>>
  BY DEF Act, Hold
<1>2. TypeOK
  BY DEF RInv
<1>3. loss \in Nat /\ loss' \in Nat /\ loss <= loss'
  <2>1. CASE UNCHANGED <<held, cost, loss>>
    BY <1>2, <2>1 DEF TypeOK
  <2>2. CASE order # NoOrder /\ Fills
    BY <1>2, <2>2, FillTypesOK DEF TypeOK
  <2>3. QED
    BY <2>1, <2>2 DEF Act, Hold, Fills
<1> SUFFICES ASSUME NEW t \in sold
             PROVE  Target(t, leader', market', loss') <= held'[t] + resting'[t]
  BY <1>1, Sides DEF SoldHasSurplus
<1> DEFINE before == Target(t, leader, market, loss)
           after == Target(t, leader, market, loss')
<1>4. /\ t \in Tokens /\ leader \in [Tokens -> LeaderPositions] /\ market \in [Tokens -> Books]
      /\ held \in [Tokens -> Nat] /\ resting[t] \in Int
  <2>1. t \in Tokens /\ resting[t] \in OwnOrders \cup {0}
    BY <1>2 DEF TypeOK
  <2>2. \A own \in OwnOrders : own \in Int
    BY RebalanceAssumption
  <2>3. resting[t] \in Int
    BY <2>1, <2>2
  <2>4. QED
    BY <1>2, <2>1, <2>3 DEF TypeOK
<1>5. before \in Nat /\ after \in Nat /\ after <= before
  BY <1>3, <1>4, TargetsFall
<1>6. /\ before <= held[t] + resting[t]
      /\ order.side = "SELL" /\ order.token = t => before <= held[t] + resting[t] - order.amount
  BY DEF SoldHasSurplus
<1> HIDE DEF before, after
<1>7. before <= held'[t] + resting[t]
  <2>1. CASE UNCHANGED held
    BY <1>6, <2>1
  <2>2. CASE order # NoOrder /\ BuyFills
    <3> DEFINE u == order.token
    <3>1. order \in Orders /\ u \in Tokens /\ order.amount \in Nat
      BY <1>2, <2>2 DEF TypeOK, Orders
    <3>2. PICK shares \in {SharesFor(market[u], order.amount, order.worstPrice)} :
               shares > 0 /\ Filled(u, shares)
      BY <2>2 DEF BuyFills
    <3>3. shares \in Nat
      BY <1>4, <3>1, <3>2, SharesType
    <3>4. held' = [held EXCEPT ![u] = held[u] + shares]
      BY <3>2 DEF Filled
    <3> HIDE DEF u
    <3>5. held'[t] \in Nat /\ held'[t] >= held[t] /\ held[t] \in Nat
      BY <1>4, <3>1, <3>3, <3>4
    <3>6. QED
      BY <1>4, <1>5, <1>6, <3>5
  <2>3. CASE order # NoOrder /\ SellFills
    <3> DEFINE u == order.token
    <3>1. order \in Orders /\ u \in Tokens /\ order.amount \in Nat
      BY <1>2, <2>3 DEF TypeOK, Orders
    <3>2. order.side = "SELL" /\ held' = [held EXCEPT ![u] = held[u] - order.amount]
      BY <2>3 DEF SellFills
    <3>3. held[t] \in Nat
      BY <1>4
    <3> HIDE DEF u
    <3>4. CASE t = u
      <4>1. held'[t] = held[t] - order.amount
        BY <1>4, <3>2, <3>4
      <4>2. before <= held[t] + resting[t] - order.amount
        BY <1>6, <3>2, <3>4 DEF u
      <4>3. QED
        BY <1>4, <1>5, <3>1, <3>3, <4>1, <4>2
    <3>5. CASE t # u
      <4>1. held'[t] = held[t]
        BY <1>4, <3>2, <3>5
      <4>2. QED
        BY <1>6, <4>1
    <3>6. QED
      BY <3>4, <3>5
  <2>4. QED
    BY <2>1, <2>2, <2>3 DEF Act, Hold, Kill
<1>8. held'[t] \in Int
  <2>1. held' \in [Tokens -> Nat]
    <3>1. CASE UNCHANGED held
      BY <1>4, <3>1
    <3>2. CASE order # NoOrder /\ Fills
      BY <1>2, <3>2, FillTypesOK DEF TypeOK
    <3>3. QED
      BY <3>1, <3>2 DEF Act, Hold, Fills
  <2>2. held'[t] \in Nat
    BY <1>4, <2>1
  <2>3. QED
    BY <2>2
<1>9. after <= held'[t] + resting[t]
  BY <1>4, <1>5, <1>7, <1>8
<1>10. QED
  BY <1>1, <1>9 DEF after

\* So it is with every step; the others forget what was sold.
LEMMA SurplusNext ==
    RInv /\ SoldHasSurplus /\ [Next]_vars =>
       SoldHasSurplus' /\ (order' # order /\ order'.side = "BUY" => order'.token \notin sold')
<1> SUFFICES ASSUME RInv, SoldHasSurplus, [Next]_vars
             PROVE  /\ SoldHasSurplus'
                    /\ order' # order /\ order'.side = "BUY" => order'.token \notin sold'
  OBVIOUS
<1>1. CASE sold' = {}
  BY <1>1 DEF SoldHasSurplus
<1>2. CASE Reconcile
  BY <1>2, ReconcileKeepsSurplus
<1>3. CASE Act \/ Hold
  <2>1. order' = NoOrder
    BY <1>3 DEF Act, Hold
  <2>2. QED
    BY <1>3, <2>1, ActKeepsSurplus, Sides
<1>4. CASE UNCHANGED vars
  BY <1>4 DEF vars, SoldHasSurplus
<1>5. QED
  BY <1>1, <1>2, <1>3, <1>4
  DEF Next, LeaderMoves, MarketMoves, BuyingEnds, Placed, Cancelled, OwnOrderFills,
      ReconcileGlitch, ReconcileBlind, Move

\* No churning in a quiet market, however many tokens and levels there are: what an
\* earlier cycle meant to sell has a surplus, the surplus lasts while nothing moves,
\* and what has a surplus is not bought (Reconciler.reconcile over the planner).
THEOREM QuietMeansNoReversal == Spec => NoReversalInQuietMarket
<1>1. Init => RInv /\ SoldHasSurplus
  BY RInit, SoldInit
<1>2. RInv /\ SoldHasSurplus /\ [Next]_vars => (RInv /\ SoldHasSurplus)'
  BY RNext, SurplusNext
<1>3. RInv /\ SoldHasSurplus /\ [Next]_vars =>
         (order' # order /\ order'.side = "BUY" => order'.token \notin sold')
  BY SurplusNext
<1>4. QED
  BY <1>1, <1>2, <1>3, PTL DEF Spec, NoReversalInQuietMarket

-----------------------------------------------------------------------------
\* The scale is the largest that fits.

\* A scale of nothing wants nothing and costs nothing.
LEMMA NothingFits ==
    ASSUME NEW raw, AreTargets(raw), NEW books, AreBooks(books), NEW available \in Nat
    PROVE  Fits(0, raw, books, available)
<1> DEFINE c == Costs(0, raw, books)
<1>1. Wanted(0, raw) = {}
  <2> SUFFICES ASSUME NEW t \in Tokens PROVE ~(raw[t] * 0 > Epsilon)
    BY DEF Wanted
  <2>1. raw[t] \in Nat /\ Epsilon \in Nat
    BY TargetPositionAssumption DEF AreTargets
  <2>2. raw[t] * 0 = 0
    BY <2>1
  <2>3. QED
    BY <2>1, <2>2
<1>2. Covers(0, raw, books)
  BY <1>1 DEF Covers
<1>3. SumOf(c, {}) = 0
  <2>1. c \in [{} -> Nat]
    BY <1>1, CostTypes
  <2> HIDE DEF c
  <2>2. PICK h : Summed(h, c, {}) /\ SumOf(c, {}) = h[{}]
    BY <2>1, FS_EmptySet, SumOfSet
  <2>3. h[{}] = 0
    BY <2>2 DEF Summed
  <2>4. QED
    BY <2>2, <2>3
<1>4. estimateTargetRisk(0, raw, books) = 0
  <2>1. estimateTargetRisk(0, raw, books) = SumOf(c, Wanted(0, raw))
    BY <1>2, EstimateIsSum
  <2>2. QED
    BY <1>1, <1>3, <2>1
<1>5. QED
  BY <1>4 DEF Fits, Within, NoQuote

\* In every round the upper end does not fit, and the interval is half the one before.
LEMMA ScaleIsLast ==
    ASSUME NEW raw, AreTargets(raw), NEW books, AreBooks(books), NEW available \in Nat,
           ~Fits(Grid, raw, books, available)
    PROVE  ~Fits(solveCapScale(raw, books, available) + 1, raw, books, available)
<1> DEFINE scale == solveCapScale(raw, books, available)
           In == Intervals(raw, books, available)
<1>1. Bits \in Nat /\ Grid \in Nat /\ Bits \in 0..Bits /\ 0 \in 0..Bits
  BY GridType, TargetPositionAssumption
<1>2. PICK g : Bisection(g, raw, books, available) /\ scale = g[Bits].low
  BY ScaleBisects
<1> HIDE DEF scale
<1> DEFINE A == {i \in 0..Bits : /\ g[i].high - g[i].low = Gap[i]
                                 /\ ~Fits(g[i].high, raw, books, available)}
<1>3. 0 \in A
  <2>1. g[0].low = 0 /\ g[0].high = Grid
    BY <1>2 DEF Bisection
  <2>2. QED
    BY <1>1, <2>1, Gaps
<1>4. ASSUME NEW i \in 1..Bits, i - 1 \in A PROVE i \in A
  <2> DEFINE I == g[i - 1]
             m == Middle(I)
  <2>1. i - 1 \in 0..Bits /\ i \in 0..Bits
    BY <1>1
  <2>2. I \in In /\ g[i] = Halved(I, raw, books, available)
    BY <1>2, <2>1 DEF Bisection
  <2>3. I.high - I.low = Gap[i - 1] /\ ~Fits(I.high, raw, books, available)
    BY <1>4
  <2> HIDE DEF I
  <2>4. /\ I.low \in 0..Grid /\ I.high \in 0..Grid /\ I = [low |-> I.low, high |-> I.high]
    BY <2>2 DEF Intervals
  <2>5. Gap[i - 1] = 2 * Gap[i] /\ Gap[i] \in Nat
    BY <2>1, Gaps
  <2>6. m - I.low = Gap[i] /\ I.high - m = Gap[i]
    BY <1>1, <2>3, <2>4, <2>5 DEF Middle
  <2> HIDE DEF m
  <2>7. CASE Fits(m, raw, books, available)
    <3>1. g[i].low = m /\ g[i].high = I.high
      BY <2>2, <2>4, <2>7 DEF Halved, m
    <3>2. QED
      BY <2>1, <2>3, <2>6, <3>1
  <2>8. CASE ~Fits(m, raw, books, available)
    <3>1. g[i].low = I.low /\ g[i].high = m
      BY <2>2, <2>4, <2>8 DEF Halved, m
    <3>2. QED
      BY <2>1, <2>6, <2>8, <3>1
  <2>9. QED
    BY <2>7, <2>8
<1>5. Bits \in A
  <2> HIDE DEF A
  <2>1. 0..Bits \subseteq A
    BY <1>1, <1>3, <1>4, Induction
  <2>2. QED
    BY <1>1, <2>1
<1>6. g[Bits].high - g[Bits].low = 1 /\ ~Fits(g[Bits].high, raw, books, available)
  BY <1>5, Gaps
<1>7. g[Bits].low \in 0..Grid /\ g[Bits].high \in 0..Grid
  BY <1>1, <1>2 DEF Bisection, Intervals
<1>8. g[Bits].high = scale + 1
  BY <1>1, <1>2, <1>6, <1>7
<1>9. QED
  BY <1>6, <1>8 DEF scale

\* The scale of a cycle is the largest that fits, whatever is read: the scales that
\* fit are those up to it, because the estimate rises, and the next one does not fit.
THEOREM ScaleIsLargest == Spec => []LargestScale
<1>1. RInv => LargestScale
  <2> SUFFICES ASSUME RInv PROVE LargestScale
    OBVIOUS
  <2> DEFINE input == Input(leader, {})
             raw == RawTargets(input)
             available == calculateAvailableRisk(loss)
             scale == solveCapScale(raw, input.books, available)
  <2>1. AreTargets(raw)
    <3>1. leader \in [Tokens -> LeaderPositions] /\ input.leader = leader
      BY DEF Input, RInv, TypeOK
    <3>2. raw = Copied(leader)
      BY <3>1 DEF RawTargets, Copied
    <3>3. QED
      BY <3>1, <3>2, CopiedTypes
  <2>2. AreBooks(input.books)
    BY DEF AreBooks, Input, RInv, TypeOK
  <2>3. available \in Nat
    <3>1. MaxOpenDebit \in Nat /\ MaxEventLoss \in Nat /\ loss \in Nat
      BY TargetPositionAssumption DEF RInv, TypeOK
    <3>2. QED
      BY <3>1 DEF calculateAvailableRisk, Lower, Higher
  <2> HIDE DEF input, raw, available
  <2>4. scale \in 0..Grid /\ (scale = 0 \/ Fits(scale, raw, input.books, available))
    BY ScaleFits
  <2>5. ~Fits(Grid, raw, input.books, available) =>
           ~Fits(scale + 1, raw, input.books, available)
    BY <2>1, <2>2, <2>3, ScaleIsLast
  <2>6. Fits(Grid, raw, input.books, available) => scale = Grid
    BY DEF solveCapScale
  <2> HIDE DEF scale
  <2>7. Grid \in Nat /\ available \in Int
    BY <2>3, GridType
  <2>8. ASSUME NEW k \in 0..Grid, k <= scale PROVE Fits(k, raw, input.books, available)
    <3>1. Fits(scale, raw, input.books, available)
      BY <2>1, <2>2, <2>3, <2>4, NothingFits
    <3>2. k \in Nat /\ scale \in Nat
      BY <2>4, <2>7
    <3>3. QED
      BY <2>1, <2>2, <2>7, <2>8, <3>1, <3>2, EstimateRises
  <2>9. ASSUME NEW k \in 0..Grid, ~(k <= scale) PROVE ~Fits(k, raw, input.books, available)
    <3>1. k \in Nat /\ scale + 1 \in Nat /\ scale + 1 <= k
      BY <2>4, <2>7, <2>9
    <3>2. ~Fits(Grid, raw, input.books, available)
      BY <2>6, <2>7, <2>9
    <3>3. QED
      BY <2>1, <2>2, <2>5, <2>7, <3>1, <3>2, EstimateRises
  <2>10. QED
    BY <2>8, <2>9 DEF LargestScale, input, raw, available, scale
<1>2. QED
  BY <1>1, RInvariance, PTL
=============================================================================
