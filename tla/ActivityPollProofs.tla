------------------------- MODULE ActivityPollProofs -------------------------
(***************************************************************************)
(* Proofs about ActivityPoll, for every overlap, interval, page and number *)
(* of fills, Events and faults.  The first part is about its clock: what   *)
(* the tables hold matters there only through the outcome of Poll.  The    *)
(* second is about the tables: what a poll stores, what its cursor leaves  *)
(* behind, and what a cycle has seen.  A page is cut by a sum over the     *)
(* slots before, so this part rests on facts about such sums, which are    *)
(* proved from the least counterexample among the subsets of a finite set. *)
(***************************************************************************)
EXTENDS ActivityPoll, FiniteSetTheorems, WellFoundedInduction, TLAPS

\* The part of TypeOK that the clock needs.
ClockType ==
    /\ now \in Nat /\ lastFull \in Nat /\ changedAt \in Nat
    /\ faults \in Nat /\ postponed \in Nat
    /\ lastFull <= now /\ changedAt <= now

\* A round may take the second of its sleep.
Round == IF pc \in {"asking", "discover", "cycle"} THEN 1 ELSE 0

SinceFull == now - lastFull < FullReconcile + faults + Round

\* What the cycles that activity has started may have cost the new day.
Spent == FullReconcile * postponed

\* The last cycle is no later after the change than they explain, and so is the
\* present; a cycle that activity starts is inside the interval of its last.
SinceChange ==
    event # today =>
        /\ pc \in {"loop", "sleep", "asking", "discover", "cycle"} =>
             now - changedAt < Spent + FullReconcile + faults + Round
        /\ pc \in {"loop", "sleep", "asking", "discover"} \/ (pc = "cycle" /\ why = "news") =>
             lastFull - changedAt <= Spent + faults
        /\ pc = "cycle" /\ why = "news" =>
             now - changedAt < Spent + FullReconcile + faults
        /\ pc = "cycle" /\ why # "news" => now - changedAt <= faults

IInv == ClockType /\ SinceFull /\ SinceChange

-----------------------------------------------------------------------------
LEMMA Numbers == FullReconcile \in Nat /\ FullReconcile >= 1
  BY ActivityAssumption

\* One more cycle by activity, one more interval.
LEMMA OneMoreInterval ==
    ASSUME NEW n \in Nat
    PROVE  /\ FullReconcile * n \in Nat
           /\ FullReconcile * (n + 1) = FullReconcile * n + FullReconcile
           /\ FullReconcile * (1 + n) = FullReconcile * n + FullReconcile
  BY Numbers

LEMMA InitInv == Init => IInv
  BY Numbers DEF Init, IInv, ClockType, SinceFull, SinceChange, Round

LEMMA NextInv == IInv /\ [Next]_vars => IInv'
<1> SUFFICES ASSUME IInv, [Next]_vars PROVE IInv'
  OBVIOUS
<1> USE Numbers DEF IInv, ClockType, SinceFull, SinceChange, Round
<1>0. Spent \in Nat
  BY OneMoreInterval DEF Spent
<1>1. ASSUME NEW e \in EventIds, LeaderTrades(e) PROVE IInv'
  BY <1>1, <1>0 DEF LeaderTrades, loop, history, Spent
<1>2. ASSUME NEW slot \in Slots, Appears(slot) PROVE IInv'
  BY <1>2, <1>0 DEF Appears, loop, Spent
<1>3. CASE DayChanges
  <2>1. Spent' = 0
    BY <1>3 DEF DayChanges, Spent
  <2> QED
    BY <1>3, <2>1 DEF DayChanges, loop
<1>4. CASE TimeIsLost
  BY <1>4, <1>0 DEF TimeIsLost, Fault, loop, history, Spent
<1>5. CASE Ask
  BY <1>5, <1>0 DEF Ask, history, Spent
<1>6. CASE Poll
  <2>1. /\ pc = "asking"
        /\ pc' \in {"sleep", "discover", "cycle"}
        /\ pc' \in {"sleep", "cycle"} => now - lastFull < FullReconcile
        /\ pc' = "cycle" => why' = "news"
        /\ UNCHANGED <<now, today, event, lastFull, faults, changedAt, postponed>>
    BY <1>6 DEF Poll, IsNews, fullDue
  <2>2. Spent' = Spent
    BY <2>1 DEF Spent
  <2> QED
    BY <2>1, <2>2, <1>0
<1>7. CASE PollFails
  BY <1>7, <1>0 DEF PollFails, Fault, loop, history, Spent
<1>8. CASE Discover
  BY <1>8, <1>0 DEF Discover, history, Spent
<1>9. CASE DiscoverFails
  BY <1>9, <1>0 DEF DiscoverFails, Fault, loop, Spent
<1>10. CASE First
  BY <1>10, <1>0 DEF First, history, Spent
<1>11. CASE RunOnce
  <2>1. CASE why = "news"
    <3>1. Spent' = Spent + FullReconcile
      BY <1>11, <2>1, OneMoreInterval DEF RunOnce, Spent
    <3> QED
      BY <1>11, <2>1, <3>1, <1>0 DEF RunOnce
  <2>2. CASE why # "news"
    BY <1>11, <2>2, <1>0 DEF RunOnce, Spent
  <2> QED
    BY <2>1, <2>2
<1>12. CASE RunOnceFails
  BY <1>12, <1>0 DEF RunOnceFails, Fault, loop, Spent
<1>13. CASE Crash
  BY <1>13, <1>0 DEF Crash, Fault, loop, history, Spent
<1>14. CASE Restart
  BY <1>14, <1>0 DEF Restart, loop, history, Spent
<1>15. CASE UNCHANGED vars
  BY <1>15, <1>0 DEF vars, loop, history, Spent
<1> QED
  BY <1>1, <1>2, <1>3, <1>4, <1>5, <1>6, <1>7, <1>8, <1>9, <1>10, <1>11, <1>12, <1>13,
     <1>14, <1>15 DEF Next

LEMMA Invariance == Spec => []IInv
  BY InitInv, NextInv, PTL DEF Spec

\* The last good cycle is never older than the full interval and the faults.
THEOREM CyclesComeInTime == Spec => []CycleInTime
<1>1. IInv => CycleInTime
  BY Numbers DEF IInv, ClockType, SinceFull, Round, CycleInTime
<1> QED
  BY <1>1, Invariance, PTL

\* Each cycle that activity starts puts the new day's Event off by one interval
\* at most.
THEOREM TodayIsFollowed == Spec => []FollowsToday
<1>1. IInv => FollowsToday
  <2> SUFFICES ASSUME IInv, pc = "sleep", event # today
               PROVE  now - changedAt <= FullReconcile * (1 + postponed) - 1 + faults
    BY DEF FollowsToday
  <2>1. FullReconcile * (1 + postponed) = Spent + FullReconcile /\ Spent \in Nat
    BY OneMoreInterval DEF IInv, ClockType, Spent
  <2> QED
    BY <2>1, Numbers DEF IInv, ClockType, SinceChange, Round
<1> QED
  BY <1>1, Invariance, PTL

-----------------------------------------------------------------------------
\* The least counterexample of a claim about the subsets of a finite set.
LEMMA SmallestSubset ==
    ASSUME NEW S, IsFiniteSet(S), NEW Bad, Bad \subseteq SUBSET S, Bad # {}
    PROVE  \E T \in Bad : \A U \in Bad : ~(U \subseteq T /\ U # T)
<1>1. /\ IsWellFoundedOn(StrictSubsetOrdering(S), FiniteSubsetsOf(S))
      /\ FiniteSubsetsOf(S) = SUBSET S
  BY FS_StrictSubsetOrderingWellFounded, FS_FiniteSubsetsOfFinite
<1>2. PICK T \in Bad : \A U \in Bad : ~(<<U, T>> \in StrictSubsetOrdering(S))
  BY <1>1, WFMin
<1>3. QED
  BY <1>2 DEF StrictSubsetOrdering

\* The equation of a fold over a set, with the functions that pick the next
\* element and take it in.
IsFold(g, S, Y, base, pick, step) ==
    /\ g \in [SUBSET S -> Y]
    /\ \A s \in SUBSET S :
           g[s] = IF s = {} THEN base ELSE step[<<pick[s], g[s \ {pick[s]}]>>]
Picks(pick, S)    == \A s \in SUBSET S : s # {} => pick[s] \in s
Steps(step, S, Y) == \A x \in S, y \in Y : step[<<x, y>>] \in Y

\* It has a solution.
LEMMA FoldExists ==
    ASSUME NEW S, IsFiniteSet(S), NEW Y, NEW base \in Y,
           NEW pick, Picks(pick, S), NEW step, Steps(step, S, Y)
    PROVE  \E g : IsFold(g, S, Y, base, pick, step)
<1> USE DEF IsFold, Picks, Steps
<1> DEFINE Upto(T) == {s \in SUBSET S : Cardinality(s) <= Cardinality(T)}
           Good(T, g) == /\ g \in [Upto(T) -> Y]
                         /\ \A s \in Upto(T) :
                              g[s] = IF s = {} THEN base
                                     ELSE step[<<pick[s], g[s \ {pick[s]}]>>]
           Bad == {T \in SUBSET S : ~\E g : Good(T, g)}
<1>1. \A s \in SUBSET S : IsFiniteSet(s) /\ Cardinality(s) \in Nat
  BY FS_Subset, FS_CardinalityType
<1>2. ASSUME NEW T \in Bad, \A U \in Bad : ~(U \subseteq T /\ U # T) PROVE FALSE
  <2>1. CASE T = {}
    <3>1. Upto(T) = {{}}
      BY <2>1, <1>1, FS_EmptySet
    <3>2. Good(T, [s \in {{}} |-> base])
      BY <3>1
    <3>3. QED
      BY <3>2
  <2>2. CASE T # {}
    <3>1. PICK x \in T : TRUE
      BY <2>2
    <3> DEFINE V == T \ {x}
    <3>2. V \in SUBSET S /\ Cardinality(V) = Cardinality(T) - 1
      BY <1>1, FS_RemoveElement
    <3>3. PICK g : Good(V, g)
      <4>1. V \notin Bad
        <5>1. V \subseteq T /\ V # T
          BY <3>1
        <5>2. QED
          BY <5>1, <1>2
      <4>2. QED
        BY <4>1, <3>2
    <3> DEFINE h == [s \in Upto(T) |-> IF s = {} THEN base
                                       ELSE step[<<pick[s], g[s \ {pick[s]}]>>]]
    <3>4. ASSUME NEW s \in Upto(T), s # {}
          PROVE  pick[s] \in S /\ s \ {pick[s]} \in Upto(V)
      <4>1. /\ pick[s] \in s /\ s \in SUBSET S
            /\ Cardinality(s \ {pick[s]}) = Cardinality(s) - 1
        BY <3>4, <1>1, FS_RemoveElement
      <4>2. QED
        BY <4>1, <3>2, <1>1
    <3>5. h \in [Upto(T) -> Y]
      BY <3>3, <3>4
    <3>6. ASSUME NEW s \in Upto(V) PROVE s \in Upto(T) /\ h[s] = g[s]
      <4>1. s \in Upto(T)
        BY <3>2, <1>1, <1>2
      <4>2. g[s] = IF s = {} THEN base ELSE step[<<pick[s], g[s \ {pick[s]}]>>]
        BY <3>3
      <4>3. QED
        BY <4>1, <4>2
    <3>7. \A s \in Upto(T) : h[s] = IF s = {} THEN base
                                    ELSE step[<<pick[s], h[s \ {pick[s]}]>>]
      BY <3>4, <3>6
    <3>8. Good(T, h)
      BY <3>5, <3>7
    <3>9. QED
      BY <3>8
  <2>3. QED
    BY <2>1, <2>2
<1>3. Bad = {}
  <2>1. SUFFICES ASSUME Bad # {} PROVE FALSE
    OBVIOUS
  <2> HIDE DEF Bad
  <2>2. PICK T \in Bad : \A U \in Bad : ~(U \subseteq T /\ U # T)
    <3>1. Bad \subseteq SUBSET S
      BY DEF Bad
    <3>2. QED
      BY <2>1, <3>1, SmallestSubset
  <2>3. QED
    BY <2>2, <1>2
<1>4. PICK g : Good(S, g)
  BY <1>3
<1>5. Upto(S) = SUBSET S
  BY FS_Subset
<1>6. QED
  BY <1>4, <1>5

\* G gives the sum of c over every part of S.
IsSum(G, c, S) ==
    /\ G \in [SUBSET S -> Nat]
    /\ \A T \in SUBSET S : Fills(c, T) = G[T]
    /\ G[{}] = 0
    /\ \A T \in SUBSET S : \A x \in T : G[T] = c[x] + G[T \ {x}]

\* Whatever the order in which the elements are picked, the sum with an element is
\* the sum without it and its number.
LEMMA Sums ==
    ASSUME NEW S, IsFiniteSet(S), NEW c \in [S -> Nat]
    PROVE  \E G : IsSum(G, c, S)
<1> DEFINE Pick(s) == CHOOSE x \in s : TRUE
<1>0. \A s : s # {} => Pick(s) \in s
  OBVIOUS
<1>1. PICK G \in [SUBSET S -> Nat] : \A s \in SUBSET S :
          G[s] = IF s = {} THEN 0 ELSE c[Pick(s)] + G[s \ {Pick(s)}]
  <2> DEFINE pick == [s \in SUBSET S |-> Pick(s)]
             step == [z \in S \X Nat |-> c[z[1]] + z[2]]
  <2>1. \A s \in SUBSET S : s # {} => pick[s] \in s
    BY <1>0
  <2>2. \A x \in S, y \in Nat : step[<<x, y>>] = c[x] + y /\ c[x] + y \in Nat
    OBVIOUS
  <2>3. \A x \in S, y \in Nat : step[<<x, y>>] \in Nat
    BY <2>2
  <2> HIDE DEF step, Pick
  <2>4. PICK g \in [SUBSET S -> Nat] : \A s \in SUBSET S :
            g[s] = IF s = {} THEN 0 ELSE step[<<pick[s], g[s \ {pick[s]}]>>]
    <3>1. Picks(pick, S) /\ Steps(step, S, Nat) /\ 0 \in Nat
      BY <2>1, <2>3 DEF Picks, Steps
    <3> HIDE DEF pick
    <3>2. \E g : IsFold(g, S, Nat, 0, pick, step)
      BY <3>1, FoldExists
    <3>3. QED
      BY <3>2 DEF IsFold
  <2>5. ASSUME NEW s \in SUBSET S
        PROVE  g[s] = IF s = {} THEN 0 ELSE c[Pick(s)] + g[s \ {Pick(s)}]
    BY <2>1, <2>2, <2>4
  <2>6. QED
    BY <2>5
<1>2. ASSUME NEW T \in SUBSET S
      PROVE  Fills(c, T) = G[T]
  <2> DEFINE Body(g) == [s \in SUBSET T |-> IF s = {} THEN 0
                                            ELSE c[Pick(s)] + g[s \ {Pick(s)}]]
             iter == CHOOSE g : g = Body(g)
  <2>1. Fills(c, T) = iter[T]
    BY DEF Fills, MapThenSumSet, MapThenFoldSet
  <2> HIDE DEF Pick
  <2>2. iter = Body(iter)
    <3> DEFINE h == [s \in SUBSET T |-> G[s]]
    <3>1. ASSUME NEW s \in SUBSET T, s # {} PROVE s \ {Pick(s)} \in SUBSET T
      OBVIOUS
    <3>2. h = Body(h)
      BY <1>1, <3>1
    <3>3. QED
      BY <3>2
  <2> HIDE DEF iter
  <2> DEFINE Bad == {s \in SUBSET T : iter[s] # G[s]}
  <2>3. ASSUME NEW s \in Bad, \A u \in Bad : ~(u \subseteq s /\ u # s) PROVE FALSE
    <3>1. s # {} /\ Pick(s) \in s /\ s \in SUBSET T
      BY <1>0, <1>1, <2>2
    <3>2. s \ {Pick(s)} \in SUBSET T /\ s \ {Pick(s)} \notin Bad
      BY <2>3, <3>1
    <3>3. QED
      BY <1>1, <2>2, <3>1, <3>2
  <2>4. Bad = {}
    <3>1. Bad \subseteq SUBSET T /\ IsFiniteSet(T)
      BY FS_Subset
    <3> HIDE DEF Bad
    <3>2. QED
      BY <2>3, <3>1, SmallestSubset
  <2>5. iter[T] = G[T]
    BY <2>4
  <2>6. QED
    BY <2>1, <2>5
<1>3. ASSUME NEW T \in SUBSET S, NEW x \in T
      PROVE  G[T] = c[x] + G[T \ {x}]
  <2> HIDE DEF Pick
  <2> DEFINE Bad == {s \in SUBSET S : \E y \in s : G[s] # c[y] + G[s \ {y}]}
  <2>1. ASSUME NEW s \in Bad, \A u \in Bad : ~(u \subseteq s /\ u # s) PROVE FALSE
    <3>1. PICK y \in s : G[s] # c[y] + G[s \ {y}]
      OBVIOUS
    <3> DEFINE p == Pick(s)
               r == (s \ {p}) \ {y}
    <3>2. p \in s /\ s \in SUBSET S
      BY <1>0, <3>1
    <3>3. G[s] = c[p] + G[s \ {p}] /\ p # y
      BY <1>1, <3>1
    <3>4. s \ {p} \notin Bad /\ s \ {y} \notin Bad
      BY <2>1, <3>1, <3>2
    <3>5. G[s \ {p}] = c[y] + G[r]
      BY <3>1, <3>2, <3>3, <3>4
    <3>6. G[s \ {y}] = c[p] + G[r]
      <4>1. (s \ {y}) \ {p} = r
        OBVIOUS
      <4>2. QED
        BY <3>1, <3>2, <3>3, <3>4, <4>1
    <3>7. r \in SUBSET S /\ c[p] \in Nat /\ c[y] \in Nat /\ G[r] \in Nat
      BY <3>1, <3>2
    <3> HIDE DEF p, r
    <3>8. c[p] + (c[y] + G[r]) = c[y] + (c[p] + G[r])
      BY <3>7
    <3>9. QED
      BY <3>1, <3>3, <3>5, <3>6, <3>8
  <2>2. Bad = {}
    <3>1. Bad \subseteq SUBSET S
      OBVIOUS
    <3> HIDE DEF Bad
    <3>2. QED
      BY <2>1, <3>1, SmallestSubset
  <2>3. QED
    BY <2>2
<1>4. G[{}] = 0
  BY <1>1
<1>5. IsSum(G, c, S)
  BY <1>1, <1>2, <1>3, <1>4 DEF IsSum
<1>6. QED
  BY <1>5

\* A sum is at least that of a part with any element left out of it, and nothing
\* adds up to nothing.
LEMMA SumFacts ==
    ASSUME NEW S, IsFiniteSet(S), NEW c \in [S -> Nat], NEW T \in SUBSET S
    PROVE  /\ Fills(c, T) \in Nat
           /\ \A U \in SUBSET T : \A x \in T \ U : Fills(c, U) + c[x] <= Fills(c, T)
           /\ (\A x \in T : c[x] = 0) => Fills(c, T) = 0
<1>1. PICK G \in [SUBSET S -> Nat] :
          /\ \A s \in SUBSET S : Fills(c, s) = G[s]
          /\ G[{}] = 0
          /\ \A s \in SUBSET S : \A x \in s : G[s] = c[x] + G[s \ {x}]
  <2>1. \E G : IsSum(G, c, S)
    BY Sums
  <2>2. QED
    BY <2>1 DEF IsSum
<1>2. ASSUME NEW U \in SUBSET S, NEW s0 \in SUBSET S, U \subseteq s0
      PROVE  G[U] <= G[s0]
  <2> DEFINE Bad == {s \in SUBSET S : U \subseteq s /\ ~(G[U] <= G[s])}
  <2>1. ASSUME NEW s \in Bad, \A u \in Bad : ~(u \subseteq s /\ u # s) PROVE FALSE
    <3>1. PICK x \in s : x \notin U
      <4>1. G[U] \in Nat
        OBVIOUS
      <4>2. s # U /\ U \subseteq s
        BY <2>1, <4>1
      <4>3. QED
        BY <4>2
    <3>2. s \ {x} \in SUBSET S /\ U \subseteq s \ {x} /\ s \ {x} \notin Bad
      BY <2>1, <3>1
    <3>3. G[s] = c[x] + G[s \ {x}] /\ G[U] <= G[s \ {x}] /\ c[x] \in Nat
      BY <1>1, <3>1, <3>2
    <3>4. G[U] \in Nat /\ G[s] \in Nat /\ G[s \ {x}] \in Nat
      BY <3>2
    <3>5. QED
      BY <3>3, <3>4
  <2>2. Bad \subseteq SUBSET S
    OBVIOUS
  <2>3. Bad = {}
    <3> HIDE DEF Bad
    <3>1. QED
      BY <2>1, <2>2, SmallestSubset
  <2>4. QED
    BY <1>2, <2>3
<1>3. ASSUME NEW U \in SUBSET T, NEW x \in T \ U PROVE Fills(c, U) + c[x] <= Fills(c, T)
  <2>1. G[T] = c[x] + G[T \ {x}]
    BY <1>1
  <2>2. G[U] <= G[T \ {x}]
    BY <1>2
  <2>3. U \in SUBSET S /\ T \ {x} \in SUBSET S /\ c[x] \in Nat
    OBVIOUS
  <2>4. QED
    BY <1>1, <2>1, <2>2, <2>3
<1>4. ASSUME \A x \in T : c[x] = 0 PROVE Fills(c, T) = 0
  <2> DEFINE Bad == {s \in SUBSET T : G[s] # 0}
  <2>1. ASSUME NEW s \in Bad, \A u \in Bad : ~(u \subseteq s /\ u # s) PROVE FALSE
    <3>1. PICK x \in s : TRUE
      BY <1>1
    <3>2. s \ {x} \in SUBSET T /\ s \ {x} \notin Bad
      BY <2>1, <3>1
    <3>3. G[s] = c[x] + G[s \ {x}] /\ c[x] = 0 /\ G[s \ {x}] = 0
      BY <1>1, <1>4, <3>1, <3>2
    <3>4. QED
      BY <3>3
  <2>2. Bad \subseteq SUBSET T /\ IsFiniteSet(T)
    BY FS_Subset
  <2>3. Bad = {}
    <3> HIDE DEF Bad
    <3>1. QED
      BY <2>1, <2>2, SmallestSubset
  <2>4. QED
    BY <1>1, <2>3
<1>5. Fills(c, T) \in Nat
  BY <1>1
<1>6. QED
  BY <1>3, <1>4, <1>5

\* The greatest element of a finite set of numbers is the one with the least set of
\* greater ones.
AreNumbers(A) == A \subseteq Int
HasGreatest(A) == \E m \in A : \A y \in A : m >= y

LEMMA Greatest ==
    ASSUME NEW A, IsFiniteSet(A), A # {}, AreNumbers(A)
    PROVE  HasGreatest(A)
<1> DEFINE Above(x) == {y \in A : y > x}
           Sets == {Above(x) : x \in A}
<1>2. Sets \subseteq SUBSET A /\ Sets # {}
  OBVIOUS
<1>3. ASSUME NEW T \in Sets, \A U \in Sets : ~(U \subseteq T /\ U # T)
      PROVE  HasGreatest(A)
  <2>0. \A z \in A : z \in Int
    BY DEF AreNumbers
  <2>1. PICK m \in A : T = Above(m)
    OBVIOUS
  <2>2. ASSUME NEW y \in A, y > m PROVE FALSE
    <3>1. y \in T /\ y \notin Above(y) /\ Above(y) \in Sets
      BY <2>1, <2>2, <2>0
    <3>2. ASSUME NEW z \in Above(y) PROVE z \in T
      <4>1. z \in A /\ z > y /\ z \in Int /\ y \in Int /\ m \in Int
        BY <2>0
      <4>2. z > m
        BY <2>2, <4>1
      <4>3. QED
        BY <2>1, <4>1, <4>2
    <3>3. QED
      BY <1>3, <3>1, <3>2
  <2>3. QED
    BY <2>0, <2>2 DEF HasGreatest
<1>4. QED
  <2> HIDE DEF Sets
  <2>1. PICK T \in Sets : \A U \in Sets : ~(U \subseteq T /\ U # T)
    BY <1>2, SmallestSubset
  <2>2. QED
    BY <2>1, <1>3

\* So Max of a set of numbers up to a bound is what it says.
LEMMA MaxExists ==
    ASSUME NEW n \in Nat, NEW A \in SUBSET (0..n), A # {}
    PROVE  Max(A) \in A /\ \A x \in A : x <= Max(A)
<1>1. AreNumbers(A) /\ IsFiniteSet(A)
  <2>1. A \in SUBSET Nat /\ \A x \in A : x <= n
    OBVIOUS
  <2>2. QED
    BY <2>1, FS_BoundedSetOfNaturals DEF AreNumbers
<1>2. HasGreatest(A)
  BY <1>1, Greatest, Zenon
<1>3. PICK m \in A : \A y \in A : m >= y
  BY <1>2 DEF HasGreatest
<1>4. \A x \in A : x \in Int
  OBVIOUS
<1>5. QED
  BY <1>3, <1>4 DEF Max

\* Natural numbers have a least one.
LEMMA Least ==
    ASSUME NEW A \in SUBSET Nat, A # {}
    PROVE  \E m \in A : \A y \in A : m <= y
<1> DEFINE Less == OpToRel(<, Nat)
<1>1. IsWellFoundedOn(Less, Nat)
  BY NatLessThanWellFounded
<1>2. \A x, y \in Nat : x < y => <<x, y>> \in Less
  BY DEF OpToRel
<1> HIDE DEF Less
<1>3. PICK m \in A : \A y \in A : ~(<<y, m>> \in Less)
  BY <1>1, WFMin
<1>4. ASSUME NEW y \in A PROVE m <= y
  <2>1. m \in Nat /\ y \in Nat
    OBVIOUS
  <2>2. ~(y < m)
    BY <1>2, <1>3, <2>1
  <2>3. QED
    BY <2>1, <2>2
<1>5. QED
  BY <1>4

\* Max and Min of two numbers.
LEMMA MaxOfTwo ==
    ASSUME NEW a \in Int, NEW b \in Int
    PROVE  Max({a, b}) = IF a >= b THEN a ELSE b
  BY DEF Max

LEMMA MinOfTwo ==
    ASSUME NEW a \in Int, NEW b \in Int
    PROVE  Min({a, b}) = IF a <= b THEN a ELSE b
  BY DEF Min

\* There are finitely many slots.
LEMMA FiniteSlots == IsFiniteSet(Slots)
<1>1. IsFiniteSet(1..Days) /\ IsFiniteSet(0..MaxTime)
  BY ActivityAssumption, FS_Interval
<1>2. QED
  BY <1>1, FS_Product DEF Slots, EventIds, Seconds

-----------------------------------------------------------------------------
\* The slots that the next request of their Event will not ask for, because of the
\* cursor.
Behind(slot) == cursor[slot[1]] # NoCursor /\ slot[2] < cursor[slot[1]] - Overlap

\* The cursor of an Event is in the past, and only an Event that was followed has
\* one; without it nothing was stored or polled.  Discoveries go forward.
Cursors ==
    /\ event <= today
    /\ \A e \in EventIds : cursor[e] <= now /\ (e > event => cursor[e] = NoCursor)
    /\ \A slot \in Slots :
          /\ made[slot] > 0 => slot[2] <= now
          /\ cursor[slot[1]] = NoCursor => stored[slot] = 0 /\ polled[slot] = 0

\* What a request asks for follows from the cursor, which no one else moves, or
\* from the time it began at.
Asked ==
    pc = "asking" =>
        IF cursor[event] = NoCursor THEN since <= now ELSE since = cursor[event]

\* A poll sees what is shown.
Shown == \A slot \in Slots : polled[slot] <= visible[slot]

\* What a poll saw and its cursor has not passed is stored, if the answer was whole.
Kept ==
    ~cut => \A slot \in Slots : slot[1] = event /\ ~Behind(slot) =>
               polled[slot] <= stored[slot]

\* Between cycles that end, what is stored was there at the snapshot of the last
\* one, and so was all that is shown in time of the slots the cursor has passed.
Read ==
    pc \in {"loop", "sleep", "asking"} /\ ~missed =>
        \A slot \in Slots :
            /\ stored[slot] <= seen[slot]
            /\ slot[1] = event /\ slot \notin tooLate /\ Behind(slot) =>
                 visible[slot] <= seen[slot]

\* The inductive invariant of the tables.
NewsInv == TypeOK /\ Cursors /\ Asked /\ Shown /\ Kept /\ Read

\* The assumption on the constants, in the form the proofs use.
Bounds == /\ Overlap \in Nat /\ FullReconcile \in Nat /\ Limit \in Nat /\ Limit > 0
          /\ MaxTime \in Nat /\ Days \in Nat /\ MaxFills \in Nat /\ MaxFaults \in Nat
          /\ EventIds \subseteq Nat /\ Seconds \subseteq Nat
          /\ 0 \in Seconds /\ 1 \in EventIds

LEMMA Bounded == Bounds
  BY ActivityAssumption DEF Bounds, EventIds, Seconds

\* The types of the tables and the clock, in the forms the provers use.
Typed ==
    /\ made \in [Slots -> Nat] /\ visible \in [Slots -> Nat] /\ stored \in [Slots -> Nat]
    /\ polled \in [Slots -> Nat] /\ seen \in [Slots -> Nat]
    /\ event \in EventIds /\ event \in Nat /\ today \in EventIds /\ today \in Nat
    /\ now \in Nat /\ since \in Nat /\ now \in Seconds /\ since \in Seconds
    /\ start \in Nat /\ start = IF 0 >= since - Overlap THEN 0 ELSE since - Overlap

LEMMA Types == TypeOK => Typed
<1> SUFFICES ASSUME TypeOK PROVE Typed
  OBVIOUS
<1>1. since \in Nat /\ Overlap \in Nat
  BY Bounded DEF TypeOK, Bounds
<1>2. start = IF 0 >= since - Overlap THEN 0 ELSE since - Overlap
  BY <1>1, MaxOfTwo DEF start
<1>3. start \in Nat
  BY <1>1, <1>2
<1>4. QED
  BY <1>1, <1>2, <1>3, Bounded DEF TypeOK, Typed, Bounds

\* A slot is an Event and a second, and a cursor a second or none.
LEMMA SlotParts ==
    ASSUME NEW slot \in Slots
    PROVE  /\ slot[1] \in EventIds /\ slot[2] \in Seconds
           /\ slot[1] \in Nat /\ slot[2] \in Nat
           /\ slot = <<slot[1], slot[2]>>
<1>1. slot[1] \in EventIds /\ slot[2] \in Seconds /\ slot = <<slot[1], slot[2]>>
  BY DEF Slots
<1>2. EventIds \subseteq Nat /\ Seconds \subseteq Nat
  BY Bounded DEF Bounds
<1>3. QED
  BY <1>1, <1>2

LEMMA CursorParts ==
    ASSUME TypeOK, NEW e \in EventIds
    PROVE  /\ cursor[e] \in Int
           /\ cursor[e] # NoCursor => cursor[e] \in Seconds /\ cursor[e] \in Nat
<1>1. cursor[e] \in Seconds \/ cursor[e] = NoCursor
  BY DEF TypeOK
<1>2. NoCursor \in Int /\ \A t \in Seconds : t \in Nat
  BY Bounded DEF NoCursor, Bounds
<1>3. QED
  BY <1>1, <1>2

\* The slots an answer takes before this second.
Before(t) == {event} \X (start..(t - 1))

\* What an answer has of a slot depends on the fills before it.
LEMMA PageOf ==
    ASSUME TypeOK, NEW slot \in Slots
    PROVE  /\ Before(slot[2]) \subseteq Slots
           /\ Fills(visible, Before(slot[2])) \in Nat
           /\ Page[slot] \in 0..visible[slot]
           /\ slot[1] # event \/ slot[2] < start => Page[slot] = 0
           /\ slot[1] = event /\ slot[2] >= start =>
                /\ Limit >= Fills(visible, Before(slot[2])) + visible[slot] =>
                     Page[slot] = visible[slot]
                /\ Page[slot] < visible[slot] =>
                     Limit < Fills(visible, Before(slot[2])) + visible[slot]
                /\ Page[slot] = 0 /\ visible[slot] > 0 =>
                     Limit <= Fills(visible, Before(slot[2]))
                /\ Limit <= Fills(visible, Before(slot[2])) => Page[slot] = 0
<1> DEFINE F == Fills(visible, Before(slot[2]))
<1>1. /\ slot[1] \in EventIds /\ slot[2] \in Seconds /\ event \in EventIds
      /\ start \in Nat /\ slot[2] \in Nat /\ slot[2] <= MaxTime /\ MaxTime \in Nat
      /\ visible[slot] \in Nat /\ Limit \in Nat /\ visible \in [Slots -> Nat]
  BY Types, Bounded DEF Typed, TypeOK, Slots, Seconds, Bounds
<1>2. Before(slot[2]) \subseteq Slots
  BY <1>1 DEF Before, Slots, Seconds
<1>3. F \in Nat
  BY <1>1, <1>2, FiniteSlots, SumFacts
<1>4. Page[slot] = IF slot[1] # event \/ slot[2] < start THEN 0
                   ELSE Max({0, Min({visible[slot], Limit - F})})
  BY DEF Page, Before
<1> HIDE DEF F
<1>5. Min({visible[slot], Limit - F}) = IF visible[slot] <= Limit - F THEN visible[slot]
                                        ELSE Limit - F
  BY <1>1, <1>3, MinOfTwo
<1>6. \A m \in Int : Max({0, m}) = IF 0 >= m THEN 0 ELSE m
  BY MaxOfTwo
<1>7. Page[slot] = IF slot[1] # event \/ slot[2] < start THEN 0
                   ELSE IF visible[slot] <= Limit - F THEN visible[slot]
                   ELSE IF 0 >= Limit - F THEN 0 ELSE Limit - F
  BY <1>1, <1>3, <1>4, <1>5, <1>6
<1>8. QED
  BY <1>1, <1>2, <1>3, <1>7 DEF F

\* An answer leaves fills out only after all that it has.
LEMMA PageInOrder ==
    ASSUME TypeOK, NEW slot \in Slots, NEW other \in Slots,
           slot[1] = event, start <= slot[2], Page[slot] < visible[slot],
           Page[other] > 0
    PROVE  other[2] <= slot[2]
<1> DEFINE U == Before(slot[2])
           T == Before(other[2])
<1>1. SUFFICES ASSUME slot[2] < other[2] PROVE FALSE
  BY SlotParts
<1>2. /\ slot = <<event, slot[2]>> /\ slot[2] \in Nat /\ other[2] \in Nat
      /\ start \in Nat /\ event \in EventIds
  BY SlotParts, Types DEF Typed
<1>3. other[1] = event /\ start <= other[2]
  BY <1>2, PageOf
<1>4. U \in SUBSET T /\ slot \in T \ U /\ T \in SUBSET Slots
  <2>1. slot \in T /\ slot \notin U
    BY <1>1, <1>2 DEF Before
  <2>2. U \subseteq T
    BY <1>1, <1>2 DEF Before
  <2>3. QED
    BY <2>1, <2>2, PageOf
<1>5. visible \in [Slots -> Nat] /\ Limit \in Nat
  BY Bounded DEF TypeOK, Bounds
<1>6. Fills(visible, U) + visible[slot] <= Fills(visible, T)
  <2> HIDE DEF U, T
  <2>1. QED
    BY <1>4, <1>5, FiniteSlots, SumFacts
<1>7. Limit < Fills(visible, U) + visible[slot]
  BY PageOf
<1>8. Limit <= Fills(visible, T)
  BY <1>3, <1>5, <1>6, <1>7, PageOf
<1>9. QED
  BY <1>3, <1>8, PageOf

\* An answer with nothing in it leaves nothing out.
LEMMA EmptyPage ==
    ASSUME TypeOK, \A slot \in Slots : slot[1] = event => Page[slot] = 0,
           NEW slot0 \in Slots, slot0[1] = event, start <= slot0[2]
    PROVE  visible[slot0] = 0
<1> DEFINE Unread == {t \in Seconds : start <= t /\ visible[<<event, t>>] > 0}
<1>1. /\ visible \in [Slots -> Nat] /\ Limit \in Nat /\ Limit > 0
      /\ start \in Nat /\ event \in EventIds /\ Seconds \subseteq Nat
      /\ slot0 = <<event, slot0[2]>> /\ slot0[2] \in Seconds
  BY Types, Bounded DEF Typed, TypeOK, Bounds, Slots
<1>2. SUFFICES ASSUME Unread # {} PROVE FALSE
  BY <1>1
<1>3. PICK m \in Unread : \A t \in Unread : m <= t
  <2>1. Unread \in SUBSET Nat
    BY <1>1
  <2> HIDE DEF Unread
  <2>2. QED
    BY <1>2, <2>1, Least
<1> DEFINE slot == <<event, m>>
<1>4. slot \in Slots /\ slot[1] = event /\ slot[2] = m /\ start <= m /\ visible[slot] > 0
  BY <1>1 DEF Slots
<1>5. \A x \in Before(m) : visible[x] = 0
  <2> SUFFICES ASSUME NEW t \in start..(m - 1) PROVE visible[<<event, t>>] = 0
    BY DEF Before
  <2>1. t \in Seconds /\ start <= t /\ t < m
    <3>1. m \in 0..MaxTime /\ start \in Nat /\ MaxTime \in Nat
      BY <1>1, Bounded DEF Seconds, Bounds
    <3>2. QED
      BY <3>1 DEF Seconds
  <2>2. t \notin Unread
    BY <1>1, <1>3, <2>1
  <2>3. visible[<<event, t>>] \in Nat
    BY <1>1, <2>1 DEF Slots
  <2>4. QED
    BY <2>1, <2>2, <2>3
<1>6. Fills(visible, Before(m)) = 0
  <2>1. Before(m) \in SUBSET Slots
    BY <1>4, PageOf
  <2>2. QED
    BY <1>1, <1>5, <2>1, FiniteSlots, SumFacts
<1>7. Page[slot] = 0
  BY <1>4
<1> HIDE DEF slot
<1>8. Limit <= Fills(visible, Before(m))
  BY <1>4, <1>7, PageOf
<1>9. QED
  BY <1>1, <1>6, <1>8

-----------------------------------------------------------------------------
\* What an answered poll does to the rows and the cursor.
Answered ==
    /\ \A slot \in Slots :
          /\ stored'[slot] \in 0..visible[slot]
          /\ stored'[slot] >= stored[slot] /\ stored'[slot] >= Page[slot]
          /\ stored'[slot] = stored[slot] \/ stored'[slot] = Page[slot]
    /\ stored' \in [Slots -> 0..MaxFills]
    /\ cursor' \in [EventIds -> Seconds \cup {NoCursor}]
    /\ \A e \in EventIds : e # event => cursor'[e] = cursor[e]
    /\ cursor'[event] \in Seconds
    /\ cursor'[event] <= now
    /\ cursor'[event] >= since
    /\ \/ cursor'[event] = since
       \/ \E slot \in Slots : cursor'[event] = slot[2] /\ Page[slot] > 0

\* The types of the rows are kept, and rows and cursor only grow.
LEMMA PollAnswers == NewsInv /\ Poll => Answered
<1> SUFFICES ASSUME NewsInv, Poll PROVE Answered
  OBVIOUS
<1> DEFINE News == {slot[2] : slot \in {s \in Slots : Page[s] > 0}}
           Marks == {since} \cup News
<1>1. TypeOK /\ Cursors /\ Typed
  BY Types DEF NewsInv
<1>2. /\ stored' = insertActivity(Page)
      /\ cursor' = [cursor EXCEPT ![event] = Max(Marks)]
  BY DEF Poll, latestTimestamp
<1>3. ASSUME NEW slot \in Slots
      PROVE  /\ Page[slot] \in 0..visible[slot]
             /\ stored[slot] \in 0..visible[slot]
             /\ visible[slot] \in 0..MaxFills
             /\ Page[slot] > 0 => slot[2] <= now
  <2>1. /\ stored[slot] <= visible[slot] /\ visible[slot] <= made[slot]
        /\ made[slot] \in Nat /\ stored[slot] \in Nat /\ visible[slot] \in 0..MaxFills
        /\ MaxFills \in Nat
        /\ made[slot] > 0 => slot[2] <= now
    <3>1. visible \in [Slots -> 0..MaxFills]
      BY <1>1 DEF TypeOK
    <3>2. QED
      BY <1>1, <3>1, Bounded DEF TypeOK, Typed, Cursors, Bounds
  <2>2. Page[slot] \in 0..visible[slot]
    BY <1>1, PageOf
  <2>3. QED
    BY <2>1, <2>2
<1>4. ASSUME NEW slot \in Slots
      PROVE  /\ stored'[slot] \in 0..visible[slot] /\ stored'[slot] \in 0..MaxFills
             /\ stored'[slot] >= stored[slot] /\ stored'[slot] >= Page[slot]
             /\ stored'[slot] = stored[slot] \/ stored'[slot] = Page[slot]
  <2>1. stored'[slot] = Max({stored[slot], Page[slot]})
    BY <1>2 DEF insertActivity
  <2>2. Page[slot] \in Int /\ stored[slot] \in Int
    BY <1>3
  <2>3. stored'[slot] = IF stored[slot] >= Page[slot] THEN stored[slot] ELSE Page[slot]
    BY <2>1, <2>2, MaxOfTwo
  <2>4. stored[slot] \in 0..visible[slot] /\ Page[slot] \in 0..visible[slot]
    BY <1>3
  <2>5. visible[slot] \in 0..MaxFills /\ MaxFills \in Nat
    BY <1>3, Bounded DEF Bounds
  <2> HIDE DEF News, Marks
  <2>6. CASE stored[slot] >= Page[slot]
    <3>1. stored'[slot] = stored[slot]
      BY <2>3, <2>6
    <3>2. QED
      BY <2>2, <2>4, <2>5, <2>6, <3>1
  <2>7. CASE ~(stored[slot] >= Page[slot])
    <3>1. stored'[slot] = Page[slot]
      BY <2>3, <2>7
    <3>2. QED
      BY <2>2, <2>4, <2>5, <2>7, <3>1
  <2>8. QED
    BY <2>6, <2>7
<1>5. stored' \in [Slots -> 0..MaxFills]
  <2>1. stored' = [slot \in Slots |-> stored'[slot]]
    BY <1>2 DEF insertActivity
  <2>2. QED
    BY <1>4, <2>1
<1>6. since \in Seconds /\ since <= now
  <2>1. cursor[event] <= now /\ pc = "asking"
    BY <1>1 DEF TypeOK, Cursors, Poll
  <2>2. QED
    BY <1>1, <2>1 DEF NewsInv, Asked, Typed
<1>7. News \subseteq Seconds /\ \A t \in News : t <= now
  BY <1>1, <1>3, SlotParts
<1>8. Max(Marks) \in Marks /\ \A t \in Marks : t <= Max(Marks)
  <2> HIDE DEF News
  <2>1. Marks \in SUBSET (0..MaxTime) /\ Marks # {} /\ MaxTime \in Nat
    BY <1>6, <1>7, Bounded DEF Seconds, Bounds
  <2> HIDE DEF Marks
  <2>2. QED
    BY <2>1, MaxExists
<1> DEFINE m == Max(Marks)
<1> HIDE DEF m
<1>9. m \in Seconds /\ m <= now /\ m >= since
  BY <1>6, <1>7, <1>8, Bounded DEF m, Bounds
<1>10. m = since \/ \E slot \in Slots : m = slot[2] /\ Page[slot] > 0
  BY <1>8 DEF m
<1>11. cursor' = [cursor EXCEPT ![event] = m]
  BY <1>2 DEF m
<1>12. /\ cursor \in [EventIds -> Seconds \cup {NoCursor}] /\ event \in EventIds
  BY <1>1 DEF TypeOK
<1>13. /\ cursor' \in [EventIds -> Seconds \cup {NoCursor}]
       /\ \A e \in EventIds : e # event => cursor'[e] = cursor[e]
       /\ cursor'[event] = m
  BY <1>9, <1>11, <1>12
<1>14. QED
  BY <1>4, <1>5, <1>9, <1>10, <1>13 DEF Answered

\* Nothing is made, shown or stored at first.
LEMMA NewsInit == Init => NewsInv
<1> SUFFICES ASSUME Init PROVE NewsInv
  OBVIOUS
<1>1. None \in [Slots -> 0..MaxFills] /\ \A slot \in Slots : None[slot] = 0
  BY Bounded DEF None, Bounds
<1>2. /\ made = None /\ visible = None /\ stored = None /\ polled = None /\ seen = None
      /\ now = 0 /\ today = 1 /\ event = 1 /\ cursor = [e \in EventIds |-> NoCursor]
      /\ pc = "first" /\ missed = FALSE /\ tooLate = {} /\ NoCursor = -1
  BY DEF Init, NoCursor
<1>3. TypeOK
  <2>1. {made, visible, stored, polled, seen} \subseteq [Slots -> 0..MaxFills]
    BY <1>1, <1>2
  <2>2. \A slot \in Slots : stored[slot] <= visible[slot] /\ visible[slot] <= made[slot]
    BY <1>1, <1>2
  <2>3. cursor \in [EventIds -> Seconds \cup {NoCursor}]
    BY <1>2
  <2>4. 0 \in Seconds /\ 1 \in EventIds /\ 0 \in 0..MaxFaults /\ 0 \in Nat
    BY Bounded DEF Bounds
  <2>5. tooLate \subseteq Slots
    BY <1>2
  <2>6. QED
    BY <2>1, <2>2, <2>3, <2>4, <2>5 DEF Init, TypeOK
<1>4. Cursors
  <2>1. \A slot \in Slots : /\ slot[1] \in EventIds /\ made[slot] = 0
                            /\ stored[slot] = 0 /\ polled[slot] = 0
    BY <1>1, <1>2, SlotParts
  <2>2. QED
    BY <1>2, <2>1 DEF Cursors
<1>5. Asked /\ Read
  BY <1>2 DEF Asked, Read
<1>6. Shown /\ Kept
  BY <1>1, <1>2 DEF Shown, Kept
<1>7. QED
  BY <1>3, <1>4, <1>5, <1>6 DEF NewsInv

\* A fill is counted, and below the bound on all of them.
LEMMA TradePreserves ==
    ASSUME NewsInv, NEW e \in EventIds, LeaderTrades(e) PROVE NewsInv'
<1> DEFINE slot0 == <<e, now>>
<1>1. TypeOK /\ Cursors /\ Typed
  BY Types DEF NewsInv
<1>2. slot0 \in Slots /\ slot0[2] = now
  BY <1>1 DEF Slots, Typed
<1>3. made[slot0] < MaxFills
  <2>1. {} \in SUBSET Slots /\ slot0 \in Slots \ {} /\ Slots \in SUBSET Slots
    BY <1>2
  <2> HIDE DEF slot0
  <2>2. Fills(made, {}) + made[slot0] <= Fills(made, Slots) /\ Fills(made, {}) \in Nat
    BY <1>1, <2>1, FiniteSlots, SumFacts DEF Typed
  <2>3. Fills(made, Slots) \in Nat /\ Fills(made, Slots) < MaxFills
    BY <1>1, FiniteSlots, SumFacts DEF Typed, LeaderTrades
  <2>4. made[slot0] \in Nat /\ MaxFills \in Nat
    BY <1>1, <1>2, Bounded DEF Typed, Bounds, slot0
  <2>5. QED
    BY <2>2, <2>3, <2>4
<1> HIDE DEF slot0
<1>4. made' = [made EXCEPT ![slot0] = @ + 1]
  BY DEF LeaderTrades, slot0
<1>5. /\ made' \in [Slots -> 0..MaxFills]
      /\ \A slot \in Slots : made'[slot] >= made[slot]
      /\ \A slot \in Slots : made'[slot] > 0 => made[slot] > 0 \/ slot = slot0
  <2>1. made \in [Slots -> 0..MaxFills] /\ MaxFills \in Nat
    BY <1>1, Bounded DEF TypeOK, Bounds
  <2>2. QED
    BY <1>2, <1>3, <1>4, <2>1
<1>6. UNCHANGED <<now, today, visible, tables, pc, loop, faults, history>>
  BY DEF LeaderTrades
<1>7. TypeOK'
  <2>1. \A slot \in Slots : visible[slot] \in Nat /\ made[slot] \in Nat /\ made'[slot] \in Nat
    BY <1>1, <1>5 DEF Typed
  <2>2. \A slot \in Slots : visible[slot] <= made'[slot]
    BY <1>1, <1>5, <2>1 DEF TypeOK
  <2>3. QED
    BY <1>1, <1>5, <1>6, <2>2 DEF TypeOK, tables, loop, history
<1>8. Cursors'
  BY <1>1, <1>2, <1>5, <1>6 DEF Cursors, Typed, tables, loop, history
<1>9. QED
  BY <1>6, <1>7, <1>8
     DEF NewsInv, Asked, Shown, Kept, Read, Behind, tables, loop, history

\* A fill that is shown behind the cursor is shown too late.
LEMMA AppearPreserves ==
    ASSUME NewsInv, NEW slot0 \in Slots, Appears(slot0) PROVE NewsInv'
<1>1. TypeOK /\ Cursors /\ Typed
  BY Types DEF NewsInv
<1>2. /\ visible' = [visible EXCEPT ![slot0] = @ + 1]
      /\ visible[slot0] < made[slot0]
      /\ tooLate' = IF now - slot0[2] > Overlap THEN tooLate \cup {slot0} ELSE tooLate
      /\ UNCHANGED <<now, today, made, tables, pc, loop, faults,
                     polled, seen, cut, missed, changedAt, postponed>>
  BY DEF Appears
<1>3. /\ visible' \in [Slots -> 0..MaxFills]
      /\ \A slot \in Slots : /\ visible[slot] <= visible'[slot]
                             /\ visible'[slot] <= made[slot]
                             /\ slot # slot0 => visible'[slot] = visible[slot]
  <2>1. visible \in [Slots -> 0..MaxFills] /\ made \in [Slots -> 0..MaxFills] /\ MaxFills \in Nat
    BY <1>1, Bounded DEF TypeOK, Bounds
  <2>2. \A slot \in Slots : visible[slot] <= made[slot]
    BY <1>1 DEF TypeOK
  <2>3. QED
    BY <1>2, <2>1, <2>2
<1>4. \A slot \in Slots : /\ visible[slot] \in Nat /\ visible'[slot] \in Nat
                          /\ stored[slot] \in Nat /\ polled[slot] \in Nat
  BY <1>1, <1>3 DEF Typed
<1>5. TypeOK'
  <2>1. \A slot \in Slots : stored[slot] <= visible'[slot]
    BY <1>1, <1>3, <1>4 DEF TypeOK
  <2>2. tooLate' \subseteq Slots
    BY <1>1, <1>2 DEF TypeOK
  <2>3. QED
    BY <1>1, <1>2, <1>3, <2>1, <2>2 DEF TypeOK, tables, loop
<1>6. Cursors'
  BY <1>1, <1>2 DEF Cursors, tables, loop
<1>7. Asked' /\ Kept'
  BY <1>2 DEF NewsInv, Asked, Kept, Behind, tables, loop
<1>8. Shown'
  BY <1>2, <1>3, <1>4 DEF NewsInv, Shown
<1>9. Read'
  <2> SUFFICES ASSUME pc \in {"loop", "sleep", "asking"}, ~missed, NEW slot \in Slots
               PROVE  /\ stored[slot] <= seen[slot]
                      /\ slot[1] = event /\ slot \notin tooLate' /\ Behind(slot) =>
                           visible'[slot] <= seen[slot]
    BY <1>2 DEF Read, Behind, tables, loop
  <2>1. /\ stored[slot] <= seen[slot]
        /\ slot[1] = event /\ slot \notin tooLate /\ Behind(slot) => visible[slot] <= seen[slot]
    BY DEF NewsInv, Read
  <2>2. CASE slot = slot0
    <3>1. Behind(slot) => now - slot[2] > Overlap
      <4>1. /\ cursor[slot[1]] \in Seconds \cup {NoCursor} /\ cursor[slot[1]] <= now
            /\ slot[2] \in Nat /\ Overlap \in Nat /\ now \in Nat
        BY <1>1, SlotParts, Bounded DEF TypeOK, Cursors, Typed, Bounds
      <4>2. cursor[slot[1]] \in Int
        BY <1>1, SlotParts, CursorParts
      <4>3. QED
        BY <4>1, <4>2 DEF Behind
    <3>2. QED
      BY <1>2, <2>1, <2>2, <3>1
  <2>3. CASE slot # slot0
    BY <1>2, <1>3, <2>1, <2>3
  <2>4. QED
    BY <2>2, <2>3
<1>10. QED
  BY <1>5, <1>6, <1>7, <1>8, <1>9 DEF NewsInv

\* The request goes by the cursor, or by its own time.
LEMMA AskPreserves == NewsInv /\ Ask => NewsInv'
<1> SUFFICES ASSUME NewsInv, Ask PROVE NewsInv'
  OBVIOUS
<1>1. TypeOK /\ Cursors /\ Typed
  BY Types DEF NewsInv
<1>2. /\ pc \in {"loop", "sleep"} /\ pc' = "asking"
      /\ now' = now \/ (now < MaxTime /\ now' = now + 1)
      /\ since' = IF cursor[event] = NoCursor THEN now' ELSE cursor[event]
      /\ UNCHANGED <<today, data, tables, event, why, lastFull, faults, history>>
  BY DEF Ask
<1>3. now' \in Nat /\ now' \in Seconds /\ now <= now'
  <2>1. now \in Nat /\ MaxTime \in Nat /\ now \in Seconds
    BY <1>1, Bounded DEF Typed, Bounds
  <2>2. QED
    BY <1>2, <2>1 DEF Seconds
<1>4. since' \in Seconds
  <2>1. cursor[event] # NoCursor => cursor[event] \in Seconds
    BY <1>1, CursorParts DEF Typed
  <2>2. QED
    BY <1>2, <1>3, <2>1
<1>5. TypeOK'
  BY <1>1, <1>2, <1>3, <1>4 DEF TypeOK, data, tables, history
<1>6. Cursors'
  <2>1. \A e \in EventIds : cursor[e] <= now'
    BY <1>1, <1>3, CursorParts DEF Cursors, Typed
  <2>2. \A slot \in Slots : made[slot] > 0 => slot[2] <= now'
    BY <1>1, <1>3, SlotParts DEF Cursors, Typed
  <2>3. QED
    BY <1>1, <1>2, <2>1, <2>2 DEF Cursors, data, tables, history
<1>7. Asked'
  BY <1>2, <1>3 DEF Asked, tables
<1>8. Shown' /\ Kept' /\ Read'
  BY <1>2 DEF NewsInv, Shown, Kept, Read, Behind, data, tables, history
<1>9. QED
  BY <1>5, <1>6, <1>7, <1>8 DEF NewsInv

\* The steps that leave the rows, the cursors and what polls have seen alone.
LEMMA QuietPreserves ==
    NewsInv /\ (\/ DayChanges \/ TimeIsLost \/ PollFails \/ DiscoverFails
                \/ RunOnceFails \/ Crash \/ Restart \/ UNCHANGED vars) => NewsInv'
<1> SUFFICES ASSUME NewsInv, \/ DayChanges \/ TimeIsLost \/ PollFails \/ DiscoverFails
                             \/ RunOnceFails \/ Crash \/ Restart \/ UNCHANGED vars
             PROVE  NewsInv'
  OBVIOUS
<1> DEFINE Quiet == /\ UNCHANGED <<data, tables, event, since, why, lastFull,
                                   polled, seen, cut, tooLate>>
                    /\ now' \in Seconds /\ now' >= now
                    /\ today' \in EventIds /\ today' >= today
                    /\ faults' \in 0..MaxFaults
                    /\ changedAt' \in Seconds /\ postponed' \in Nat /\ missed' \in BOOLEAN
                    /\ pc' \in {"first", "loop", "sleep", "asking", "discover", "cycle", "down", "hung"}
                    /\ pc' = "asking" => pc = "asking"
                    /\ pc' \in {"loop", "sleep", "asking"} /\ ~missed' =>
                          pc \in {"loop", "sleep", "asking"} /\ ~missed
<1>1. TypeOK /\ Cursors /\ Typed
  BY Types DEF NewsInv
<1>2. /\ MaxTime \in Nat /\ Days \in Nat /\ MaxFaults \in Nat
      /\ faults \in 0..MaxFaults /\ changedAt \in Seconds /\ postponed \in Nat
      /\ missed \in BOOLEAN
      /\ pc \in {"first", "loop", "sleep", "asking", "discover", "cycle", "down", "hung"}
      /\ now >= now /\ today >= today
  BY <1>1, Bounded DEF Bounds, TypeOK, Typed
<1> USE DEF data, tables, loop, history
<1>3. Quiet
  <2>0. now \in Seconds /\ today \in EventIds /\ now \in Nat /\ today \in Nat
    BY <1>1 DEF Typed
  <2>1. CASE DayChanges
    <3>1. today' \in EventIds /\ today' >= today
      BY <1>2, <2>0, <2>1 DEF DayChanges, EventIds
    <3>2. QED
      BY <1>2, <2>0, <2>1, <3>1 DEF DayChanges
  <2>2. CASE TimeIsLost
    <3>1. now' \in Seconds /\ now' >= now
      BY <1>2, <2>0, <2>2 DEF TimeIsLost, Seconds
    <3>2. faults' \in 0..MaxFaults
      BY <1>2, <2>2 DEF TimeIsLost, Fault
    <3>3. QED
      BY <1>2, <2>0, <2>2, <3>1, <3>2 DEF TimeIsLost
  <2>3. ASSUME Fault PROVE faults' \in 0..MaxFaults
    BY <1>2, <2>3 DEF Fault
  <2>4. CASE PollFails
    BY <1>2, <2>0, <2>3, <2>4 DEF PollFails
  <2>5. CASE DiscoverFails
    BY <1>2, <2>0, <2>3, <2>5 DEF DiscoverFails
  <2>6. CASE RunOnceFails
    <3>1. pc' \in {"hung", "sleep"} /\ missed' = TRUE
      BY <2>6 DEF RunOnceFails
    <3>2. QED
      BY <1>2, <2>0, <2>3, <2>6, <3>1 DEF RunOnceFails
  <2>7. CASE Crash
    BY <1>2, <2>0, <2>3, <2>7 DEF Crash
  <2>8. CASE Restart
    BY <1>2, <2>0, <2>8 DEF Restart
  <2>9. CASE UNCHANGED vars
    BY <1>2, <2>0, <2>9 DEF vars
  <2>10. QED
    BY <2>1, <2>2, <2>4, <2>5, <2>6, <2>7, <2>8, <2>9
<1>typed. TypeOK'
  BY <1>1, <1>3 DEF TypeOK
<1>4. Cursors'
  <2>1. \A e \in EventIds : cursor[e] <= now'
    BY <1>1, <1>3, CursorParts, Bounded DEF Cursors, Typed, Bounds
  <2>2. \A slot \in Slots : made[slot] > 0 => slot[2] <= now'
    BY <1>1, <1>3, SlotParts, Bounded DEF Cursors, Typed, Bounds
  <2>3. event' <= today'
    BY <1>1, <1>3, Bounded DEF Cursors, Typed, Bounds
  <2>4. QED
    BY <1>1, <1>3, <2>1, <2>2, <2>3 DEF Cursors, data, tables
<1>5. Asked'
  <2> HIDE DEF Quiet, data, tables, loop, history
  <2>1. now \in Int /\ now' \in Int /\ since \in Int /\ now <= now'
    BY <1>1, <1>3, Bounded DEF Typed, Bounds, Quiet
  <2>2. since <= now => since <= now'
    BY <2>1
  <2>3. QED
    BY <1>3, <2>2 DEF NewsInv, Asked, tables, Quiet
<1>6. Shown' /\ Kept' /\ Read'
  BY <1>3 DEF NewsInv, Shown, Kept, Read, Behind, data, tables
<1>7. QED
  BY <1>typed, <1>4, <1>5, <1>6 DEF NewsInv

\* The Event found is the one followed, or one that has no cursor yet.
LEMMA FoundPreserves == NewsInv /\ (First \/ Discover) => NewsInv'
<1> SUFFICES ASSUME NewsInv, First \/ Discover PROVE NewsInv'
  OBVIOUS
<1>1. TypeOK /\ Cursors /\ Typed
  BY Types DEF NewsInv
<1>2. /\ event' = today /\ pc' = "cycle" /\ why' \in {"first", "due", "news"}
      /\ UNCHANGED <<now, today, data, tables, since, lastFull, faults, history>>
  BY <1>1 DEF First, Discover, TypeOK
<1>3. TypeOK'
  BY <1>1, <1>2 DEF TypeOK, data, tables, history
<1>4. Cursors'
  <2>1. /\ event <= today /\ event \in Nat /\ today \in Nat
        /\ \A e \in EventIds : e \in Nat
    BY <1>1, Bounded DEF Cursors, Typed, Bounds
  <2>2. \A e \in EventIds : e > today => e > event
    BY <2>1
  <2>3. today <= today
    BY <2>1
  <2>4. QED
    BY <1>1, <1>2, <2>2, <2>3 DEF Cursors, data, tables, history
<1>5. Asked' /\ Read'
  BY <1>2 DEF Asked, Read
<1>6. Shown'
  BY <1>2 DEF NewsInv, Shown, data, history
<1>7. Kept'
  <2> SUFFICES ASSUME ~cut, NEW slot \in Slots, slot[1] = today, ~Behind(slot)
               PROVE  polled[slot] <= stored[slot]
    BY <1>2 DEF Kept, Behind, tables, history
  <2>1. CASE today = event
    BY <2>1 DEF NewsInv, Kept
  <2>2. CASE today # event
    <3>1. event \in Nat /\ today \in Nat /\ event <= today
      BY <1>1 DEF Typed, Cursors
    <3>2. today > event
      BY <2>2, <3>1
    <3>3. cursor[today] = NoCursor
      BY <1>1, <3>2 DEF Cursors, Typed
    <3>4. stored[slot] = 0 /\ polled[slot] = 0
      BY <1>1, <3>3 DEF Cursors
    <3>5. QED
      BY <3>4
  <2>3. QED
    BY <2>1, <2>2
<1>8. QED
  BY <1>3, <1>4, <1>5, <1>6, <1>7 DEF NewsInv

\* A cycle that ends has seen all that is shown.
LEMMA CyclePreserves == NewsInv /\ RunOnce => NewsInv'
<1> SUFFICES ASSUME NewsInv, RunOnce PROVE NewsInv'
  OBVIOUS
<1>1. TypeOK /\ Cursors /\ Typed
  BY Types DEF NewsInv
<1>2. /\ pc' \in {"loop", "sleep"} /\ seen' = visible /\ missed' = FALSE /\ lastFull' = now
      /\ UNCHANGED <<now, today, data, tables, event, since, why, faults,
                     polled, cut, tooLate, changedAt>>
  BY DEF RunOnce
<1>3. postponed' \in Nat
  BY <1>1 DEF RunOnce, TypeOK
<1>4. TypeOK'
  BY <1>1, <1>2, <1>3 DEF TypeOK, data, tables
<1>5. Cursors' /\ Asked' /\ Shown' /\ Kept'
  BY <1>1, <1>2 DEF NewsInv, Cursors, Asked, Shown, Kept, Behind, data, tables
<1>6. \A slot \in Slots : stored[slot] <= visible[slot] /\ visible[slot] <= visible[slot]
  BY <1>1 DEF TypeOK, Typed
<1>7. Read'
  BY <1>2, <1>6 DEF Read, data, tables
<1>8. QED
  BY <1>4, <1>5, <1>7 DEF NewsInv

\* An answer stores what is left of its Event from start on.  One that stores
\* nothing new may only pass slots that were stored whole, or of which nothing was
\* shown; else the cycle that follows it will see them.
LEMMA PollPreserves == NewsInv /\ Poll => NewsInv'
<1> SUFFICES ASSUME NewsInv, Poll PROVE NewsInv'
  OBVIOUS
<1>1. TypeOK /\ Cursors /\ Asked /\ Shown /\ Kept /\ Read /\ Typed
  BY Types DEF NewsInv
<1>2. Answered
  BY PollAnswers
<1>3. /\ pc = "asking"
      /\ cut' = (\E slot \in Slots : slot[1] = event /\ slot[2] >= start
                                     /\ Page[slot] < visible[slot])
      /\ pc' \in {"sleep", "discover", "cycle"}
      /\ pc' = "sleep" => stored' = stored
      /\ why' \in {"due", "news"}
      /\ since' = 0
      /\ polled' = [slot \in Slots |-> IF slot[1] = event THEN visible[slot] ELSE polled[slot]]
      /\ tooLate' = IF cursor[event] = NoCursor
                    THEN tooLate \cup {slot \in Slots : slot[1] = event /\ slot[2] < start
                                                        /\ made[slot] > 0}
                    ELSE tooLate
      /\ UNCHANGED <<now, today, data, event, lastFull, faults,
                     seen, missed, changedAt, postponed>>
  BY DEF Poll, IsNews
<1>4. cursor'[event] \in Nat /\ since \in Nat /\ cursor'[event] >= since
  BY <1>1, <1>2, Bounded DEF Answered, Typed, Bounds
<1>5. cursor'[event] # NoCursor
  BY <1>4 DEF NoCursor
<1>6. Overlap \in Nat /\ start \in Nat /\ now \in Nat
  BY <1>1, Bounded DEF Typed, Bounds
<1>7. cursor[event] # NoCursor => since = cursor[event]
  BY <1>1, <1>3 DEF Asked
<1>8. start = IF 0 >= since - Overlap THEN 0 ELSE since - Overlap
  BY <1>1 DEF Typed
<1>9. \A slot \in Slots : /\ visible[slot] \in Nat /\ stored[slot] \in Nat /\ stored'[slot] \in Nat
                          /\ seen[slot] \in Nat /\ polled[slot] \in Nat /\ polled'[slot] \in Nat
                          /\ Page[slot] \in Nat
  <2>1. \A slot \in Slots : Page[slot] \in Nat
    BY <1>1, PageOf DEF Typed
  <2>2. \A slot \in Slots : stored'[slot] \in Nat
    BY <1>2, Bounded DEF Answered, Bounds
  <2>3. QED
    BY <1>1, <1>3, <2>1, <2>2 DEF Typed
<1>10. TypeOK'
  <2>1. polled' \in [Slots -> 0..MaxFills]
    BY <1>1, <1>3 DEF TypeOK
  <2>2. \A slot \in Slots : stored'[slot] <= visible[slot]
    BY <1>2, <1>9 DEF Answered
  <2>3. tooLate' \subseteq Slots
    BY <1>1, <1>3 DEF TypeOK
  <2>4. cut' \in BOOLEAN
    BY <1>3
  <2>5. {made, visible, stored, polled, seen} \subseteq [Slots -> 0..MaxFills]
    BY <1>1 DEF TypeOK
  <2>6. {made', visible', stored', polled', seen'} \subseteq [Slots -> 0..MaxFills]
    BY <1>2, <1>3, <2>1, <2>5 DEF Answered, data
  <2>7. \A slot \in Slots : stored'[slot] <= visible'[slot] /\ visible'[slot] <= made'[slot]
    BY <1>1, <1>3, <2>2 DEF TypeOK, data
  <2>8. QED
    BY <1>1, <1>2, <1>3, <2>3, <2>4, <2>6, <2>7, Bounded DEF TypeOK, Answered, Bounds
<1>11. Cursors'
  <2>1. ASSUME NEW e \in EventIds
        PROVE  cursor'[e] <= now /\ (e > event => cursor'[e] = NoCursor)
    <3>1. event \in Nat /\ ~(event > event)
      BY <1>1 DEF Typed
    <3>2. QED
      BY <1>1, <1>2, <3>1 DEF Cursors, Answered
  <2>2. ASSUME NEW slot \in Slots, cursor'[slot[1]] = NoCursor
        PROVE  stored'[slot] = 0 /\ polled'[slot] = 0
    <3>1. slot[1] # event /\ slot[1] \in EventIds
      BY <1>5, <2>2, SlotParts
    <3>2. cursor[slot[1]] = NoCursor
      BY <1>2, <2>2, <3>1 DEF Answered
    <3>3. stored[slot] = 0 /\ polled[slot] = 0 /\ Page[slot] = 0
      BY <1>1, <3>1, <3>2, PageOf DEF Cursors
    <3>4. QED
      BY <1>2, <1>3, <3>1, <3>3 DEF Answered
  <2>3. QED
    BY <1>1, <1>3, <2>1, <2>2 DEF Cursors, data
<1>12. Asked'
  BY <1>3 DEF Asked
<1>13. Shown'
  BY <1>1, <1>3, <1>9 DEF Shown, data
<1>14. Kept'
  <2> SUFFICES ASSUME ~cut', NEW slot \in Slots, slot[1] = event, ~Behind(slot)'
               PROVE  visible[slot] <= stored'[slot]
    BY <1>3 DEF Kept
  <2>1. slot[2] \in Nat
    BY SlotParts
  <2>2. ~(slot[2] < cursor'[event] - Overlap)
    BY <1>5 DEF Behind
  <2>3. slot[2] >= start
    BY <1>4, <1>6, <1>8, <2>1, <2>2
  <2>4. ~(Page[slot] < visible[slot])
    BY <1>3, <2>3
  <2>5. stored'[slot] >= Page[slot]
    BY <1>2 DEF Answered
  <2>6. QED
    BY <1>9, <2>4, <2>5
<1>15. Read'
  <2> SUFFICES ASSUME pc' = "sleep", ~missed, NEW slot \in Slots
               PROVE  /\ stored[slot] <= seen[slot]
                      /\ slot[1] = event /\ slot \notin tooLate' /\ Behind(slot)' =>
                           visible[slot] <= seen[slot]
    BY <1>3 DEF Read, data
  <2>1. stored' = stored /\ stored[slot] <= seen[slot]
    BY <1>1, <1>3 DEF Read
  <2>2. ASSUME slot[1] = event, slot \notin tooLate', Behind(slot)'
        PROVE  visible[slot] <= seen[slot]
    <3>1. slot[2] \in Nat /\ slot[2] < cursor'[event] - Overlap
      BY <2>2, SlotParts DEF Behind
    <3>2. CASE cursor[event] = NoCursor
      <4>1. CASE slot[2] < start
        <5>1. ~(made[slot] > 0) /\ made[slot] \in Nat /\ visible[slot] <= made[slot]
          BY <1>1, <1>3, <2>2, <3>2, <4>1 DEF TypeOK, Typed
        <5>2. QED
          BY <1>9, <5>1
      <4>2. CASE start <= slot[2]
        <5>1. ASSUME NEW other \in Slots, other[1] = event PROVE Page[other] = 0
          <6>1. stored[other] = 0
            BY <1>1, <3>2, <5>1 DEF Cursors
          <6>2. stored[other] >= Page[other]
            BY <1>2, <2>1 DEF Answered
          <6>3. QED
            BY <1>9, <6>1, <6>2
        <5>2. visible[slot] = 0
          BY <1>1, <2>2, <4>2, <5>1, EmptyPage
        <5>3. QED
          BY <1>9, <5>2
      <4>3. QED
        BY <1>6, <3>1, <4>1, <4>2
    <3>3. CASE cursor[event] # NoCursor
      <4>1. CASE Behind(slot)
        BY <1>1, <1>3, <2>2, <3>3, <4>1 DEF Read
      <4>2. CASE ~Behind(slot)
        <5>1. ~(slot[2] < since - Overlap)
          BY <1>7, <2>2, <3>3, <4>2 DEF Behind
        <5>2. start <= slot[2]
          BY <1>4, <1>6, <1>8, <3>1, <3>3, <5>1
        <5>3. CASE Page[slot] < visible[slot]
          <6>1. \A other \in Slots : Page[other] > 0 => other[2] <= slot[2]
            BY <1>1, <2>2, <5>2, <5>3, PageInOrder
          <6>2. cursor'[event] = since \/ cursor'[event] <= slot[2]
            BY <1>2, <6>1 DEF Answered
          <6>3. QED
            BY <1>4, <1>6, <3>1, <5>1, <6>2
        <5>4. CASE ~(Page[slot] < visible[slot])
          <6>1. stored[slot] >= Page[slot]
            BY <1>2, <2>1 DEF Answered
          <6>2. QED
            BY <1>9, <2>1, <5>4, <6>1
        <5>5. QED
          BY <5>3, <5>4
      <4>3. QED
        BY <4>1, <4>2
    <3>4. QED
      BY <3>2, <3>3
  <2>3. QED
    BY <2>1, <2>2
<1>16. QED
  BY <1>10, <1>11, <1>12, <1>13, <1>14, <1>15 DEF NewsInv

\* Every step preserves the invariant.
LEMMA NewsNext == NewsInv /\ [Next]_vars => NewsInv'
<1> SUFFICES ASSUME NewsInv, [Next]_vars PROVE NewsInv'
  OBVIOUS
<1>1. ASSUME NEW e \in EventIds, LeaderTrades(e) PROVE NewsInv'
  BY <1>1, TradePreserves
<1>2. ASSUME NEW slot \in Slots, Appears(slot) PROVE NewsInv'
  BY <1>2, AppearPreserves
<1>3. CASE \/ DayChanges \/ TimeIsLost \/ PollFails \/ DiscoverFails
           \/ RunOnceFails \/ Crash \/ Restart \/ UNCHANGED vars
  BY <1>3, QuietPreserves
<1>4. CASE Ask
  BY <1>4, AskPreserves
<1>5. CASE Poll
  BY <1>5, PollPreserves
<1>6. CASE First \/ Discover
  BY <1>6, FoundPreserves
<1>7. CASE RunOnce
  BY <1>7, CyclePreserves
<1>8. QED
  BY <1>1, <1>2, <1>3, <1>4, <1>5, <1>6, <1>7 DEF Next

LEMMA NewsInvariance == Spec => []NewsInv
  BY NewsInit, NewsNext, PTL DEF Spec

\* The rows never hold more than is shown, nor the API shows more than is made;
\* every cursor is a second that a request has reached.
THEOREM TypeCorrect == Spec => []TypeOK
<1>1. NewsInv => TypeOK
  BY DEF NewsInv
<1>2. QED
  BY <1>1, NewsInvariance, PTL

\* After each round of the loop what the last poll showed has been seen by a cycle,
\* through the overlap and the cursor, but for the exceptions NothingUnseen names.
THEOREM NothingGoesUnseen == Spec => []NothingUnseen
<1>1. NewsInv => NothingUnseen
  <2> SUFFICES ASSUME NewsInv, pc = "sleep", ~missed, ~cut,
                      NEW slot \in Slots, slot \notin tooLate, slot[1] = event
               PROVE  polled[slot] <= seen[slot]
    BY DEF NothingUnseen
  <2>1. /\ polled[slot] \in Nat /\ visible[slot] \in Nat
        /\ stored[slot] \in Nat /\ seen[slot] \in Nat
    BY Types DEF NewsInv, Typed
  <2>2. polled[slot] <= visible[slot]
    BY DEF NewsInv, Shown
  <2>3. CASE Behind(slot)
    <3>1. visible[slot] <= seen[slot]
      BY <2>3 DEF NewsInv, Read
    <3>2. QED
      BY <2>1, <2>2, <3>1
  <2>4. CASE ~Behind(slot)
    <3>1. polled[slot] <= stored[slot] /\ stored[slot] <= seen[slot]
      BY <2>4 DEF NewsInv, Kept, Read
    <3>2. QED
      BY <2>1, <3>1
  <2>5. QED
    BY <2>3, <2>4
<1>2. QED
  BY <1>1, NewsInvariance, PTL

\* The step that NewsIsNew is about.
OnlyNews ==
    pc = "asking" /\ pc' = "cycle" =>
        cut \/ \E slot \in Slots : slot[1] = event /\ polled[slot] < visible[slot]

\* A cycle that activity starts has activity that no poll before has seen, across
\* overlaps, failures and restarts.
THEOREM NoSecondCycle == Spec => NewsIsNew
<1>1. NewsInv /\ [Next]_vars => [OnlyNews]_vars
  <2> SUFFICES ASSUME NewsInv, [Next]_vars, pc = "asking", pc' = "cycle", ~cut,
                      \A slot \in Slots : slot[1] = event => ~(polled[slot] < visible[slot])
               PROVE  FALSE
    BY DEF OnlyNews
  <2>1. Poll
    BY DEF Next, vars, LeaderTrades, Appears, DayChanges, TimeIsLost, Ask, PollFails,
           Discover, DiscoverFails, First, RunOnce, RunOnceFails, Crash, Restart
  <2>2. Answered /\ TypeOK /\ Typed
    BY <2>1, PollAnswers, Types DEF NewsInv
  <2>3. stored' # stored
    BY <2>1 DEF Poll, IsNews
  <2>4. PICK slot \in Slots : stored'[slot] # stored[slot]
    BY <2>2, <2>3 DEF Answered, TypeOK
  <2>5. /\ stored'[slot] = Page[slot] /\ stored'[slot] >= stored[slot]
        /\ stored'[slot] \in 0..visible[slot]
    BY <2>2, <2>4 DEF Answered
  <2>6. /\ stored[slot] \in Nat /\ polled[slot] \in Nat /\ visible[slot] \in Nat
        /\ start \in Nat
    BY <2>2 DEF Typed
  <2>7. Page[slot] > stored[slot] /\ Page[slot] <= visible[slot] /\ Page[slot] # 0
    BY <2>4, <2>5, <2>6
  <2>8. slot[1] = event /\ ~(slot[2] < start)
    BY <2>2, <2>7, PageOf
  <2>9. ~Behind(slot)
    <3>1. SUFFICES ASSUME cursor[event] # NoCursor
                   PROVE  ~(slot[2] < cursor[event] - Overlap)
      BY <2>8 DEF Behind
    <3>2. since = cursor[event]
      BY <3>1 DEF NewsInv, Asked
    <3>3. cursor[event] \in Int /\ Overlap \in Int /\ slot[2] \in Nat
      BY <2>2, CursorParts, SlotParts, Bounded DEF Typed, Bounds
    <3>4. start = IF 0 >= cursor[event] - Overlap THEN 0 ELSE cursor[event] - Overlap
      BY <2>2, <3>2 DEF Typed
    <3>5. QED
      BY <2>8, <3>3, <3>4
  <2>10. polled[slot] <= stored[slot]
    BY <2>8, <2>9 DEF NewsInv, Kept
  <2>11. ~(polled[slot] < visible[slot]) /\ Page[slot] \in Nat
    BY <2>5, <2>6, <2>8
  <2>12. QED
    BY <2>6, <2>7, <2>10, <2>11
<1>2. QED
  BY <1>1, NewsInvariance, PTL DEF Spec, NewsIsNew, OnlyNews
=============================================================================
