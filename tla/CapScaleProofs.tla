--------------------------- MODULE CapScaleProofs ---------------------------
(***************************************************************************)
(* solveCapScale finds the largest affordable scale, for every number of   *)
(* rounds and every rising curve of estimates.                             *)
(***************************************************************************)
EXTENDS CapScale, TLAPS

LEMMA GridFacts ==
    /\ Gap \in [0..Iterations -> Nat \ {0}]
    /\ Iterations \in Nat /\ 0 \in 0..Iterations
    /\ Grid \in Nat /\ Grid >= 1
    /\ 0 \in Scales /\ Grid \in Scales
BY CapScaleAssumption DEF Grid, Scales

\* The midpoint of an interval of width 2g is g above its lower end.
LEMMA Midpoint ==
    ASSUME NEW l \in Nat, NEW g \in Nat
    PROVE  (l + (l + 2 * g)) \div 2 = l + g
<1>1. l + (l + 2 * g) = 2 * (l + g)
  OBVIOUS
<1>2. QED
  BY <1>1

\* Before the loop the interval is the whole grid; in it, its width is known and
\* its upper end is too dear; after it nothing fits above the lower end.
Interval ==
    /\ pc = "start" => low = 0 /\ high = Grid /\ iteration = 0
    /\ pc = "loop"  => high = low + Gap[iteration] /\ ~Affordable(curve, high)
    /\ pc = "done"  => low = Grid \/ ~Affordable(curve, low + 1)

RiskOfLow ==
    /\ pc # "start" => lowRisk = curve[low] /\ Affordable(curve, low)
    /\ pc = "start" => lowRisk = 0

IInv == TypeOK /\ Interval /\ RiskOfLow

LEMMA IInvInit == Init => IInv
BY GridFacts DEF Init, IInv, TypeOK, Interval, RiskOfLow

LEMMA IInvHalve ==
    ASSUME IInv, Halve
    PROVE  IInv'
<1> USE DEF IInv, TypeOK
<1>0. /\ pc = "loop" /\ iteration \in 0..Iterations /\ iteration < Iterations
      /\ low \in Nat /\ high \in Nat
      /\ curve \in Curves /\ curve \in [Scales -> Nat \cup {NoQuote}]
  BY CapScaleAssumption, GridFacts DEF Halve, Scales
<1> DEFINE g == Gap[iteration + 1]
<1>1. /\ iteration + 1 \in 0..Iterations
      /\ g \in Nat /\ g >= 1 /\ Gap[iteration] = 2 * g
  BY <1>0, CapScaleAssumption
<1> HIDE DEF g
<1>2. (low + high) \div 2 = low + g
  <2>1. high = low + 2 * g
    BY <1>0, <1>1 DEF Interval
  <2>2. QED
    BY <2>1, <1>0, <1>1, Midpoint
<1>3. low + g \in Scales
  BY <1>0, <1>1, GridFacts DEF Interval, Scales
<1>4. CASE Affordable(curve, low + g)
  <2>1. /\ low' = low + g /\ lowRisk' = curve[low + g] /\ high' = high
        /\ iteration' = iteration + 1 /\ curve' = curve /\ pc' = pc
    BY <1>2, <1>4 DEF Halve
  <2>2. high' = low' + Gap[iteration']
    BY <2>1, <1>0, <1>1 DEF Interval, g
  <2>3. lowRisk' \in Nat
    BY <2>1, <1>0, <1>3, <1>4 DEF Affordable
  <2>4. QED
    BY <2>1, <2>2, <2>3, <1>0, <1>1, <1>3, <1>4 DEF Interval, RiskOfLow, Affordable
<1>5. CASE ~Affordable(curve, low + g)
  <2>1. /\ high' = low + g /\ low' = low /\ lowRisk' = lowRisk
        /\ iteration' = iteration + 1 /\ curve' = curve /\ pc' = pc
    BY <1>2, <1>5 DEF Halve
  <2>2. high' = low' + Gap[iteration']
    BY <2>1 DEF g
  <2>3. QED
    BY <2>1, <2>2, <1>0, <1>1, <1>3, <1>5 DEF Interval, RiskOfLow, Affordable
<1>6. QED
  BY <1>4, <1>5

LEMMA IInvStep == IInv /\ [Next]_vars => IInv'
<1> SUFFICES ASSUME IInv, [Next]_vars PROVE IInv'
  OBVIOUS
<1> USE DEF IInv, TypeOK
<1>1. CASE TryFullScale
  <2>1. curve \in [Scales -> Nat \cup {NoQuote}] /\ Rising(curve)
    BY CapScaleAssumption
  <2>2. CASE Affordable(curve, Grid)
    <3>1. curve[Grid] \in Nat
      BY <2>1, <2>2, GridFacts DEF Affordable
    <3>2. QED
      BY <1>1, <2>2, <3>1, GridFacts DEF TryFullScale, Interval, RiskOfLow
  <2>3. CASE ~Affordable(curve, Grid)
    <3>1. curve[0] = 0 /\ Affordable(curve, 0)
      BY <2>1, CapScaleAssumption DEF Rising, Affordable, NoQuote
    <3>2. Gap[0] = Grid
      BY DEF Grid
    <3>3. QED
      BY <1>1, <2>3, <3>1, <3>2, GridFacts DEF TryFullScale, Interval, RiskOfLow
  <2>4. QED
    BY <2>2, <2>3
<1>2. CASE Halve
  BY <1>2, IInvHalve
<1>3. CASE LoopEnds
  <2>1. Gap[iteration] = 1
    BY <1>3, CapScaleAssumption DEF LoopEnds
  <2>2. QED
    BY <1>3, <2>1 DEF LoopEnds, Interval, RiskOfLow
<1>4. CASE UNCHANGED vars
  BY <1>4 DEF vars, Interval, RiskOfLow
<1>5. QED
  BY <1>1, <1>2, <1>3, <1>4 DEF Next

LEMMA Inductive == Spec => []IInv
BY IInvInit, IInvStep, PTL DEF Spec

\* Types of the loop's variables (target-position.ts 117-130).
THEOREM TypeCorrect == Spec => []TypeOK
<1>1. IInv => TypeOK
  BY DEF IInv
<1>2. QED BY <1>1, Inductive, PTL

\* The risk reported with the scale is the risk of that scale, never above the
\* cap (target-position.ts 112-130).
THEOREM ReportedRiskFits == Spec => []RiskWithinCap
<1>1. IInv => RiskWithinCap
  BY DEF IInv, RiskOfLow, RiskWithinCap, Affordable
<1>2. QED BY <1>1, Inductive, PTL

\* The bisection returns the largest affordable scale of its grid, provided the
\* estimate rises with the scale (target-position.ts 117-130).
THEOREM ScaleIsLargest == Spec => []LargestAffordable
<1>1. IInv => LargestAffordable
  <2> SUFFICES ASSUME IInv, pc = "done", NEW k \in Scales
               PROVE  Affordable(curve, k) <=> k <= low
    BY DEF LargestAffordable
  <2>1. /\ Rising(curve) /\ low \in Scales /\ Affordable(curve, low)
        /\ low = Grid \/ ~Affordable(curve, low + 1)
    BY CapScaleAssumption DEF IInv, TypeOK, Interval, RiskOfLow
  <2>2. CASE k <= low
    BY <2>1, <2>2 DEF Rising
  <2>3. CASE low < k
    <3>1. low + 1 \in Scales /\ low + 1 <= k /\ ~Affordable(curve, low + 1)
      BY <2>1, <2>3, GridFacts DEF Scales
    <3>2. QED
      BY <3>1, <2>1, <2>3, GridFacts DEF Rising, Scales
  <2>4. QED
    BY <2>1, <2>2, <2>3, GridFacts DEF Scales
<1>2. QED BY <1>1, Inductive, PTL
=============================================================================
