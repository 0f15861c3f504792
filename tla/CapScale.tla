------------------------------ MODULE CapScale ------------------------------
(***************************************************************************)
(* solveCapScale of domain/target-position.ts: the bisection that finds    *)
(* the scale at which the leader's positions fit under the risk cap.  A    *)
(* scale is a multiple k of the finest step 1/Grid the bisection reaches   *)
(* (Grid = 2^80 in the code), and a curve gives the estimated risk of the  *)
(* targets at each scale, or NoQuote where an order book is missing or too *)
(* thin.  What makes a curve out of order books is in TargetPosition.      *)
(***************************************************************************)
EXTENDS Integers

CONSTANTS
    Iterations,     \* rounds of the loop
    Gap,            \* Gap[i]: width of the interval after i rounds
    Available,      \* the risk that may be taken
    Curves          \* the estimates considered

NoQuote == -1
Grid    == Gap[0]
Scales  == 0..Grid

Affordable(c, k) == c[k] # NoQuote /\ c[k] <= Available

\* Dearer when larger, and without a quote from some scale on; nothing at zero.
Rising(c) ==
    /\ c[0] = 0
    /\ \A k, m \in Scales : k <= m /\ Affordable(c, m) => Affordable(c, k)

ASSUME CapScaleAssumption ==
    /\ Iterations \in Nat /\ Available \in Nat
    /\ Gap \in [0..Iterations -> Nat \ {0}]
    /\ Gap[Iterations] = 1
    /\ \A i \in 0..Iterations : i < Iterations => Gap[i] = 2 * Gap[i + 1]
    /\ Curves \subseteq [Scales -> Nat \cup {NoQuote}]
    /\ \A c \in Curves : Rising(c)

VARIABLES
    curve,          \* the estimate this call works with
    pc,             \* "start", "loop" or "done"
    low, high,      \* the interval
    lowRisk,        \* the risk at low
    iteration

vars == <<curve, pc, low, high, lowRisk, iteration>>

TypeOK ==
    /\ curve \in Curves
    /\ pc \in {"start", "loop", "done"}
    /\ low \in Scales /\ high \in Scales
    /\ lowRisk \in Nat
    /\ iteration \in 0..Iterations

Init ==
    /\ curve \in Curves
    /\ pc = "start"
    /\ low = 0 /\ high = Grid /\ lowRisk = 0 /\ iteration = 0

-----------------------------------------------------------------------------
\* Mutant: the full scale is left to the loop.
StraightToLoop ==
    /\ pc = "start"
    /\ pc' = "loop"
    /\ UNCHANGED <<curve, low, high, lowRisk, iteration>>

\* The whole targets are tried first.
TryFullScale ==
    /\ pc = "start"
    /\ \/ /\ Affordable(curve, Grid)
          /\ low' = Grid /\ lowRisk' = curve[Grid]
          /\ pc' = "done"
       \/ /\ ~Affordable(curve, Grid)
          /\ pc' = "loop"
          /\ UNCHANGED <<low, lowRisk>>
    /\ UNCHANGED <<curve, high, iteration>>

\* Mutant: the risk of the midpoint is stored whether it is affordable or not.
HalveKeepingRisk ==
    /\ pc = "loop" /\ iteration < Iterations
    /\ LET midpoint == (low + high) \div 2
       IN  /\ \/ /\ Affordable(curve, midpoint)
                 /\ low' = midpoint
                 /\ UNCHANGED high
              \/ /\ ~Affordable(curve, midpoint)
                 /\ high' = midpoint
                 /\ UNCHANGED low
           /\ lowRisk' = IF curve[midpoint] = NoQuote THEN lowRisk ELSE curve[midpoint]
    /\ iteration' = iteration + 1
    /\ UNCHANGED <<curve, pc>>

\* A round of the loop.
Halve ==
    /\ pc = "loop" /\ iteration < Iterations
    /\ LET midpoint == (low + high) \div 2
       IN  \/ /\ Affordable(curve, midpoint)
              /\ low' = midpoint /\ lowRisk' = curve[midpoint]
              /\ UNCHANGED high
           \/ /\ ~Affordable(curve, midpoint)
              /\ high' = midpoint
              /\ UNCHANGED <<low, lowRisk>>
    /\ iteration' = iteration + 1
    /\ UNCHANGED <<curve, pc>>

LoopEnds ==
    /\ pc = "loop" /\ iteration = Iterations
    /\ pc' = "done"
    /\ UNCHANGED <<curve, low, high, lowRisk, iteration>>

Next == TryFullScale \/ Halve \/ LoopEnds

Spec == Init /\ [][Next]_vars

-----------------------------------------------------------------------------
\* The risk the plan reports is the one of the scale it uses, and under the cap
\* in every round.
RiskWithinCap ==
    pc # "start" => lowRisk = curve[low] /\ lowRisk <= Available

\* The follower takes the largest position that fits: at the end no larger scale
\* the bisection could have reached is affordable.
LargestAffordable ==
    pc = "done" => \A k \in Scales : Affordable(curve, k) <=> k <= low
=============================================================================
