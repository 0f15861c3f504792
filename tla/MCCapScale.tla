----------------------------- MODULE MCCapScale -----------------------------
(***************************************************************************)
(* Four rounds, and every rising curve with the risks 0, Available,        *)
(* Available + 1 and NoQuote, whichever scale each of them begins at.      *)
(***************************************************************************)
EXTENDS CapScale

MCGap == [i \in 0..Iterations |-> 2 ^ (Iterations - i)]

MCCurves ==
    { [k \in 0..MCGap[0] |-> CASE k < cap  -> 0
                               [] k < over -> Available
                               [] k < none -> Available + 1
                               [] OTHER    -> NoQuote] :
        <<cap, over, none>> \in { c \in (1..(MCGap[0] + 1)) \X (1..(MCGap[0] + 1)) \X (1..(MCGap[0] + 1)) :
                                    c[1] <= c[2] /\ c[2] <= c[3] } }
=============================================================================
