--------------------------- MODULE MCDecisionAudit ---------------------------
\* Two tokens, two handlers, one action and one way to hold.
EXTENDS DecisionAudit

CONSTANTS t1, t2, buy, hold, h1, h2

MCOrder == <<t1, t2>>
MCHandlers == {h1, h2}
MCActions == {buy}
MCHolds == {hold}
=============================================================================
