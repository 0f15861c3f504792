-------------------------- MODULE OneOrderAtATime --------------------------
(***************************************************************************)
(* What the follower promises of its live orders, without its database,    *)
(* its stream or its cycle: an order is sent for an attempt that has been  *)
(* opened before, and a further attempt is opened only when the order of   *)
(* the previous one was never sent or has reached its end at the exchange. *)
(***************************************************************************)
CONSTANT Attempts

VARIABLES
    open,       \* the attempt that is under way, if any
    sent,       \* attempts whose order went out
    settled,    \* attempts whose order reached its end at the exchange
    closed      \* attempts the follower is done with

vars == <<open, sent, settled, closed>>

Init == open = {} /\ sent = {} /\ settled = {} /\ closed = {}

Open(a) ==
    /\ open = {} /\ a \notin closed
    /\ open' = {a}
    /\ UNCHANGED <<sent, settled, closed>>

Send(a) ==
    /\ a \in open \ sent
    /\ sent' = sent \cup {a}
    /\ UNCHANGED <<open, settled, closed>>

Settle(a) ==
    /\ a \in sent \ settled
    /\ settled' = settled \cup {a}
    /\ UNCHANGED <<open, sent, closed>>

Close(a) ==
    /\ a \in open /\ (a \in sent => a \in settled)
    /\ open' = {}
    /\ closed' = closed \cup {a}
    /\ UNCHANGED <<sent, settled>>

Next == \E a \in Attempts : Open(a) \/ Send(a) \/ Settle(a) \/ Close(a)

Spec == Init /\ [][Next]_vars

-----------------------------------------------------------------------------
\* Never two live orders at the exchange.
OneLiveOrder == \A a, b \in sent \ settled : a = b
=============================================================================
