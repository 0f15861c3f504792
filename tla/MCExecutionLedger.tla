------------------------- MODULE MCExecutionLedger -------------------------
(***************************************************************************)
(* Two attempts, two orders and two trades of two events.  Trade t1 is     *)
(* seen by the stream and by the poll, with its status reported out of     *)
(* order, once without order ids (the maker list may be empty) and once    *)
(* for the other event; t2 belongs to the second order.                    *)
(***************************************************************************)
EXTENDS ExecutionLedger

CONSTANTS a1, a2, e1, e2, o1, o2, t1, t2, ws, poll

Report(e, t, s, os, src) ==
    [event |-> e, trade |-> t, status |-> s, orders |-> os, origin |-> src]

MCTradeReports ==
    { Report(e1, t1, "MATCHED",   {o1}, ws),
      Report(e1, t1, "MATCHED",   {o1}, poll),
      Report(e1, t1, "CONFIRMED", {},   ws),
      Report(e1, t1, "FAILED",    {o1}, poll),
      Report(e2, t1, "MINED",     {o1}, poll),
      Report(e1, t2, "RETRYING",  {o2}, ws) }

MCOrderReports ==
    { [event |-> e1, order |-> o1, type |-> "CANCELLATION", fill |-> 0],
      [event |-> e1, order |-> o1, type |-> "UPDATE", fill |-> 1] }

MCFills == {0, 1}
=============================================================================
