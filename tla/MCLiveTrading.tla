--------------------------- MODULE MCLiveTrading ---------------------------
(***************************************************************************)
(* The instances of the live mode that TLC checks.                         *)
(***************************************************************************)
EXTENDS LiveTrading

NoFaults       == {}
Recoverable    == {"crash", "drop", "alert"}
CrashAndHttp   == {"crash", "http"}
=============================================================================
