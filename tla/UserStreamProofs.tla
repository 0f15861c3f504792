-------------------------- MODULE UserStreamProofs --------------------------
(***************************************************************************)
(* Proofs about UserStream, for every number of Events and every threshold,*)
(* pause and handshake.  The age of the outage and the time without a      *)
(* socket differ by at most the close that came before: Bounds follows that*)
(* difference through pause, handshake and close.                          *)
(***************************************************************************)
EXTENDS UserStream, TLAPS

\* A socket that is open was subscribed to what is wanted.
SubscribedAsWanted == socket = "open" => subscribed = markets

\* The timer of an outage runs only without a socket, and never ahead.
TimerIsHonest ==
    /\ outage # NoOutage => socket # "open" /\ outage <= unopened
    /\ socket = "open" => outage = NoOutage
    /\ socket = "closing" => outage = NoOutage /\ ~stuck
    /\ pc = "loop" \/ socket = "connecting" => outage # NoOutage
    /\ pc = "ended" => live /\ unopened >= Unhealthy

\* The timer lags by one close at most, and each wait adds what it may.
Behind == outage < Unhealthy => unopened <= outage + MaxHandshake

Bounds ==
    live /\ ~hung =>
        /\ pc = "loop" =>
             Behind /\ unopened + pause < Unhealthy + MaxDelay + MaxHandshake
        /\ socket = "connecting" =>
             Behind /\ unopened < Unhealthy + MaxDelay + MaxHandshake + handshake
        /\ socket = "open" => unopened = 0
        /\ socket = "closing" => unopened <= handshake
        /\ pc = "after" =>
             /\ outage = NoOutage => unopened <= MaxHandshake
             /\ outage # NoOutage => Behind /\ unopened <= LongestOutage

IInv ==
    /\ TypeOK
    /\ handshake <= MaxHandshake
    /\ SubscribedAsWanted
    /\ TimerIsHonest
    /\ Bounds

-----------------------------------------------------------------------------
LEMMA InitInv == Init => IInv
<1> SUFFICES ASSUME Init PROVE IInv
  OBVIOUS
<1>1. /\ live \in BOOLEAN /\ hung \in BOOLEAN /\ stuck \in BOOLEAN /\ ~hung /\ ~stuck
      /\ markets \in Events /\ subscribed \in Events
      /\ socket = "none" /\ handshake = 0 /\ quiet = Unhealthy /\ outage = 0
      /\ unopened = 0 /\ delay = 1 /\ pause = 0 /\ pc = "loop"
  BY Zenon DEF Init
<1> QED
  BY <1>1, StreamAssumption DEF IInv, TypeOK, SubscribedAsWanted, TimerIsHonest, Bounds,
     Behind, LongestOutage, NoOutage

LEMMA NextInv == IInv /\ [Next]_vars => IInv'
<1> SUFFICES ASSUME IInv, [Next]_vars PROVE IInv'
  OBVIOUS
<1> USE StreamAssumption DEF IInv, TypeOK, SubscribedAsWanted, TimerIsHonest, Bounds,
     Behind, LongestOutage, NoOutage
<1>1. CASE Connect
  BY <1>1 DEF Connect, history
<1>2. CASE OutageArms
  BY <1>2 DEF OutageArms, OutageTooLong, OutageSoFar, conn, history
<1>3. CASE Backoff
  BY <1>3 DEF Backoff, OutageTooLong, OutageSoFar, Least, conn, history
<1>4. CASE Opened
  <2>1. /\ hung' \in BOOLEAN /\ ~hung'
        /\ socket = "connecting" /\ socket' = "open" /\ subscribed' = markets
        /\ quiet' = 0 /\ outage' = NoOutage /\ delay' = 1 /\ unopened' = 0
        /\ UNCHANGED <<live, markets, handshake, stuck, pc, pause>>
    BY <1>4, Zenon DEF Opened
  <2> QED
    BY <2>1
<1>5. CASE Message
  BY <1>5 DEF Message, conn, history
<1>6. CASE GoSilent
  BY <1>6 DEF GoSilent, history
<1>7. CASE Closes
  <2>1. /\ stuck' \in BOOLEAN /\ ~stuck'
        /\ pc = "connection" /\ socket' = "none" /\ pc' = "after"
        /\ UNCHANGED <<live, markets, subscribed, handshake, quiet, outage, delay,
                       pause, unopened, hung>>
    BY <1>7, Zenon DEF Closes, history
  <2> QED
    BY <2>1
<1>8. CASE Tick
  BY <1>8 DEF Tick, Shaking, Least
<1>9. ASSUME NEW e \in Events, SetEvent(e) PROVE IInv'
  <2>1. CASE socket = "open"
    <3>1. /\ stuck' \in BOOLEAN /\ ~stuck'
          /\ markets' = e /\ socket' = "closing" /\ handshake' = 0
          /\ UNCHANGED <<live, subscribed, quiet, outage, delay, pc, pause, unopened, hung>>
      BY <1>9, <2>1, Zenon DEF SetEvent, history
    <3> QED
      BY <2>1, <3>1
  <2>2. CASE socket # "open"
    BY <1>9, <2>2 DEF SetEvent, history
  <2> QED
    BY <2>1, <2>2
<1>10. CASE UNCHANGED vars
  BY <1>10 DEF vars, conn, history
<1> QED
  BY <1>1, <1>2, <1>3, <1>4, <1>5, <1>6, <1>7, <1>8, <1>9, <1>10 DEF Next, Run

LEMMA Invariance == Spec => []IInv
  BY InitInv, NextInv, PTL DEF Spec

\* run, runConnection and setEvent keep the types.
THEOREM TypeCorrect == Spec => []TypeOK
<1>1. IInv => TypeOK
  BY DEF IInv
<1> QED
  BY <1>1, Invariance, PTL

\* A healthy stream is subscribed to the Event followed now.
THEOREM HealthyMeansSubscribed == Spec => []HealthyIsSubscribed
<1>1. IInv => HealthyIsSubscribed
  BY DEF IInv, SubscribedAsWanted, HealthyIsSubscribed, isHealthy
<1> QED
  BY <1>1, Invariance, PTL

\* The switch is armed only by an outage as long as the threshold.
THEOREM StopsAreEarned == Spec => []NoEarlyStop
<1>1. IInv => NoEarlyStop
  BY DEF IInv, TimerIsHonest, NoEarlyStop
<1> QED
  BY <1>1, Invariance, PTL

\* No outage outlasts threshold, pause, close and handshake without a stop.
THEOREM OutagesAreStopped == Spec => []OutageIsStopped
<1>1. IInv => OutageIsStopped
  BY StreamAssumption DEF IInv, TypeOK, Bounds, Behind, TimerIsHonest, LongestOutage,
     NoOutage, OutageIsStopped
<1> QED
  BY <1>1, Invariance, PTL
=============================================================================
