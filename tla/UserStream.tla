----------------------------- MODULE UserStream -----------------------------
(***************************************************************************)
(* services/user-stream.ts: the connection of the user WebSocket as run,   *)
(* runConnection and setEvent drive it, with its health and the timer of   *)
(* an outage.  Time goes in ticks; code without an await takes none.  What *)
(* the messages do is LiveTrading's; the pings only matter by the answers  *)
(* they bring.  A handshake ends within MaxHandshake, or the peer hangs,   *)
(* and then the code sets no limit to it.                                  *)
(***************************************************************************)
EXTENDS Integers

CONSTANTS
    Events,         \* Events, each with its markets
    Unhealthy,      \* safety.userStreamUnhealthySeconds
    MaxDelay,       \* the longest pause before a reconnection
    MaxHandshake    \* the longest handshake that ends

ASSUME StreamAssumption ==
    /\ Unhealthy \in Nat \ {0} /\ MaxDelay \in Nat \ {0} /\ MaxHandshake \in Nat
    /\ Events # {}

VARIABLES
    live,       \* execution.mode is live
    markets,    \* the Event whose markets are wanted
    socket,     \* activeSocket and its readyState
    subscribed, \* what the exchange was asked for when the socket opened
    quiet,      \* age of lastHealthyAtMs, up to Unhealthy
    outage,     \* age of outageStartedAtMs, up to Unhealthy, or NoOutage
    delay,      \* reconnectDelayMs
    pc,         \* where run is
    pause,      \* what is left of its sleep
    handshake,  \* age of the attempt to connect or to close
    stuck,      \* the peer answers no more; a close, if any, is the network's
    unopened,   \* history: since when no socket was open, up to LongestOutage + 1
    hung        \* history: the peer hung in some of that time

conn == <<socket, subscribed, handshake, stuck>>
history == <<unopened, hung>>
vars == <<live, markets, conn, quiet, outage, delay, pc, pause, history>>

Least(a, b) == IF a <= b THEN a ELSE b

NoOutage == -1
LongestOutage == Unhealthy + MaxDelay + 2 * MaxHandshake - 1

TypeOK ==
    /\ live \in BOOLEAN /\ markets \in Events /\ subscribed \in Events
    /\ socket \in {"none", "connecting", "open", "closing"}
    /\ quiet \in 0..Unhealthy
    /\ outage \in 0..Unhealthy \cup {NoOutage}
    /\ unopened \in 0..(LongestOutage + 1) /\ hung \in BOOLEAN
    /\ delay \in 1..MaxDelay /\ pause \in 0..MaxDelay
    /\ pc \in {"loop", "connection", "after", "ended"}
    /\ handshake \in Nat /\ stuck \in BOOLEAN
    /\ socket = "none" <=> pc # "connection"

Init ==
    /\ live \in BOOLEAN /\ markets \in Events /\ subscribed \in Events
    /\ socket = "none" /\ handshake = 0 /\ stuck = FALSE
    /\ quiet = Unhealthy
    /\ outage = 0 /\ unopened = 0 /\ hung = FALSE
    /\ delay = 1 /\ pause = 0
    /\ pc = "loop"

-----------------------------------------------------------------------------
isHealthy == socket = "open" /\ quiet < Unhealthy

Shaking == socket \in {"connecting", "closing"}

\* run: its sleep is over, and a connection begins.
Connect ==
    /\ pc = "loop" /\ pause = 0
    /\ pc' = "connection"
    /\ socket' = "connecting"
    /\ handshake' = 0
    /\ stuck' \in BOOLEAN
    /\ UNCHANGED <<live, markets, subscribed, quiet, outage, delay, pause, history>>

\* Mutant: the subscription of the socket before is repeated.
OpenedAsBefore ==
    /\ socket = "connecting" /\ ~stuck
    /\ socket' = "open"
    /\ quiet' = 0
    /\ outage' = NoOutage /\ delay' = 1 /\ unopened' = 0 /\ hung' = FALSE
    /\ UNCHANGED <<live, markets, subscribed, handshake, stuck, pc, pause>>

\* Mutant: the timer of the outage runs on.
OpenedTimerRuns ==
    /\ socket = "connecting" /\ ~stuck
    /\ socket' = "open"
    /\ subscribed' = markets
    /\ quiet' = 0
    /\ delay' = 1 /\ unopened' = 0 /\ hung' = FALSE
    /\ UNCHANGED <<live, markets, handshake, stuck, outage, pc, pause>>

\* The socket opens: markets are read and subscribed now.
Opened ==
    /\ socket = "connecting" /\ ~stuck
    /\ socket' = "open"
    /\ subscribed' = markets
    /\ quiet' = 0
    /\ outage' = NoOutage /\ delay' = 1 /\ unopened' = 0 /\ hung' = FALSE
    /\ UNCHANGED <<live, markets, handshake, stuck, pc, pause>>

\* A PONG or any other message.
Message ==
    /\ socket \in {"open", "closing"} /\ ~stuck
    /\ quiet > 0
    /\ quiet' = 0
    /\ UNCHANGED <<live, markets, conn, outage, delay, pc, pause, history>>

\* The peer is gone without a word: the socket stays as it is.
GoSilent ==
    /\ socket = "open" /\ ~stuck
    /\ stuck' = TRUE
    /\ UNCHANGED <<live, markets, socket, subscribed, handshake, quiet, outage, delay, pc, pause,
                   history>>

\* setEvent with markets that differ: an open socket is closed, which the library
\* sees to even if the peer does not answer; one not open yet will read them.
SetEvent(e) ==
    /\ e # markets
    /\ markets' = e
    /\ IF socket = "open" THEN socket' = "closing" /\ handshake' = 0 /\ stuck' = FALSE
                          ELSE UNCHANGED <<socket, handshake, stuck>>
    /\ UNCHANGED <<live, subscribed, quiet, outage, delay, pc, pause, history>>

\* Mutant: only an error lets runConnection return.
ClosesByError ==
    /\ pc = "connection" /\ socket # "closing"
    /\ socket' = "none" /\ stuck' = FALSE
    /\ pc' = "after"
    /\ UNCHANGED <<live, markets, subscribed, handshake, quiet, outage, delay, pause, history>>

\* close or error: runConnection returns.
Closes ==
    /\ pc = "connection"
    /\ socket' = "none" /\ stuck' = FALSE
    /\ pc' = "after"
    /\ UNCHANGED <<live, markets, subscribed, handshake, quiet, outage, delay, pause, history>>

\* Mutant: every attempt begins an outage of its own.
OutageOfAttempt == 0

\* outageStartedAtMs ??= now.
OutageSoFar == IF outage = NoOutage THEN 0 ELSE outage

OutageTooLong == live /\ OutageSoFar >= Unhealthy

\* run after a connection: the outage is long enough to arm, and run is over ...
OutageArms ==
    /\ pc = "after"
    /\ OutageTooLong
    /\ pc' = "ended"
    /\ UNCHANGED <<live, markets, conn, quiet, outage, delay, pause, history>>

\* ... or it sleeps, longer each time.
Backoff ==
    /\ pc = "after"
    /\ ~OutageTooLong
    /\ outage' = OutageSoFar
    /\ pc' = "loop"
    /\ pause' = delay
    /\ delay' = Least(2 * delay, MaxDelay)
    /\ UNCHANGED <<live, markets, conn, quiet, history>>

\* A tick passes wherever the code waits.
Tick ==
    /\ \/ pc = "connection" /\ (Shaking /\ ~stuck => handshake < MaxHandshake)
       \/ pc = "loop" /\ pause > 0
       \/ pc = "ended"
    /\ quiet' = Least(quiet + 1, Unhealthy)
    /\ outage' = IF outage = NoOutage THEN NoOutage ELSE Least(outage + 1, Unhealthy)
    /\ pause' = IF pause > 0 THEN pause - 1 ELSE 0
    /\ handshake' = IF Shaking THEN Least(handshake + 1, MaxHandshake) ELSE handshake
    /\ unopened' = IF socket = "open" THEN 0 ELSE Least(unopened + 1, LongestOutage + 1)
    /\ hung' = (hung \/ (stuck /\ socket # "open"))
    /\ UNCHANGED <<live, markets, socket, subscribed, stuck, delay, pc>>

Run == Connect \/ OutageArms \/ Backoff

Next ==
    \/ Run \/ Opened \/ Message \/ GoSilent \/ Closes \/ Tick
    \/ \E e \in Events : SetEvent(e)

Spec == Init /\ [][Next]_vars

\* The event loop goes on, time passes, a close comes to its end; an attempt made
\* again and again succeeds some time, and a peer that is there answers pings.
FairSpec ==
    /\ Spec
    /\ WF_vars(Run) /\ WF_vars(Tick)
    /\ SF_vars(Opened)
    /\ WF_vars(socket = "closing" /\ Closes)
    /\ WF_vars(Message)

-----------------------------------------------------------------------------
\* A stream counts as healthy only if its socket was subscribed to the markets
\* of the Event followed now, whatever changed while it connected: an order sent
\* under it will be reported.
HealthyIsSubscribed == isHealthy => subscribed = markets

\* An outage, over any number of attempts and pauses, arms within its threshold,
\* one pause, a close and a handshake.  A handshake that hangs is not counted: the code
\* does not limit it.
OutageIsStopped ==
    live /\ pc # "ended" /\ ~hung /\ ~stuck => unopened <= LongestOutage

\* The switch is armed only after no socket was open for the whole threshold: a
\* stream that comes back in time starts anew.
NoEarlyStop == pc = "ended" => live /\ unopened >= Unhealthy

\* An unhealthy stream becomes healthy or stops trading in the end, unless its
\* peer hangs or goes silent without closing.
HealthyOrStopped == ~isHealthy ~> (isHealthy \/ pc = "ended" \/ stuck)
=============================================================================
