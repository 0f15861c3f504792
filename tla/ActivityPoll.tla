---------------------------- MODULE ActivityPoll ----------------------------
(***************************************************************************)
(* services/monitor.ts: the loop that polls the leader's activity in the   *)
(* Event it follows, keeps it with a cursor in persistence/database.ts,    *)
(* and lets new activity, or the time since the last cycle, start a        *)
(* discovery and a cycle.  Time goes in whole seconds; the loop polls at   *)
(* once after the first cycle, then sleeps one second between its rounds,  *)
(* and every other second that passes while it does something is counted   *)
(* as a fault.  Fills of one second are alike, as two fills of one order   *)
(* can be: a slot counts them.  A position is taken to be public as soon   *)
(* as the activity that made it is.                                        *)
(***************************************************************************)
EXTENDS Integers, FiniteSetsExt

CONSTANTS
    Overlap,        \* monitoring.activityOverlapSeconds
    FullReconcile,  \* monitoring.fullReconcileSeconds
    Limit,          \* activities in one answer of the data API
    MaxTime,        \* bound: seconds
    Days,           \* bound: Events the Series discovery goes through
    MaxFills,       \* bound: fills of the leader
    MaxFaults       \* bound: failed requests, crashes, seconds lost

ASSUME ActivityAssumption ==
    /\ Overlap \in Nat /\ FullReconcile \in Nat \ {0} /\ Limit \in Nat \ {0}
    /\ MaxTime \in Nat /\ Days \in Nat \ {0}
    /\ MaxFills \in Nat /\ MaxFaults \in Nat

EventIds == 1..Days
Seconds  == 0..MaxTime
Slots    == EventIds \X Seconds
NoCursor == -1

VARIABLES
    now,
    today,      \* the Event a discovery finds
    made,       \* the leader's fills, by Event and second
    visible,    \* those the data API shows
    stored,     \* leader_activity
    cursor,     \* poll_cursors
    pc,         \* where monitor.run is
    event,      \* the Event it follows
    since,      \* the cursor of its request: the stored one, or the time of the request
    why,        \* why the cycle runs: run's first, fullDue, or activity alone
    lastFull,   \* lastFullReconcileMs
    faults,
    polled,     \* history: what was visible at each Event's last answered poll
    seen,       \* history: what was visible at the snapshot of the last good cycle
    cut,        \* history: the last answer was full and left something out
    missed,     \* history: a cycle has failed since the last good one
    tooLate,    \* history: slots with a fill shown too late for the poll's window
    changedAt,  \* history: when today's Event became another
    postponed   \* history: cycles since then that activity alone has started

data    == <<made, visible>>
tables  == <<stored, cursor>>
loop    == <<event, since, why, lastFull>>
history == <<polled, seen, cut, missed, tooLate, changedAt, postponed>>
vars == <<now, today, data, tables, pc, loop, faults, history>>

None == [slot \in Slots |-> 0]

TypeOK ==
    /\ now \in Seconds /\ today \in EventIds /\ event \in EventIds
    /\ {made, visible, stored, polled, seen} \subseteq [Slots -> 0..MaxFills]
    /\ \A slot \in Slots : stored[slot] <= visible[slot] /\ visible[slot] <= made[slot]
    /\ cursor \in [EventIds -> Seconds \cup {NoCursor}]
    /\ pc \in {"first", "loop", "sleep", "asking", "discover", "cycle", "down", "hung"}
    /\ since \in Seconds /\ lastFull \in Seconds /\ changedAt \in Seconds
    /\ {cut, missed} \subseteq BOOLEAN
    /\ why \in {"first", "due", "news"}
    /\ tooLate \subseteq Slots
    /\ faults \in 0..MaxFaults /\ postponed \in Nat

Init ==
    /\ now = 0 /\ today = 1 /\ event = 1
    /\ made = None /\ visible = None /\ stored = None
    /\ cursor = [e \in EventIds |-> NoCursor]
    /\ pc = "first"
    /\ since = 0 /\ why = "first" /\ lastFull = 0
    /\ faults = 0
    /\ polled = None /\ seen = None
    /\ cut = FALSE /\ missed = FALSE /\ tooLate = {}
    /\ changedAt = 0 /\ postponed = 0

-----------------------------------------------------------------------------
Fills(count, slots) == MapThenSumSet(LAMBDA slot : count[slot], slots)

Fault == faults < MaxFaults /\ faults' = faults + 1

\* The leader trades in an Event of this day or an earlier one, and the data API shows it, at once or later.
LeaderTrades(e) ==
    /\ e <= today /\ Fills(made, Slots) < MaxFills
    /\ made' = [made EXCEPT ![<<e, now>>] = @ + 1]
    /\ UNCHANGED <<now, today, visible, tables, pc, loop, faults, history>>

Appears(slot) ==
    /\ visible[slot] < made[slot]
    /\ visible' = [visible EXCEPT ![slot] = @ + 1]
    /\ tooLate' = IF now - slot[2] > Overlap THEN tooLate \cup {slot} ELSE tooLate
    /\ UNCHANGED <<now, today, made, tables, pc, loop, faults,
                   polled, seen, cut, missed, changedAt, postponed>>

DayChanges ==
    /\ today < Days
    /\ today' = today + 1
    /\ changedAt' = now
    /\ postponed' = 0
    /\ UNCHANGED <<now, data, tables, pc, loop, faults,
                   polled, seen, cut, missed, tooLate>>

\* A second lost in a request, or while the process is down.
TimeIsLost ==
    /\ now < MaxTime /\ Fault
    /\ pc \notin {"loop", "sleep", "hung"}
    /\ now' = now + 1
    /\ UNCHANGED <<today, data, tables, pc, loop, history>>

\* A round begins: the first at once after run's first cycle, any other after the
\* sleep of activityPollMs.
Ask ==
    /\ \/ pc = "loop" /\ UNCHANGED now
       \/ pc = "sleep" /\ now < MaxTime /\ now' = now + 1
    /\ since' = IF cursor[event] = NoCursor THEN now' ELSE cursor[event]
    /\ pc' = "asking"
    /\ UNCHANGED <<today, data, tables, event, why, lastFull, faults, history>>

\* Mutant: the request begins where the last one ended.
startAtCursor == since

start == Max({0, since - Overlap})

\* getActivity: from start on, the oldest first, Limit of them.
Page ==
    [slot \in Slots |->
        IF slot[1] # event \/ slot[2] < start THEN 0
        ELSE Max({0, Min({visible[slot],
                 Limit - Fills(visible, {event} \X (start..(slot[2] - 1)))})})]

\* Mutant: every answer is added to what is there.
insertActivityAgain(page) == [slot \in Slots |-> stored[slot] + page[slot]]

\* insertActivity: the n-th of like fills in an answer has the n-th fingerprint.
insertActivity(page) == [slot \in Slots |-> Max({stored[slot], page[slot]})]

latestTimestamp(page) ==
    Max({since} \cup {slot[2] : slot \in {s \in Slots : page[s] > 0}})

\* Mutant: due is later than.
fullDueAfter == now - lastFull > FullReconcile

fullDue == now - lastFull >= FullReconcile

\* Mutant: any activity in the answer counts, stored before or not.
IsNewsIfAny(table) == fullDue \/ \E slot \in Slots : slot[1] = event /\ slot[2] >= start /\ table[slot] > 0

IsNews(table) == fullDue \/ table # stored

\* The answer: rows and cursor are committed before anything follows from them.
Poll ==
    /\ pc = "asking"
    /\ \E page \in {Page} : \E table \in {insertActivity(page)} :
          /\ stored' = table
          /\ cursor' = [cursor EXCEPT ![event] = latestTimestamp(page)]
          /\ cut' = (\E slot \in Slots : slot[1] = event /\ slot[2] >= start
                                        /\ page[slot] < visible[slot])
          /\ pc' = IF ~IsNews(table) THEN "sleep"
                   ELSE IF fullDue THEN "discover" ELSE "cycle"
    /\ why' = IF fullDue THEN "due" ELSE "news"
    /\ since' = 0
    /\ polled' = [slot \in Slots |-> IF slot[1] = event THEN visible[slot] ELSE polled[slot]]
    /\ tooLate' = IF cursor[event] = NoCursor
                  THEN tooLate \cup {slot \in Slots : slot[1] = event /\ slot[2] < start
                                                      /\ made[slot] > 0}
                  ELSE tooLate
    /\ UNCHANGED <<now, today, data, event, lastFull, faults,
                   seen, missed, changedAt, postponed>>

\* getActivity throws.
PollFails ==
    /\ pc = "asking" /\ Fault
    /\ pc' = "sleep"
    /\ UNCHANGED <<now, today, data, tables, loop, history>>

\* Mutant: the discovery asks for the Event that is followed.
DiscoverSame ==
    /\ pc = "discover"
    /\ pc' = "cycle"
    /\ UNCHANGED <<now, today, data, tables, loop, faults, history>>

Discover ==
    /\ pc = "discover"
    /\ event' = today
    /\ pc' = "cycle"
    /\ UNCHANGED <<now, today, data, tables, since, why, lastFull, faults, history>>

DiscoverFails ==
    /\ pc = "discover" /\ Fault
    /\ pc' = "sleep"
    /\ missed' = TRUE
    /\ UNCHANGED <<now, today, data, tables, loop,
                   polled, seen, cut, tooLate, changedAt, postponed>>

\* run before its loop: discover, then a cycle outside the try.
First ==
    /\ pc = "first"
    /\ event' = today
    /\ pc' = "cycle"
    /\ why' = "first"
    /\ UNCHANGED <<now, today, data, tables, since, lastFull, faults, history>>

\* runOnce reads the leader's positions, and returns: to the loop, or in it.
RunOnce ==
    /\ pc = "cycle"
    /\ pc' = IF why = "first" THEN "loop" ELSE "sleep"
    /\ seen' = visible
    /\ missed' = FALSE
    /\ postponed' = IF why = "news" THEN postponed + 1 ELSE postponed
    /\ lastFull' = now
    /\ UNCHANGED <<now, today, data, tables, event, since, why, faults,
                   polled, cut, tooLate, changedAt>>

\* It throws: in the loop that is logged, before the loop it ends run, which
\* then waits for the user stream.
RunOnceFails ==
    /\ pc = "cycle" /\ Fault
    /\ pc' = IF why = "first" THEN "hung" ELSE "sleep"
    /\ missed' = TRUE
    /\ UNCHANGED <<now, today, data, tables, loop,
                   polled, seen, cut, tooLate, changedAt, postponed>>

Crash ==
    /\ pc # "down" /\ Fault
    /\ pc' = "down"
    /\ UNCHANGED <<now, today, data, tables, loop, history>>

Restart ==
    /\ pc = "down"
    /\ pc' = "first"
    /\ UNCHANGED <<now, today, data, tables, loop, faults, history>>

Next ==
    \/ \E e \in EventIds : LeaderTrades(e)
    \/ \E slot \in Slots : Appears(slot)
    \/ DayChanges \/ TimeIsLost
    \/ Ask \/ Poll \/ PollFails \/ Discover \/ DiscoverFails
    \/ First \/ RunOnce \/ RunOnceFails
    \/ Crash \/ Restart

Spec == Init /\ [][Next]_vars

-----------------------------------------------------------------------------
\* After each round of the loop, what the API showed in the Event at the last
\* poll, a second like fill and a fill shown late included, has been seen by a
\* cycle.  Not so if that cycle failed, since its activity is stored and starts
\* no other; if the answer was full; if a fill was shown later than Overlap; or
\* if it was made more than Overlap before the first poll of its Event, whose
\* request begins there although the first cycle may have read before.
NothingUnseen ==
    pc = "sleep" /\ ~missed /\ ~cut =>
        \A slot \in Slots \ tooLate : slot[1] = event => polled[slot] <= seen[slot]

\* Activity that a poll has seen starts no second cycle, across its overlap with
\* the next polls, failures and restarts, unless it was cut off an answer.
NewsIsNew ==
    [][pc = "asking" /\ pc' = "cycle" =>
         cut \/ \E slot \in Slots : slot[1] = event /\ polled[slot] < visible[slot]]_vars

\* A cycle that failed, or whose trigger was lost, is made up for: the last good
\* one is never older than the full interval and what faults have cost.
CycleInTime ==
    pc = "sleep" => now - lastFull <= FullReconcile - 1 + faults

\* The Event of a new day is followed within the full interval too, but every
\* cycle that activity in the old one starts puts it off by another interval.
FollowsToday ==
    pc = "sleep" /\ event # today =>
        now - changedAt <= FullReconcile * (1 + postponed) - 1 + faults
=============================================================================
