----------------------------- MODULE Reminders -----------------------------
(***************************************************************************)
(* The reminder scheduler: one timer per event in process memory, the      *)
(* reminders table behind it, and the restart that loads timers from the   *)
(* table.  Its callers, the event router that schedules reminders and the  *)
(* API that deletes events and contacts, are the actions of the            *)
(* environment.                                                            *)
(*                                                                         *)
(* Time is counted in ticks, and a synchronous step takes none.  A         *)
(* reminder is named by its uuid.  Reminder times, not start times, are    *)
(* modelled: they lie a fixed quarter of an hour apart.  Every event is    *)
(* the only one of its chat.                                               *)
(***************************************************************************)
EXTENDS Naturals, FiniteSets

CONSTANTS
    Events,     \* event ids
    Reminders,  \* reminder ids
    None,       \* no event, no reminder
    MaxDelay,   \* the longest delay of setTimeout, 2^31 - 1 ms
    MaxTime,    \* bound on the clock and on the reminder times
    MaxFaults,  \* bound on the database statements that throw
    MaxCrashes  \* bound on the process restarts

ASSUME RemindersAssumption ==
    /\ None \notin Events \union Reminders
    /\ MaxDelay \in Nat
    /\ MaxTime \in Nat
    /\ MaxFaults \in Nat
    /\ MaxCrashes \in Nat

VARIABLES
    now,            \* the clock
    (* SQLite *)
    events,         \* events with a row
    stored,         \* reminders with a row
    sent,           \* reminders whose row has sent = 1
    eventOf,        \* eventOf[r]: event of reminder r, None for an id not drawn yet
    at,             \* at[r]: trigger_time of reminder r
    (* process memory *)
    up,             \* the process runs
    activeTimers,   \* activeTimers[e]: the reminder whose timeout the map has for e
    armed,          \* reminders with a timeout that is neither fired nor cleared
    wake,           \* wake[r]: when the timeout of an armed reminder fires
    firing,         \* reminders whose triggerReminder waits for the push
    (* history *)
    latest,         \* latest[e]: the last reminder stored for e
    overlapped,     \* events scheduled, by this process, while a reminder of them was firing
    pushes,         \* pushes[r]: notifications sent for reminder r
    setAt,          \* setAt[r]: the time at which the timeout of r was last set
    cut,            \* reminders pushed by a timeout that was set with too long a delay
    faults, crashes \* database faults and crashes so far

table == <<events, stored, sent, eventOf, at, latest>>
memory == <<up, activeTimers, armed, wake, firing, overlapped>>
history == <<pushes, setAt, cut>>
vars == <<now, table, memory, history, faults, crashes>>

Init ==
    /\ now = 0
    /\ events = Events
    /\ stored = {}
    /\ sent = {}
    /\ eventOf = [r \in Reminders |-> None]
    /\ at = [r \in Reminders |-> 0]
    /\ up = FALSE
    /\ activeTimers = [e \in Events |-> None]
    /\ armed = {}
    /\ wake = [r \in Reminders |-> 0]
    /\ firing = {}
    /\ latest = [e \in Events |-> None]
    /\ overlapped = {}
    /\ pushes = [r \in Reminders |-> 0]
    /\ setAt = [r \in Reminders |-> 0]
    /\ cut = {}
    /\ faults = 0
    /\ crashes = 0

Throws(n) ==
    /\ faults + n <= MaxFaults
    /\ faults' = faults + n

RowsOf(e) == {r \in stored : eventOf[r] = e}

\* Mutant of PendingReminders: what is due right now counts as pending.
PendingRemindersNow == {r \in stored \ sent : at[r] >= now}

\* getPendingReminders: not sent, trigger time in the future.
PendingReminders == {r \in stored \ sent : at[r] > now}

-----------------------------------------------------------------------------
(* Timers. *)

\* Mutant of WakeTime: the longest delay is taken for too long.
WakeTimeOffByOne(t) == IF t - now >= MaxDelay THEN now ELSE t

\* setTimeout: a delay that does not fit in 31 bits is cut to one millisecond.
WakeTime(t) == IF t - now > MaxDelay THEN now ELSE t

\* The delay with which the timeout of r was set is one setTimeout cannot hold.
BeyondTimeout(r) == at[r] - setAt[r] > MaxDelay

\* Mutant of Uncancelled: the timeout is not cleared.
UncancelledAll(e) == armed

\* cancelReminder clears the timeout the map has for e, fired or not: the
\* timeouts that are left.
Uncancelled(e) == armed \ {activeTimers[e]}

\* scheduleReminder: a time that has passed changes nothing; otherwise the timer
\* of the event is cancelled, a row stored under a new id, and a timer set.  The
\* rows of earlier reminders stay as they are.
ScheduleReminder(e, t, r) ==
    /\ up
    /\ t > now
    /\ e \in events
    /\ eventOf[r] = None
    /\ eventOf' = [eventOf EXCEPT ![r] = e]
    /\ at' = [at EXCEPT ![r] = t]
    /\ stored' = stored \union {r}
    /\ latest' = [latest EXCEPT ![e] = r]
    /\ armed' = Uncancelled(e) \union {r}
    /\ wake' = [wake EXCEPT ![r] = WakeTime(t)]
    /\ activeTimers' = [activeTimers EXCEPT ![e] = r]
    /\ overlapped' = overlapped \union {eventOf[q] : q \in {p \in firing : eventOf[p] = e}}
    /\ setAt' = [setAt EXCEPT ![r] = now]
    /\ UNCHANGED <<now, events, sent, up, firing, pushes, cut, faults, crashes>>

\* The row cannot be stored, on a fault or because the event was deleted while
\* the router waited (foreign key): the old timer is cancelled all the same.
ScheduleFails(e, t) ==
    /\ up
    /\ t > now
    /\ Throws(IF e \in events THEN 1 ELSE 0)
    /\ armed' = Uncancelled(e)
    /\ activeTimers' = [activeTimers EXCEPT ![e] = None]
    /\ UNCHANGED <<now, table, up, wake, firing, overlapped, history, crashes>>

\* The timeout fires: triggerReminder sends the notification and waits.
TriggerReminder(r) ==
    /\ r \in armed
    /\ wake[r] <= now
    /\ armed' = armed \ {r}
    /\ firing' = firing \union {r}
    /\ pushes' = [pushes EXCEPT ![r] = @ + 1]
    /\ cut' = cut \union {q \in {r} : BeyondTimeout(q)}
    /\ UNCHANGED <<now, table, up, activeTimers, wake, overlapped, setAt, faults, crashes>>

\* finally: the map forgets the event's timer, whichever timer that is by now.
ForgetTimer(r) ==
    /\ r \in firing
    /\ firing' = firing \ {r}
    /\ activeTimers' = [activeTimers EXCEPT ![eventOf[r]] = None]
    /\ UNCHANGED <<now, events, stored, eventOf, at, latest, up, armed, wake, overlapped,
                   history, crashes>>

\* Mutants of NotificationSent: the mark is forgotten; it inserts a missing row.
NotificationSentUnmarked(r) == ForgetTimer(r) /\ UNCHANGED <<sent, faults>>

NotificationSentUpserting(r) ==
    /\ ForgetTimer(r)
    /\ sent' = sent \union {r}
    /\ UNCHANGED faults

\* sendNotification has returned, true or false: the row, if any, is marked sent.
NotificationSent(r) ==
    /\ ForgetTimer(r)
    /\ sent' = sent \union ({r} \intersect stored)
    /\ UNCHANGED faults

\* markReminderSent throws.
MarkFails(r) ==
    /\ ForgetTimer(r)
    /\ Throws(1)
    /\ UNCHANGED sent

-----------------------------------------------------------------------------
(* Start-up and crash. *)

Orphans == {r \in PendingReminders : eventOf[r] \notin events}

\* Mutant of LastOf: the rows are read in descending order.
FirstOf(P, e) ==
    {r \in P : eventOf[r] = e /\ \A q \in P : eventOf[q] = e => at[r] <= at[q]}

\* The rows in P are read in ascending order of their times, each replacing the
\* timer of an earlier one of the same event: the one whose timer is left.
LastOf(P, e) ==
    {r \in P : eventOf[r] = e /\ \A q \in P : eventOf[q] = e => at[q] <= at[r]}

\* Mutant of Rearmed: no timer start-up has set is cancelled.
RearmedAll(P, timers) == P

\* The reminders read whose timeout is left, when the map of the timers is timers.
Rearmed(P, timers) == {r \in P : \E e \in Events : timers[e] = r}

\* initScheduler gets through the rows P, all of them unless a statement throws.
InitScheduler ==
    \E P \in SUBSET PendingReminders :
        /\ \A p \in P, q \in PendingReminders : at[q] < at[p] => q \in P
        /\ Throws(IF P = PendingReminders THEN 0 ELSE 1)
        /\ ~up
        /\ up' = TRUE
        /\ activeTimers' \in [Events -> P \union {None}]
        /\ \A e \in Events :
              LET last == LastOf(P \ Orphans, e)
              IN  IF last = {} THEN activeTimers'[e] = None ELSE activeTimers'[e] \in last
        /\ armed' = Rearmed(P \ Orphans, activeTimers')
        /\ wake' = [r \in Reminders |-> IF r \in armed' THEN WakeTime(at[r]) ELSE wake[r]]
        /\ setAt' = [r \in Reminders |-> IF r \in armed' THEN now ELSE setAt[r]]
        /\ stored' = stored \ (P \intersect Orphans)
        /\ UNCHANGED <<now, events, sent, eventOf, at, latest, firing, overlapped,
                       pushes, cut, crashes>>

\* The process dies or is stopped: cleanupReminders clears what dies with it.
Crash ==
    /\ up
    /\ crashes < MaxCrashes
    /\ crashes' = crashes + 1
    /\ up' = FALSE
    /\ activeTimers' = [e \in Events |-> None]
    /\ armed' = {}
    /\ firing' = {}
    /\ overlapped' = {}
    /\ UNCHANGED <<now, table, wake, history, faults>>

-----------------------------------------------------------------------------
(* The environment. *)

Tick ==
    /\ now < MaxTime
    /\ now' = now + 1
    /\ UNCHANGED <<table, memory, history, faults, crashes>>

\* DELETE /api/events/:id throws while a reminder row refers to the event.  No
\* timer is cancelled.
DeleteEvent(e) ==
    /\ up
    /\ e \in events
    /\ RowsOf(e) = {}
    /\ events' = events \ {e}
    /\ UNCHANGED <<now, stored, sent, eventOf, at, latest, memory, history, faults, crashes>>

\* deleteContactAndData: the reminder rows go first, in one transaction.
DeleteContact(e) ==
    /\ up
    /\ e \in events
    /\ events' = events \ {e}
    /\ stored' = stored \ RowsOf(e)
    /\ sent' = sent \ RowsOf(e)
    /\ UNCHANGED <<now, eventOf, at, latest, memory, history, faults, crashes>>

Schedule(e) ==
    \E t \in 1..MaxTime :
        \/ ScheduleFails(e, t)
        \/ \E r \in Reminders : ScheduleReminder(e, t, r)

Timer(r) == TriggerReminder(r) \/ NotificationSent(r) \/ MarkFails(r)

Next ==
    \/ Tick
    \/ InitScheduler
    \/ Crash
    \/ \E r \in Reminders : Timer(r)
    \/ \E e \in Events : Schedule(e) \/ DeleteEvent(e) \/ DeleteContact(e)

Spec == Init /\ [][Next]_vars

-----------------------------------------------------------------------------
(* Properties. *)

TypeOK ==
    /\ now \in Nat
    /\ events \subseteq Events
    /\ stored \subseteq Reminders
    /\ sent \subseteq stored
    /\ eventOf \in [Reminders -> Events \union {None}]
    /\ at \in [Reminders -> Nat]
    /\ up \in BOOLEAN
    /\ activeTimers \in [Events -> Reminders \union {None}]
    /\ armed \subseteq Reminders
    /\ wake \in [Reminders -> Nat]
    /\ firing \subseteq Reminders
    /\ latest \in [Events -> Reminders \union {None}]
    /\ overlapped \subseteq Events
    /\ pushes \in [Reminders -> Nat]
    /\ setAt \in [Reminders -> Nat]
    /\ cut \subseteq Reminders
    /\ faults \in Nat
    /\ crashes \in Nat

\* "Cancel existing reminder for this event" (scheduler/index.ts:74): an event
\* never has two timers running, over restarts, failed schedulings and deletions,
\* unless this process has scheduled it while a reminder of it waited for its push:
\* triggerReminder then forgets the timer that was armed meanwhile.
OneTimerUnlessOverlapped ==
    \A q, r \in armed : eventOf[q] = eventOf[r] => q = r \/ eventOf[q] \in overlapped

\* No reminder is pushed a second time, although it is marked only after the push
\* is answered and a crash, or a throwing mark, leaves its row unsent: by then it
\* is not in the future any more.  Except a reminder once pushed early because its
\* timeout was set more than the longest delay of setTimeout ahead.
PushedOnce ==
    \A r \in Reminders : pushes[r] > 1 => r \in cut

\* No reminder is pushed before its time, whenever and however often its timer was
\* set, except by a timeout set more than the longest delay of setTimeout ahead.
NotEarly ==
    [][\A r \in Reminders : pushes'[r] # pushes[r] => at[r] <= now \/ BeyondTimeout(r)]_vars

\* The event of r was given a later time since.
Postponed(r) ==
    /\ eventOf[r] # None
    /\ latest[eventOf[r]] # r
    /\ at[latest[eventOf[r]]] > at[r]

\* "Cancel existing reminder for this event": the row of the cancelled reminder
\* stays unsent in the table, and start-up reads it back, yet the user who moved an
\* event to a later time is not reminded at the old one, over restarts and
\* deletions.  Except where its event was scheduled during a push, a statement has
\* thrown, or the later reminder was itself pushed early, its delay being too long for
\* setTimeout, and marked sent.
PostponedIsQuiet ==
    [][\A r \in Reminders : pushes'[r] # pushes[r] /\ Postponed(r) =>
        \/ eventOf[r] \in overlapped
        \/ faults > 0
        \/ latest[eventOf[r]] \in cut]_vars

\* "Persists reminders to database for crash recovery" (scheduler/index.ts:5): the
\* last reminder of an event keeps its timer over restarts as long as it lies
\* after all earlier ones of the event, and unless a statement has thrown.  (Its
\* timer is gone while its push waits: before its time, so a timeout too long for
\* setTimeout.)
RecoveredIfPostponed ==
    up /\ faults = 0 =>
        \A r \in PendingReminders :
            (\A q \in RowsOf(eventOf[r]) : q # r => at[q] < at[r]) /\ latest[eventOf[r]] = r
            => r \in armed \/ r \in firing

\* A pushed reminder is marked sent as soon as its push has been answered.
PushedIsMarked ==
    \A r \in stored : pushes[r] > 0 =>
        r \in sent \/ r \in firing \/ faults > 0 \/ crashes > 0

=============================================================================
