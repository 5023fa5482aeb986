-------------------------- MODULE RemindersProofs --------------------------
(***************************************************************************)
(* Proofs about Reminders, for every set of events and reminders, any      *)
(* clock and any number of faults and crashes.                             *)
(***************************************************************************)
EXTENDS ReminderBackup, TLAPS

\* An id that has left a trace was drawn for an event, whose row the foreign key
\* keeps as long as the reminder's row is there.
Drawn ==
    /\ \A r \in stored : eventOf[r] \in events
    /\ \A r \in armed \union firing : eventOf[r] \in Events
    /\ \A r \in Reminders : eventOf[r] = None => pushes[r] = 0

\* The map has timers of the events it has them for, and none in a new process.
MapRight ==
    /\ \A e \in Events : activeTimers[e] # None => eventOf[activeTimers[e]] = e
    /\ ~up => armed = {} /\ firing = {} /\ overlapped = {}

\* Except for overlapped events, a running timer is the one in the map, and none
\* runs while a reminder of the event waits for its push.
Tracked ==
    /\ \A r \in armed : eventOf[r] \in overlapped \/ activeTimers[eventOf[r]] = r
    /\ \A r \in armed, q \in firing : eventOf[r] = eventOf[q] => eventOf[r] \in overlapped

\* Unless setTimeout could not hold the delay when it was set, a timer fires when its
\* reminder is due; a reminder that was pushed is due and has no timer, unless such
\* a timer has pushed it.
OnTime ==
    \A r \in Reminders :
        /\ r \in armed => wake[r] = at[r] \/ BeyondTimeout(r)
        /\ r \in cut \/ pushes[r] = 0 \/ (pushes[r] = 1 /\ r \notin armed /\ at[r] <= now)

TimerInv ==
    /\ TypeOK
    /\ Drawn
    /\ MapRight
    /\ Tracked
    /\ OnTime

-----------------------------------------------------------------------------
LEMMA TimerInvInit == Init => TimerInv
  <1> SUFFICES ASSUME Init
               PROVE  TimerInv
    OBVIOUS
  <1> USE RemindersAssumption DEF Init
  <1>1. TypeOK
    BY DEF TypeOK
  <1>2. Drawn /\ MapRight /\ Tracked
    BY DEF Drawn, MapRight, Tracked
  <1>3. OnTime
    BY DEF OnTime
  <1> QED BY <1>1, <1>2, <1>3 DEF TimerInv

LEMMA TimerInvSchedule ==
  ASSUME TimerInv, NEW e \in Events, NEW t \in 1..MaxTime, NEW r \in Reminders,
         ScheduleReminder(e, t, r)
  PROVE  TimerInv'
  <1> USE RemindersAssumption DEF TimerInv, ScheduleReminder
  <1>1. r \notin stored /\ r \notin armed /\ r \notin firing /\ pushes[r] = 0
    BY DEF Drawn, TypeOK
  <1>2. WakeTime(t) \in Nat /\ (t - now > MaxDelay \/ WakeTime(t) = t)
    BY DEF WakeTime, TypeOK
  <1>3. overlapped' \subseteq Events /\ overlapped \subseteq overlapped'
    BY DEF TypeOK
  <1>4. (\E q \in firing : eventOf[q] = e) => e \in overlapped'
    OBVIOUS
  <1>5. TypeOK'
    BY <1>2, <1>3 DEF TypeOK, Uncancelled
  <1>6. Drawn'
    BY <1>1 DEF Drawn, TypeOK, Uncancelled
  <1>7. \A q \in Reminders \ {r} : eventOf'[q] = eventOf[q] /\ at'[q] = at[q] /\ wake'[q] = wake[q]
                               /\ setAt'[q] = setAt[q]
    BY DEF TypeOK
  <1>8. eventOf'[r] = e /\ at'[r] = t /\ wake'[r] = WakeTime(t) /\ setAt'[r] = now /\ activeTimers'[e] = r
    BY DEF TypeOK
  <1>9. \A d \in Events \ {e} : activeTimers'[d] = activeTimers[d] /\ activeTimers[d] # r
    BY DEF TypeOK, MapRight
  <1>10. MapRight'
    <2>1. ASSUME NEW d \in Events, activeTimers'[d] # None
          PROVE  eventOf'[activeTimers'[d]] = d
      <3>1. CASE d = e
        BY <3>1, <1>8
      <3>2. CASE d # e
        <4>1. activeTimers[d] \in Reminders \ {r} /\ eventOf[activeTimers[d]] = d
          BY <2>1, <3>2, <1>9 DEF MapRight, TypeOK
        <4> QED BY <4>1, <3>2, <1>9, <1>7
      <3> QED BY <3>1, <3>2
    <2> QED BY <2>1 DEF MapRight
  <1>11. \A q \in armed' \ {r} : q \in armed /\ q # activeTimers[e] /\ eventOf'[q] = eventOf[q]
    BY <1>7 DEF Uncancelled, TypeOK
  <1>12. ASSUME NEW q \in armed'
         PROVE  eventOf'[q] \in overlapped' \/ activeTimers'[eventOf'[q]] = q
    <2>1. CASE q = r
      BY <2>1, <1>8
    <2>2. CASE q # r
      BY <2>2, <1>11, <1>9, <1>3 DEF Tracked, Drawn
    <2> QED BY <2>1, <2>2
  <1>13. ASSUME NEW q \in armed', NEW p \in firing', eventOf'[q] = eventOf'[p]
         PROVE  eventOf'[q] \in overlapped'
    <2>1. p \in firing /\ p # r /\ eventOf'[p] = eventOf[p]
      BY <1>1, <1>7 DEF TypeOK
    <2>2. CASE q = r
      BY <2>1, <2>2, <1>13, <1>8, <1>4
    <2>3. CASE q # r
      BY <2>1, <2>3, <1>13, <1>11, <1>3 DEF Tracked
    <2> QED BY <2>2, <2>3
  <1>14. OnTime'
    BY <1>1, <1>2, <1>7, <1>8, <1>11 DEF OnTime, BeyondTimeout, TypeOK
  <1> QED BY <1>5, <1>6, <1>10, <1>12, <1>13, <1>14 DEF Tracked

LEMMA TimerInvTimer ==
  ASSUME TimerInv, NEW r \in Reminders, Timer(r)
  PROVE  TimerInv'
  <1> USE RemindersAssumption DEF TimerInv
  <1>1. CASE TriggerReminder(r)
    <2> USE <1>1 DEF TriggerReminder
    <2>1. TypeOK' /\ Drawn' /\ MapRight'
      BY DEF TypeOK, Drawn, MapRight, table
    <2>2. Tracked'
      BY DEF Tracked, TypeOK, table
    <2>3. OnTime'
      BY DEF OnTime, BeyondTimeout, TypeOK, table
    <2> QED BY <2>1, <2>2, <2>3
  <1>2. CASE NotificationSent(r) \/ MarkFails(r)
    <2>1. ForgetTimer(r) /\ sent' \in {sent, sent \union ({r} \intersect stored)} /\ faults' \in {faults, faults + 1}
      BY <1>2 DEF NotificationSent, MarkFails, Throws, TypeOK
    <2> USE <2>1 DEF ForgetTimer
    <2>2. eventOf[r] \in Events
      BY DEF Drawn
    <2>3. TypeOK' /\ Drawn' /\ OnTime'
      BY <2>2 DEF TypeOK, Drawn, OnTime, BeyondTimeout, history
    <2>4. MapRight'
      BY <2>2 DEF MapRight, TypeOK
    <2>5. Tracked'
      BY <2>2 DEF Tracked, Drawn, TypeOK
    <2> QED BY <2>3, <2>4, <2>5
  <1> QED BY <1>1, <1>2 DEF Timer

LEMMA TimerInvInitScheduler ==
  ASSUME TimerInv, InitScheduler
  PROVE  TimerInv'
  <1> USE RemindersAssumption DEF TimerInv
  <1>1. PICK P \in SUBSET PendingReminders :
          /\ Throws(IF P = PendingReminders THEN 0 ELSE 1)
          /\ activeTimers' \in [Events -> P \union {None}]
          /\ \A e \in Events :
               LET last == LastOf(P \ Orphans, e)
               IN  IF last = {} THEN activeTimers'[e] = None ELSE activeTimers'[e] \in last
          /\ armed' = Rearmed(P \ Orphans, activeTimers')
          /\ wake' = [r \in Reminders |-> IF r \in armed' THEN WakeTime(at[r]) ELSE wake[r]]
          /\ setAt' = [r \in Reminders |-> IF r \in armed' THEN now ELSE setAt[r]]
          /\ stored' = stored \ (P \intersect Orphans)
    BY DEF InitScheduler
  <1>2. ~up /\ up' /\ UNCHANGED <<now, events, sent, eventOf, at, latest, firing, overlapped,
                               pushes, cut, crashes>>
    BY DEF InitScheduler
  <1>3. P \subseteq stored /\ Orphans = {} /\ stored' = stored /\ \A r \in P : at[r] > now
    BY <1>1 DEF PendingReminders, Orphans, Drawn
  <1>4. \A e \in Events : activeTimers'[e] # None => activeTimers'[e] \in P /\ eventOf[activeTimers'[e]] = e
    BY <1>1 DEF LastOf
  <1>5. \A r \in Reminders : WakeTime(at[r]) \in Nat /\ (at[r] - now > MaxDelay \/ WakeTime(at[r]) = at[r])
    BY DEF WakeTime, TypeOK
  <1>6. TypeOK'
    BY <1>1, <1>2, <1>3, <1>5 DEF TypeOK, Throws, Rearmed
  <1>7. Drawn' /\ MapRight'
    BY <1>1, <1>2, <1>3, <1>4 DEF Drawn, MapRight, TypeOK, Rearmed
  <1>8. Tracked'
    <2>1. ASSUME NEW r \in armed'
          PROVE  activeTimers'[eventOf[r]] = r
      <3>1. PICK e \in Events : activeTimers'[e] = r /\ r \in P
        BY <1>1 DEF Rearmed
      <3>2. r # None
        BY <3>1 DEF PendingReminders, TypeOK
      <3> QED BY <1>4, <3>1, <3>2
    <2>2. firing' = {} /\ eventOf' = eventOf
      BY <1>2 DEF MapRight
    <2> QED BY <2>1, <2>2 DEF Tracked
  <1>9. OnTime'
    BY <1>1, <1>2, <1>3, <1>5 DEF OnTime, BeyondTimeout, Rearmed, TypeOK
  <1> QED BY <1>6, <1>7, <1>8, <1>9

LEMMA TimerInvNext == TimerInv /\ [Next]_vars => TimerInv'
  <1> SUFFICES ASSUME TimerInv, [Next]_vars
               PROVE  TimerInv'
    OBVIOUS
  <1> USE RemindersAssumption DEF table, memory, history
  <1>1. CASE Tick
    <2>1. TypeOK' /\ Drawn' /\ MapRight' /\ Tracked'
      BY <1>1 DEF Tick, TimerInv, TypeOK, Drawn, MapRight, Tracked
    <2>2. OnTime'
      BY <1>1 DEF Tick, TimerInv, TypeOK, OnTime, BeyondTimeout
    <2> QED BY <2>1, <2>2 DEF TimerInv
  <1>2. CASE InitScheduler
    BY <1>2, TimerInvInitScheduler
  <1>3. CASE Crash
    <2>1. TypeOK'
      <3>1. activeTimers' \in [Events -> Reminders \union {None}] /\ crashes' \in Nat
        BY <1>3 DEF Crash, TimerInv, TypeOK
      <3> QED BY <1>3, <3>1 DEF Crash, TimerInv, TypeOK
    <2>2. MapRight' /\ Tracked'
      BY <1>3 DEF Crash, MapRight, Tracked
    <2>3. Drawn' /\ OnTime'
      BY <1>3 DEF Crash, TimerInv, TypeOK, Drawn, OnTime, BeyondTimeout
    <2> QED BY <2>1, <2>2, <2>3 DEF TimerInv
  <1>4. ASSUME NEW r \in Reminders, Timer(r)
        PROVE  TimerInv'
    BY <1>4, TimerInvTimer
  <1>5. ASSUME NEW e \in Events, NEW t \in 1..MaxTime, ScheduleFails(e, t)
        PROVE  TimerInv'
    <2>1. TypeOK' /\ Drawn' /\ MapRight'
      BY <1>5 DEF ScheduleFails, Throws, Uncancelled, TimerInv, TypeOK, Drawn, MapRight
    <2>2. Tracked' /\ OnTime'
      BY <1>5 DEF ScheduleFails, Uncancelled, TimerInv, TypeOK, Drawn, Tracked, OnTime, BeyondTimeout
    <2> QED BY <2>1, <2>2 DEF TimerInv
  <1>6. ASSUME NEW e \in Events, NEW t \in 1..MaxTime, NEW r \in Reminders, ScheduleReminder(e, t, r)
        PROVE  TimerInv'
    BY <1>6, TimerInvSchedule
  <1>7. ASSUME NEW e \in Events, DeleteEvent(e) \/ DeleteContact(e)
        PROVE  TimerInv'
    <2>1. Drawn'
      BY <1>7 DEF DeleteEvent, DeleteContact, RowsOf, TimerInv, TypeOK, Drawn
    <2>2. TypeOK' /\ MapRight' /\ Tracked' /\ OnTime'
      BY <1>7 DEF DeleteEvent, DeleteContact, TimerInv, TypeOK, MapRight, Tracked, OnTime, BeyondTimeout
    <2> QED BY <2>1, <2>2 DEF TimerInv
  <1>8. CASE UNCHANGED vars
    BY <1>8 DEF vars, TimerInv, TypeOK, Drawn, MapRight, Tracked, OnTime, BeyondTimeout
  <1> QED BY <1>1, <1>2, <1>3, <1>4, <1>5, <1>6, <1>7, <1>8 DEF Next, Schedule

-----------------------------------------------------------------------------
\* The state keeps its types, and only stored rows are marked sent.
THEOREM TypeCorrect == Spec => []TypeOK
  <1>1. TimerInv => TypeOK
    BY DEF TimerInv
  <1> QED BY <1>1, TimerInvInit, TimerInvNext, PTL DEF Spec

\* An event has one timer, unless it was scheduled during a push of a reminder of it.
THEOREM OneTimer == Spec => []OneTimerUnlessOverlapped
  <1>1. TimerInv => OneTimerUnlessOverlapped
    BY DEF TimerInv, Tracked, OneTimerUnlessOverlapped
  <1> QED BY <1>1, TimerInvInit, TimerInvNext, PTL DEF Spec

\* No reminder is pushed twice, over all crashes, unless a timeout set with a delay
\* too long for setTimeout has pushed it.
THEOREM AtMostOnePush == Spec => []PushedOnce
  <1>1. TimerInv => PushedOnce
    BY RemindersAssumption DEF TimerInv, TypeOK, OnTime, PushedOnce
  <1> QED BY <1>1, TimerInvInit, TimerInvNext, PTL DEF Spec

\* No reminder is pushed before its time, but by a timeout set with a delay too long
\* for setTimeout.
THEOREM NeverEarly == Spec => NotEarly
  <1> DEFINE InTime == \A r \in Reminders : pushes'[r] # pushes[r] => at[r] <= now \/ BeyondTimeout(r)
  <1>1. TimerInv /\ [Next]_vars => [InTime]_vars
    <2> SUFFICES ASSUME TimerInv, Next
                 PROVE  InTime
      OBVIOUS
    <2>1. ASSUME NEW r \in Reminders, TriggerReminder(r)
          PROVE  InTime
      BY <2>1 DEF TriggerReminder, TimerInv, TypeOK, OnTime
    <2>2. CASE pushes' = pushes
      BY <2>2
    <2> QED BY <2>1, <2>2 DEF Next, Timer, Schedule, Tick, InitScheduler, Crash, NotificationSent, MarkFails,
              ForgetTimer, ScheduleReminder, ScheduleFails, DeleteEvent, DeleteContact, history
  <1> QED BY <1>1, TimerInvInit, TimerInvNext, PTL DEF Spec, NotEarly

-----------------------------------------------------------------------------
\* What a restart needs: the reminder of an event that lies after all its others
\* has its timer whenever the process runs.
RecoveryInv == TimerInv /\ RecoveredIfPostponed

LEMMA RecoverySchedule ==
  ASSUME RecoveryInv, NEW e \in Events, NEW t \in 1..MaxTime, NEW q \in Reminders,
         ScheduleReminder(e, t, q)
  PROVE  RecoveredIfPostponed'
  <1> USE RemindersAssumption DEF RecoveryInv, TimerInv, ScheduleReminder
  <1> SUFFICES ASSUME faults = 0, NEW r \in PendingReminders',
                      (\A p \in RowsOf(eventOf[r])' : p # r => at'[p] < at'[r]),
                      latest'[eventOf'[r]] = r
               PROVE  r \in armed' \/ r \in firing'
    BY DEF RecoveredIfPostponed
  <1>1. CASE r = q
    BY <1>1
  <1>2. CASE r # q
    <2>1. r \in PendingReminders /\ eventOf'[r] = eventOf[r] /\ at'[r] = at[r] /\ eventOf[r] \in Events
      BY <1>2 DEF PendingReminders, TypeOK, Drawn
    <2>2. eventOf[r] # e
      BY <1>2, <2>1 DEF TypeOK
    <2>3. latest[eventOf[r]] = r
      BY <2>1, <2>2 DEF TypeOK
    <2>4. q \notin stored /\ \A p \in stored : eventOf'[p] = eventOf[p] /\ at'[p] = at[p]
      BY DEF TypeOK, Drawn
    <2>5. \A p \in RowsOf(eventOf[r]) : p # r => at[p] < at[r]
      BY <2>1, <2>4 DEF RowsOf
    <2>6. r \in armed \/ r \in firing
      BY <2>1, <2>3, <2>5 DEF RecoveredIfPostponed
    <2>7. r # activeTimers[e]
      BY <2>1, <2>2 DEF MapRight, TypeOK, PendingReminders
    <2> QED BY <2>1, <2>6, <2>7 DEF Uncancelled
  <1> QED BY <1>1, <1>2

LEMMA RecoveryRestart ==
  ASSUME RecoveryInv, InitScheduler
  PROVE  RecoveredIfPostponed'
  <1> USE RemindersAssumption DEF RecoveryInv, TimerInv
  <1> SUFFICES ASSUME faults' = 0, NEW r \in PendingReminders',
                      (\A p \in RowsOf(eventOf[r])' : p # r => at'[p] < at'[r])
               PROVE  r \in armed'
    BY DEF RecoveredIfPostponed
  <1>1. UNCHANGED <<now, events, sent, eventOf, at>>
    BY DEF InitScheduler
  <1>2. Orphans = {}
    BY DEF Orphans, PendingReminders, Drawn
  <1>3. PICK P \in SUBSET PendingReminders :
          /\ Throws(IF P = PendingReminders THEN 0 ELSE 1)
          /\ \A e \in Events :
               LET last == LastOf(P \ Orphans, e)
               IN  IF last = {} THEN activeTimers'[e] = None ELSE activeTimers'[e] \in last
          /\ armed' = Rearmed(P \ Orphans, activeTimers')
          /\ stored' = stored \ (P \intersect Orphans)
    BY DEF InitScheduler
  <1>4. P = PendingReminders /\ stored' = stored
    BY <1>2, <1>3 DEF Throws, TypeOK
  <1>5. r \in P /\ eventOf[r] \in Events
    BY <1>1, <1>4 DEF PendingReminders, Drawn, TypeOK
  <1>6. \A p \in P : eventOf[p] = eventOf[r] /\ p # r => at[p] < at[r]
    BY <1>1, <1>4 DEF RowsOf, PendingReminders
  <1>7. LastOf(P \ Orphans, eventOf[r]) = {r}
    <2>1. \A p \in P : at[p] \in Nat
      BY DEF PendingReminders, TypeOK
    <2> QED BY <1>2, <1>5, <1>6, <2>1 DEF LastOf
  <1>8. activeTimers'[eventOf[r]] = r
    BY <1>3, <1>5, <1>7
  <1> QED BY <1>2, <1>3, <1>5, <1>8 DEF Rearmed

LEMMA RecoveryNext == RecoveryInv /\ [Next]_vars => RecoveryInv'
  <1> SUFFICES ASSUME RecoveryInv, [Next]_vars
               PROVE  RecoveredIfPostponed'
    BY TimerInvNext DEF RecoveryInv
  <1> USE RemindersAssumption
      DEF RecoveryInv, TimerInv, RecoveredIfPostponed, PendingReminders, RowsOf,
          table, memory, history
  <1>1. CASE Tick
    BY <1>1 DEF Tick, TypeOK
  <1>2. CASE InitScheduler
    BY <1>2, RecoveryRestart
  <1>3. CASE Crash
    BY <1>3 DEF Crash
  <1>4. ASSUME NEW r \in Reminders, TriggerReminder(r)
        PROVE  RecoveredIfPostponed'
    BY <1>4 DEF TriggerReminder, TypeOK
  <1>5. ASSUME NEW r \in Reminders, NotificationSent(r) \/ MarkFails(r)
        PROVE  RecoveredIfPostponed'
    <2>1. UNCHANGED <<now, stored, eventOf, at, latest, up, armed>> /\ sent \subseteq sent'
          /\ firing' = firing \ {r}
      BY <1>5 DEF NotificationSent, MarkFails, ForgetTimer
    <2>2. faults' = 0 => faults = 0 /\ (r \in stored => r \in sent')
      BY <1>5 DEF NotificationSent, MarkFails, Throws, TypeOK
    <2> QED BY <2>1, <2>2
  <1>6. ASSUME NEW e \in Events, NEW t \in 1..MaxTime, ScheduleFails(e, t)
        PROVE  RecoveredIfPostponed'
    BY <1>6 DEF ScheduleFails, Throws, Uncancelled, TypeOK, Drawn, MapRight
  <1>7. ASSUME NEW e \in Events, NEW t \in 1..MaxTime, NEW r \in Reminders, ScheduleReminder(e, t, r)
        PROVE  RecoveredIfPostponed'
    BY <1>7, RecoverySchedule
  <1>8. ASSUME NEW e \in Events, DeleteEvent(e) \/ DeleteContact(e)
        PROVE  RecoveredIfPostponed'
    <2>1. CASE DeleteEvent(e)
      BY <2>1 DEF DeleteEvent
    <2>2. CASE DeleteContact(e)
      <3>1. UNCHANGED <<now, eventOf, at, latest, up, armed, firing, faults>>
        BY <2>2 DEF DeleteContact
      <3>2. stored' = stored \ RowsOf(e) /\ sent' = sent \ RowsOf(e)
        BY <2>2 DEF DeleteContact
      <3>3. ASSUME NEW r \in PendingReminders'
            PROVE  r \in PendingReminders /\ RowsOf(eventOf[r])' = RowsOf(eventOf[r])
        BY <3>1, <3>2, <3>3
      <3> QED BY <3>1, <3>3
    <2> QED BY <1>8, <2>1, <2>2
  <1>9. CASE UNCHANGED vars
    BY <1>9 DEF vars
  <1> QED BY <1>1, <1>2, <1>3, <1>4, <1>5, <1>6, <1>7, <1>8, <1>9 DEF Next, Schedule, Timer

\* The last reminder of an event survives restarts if it lies after all earlier ones.
THEOREM Recovered == Spec => []RecoveredIfPostponed
  <1>1. Init => RecoveryInv
    BY TimerInvInit DEF Init, RecoveryInv, RecoveredIfPostponed
  <1>2. RecoveryInv => RecoveredIfPostponed
    BY DEF RecoveryInv
  <1> QED BY <1>1, <1>2, RecoveryNext, PTL DEF Spec

-----------------------------------------------------------------------------
LEMMA MarkedNext == TimerInv /\ PushedIsMarked /\ [Next]_vars => PushedIsMarked'
  <1> SUFFICES ASSUME TimerInv, PushedIsMarked, [Next]_vars
               PROVE  PushedIsMarked'
    OBVIOUS
  <1> USE RemindersAssumption DEF TimerInv, PushedIsMarked, table, memory, history
  <1>1. CASE Tick
    BY <1>1 DEF Tick
  <1>2. CASE InitScheduler
    BY <1>2 DEF InitScheduler, Throws, TypeOK
  <1>3. CASE Crash
    BY <1>3 DEF Crash, TypeOK
  <1>4. ASSUME NEW r \in Reminders, TriggerReminder(r)
        PROVE  PushedIsMarked'
    BY <1>4 DEF TriggerReminder, TypeOK
  <1>5. ASSUME NEW r \in Reminders, NotificationSent(r)
        PROVE  PushedIsMarked'
    BY <1>5 DEF NotificationSent, ForgetTimer, TypeOK
  <1>6. ASSUME NEW r \in Reminders, MarkFails(r)
        PROVE  PushedIsMarked'
    BY <1>6 DEF MarkFails, Throws, ForgetTimer, TypeOK
  <1>7. ASSUME NEW e \in Events, NEW t \in 1..MaxTime, ScheduleFails(e, t)
        PROVE  PushedIsMarked'
    BY <1>7 DEF ScheduleFails, Throws, TypeOK
  <1>8. ASSUME NEW e \in Events, NEW t \in 1..MaxTime, NEW r \in Reminders, ScheduleReminder(e, t, r)
        PROVE  PushedIsMarked'
    <2>1. pushes[r] = 0
      BY <1>8 DEF ScheduleReminder, Drawn
    <2> QED BY <1>8, <2>1 DEF ScheduleReminder
  <1>9. ASSUME NEW e \in Events, DeleteEvent(e) \/ DeleteContact(e)
        PROVE  PushedIsMarked'
    BY <1>9 DEF DeleteEvent, DeleteContact, RowsOf, TypeOK
  <1>10. CASE UNCHANGED vars
    BY <1>10 DEF vars
  <1> QED BY <1>1, <1>2, <1>3, <1>4, <1>5, <1>6, <1>7, <1>8, <1>9, <1>10 DEF Next, Schedule, Timer

\* A pushed reminder is marked sent once its push is answered, but for faults and crashes.
THEOREM Marked == Spec => []PushedIsMarked
  <1>1. Init => PushedIsMarked
    BY DEF Init, PushedIsMarked
  <1> QED BY <1>1, TimerInvInit, TimerInvNext, MarkedNext, PTL DEF Spec

-----------------------------------------------------------------------------
\* The latest reminder of an event is one of the event's, and has its row as long as
\* any reminder of the event does.
LatestKept ==
    /\ \A e \in Events : latest[e] # None => eventOf[latest[e]] = e
    /\ \A r \in Reminders : eventOf[r] # None => latest[eventOf[r]] # None
    /\ \A r \in stored : latest[eventOf[r]] \in stored

\* What is marked sent, or waits for its push, has been pushed.
SentPushed == \A r \in sent \union firing : pushes[r] > 0

\* Where a reminder may go off although its event was given a later time.
Excepted(r) ==
    \/ eventOf[r] \in overlapped
    \/ faults > 0
    \/ latest[eventOf[r]] \in cut

\* The timer of a reminder is not running once the event has a later one.
QuietInv ==
    /\ TimerInv
    /\ LatestKept
    /\ SentPushed
    /\ \A r \in armed : Postponed(r) => Excepted(r)

LEMMA QuietSchedule ==
  ASSUME QuietInv, NEW e \in Events, NEW t \in 1..MaxTime, NEW r \in Reminders,
         ScheduleReminder(e, t, r), TimerInv'
  PROVE  QuietInv'
  <1> USE RemindersAssumption DEF QuietInv, TimerInv, ScheduleReminder
  <1>1. r \notin stored /\ r \notin armed /\ e # None /\ \A d \in Events : latest[d] # r
    BY DEF Drawn, TypeOK, LatestKept
  <1>2. /\ eventOf'[r] = e /\ latest'[e] = r /\ r \in stored'
        /\ \A q \in Reminders \ {r} : eventOf'[q] = eventOf[q] /\ at'[q] = at[q]
        /\ \A d \in Events \ {e} : latest'[d] = latest[d] /\ latest[d] # r
    BY <1>1 DEF TypeOK
  <1>3. LatestKept'
    <2>0. \A d \in Events : latest'[d] # None => eventOf'[latest'[d]] = d
      BY <1>2 DEF TypeOK, LatestKept
    <2>1. ASSUME NEW q \in Reminders, eventOf'[q] # None
          PROVE  /\ latest'[eventOf'[q]] # None
                 /\ q \in stored' => latest'[eventOf'[q]] \in stored'
      <3>1. CASE eventOf'[q] = e
        BY <1>2, <3>1
      <3>2. CASE eventOf'[q] # e
        <4>1. q # r /\ eventOf[q] = eventOf'[q] /\ eventOf[q] \in Events \ {e}
          BY <1>2, <2>1, <3>2 DEF TypeOK
        <4>2. /\ latest[eventOf[q]] \in Reminders \ {r}
              /\ q \in stored => latest[eventOf[q]] \in stored
          BY <1>2, <2>1, <4>1 DEF LatestKept, TypeOK
        <4> QED BY <1>2, <4>1, <4>2
      <3> QED BY <3>1, <3>2
    <2>2. \A q \in stored' : q \in Reminders /\ eventOf'[q] # None
      BY <1>2 DEF TypeOK, Drawn
    <2> QED BY <2>0, <2>1, <2>2 DEF LatestKept
  <1>4. SentPushed'
    BY DEF SentPushed
  <1>5. ASSUME NEW q \in armed', Postponed(q)'
        PROVE  Excepted(q)'
    <2>1. q # r
      BY <1>2, <1>5 DEF Postponed
    <2>2. q \in armed /\ q # activeTimers[e] /\ eventOf'[q] = eventOf[q] /\ at'[q] = at[q]
          /\ eventOf[q] \in Events
      BY <1>2, <2>1 DEF Uncancelled, TypeOK, Drawn
    <2>3. overlapped \subseteq overlapped'
      OBVIOUS
    <2>4. CASE eventOf[q] = e
      BY <2>2, <2>3, <2>4 DEF Tracked, Excepted
    <2>5. CASE eventOf[q] # e
      <3>1. latest'[eventOf[q]] = latest[eventOf[q]] /\ latest[eventOf[q]] \in Reminders \ {r}
        BY <1>2, <2>2, <2>5 DEF LatestKept, TypeOK
      <3>2. Postponed(q) /\ at'[latest'[eventOf[q]]] = at[latest[eventOf[q]]]
        BY <1>2, <1>5, <2>2, <3>1 DEF Postponed
      <3>3. Excepted(q)
        BY <2>2, <3>2
      <3> QED BY <2>2, <2>3, <3>1, <3>3 DEF Excepted
    <2> QED BY <2>4, <2>5
  <1> QED BY <1>3, <1>4, <1>5

\* Start-up arms the last of the unsent reminders of an event that are not due: the
\* latest one is among them if any of them was postponed.
LEMMA QuietRestart ==
  ASSUME QuietInv, InitScheduler, TimerInv'
  PROVE  QuietInv'
  <1> USE RemindersAssumption DEF QuietInv, TimerInv
  <1>1. UNCHANGED <<now, events, sent, eventOf, at, latest, firing, overlapped, pushes, cut>>
    BY DEF InitScheduler
  <1>2. PICK P \in SUBSET PendingReminders :
          /\ Throws(IF P = PendingReminders THEN 0 ELSE 1)
          /\ \A e \in Events :
               LET last == LastOf(P \ Orphans, e)
               IN  IF last = {} THEN activeTimers'[e] = None ELSE activeTimers'[e] \in last
          /\ armed' = Rearmed(P \ Orphans, activeTimers')
          /\ stored' = stored \ (P \intersect Orphans)
    BY DEF InitScheduler
  <1>3. Orphans = {} /\ stored' = stored
    BY <1>2 DEF Orphans, PendingReminders, Drawn
  <1>4. LatestKept' /\ SentPushed'
    BY <1>1, <1>3 DEF LatestKept, SentPushed
  <1>5. ASSUME NEW r \in armed', Postponed(r), ~Excepted(r)'
        PROVE  FALSE
    <2> DEFINE q == latest[eventOf[r]]
    <2>1. P = PendingReminders
      BY <1>2, <1>5 DEF Excepted, Throws, TypeOK
    <2>2. /\ r \in stored \ sent /\ at[r] > now
          /\ \A p \in PendingReminders : eventOf[p] = eventOf[r] => at[p] <= at[r]
      <3>1. PICK e \in Events : activeTimers'[e] = r /\ r \in P
        BY <1>2 DEF Rearmed
      <3>2. r # None
        BY <3>1 DEF PendingReminders, TypeOK
      <3>3. r \in LastOf(P, e)
        BY <1>2, <1>3, <3>1, <3>2
      <3> QED BY <2>1, <3>1, <3>3 DEF LastOf, PendingReminders
    <2>3. /\ q \in stored /\ eventOf[q] = eventOf[r] /\ at[q] > at[r]
          /\ at[q] \in Nat /\ at[r] \in Nat /\ now \in Nat /\ q \notin cut
      BY <1>1, <1>5, <2>2 DEF LatestKept, Postponed, Excepted, TypeOK
    <2>4. q \notin PendingReminders
      BY <2>2, <2>3
    <2>5. q \in sent
      BY <2>2, <2>3, <2>4 DEF PendingReminders
    <2>6. pushes[q] > 0 /\ at[q] <= now
      BY <2>3, <2>5 DEF SentPushed, OnTime, TypeOK
    <2> QED BY <2>2, <2>3, <2>6
  <1>6. \A r \in armed' : Postponed(r)' = Postponed(r)
    BY <1>1 DEF Postponed
  <1> QED BY <1>4, <1>5, <1>6

LEMMA QuietNext == QuietInv /\ [Next]_vars => QuietInv'
  <1> SUFFICES ASSUME QuietInv, [Next]_vars, TimerInv'
               PROVE  QuietInv'
    BY TimerInvNext DEF QuietInv
  <1> USE RemindersAssumption
      DEF QuietInv, TimerInv, LatestKept, SentPushed, Postponed, Excepted, table, memory, history
  <1>1. CASE Tick \/ Crash \/ UNCHANGED vars
    BY <1>1 DEF Tick, Crash, vars
  <1>2. CASE InitScheduler
    BY <1>2, QuietRestart
  <1>3. ASSUME NEW r \in Reminders, TriggerReminder(r)
        PROVE  QuietInv'
    BY <1>3 DEF TriggerReminder, TypeOK
  <1>4. ASSUME NEW r \in Reminders, NotificationSent(r) \/ MarkFails(r)
        PROVE  QuietInv'
    BY <1>4 DEF NotificationSent, MarkFails, Throws, ForgetTimer, TypeOK
  <1>5. ASSUME NEW e \in Events, NEW t \in 1..MaxTime, ScheduleFails(e, t)
        PROVE  QuietInv'
    BY <1>5 DEF ScheduleFails, Throws, Uncancelled, TypeOK
  <1>6. ASSUME NEW e \in Events, NEW t \in 1..MaxTime, NEW r \in Reminders, ScheduleReminder(e, t, r)
        PROVE  QuietInv'
    BY <1>6, QuietSchedule
  <1>7. ASSUME NEW e \in Events, DeleteEvent(e) \/ DeleteContact(e)
        PROVE  QuietInv'
    <2>1. UNCHANGED <<now, eventOf, at, latest, memory, history, faults>> /\ sent' \subseteq sent
      BY <1>7 DEF DeleteEvent, DeleteContact
    <2>2. \A r \in stored : r \notin stored' => \A q \in stored' : eventOf[q] # eventOf[r]
      BY <1>7 DEF DeleteEvent, DeleteContact, RowsOf
    <2>3. stored' \subseteq stored /\ \A r \in stored' : latest[eventOf[r]] \in stored'
      BY <1>7, <2>1, <2>2 DEF DeleteEvent, DeleteContact, TypeOK, Drawn
    <2> QED BY <2>1, <2>3
  <1> QED BY <1>1, <1>2, <1>3, <1>4, <1>5, <1>6, <1>7 DEF Next, Schedule, Timer

\* A reminder does not go off any more once its event was given a later time, over
\* restarts that read its unsent row back, but for an overlap, a fault, or a later
\* reminder pushed early by a timeout too long for setTimeout.
THEOREM Quiet == Spec => PostponedIsQuiet
  <1> DEFINE Silent == \A r \in Reminders : pushes'[r] # pushes[r] /\ Postponed(r) => Excepted(r)
  <1>1. QuietInv /\ [Next]_vars => [Silent]_vars
    <2> SUFFICES ASSUME QuietInv, Next
                 PROVE  Silent
      OBVIOUS
    <2>1. ASSUME NEW r \in Reminders, TriggerReminder(r)
          PROVE  Silent
      BY <2>1 DEF TriggerReminder, QuietInv, TimerInv, TypeOK
    <2>2. CASE pushes' = pushes
      BY <2>2
    <2> QED BY <2>1, <2>2 DEF Next, Timer, Schedule, Tick, InitScheduler, Crash, NotificationSent,
              MarkFails, ForgetTimer, ScheduleReminder, ScheduleFails, DeleteEvent, DeleteContact,
              history
  <1>2. Init => QuietInv
    <2>1. Init => LatestKept /\ SentPushed /\ armed = {}
      BY DEF Init, LatestKept, SentPushed
    <2> QED BY <2>1, TimerInvInit DEF QuietInv
  <1>3. [Silent]_vars => [\A r \in Reminders : pushes'[r] # pushes[r] /\ Postponed(r) =>
            \/ eventOf[r] \in overlapped
            \/ faults > 0
            \/ latest[eventOf[r]] \in cut]_vars
    BY DEF Excepted
  <1> QED BY <1>1, <1>2, <1>3, QuietNext, PTL DEF Spec, PostponedIsQuiet

\* Start-up never finds a reminder whose event is gone: the foreign key keeps the
\* event's row, and the contact's deletion takes the reminders first.
THEOREM NoOrphans == Spec => [](Orphans = {})
  <1>1. TimerInv => Orphans = {}
    BY DEF TimerInv, Drawn, Orphans, PendingReminders
  <1> QED BY <1>1, TimerInvInit, TimerInvNext, PTL DEF Spec

-----------------------------------------------------------------------------
(* Missed reminders, with the cron job that is meant to catch them. *)

\* A reminder whose time has come, with neither a timer nor a push under way.
Missed(r) ==
    /\ eventOf[r] # None
    /\ at[r] <= now
    /\ r \notin armed \union firing

\* The check reads rows in the future only and so has nothing to send, ever.
CronIdle == cronDue = {} /\ cronSending = None

\* A reminder that was missed stays missed: no restart, no schedule and no cron check
\* pushes it.  reminders_backup shows one such reminder.
MissedForGood ==
    [][\A r \in Reminders : Missed(r) => Missed(r)' /\ pushes'[r] = pushes[r]]_backupVars

LEMMA BackupInvNext == TimerInv /\ CronIdle /\ [BackupNext]_backupVars => TimerInv' /\ CronIdle'
  <1> SUFFICES ASSUME TimerInv, CronIdle, [BackupNext]_backupVars
               PROVE  TimerInv' /\ CronIdle'
    OBVIOUS
  <1>1. CASE WithCron
    BY <1>1, TimerInvNext DEF WithCron, CronIdle, cron
  <1>2. CASE CheckDueReminders
    <2>1. {r \in PendingReminders : at[r] <= now} = {}
      BY DEF PendingReminders, TimerInv, TypeOK
    <2> QED BY <1>2, <2>1, TimerInvNext DEF CheckDueReminders, CronIdle
  <1>3. CASE UNCHANGED backupVars
    BY <1>3, TimerInvNext DEF backupVars, cron, CronIdle
  <1> QED BY <1>1, <1>2, <1>3
          DEF BackupNext, CronStep, SendDueReminder, DueReminderSent, CronIdle

LEMMA MissedNext ==
  ASSUME TimerInv, [Next]_vars, NEW r \in Reminders, Missed(r)
  PROVE  Missed(r)' /\ pushes'[r] = pushes[r]
  <1> USE DEF Missed, TimerInv, TypeOK
  <1>1. CASE Tick
    BY <1>1 DEF Tick, table, memory, history
  <1>2. CASE InitScheduler
    BY <1>2 DEF InitScheduler, PendingReminders, Rearmed
  <1>3. CASE Crash
    BY <1>3 DEF Crash, table, history
  <1>4. ASSUME NEW q \in Reminders, Timer(q)
        PROVE  Missed(r)' /\ pushes'[r] = pushes[r]
    BY <1>4 DEF Timer, TriggerReminder, NotificationSent, MarkFails, ForgetTimer, table, history
  <1>5. ASSUME NEW e \in Events, Schedule(e)
        PROVE  Missed(r)' /\ pushes'[r] = pushes[r]
    BY <1>5 DEF Schedule, ScheduleReminder, ScheduleFails, Uncancelled, table, history
  <1>6. ASSUME NEW e \in Events, DeleteEvent(e) \/ DeleteContact(e)
        PROVE  Missed(r)' /\ pushes'[r] = pushes[r]
    BY <1>6 DEF DeleteEvent, DeleteContact, memory, history
  <1>7. CASE UNCHANGED vars
    BY <1>7 DEF vars, table, memory, history
  <1> QED BY <1>1, <1>2, <1>3, <1>4, <1>5, <1>6, <1>7 DEF Next

\* The cron check, even if it ran, would find nothing: it looks for due rows among
\* those that are not due.
THEOREM CronFindsNothing == BackupSpec => []CronIdle
  <1>1. BackupInit => TimerInv /\ CronIdle
    BY TimerInvInit DEF BackupInit, CronIdle
  <1> QED BY <1>1, BackupInvNext, PTL DEF BackupSpec

\* A missed reminder is never pushed, with the cron job and without, for any number of
\* restarts, events and reminders.
THEOREM NeverCaughtUp == BackupSpec => MissedForGood
  <1>1. BackupInit => TimerInv /\ CronIdle
    BY TimerInvInit DEF BackupInit, CronIdle
  <1>2. ASSUME TimerInv, CronIdle, [BackupNext]_backupVars, NEW r \in Reminders, Missed(r)
        PROVE  Missed(r)' /\ pushes'[r] = pushes[r]
    <2>1. [Next]_vars
      BY <1>2 DEF BackupNext, WithCron, CronStep, CheckDueReminders, SendDueReminder,
         DueReminderSent, CronIdle, backupVars
    <2> QED BY <1>2, <2>1, MissedNext
  <1>3. TimerInv /\ CronIdle /\ [BackupNext]_backupVars =>
          [\A r \in Reminders : Missed(r) => Missed(r)' /\ pushes'[r] = pushes[r]]_backupVars
    BY <1>2
  <1> QED BY <1>1, <1>3, BackupInvNext, PTL DEF BackupSpec, MissedForGood

=============================================================================
