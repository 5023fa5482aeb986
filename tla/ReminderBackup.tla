--------------------------- MODULE ReminderBackup ---------------------------
(***************************************************************************)
(* Reminders with the cron job that is meant to back its timers up: every  *)
(* minute it goes over the pending rows and sends those that are due.      *)
(* Nothing in the repository starts the job; the module shows what it      *)
(* would add if it ran.                                                    *)
(***************************************************************************)
EXTENDS Reminders

VARIABLES
    cronDue,        \* rows the check has still to send
    cronSending     \* the row whose push the check waits for, None otherwise

cron == <<cronDue, cronSending>>
backupVars == <<vars, cron>>

BackupInit ==
    /\ Init
    /\ cronDue = {}
    /\ cronSending = None

\* checkDueReminders reads the pending rows and picks those that are due.  Ticks
\* may overlap; one check at a time is enough to show what a check finds.
CheckDueReminders ==
    /\ up
    /\ cronDue = {} /\ cronSending = None
    /\ cronDue' = {r \in PendingReminders : at[r] <= now}
    /\ UNCHANGED <<vars, cronSending>>

\* A row whose event is gone is passed over, any other one is sent.
SendDueReminder(r) ==
    /\ up
    /\ r \in cronDue
    /\ cronSending = None
    /\ cronDue' = cronDue \ {r}
    /\ \/ /\ eventOf[r] \in events
          /\ cronSending' = r
          /\ pushes' = [pushes EXCEPT ![r] = @ + 1]
       \/ /\ eventOf[r] \notin events
          /\ UNCHANGED <<cronSending, pushes>>
    /\ UNCHANGED <<now, table, memory, setAt, cut, faults, crashes>>

DueReminderSent ==
    /\ up
    /\ cronSending # None
    /\ cronSending' = None
    /\ sent' = sent \union ({cronSending} \intersect stored)
    /\ UNCHANGED <<now, events, stored, eventOf, at, latest, memory, history,
                   faults, crashes, cronDue>>

\* A crash loses the check that is under way.
WithCron ==
    /\ Next
    /\ IF up' THEN UNCHANGED cron ELSE cronDue' = {} /\ cronSending' = None

CronStep == CheckDueReminders \/ (\E r \in Reminders : SendDueReminder(r)) \/ DueReminderSent

BackupNext == WithCron \/ CronStep

BackupSpec == BackupInit /\ [][BackupNext]_backupVars

\* Time passes, a stopped process is started again, timers and cron ticks run,
\* and the push services answer.
FairBackup ==
    /\ BackupSpec
    /\ WF_backupVars(Tick /\ UNCHANGED cron)
    /\ WF_backupVars(InitScheduler /\ UNCHANGED cron)
    /\ WF_backupVars(CronStep)
    /\ \A r \in Reminders : WF_backupVars((TriggerReminder(r) \/ NotificationSent(r)) /\ UNCHANGED cron)

-----------------------------------------------------------------------------
\* "This ensures reminders are triggered even after server restarts"
\* (scheduler/cronScheduler.ts:5): the stored reminder of an event that is neither
\* scheduled anew nor deleted is pushed in the end.
TriggeredAfterRestart ==
    \A r \in Reminders :
        r \in stored ~> pushes[r] > 0 \/ r \notin stored \/ latest[eventOf[r]] # r

=============================================================================
