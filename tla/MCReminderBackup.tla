-------------------------- MODULE MCReminderBackup --------------------------
(* A small instance of ReminderBackup for TLC. *)
EXTENDS ReminderBackup

CONSTANTS e1, r1, r2

MCOneEvent == {e1}
MCReminders2 == {r1, r2}

=============================================================================
