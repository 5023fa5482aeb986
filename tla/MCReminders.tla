---------------------------- MODULE MCReminders ----------------------------
(* Small instances of Reminders for TLC. *)
EXTENDS Reminders, TLC

CONSTANTS e1, e2, r1, r2, r3

MCEvents == {e1, e2}
MCReminders3 == {r1, r2, r3}

Symmetry == Permutations(Events) \union Permutations(Reminders)

=============================================================================
