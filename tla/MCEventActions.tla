--------------------------- MODULE MCEventActions ---------------------------
(* Small instance of EventActions. *)
EXTENDS EventActions, TLC

CONSTANTS e1, e2, c1, c2, u1

MCEvents == {e1, e2}
MCChecks == {c1, c2}
MCClicks == {u1}

Symmetry == Permutations(MCEvents) \union Permutations(MCChecks)

=============================================================================
