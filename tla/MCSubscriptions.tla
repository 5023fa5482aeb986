-------------------------- MODULE MCSubscriptions --------------------------
(* Small instances of Subscriptions for TLC. *)
EXTENDS Subscriptions, TLC

CONSTANTS a, b, c, r1, r2

MCEndpoints == {a, b, c}
MCRuns == {r1, r2}

Symmetry == Permutations(Endpoints) \union Permutations(Runs)

=============================================================================
