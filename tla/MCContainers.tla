---------------------------- MODULE MCContainers ----------------------------
(* Two users, an API client, and health ticks that overlap. *)
EXTENDS Containers, TLC

CONSTANTS c1, c2, u1, k1, k2

MCContainers == {c1, c2}
MCCalls == {u1}
MCTicks1 == {k1}
MCTicks2 == {k1, k2}
MCPorts == {1, 2}

Symmetry == Permutations(MCContainers) \union Permutations(MCTicks2)

=============================================================================
