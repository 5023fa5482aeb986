----------------------------- MODULE MCPipeline -----------------------------
(* Small instances of Pipeline for TLC. *)
EXTENDS Pipeline, TLC

CONSTANTS m1, m2, m3, c1, c2, r1, r2, r3

MCMessages == {m1, m2}
MCThreeMessages == {m1, m2, m3}
MCChats == {c1, c2}
MCRuns2 == {r1, r2}
MCRuns3 == {r1, r2, r3}
MCNoMessages == {}
MCOnly1 == {m1}
MCOnly2 == {m2}
MCOnly3 == {m3}

\* m1 has a chat of its own, the other messages share one.
MCChatOf == [m \in Messages |-> IF m = m1 THEN c1 ELSE c2]

MCNoChats == {}
MCChat2 == {c2}

MCUserStatuses == {"completed"}

\* Runs, and with them the event ids, are interchangeable.
Symmetry == Permutations(Runs)

=============================================================================
