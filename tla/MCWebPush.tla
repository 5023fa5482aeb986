----------------------------- MODULE MCWebPush -----------------------------
(* Two browsers of one push service. *)
EXTENDS WebPush, TLC

CONSTANTS e1, e2, fcm, u1, u2, s1, n1, b1

MCEndpoints == {e1, e2}
MCServices == {fcm}
MCService == [e \in MCEndpoints |-> fcm]
MCCalls == {u1, u2}
MCSyncs == {s1}
MCSenders == {n1}
MCBroadcasts == {b1}

Symmetry == Permutations(MCEndpoints) \union Permutations(MCCalls)

=============================================================================
