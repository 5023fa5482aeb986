------------------------------ MODULE RunRight ------------------------------
(***************************************************************************)
(* What the container manager promises of a container's life, whatever     *)
(* tasks work on it: the right to run it is given out once, goes back and  *)
(* forth between Docker and one task, and is never given out again once it *)
(* has ended, by an answered stop or by a failure.                         *)
(***************************************************************************)
CONSTANT Containers

VARIABLES
    right,      \* right[c]: who may run c: "nobody" yet, "task", "docker", or "ended"
    stopped     \* containers whose stop was answered

vars == <<right, stopped>>

Init ==
    /\ right = [c \in Containers |-> "nobody"]
    /\ stopped = {}

Move(c, from, to) ==
    /\ right[c] \in from
    /\ right' = [right EXCEPT ![c] = to]

\* The container is created, to be run or, if that fails, never.
Create(c) ==
    /\ \E to \in {"task", "ended"} : Move(c, {"nobody"}, to)
    /\ UNCHANGED stopped

Run(c) == Move(c, {"task"}, "docker") /\ UNCHANGED stopped

Take(c) == Move(c, {"docker"}, "task") /\ UNCHANGED stopped

\* Only who has the right can answer a stop.
Stop(c) == Move(c, {"task"}, "ended") /\ stopped' = stopped \union {c}

\* The tasks that have the right to run the containers in L are lost with it.
Lose(L) ==
    /\ \A c \in L : right[c] = "task"
    /\ right' = [c \in Containers |-> IF c \in L THEN "ended" ELSE right[c]]
    /\ UNCHANGED stopped

Next ==
    \/ \E L \in SUBSET Containers : Lose(L)
    \/ \E c \in Containers : Create(c) \/ Run(c) \/ Take(c) \/ Stop(c)

Spec == Init /\ [][Next]_vars

=============================================================================
