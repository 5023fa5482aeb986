----------------------------- MODULE Ingestion -----------------------------
(***************************************************************************)
(* What the message path promises, whatever its stages and awaits are:     *)
(* a message is recorded, work on it begins only while it has no event,    *)
(* and the event that comes of it is the first one of a message that is    *)
(* not marked done.  The exception are the events of loose work: work that *)
(* went on after the service had forgotten that it had begun.  Only the    *)
(* user removes events, and messages, the latter only while they have no   *)
(* event.                                                                  *)
(***************************************************************************)
CONSTANTS Messages, Events

VARIABLES
    known,      \* messages that have been recorded
    done,       \* recorded messages whose processing is marked finished
    eventsOf,   \* eventsOf[m]: the events made from message m
    loose       \* events, made or to be made, of loose work

vars == <<known, done, eventsOf, loose>>

Init ==
    /\ known = {}
    /\ done = {}
    /\ eventsOf = [m \in Messages |-> {}]
    /\ loose = {}

\* Record m and start on it, or start again: never once it has an event.  What is
\* started beside loose work is loose too.
Start(m) ==
    /\ eventsOf[m] = {}
    /\ known' = known \union {m}
    /\ done' = done \ {m}
    /\ loose \subseteq loose'
    /\ UNCHANGED eventsOf

\* The first event of an unfinished message, or one of loose work.
Create(m, e) ==
    /\ m \in known
    /\ (m \notin done /\ eventsOf[m] = {}) \/ e \in loose
    /\ \A n \in Messages : e \notin eventsOf[n]
    /\ eventsOf' = [eventsOf EXCEPT ![m] = @ \union {e}]
    /\ UNCHANGED <<known, done, loose>>

Finish(m) ==
    /\ m \in known
    /\ done' = done \union {m}
    /\ UNCHANGED <<known, eventsOf, loose>>

\* Forget that the work that makes, or made, the events in S has begun.
Forget(S) ==
    /\ loose' = loose \union S
    /\ UNCHANGED <<known, done, eventsOf>>

\* Remove the events in E, and the messages in M, which have none.
Remove(E, M) ==
    /\ \A m \in M : eventsOf[m] = {}
    /\ eventsOf' = [m \in Messages |-> eventsOf[m] \ E]
    /\ known' = known \ M
    /\ done' = done \ M
    /\ UNCHANGED loose

Next ==
    \/ \E m \in Messages :
        \/ Start(m)
        \/ Finish(m)
        \/ \E e \in Events : Create(m, e)
    \/ \E S \in SUBSET Events : Forget(S)
    \/ \E E \in SUBSET Events, M \in SUBSET Messages : Remove(E, M)

Spec == Init /\ [][Next]_vars

=============================================================================
