----------------------------- MODULE Containers -----------------------------
(***************************************************************************)
(* The container manager of the orchestrator: one Docker container per     *)
(* user, created, stopped and restarted by API calls, and restarted by a   *)
(* health tick every thirty seconds.                                       *)
(*                                                                         *)
(* The calls and the ticks are tasks of one Node.js process, which         *)
(* interleave while they wait for a docker command or for Redis.  Neither  *)
(* the ticks nor the calls look at what the other tasks are doing, and a   *)
(* tick does not wait for the one before it.  The model is of production   *)
(* mode, where the docker commands are real.                               *)
(***************************************************************************)
EXTENDS Naturals, FiniteSets

CONSTANTS
    Containers,     \* createUserContainer calls; each names its container
    Calls,          \* API calls that may be under way at a time
    Ticks,          \* health ticks that may be under way at a time
    None,           \* no container
    Ports,          \* the ports allocatePort looks at, in increasing order
    MaxFailures     \* bound on the docker and Redis commands that fail and the
                    \* restarts of the orchestrator, together

NoPort == 0

ASSUME ContainersAssumption ==
    /\ Ports \subseteq Nat \ {NoPort}
    /\ Calls \intersect Ticks = {}
    /\ Containers \intersect (Calls \union Ticks) = {}
    /\ None \notin Containers
    /\ MaxFailures \in Nat

\* A container's creation is a task of the same name.
Tasks == Containers \union Calls \union Ticks

VARIABLES
    (* process memory *)
    known,      \* containers in the map
    status,     \* status[c]: ContainerInfo.status
    quiet,      \* quiet[c]: no health check recorded in the last two minutes
    pc,         \* pc[t]: what task t waits for
    op,         \* op[t]: the method task t executes
    on,         \* on[t]: the container task t works on
    cursor,     \* cursor[k]: port of the last container tick k has looked at
    (* Redis and Docker, which survive a crash *)
    port,       \* port[c]: the port container c was given
    user,       \* user[c]: containerStatus of c's user in Redis
    docker,     \* docker[c]: state of the Docker container of c
    (* history *)
    stopped,    \* containers whose stop was answered with success
    overtaken,  \* containers removed while a docker run of theirs that had succeeded
                \* was still to be noted
    faults, crashes

memory == <<known, status, quiet, cursor>>
tasks == <<pc, op, on>>
history == <<stopped, overtaken, faults, crashes>>
vars == <<memory, tasks, port, user, docker, history>>

-----------------------------------------------------------------------------
(* A task waits for docker run ("run"), stop or rm, or for the event loop to
   resume it after a docker run that succeeded ("ran"), that failed ("failed"), or
   after docker rm ("removed").  A tick between two containers is at "scan". *)
AtWork == {"run", "ran", "failed", "stop", "rm", "removed"}
Statuses == {"none", "creating", "running", "stopped", "error"}

\* A task that has the next docker run of c before it: c's creation, or the one
\* of all contenders whose docker rm succeeded.
Holds(t, c) == on[t] = c /\ pc[t] \in {"run", "removed"}

Init ==
    /\ known = {}
    /\ status = [c \in Containers |-> "none"]
    /\ quiet = [c \in Containers |-> TRUE]
    /\ pc = [t \in Tasks |-> "idle"]
    /\ op = [t \in Tasks |-> "none"]
    /\ on = [t \in Tasks |-> None]
    /\ cursor = [k \in Ticks |-> NoPort]
    /\ port = [c \in Containers |-> NoPort]
    /\ user = [c \in Containers |-> "none"]
    /\ docker = [c \in Containers |-> "absent"]
    /\ stopped = {}
    /\ overtaken = {}
    /\ faults = 0
    /\ crashes = 0

Fault ==
    /\ faults + crashes < MaxFailures
    /\ faults' = faults + 1

Goto(t, stage) ==
    /\ pc' = [pc EXCEPT ![t] = stage]
    /\ UNCHANGED <<op, on>>

\* Task t starts to execute method m on container c.
Begin(t, m, c, stage) ==
    /\ pc' = [pc EXCEPT ![t] = stage]
    /\ op' = [op EXCEPT ![t] = m]
    /\ on' = [on EXCEPT ![t] = c]

\* The task's method returns or throws; a tick goes on to the next container.
Finish(t) ==
    /\ pc' = [pc EXCEPT ![t] = IF t \in Ticks THEN "scan" ELSE "idle"]
    /\ op' = [op EXCEPT ![t] = "none"]
    /\ on' = [on EXCEPT ![t] = None]

-----------------------------------------------------------------------------
(* POST /api/users: createUserContainer. *)

UsedPorts == {port[d] : d \in known}

\* allocatePort: the first port no container in the map has.
LeastFree(used) == {p \in Ports \ used : \A q \in Ports \ used : p <= q}

\* Container and user are written to Redis, and docker run is started without
\* waiting for it.  If Redis fails the call is answered 500, and the container
\* stays in the map as it is, with its port.  Until docker run nothing can be done
\* with the container: the waits for Redis are part of the wait for docker run.
Register(c, used) ==
    /\ port[c] = NoPort
    /\ \E p \in LeastFree(used) : port' = [port EXCEPT ![c] = p]
    /\ known' = known \union {c}
    /\ status' = [status EXCEPT ![c] = "creating"]
    /\ \/ /\ user' = [user EXCEPT ![c] = "creating"]
          /\ Begin(c, "create", c, "run")
          /\ UNCHANGED faults
       \/ /\ Fault
          /\ UNCHANGED <<user, tasks>>
    /\ UNCHANGED <<quiet, cursor, docker, stopped, overtaken, crashes>>

\* Mutant of Create: the ports of stopped containers are given out again.
CreateReusing(c) == Register(c, {port[d] : d \in {e \in known : status[e] # "stopped"}})

\* The container is in the map, with its port, before any other call is handled:
\* the promise of allocatePort, the first to be awaited, is already settled.  Without a
\* free port the call throws and changes nothing.
Create(c) == Register(c, UsedPorts)

-----------------------------------------------------------------------------
(* The docker commands: external, as docker run, stop and rm behave. *)

PortTaken(c) == \E d \in Containers \ {c} : docker[d] = "up" /\ port[d] = port[c]

\* docker run throws: a restart ends there and leaves the status as stopContainer
\* has set it, a creation has its catch block to come.
RunThrows(t) == IF op[t] = "create" THEN Goto(t, "failed") ELSE Finish(t)

\* docker run fails while the name is in use.  It fails as well while another
\* container has the port, and then may leave its container behind.
DockerRun(t) ==
    LET c == on[t] IN
    /\ pc[t] = "run"
    /\ \/ /\ docker[c] = "absent" /\ ~PortTaken(c)
          /\ docker' = [docker EXCEPT ![c] = "up"]
          /\ Goto(t, "ran")
          /\ UNCHANGED faults
       \/ /\ docker[c] # "absent"
          /\ RunThrows(t)
          /\ UNCHANGED <<docker, faults>>
       \/ /\ docker[c] = "absent"
          /\ IF PortTaken(c) THEN UNCHANGED faults ELSE Fault
          /\ \E left \in {"absent", "down"} : docker' = [docker EXCEPT ![c] = left]
          /\ RunThrows(t)
    /\ UNCHANGED <<memory, port, user, stopped, overtaken, crashes>>

\* Mutant of DockerStop: a container that is not there counts as removed.
DockerStopLenient(t) ==
    LET c == on[t] IN
    /\ pc[t] = "stop"
    /\ docker' = [docker EXCEPT ![c] = IF @ = "up" THEN "down" ELSE @]
    /\ Goto(t, IF docker[c] = "absent" THEN "removed" ELSE "rm")
    /\ UNCHANGED <<memory, port, user, history>>

\* docker stop: an error if there is no such container, which ends the task.
DockerStop(t) ==
    LET c == on[t] IN
    /\ pc[t] = "stop"
    /\ \/ /\ docker[c] # "absent"
          /\ docker' = [docker EXCEPT ![c] = IF @ = "up" THEN "down" ELSE @]
          /\ Goto(t, "rm")
          /\ UNCHANGED faults
       \/ /\ IF docker[c] = "absent" THEN UNCHANGED faults ELSE Fault
          /\ Finish(t)
          /\ UNCHANGED docker
    /\ UNCHANGED <<memory, port, user, stopped, overtaken, crashes>>

\* Mutant of DockerRm: a failing docker rm is ignored.
DockerRmLenient(t) ==
    LET c == on[t] IN
    /\ pc[t] = "rm"
    /\ docker' = [docker EXCEPT ![c] = IF @ = "up" THEN "up" ELSE "absent"]
    /\ Goto(t, "removed")
    /\ UNCHANGED <<memory, port, user, stopped, overtaken, faults, crashes>>

\* When c has been removed, and when its removal is noted: is the success of a docker
\* run of c, before the removal, still to be noted?
Overtake(c) ==
    overtaken' = IF \E t \in Tasks : on[t] = c /\ pc[t] = "ran"
                 THEN overtaken \union {c} ELSE overtaken \ {c}

\* docker rm: an error if the container is gone, or is up again.
DockerRm(t) ==
    LET c == on[t] IN
    /\ pc[t] = "rm"
    /\ \/ /\ docker[c] = "down"
          /\ docker' = [docker EXCEPT ![c] = "absent"]
          /\ Overtake(c)
          /\ Goto(t, "removed")
          /\ UNCHANGED faults
       \/ /\ IF docker[c] \in {"absent", "up"} THEN UNCHANGED faults ELSE Fault
          /\ Finish(t)
          /\ UNCHANGED <<docker, overtaken>>
    /\ UNCHANGED <<memory, port, user, stopped, crashes>>

\* The service in the container dies; Docker does not restart it.
Exit(c) ==
    /\ docker[c] = "up"
    /\ docker' = [docker EXCEPT ![c] = "down"]
    /\ UNCHANGED <<memory, tasks, port, user, history>>

-----------------------------------------------------------------------------
(* What the tasks do between the commands. *)

\* startContainer has succeeded: the status is set in memory, and in the creation
\* for the user too.
Started(t) ==
    LET c == on[t] IN
    /\ pc[t] = "ran"
    /\ status' = [status EXCEPT ![c] = "running"]
    /\ user' = IF op[t] = "create" THEN [user EXCEPT ![c] = "running"] ELSE user
    /\ Finish(t)
    /\ UNCHANGED <<known, quiet, cursor, port, docker, history>>

\* Mutant of NotStarted: the status is called otherwise.
NotStartedFailed(t) ==
    LET c == on[t] IN
    /\ pc[t] = "failed"
    /\ status' = [status EXCEPT ![c] = "failed"]
    /\ user' = [user EXCEPT ![c] = "error"]
    /\ Finish(t)
    /\ UNCHANGED <<known, quiet, cursor, port, docker, history>>

\* The catch block of the creation: an error, which the user sees.
NotStarted(t) ==
    LET c == on[t] IN
    /\ pc[t] = "failed"
    /\ status' = [status EXCEPT ![c] = "error"]
    /\ user' = [user EXCEPT ![c] = "error"]
    /\ Finish(t)
    /\ UNCHANGED <<known, quiet, cursor, port, docker, history>>

\* Mutants of Removed: a restart gives up if somebody has stopped the container
\* meanwhile; the status is left alone.
RemovedGivingUp(t) ==
    LET c == on[t] IN
    /\ pc[t] = "removed"
    /\ status' = [status EXCEPT ![c] = "stopped"]
    /\ IF op[t] = "stop" \/ status[c] = "stopped" THEN Finish(t) ELSE Goto(t, "run")
    /\ stopped' = IF op[t] = "stop" THEN stopped \union {c} ELSE stopped
    /\ Overtake(c)
    /\ UNCHANGED <<known, quiet, cursor, port, user, docker, faults, crashes>>

RemovedSilently(t) ==
    LET c == on[t] IN
    /\ pc[t] = "removed"
    /\ IF op[t] = "stop" THEN Finish(t) ELSE Goto(t, "run")
    /\ stopped' = IF op[t] = "stop" THEN stopped \union {c} ELSE stopped
    /\ Overtake(c)
    /\ UNCHANGED <<memory, port, user, docker, faults, crashes>>

\* stopContainer goes on after docker rm: the status is set, and written to Redis,
\* which may fail.  Then a stop is answered, and a restart starts the container.
Removed(t) ==
    LET c == on[t] IN
    /\ pc[t] = "removed"
    /\ status' = [status EXCEPT ![c] = "stopped"]
    /\ Overtake(c)
    /\ \/ /\ op[t] = "stop"
          /\ Finish(t)
          /\ stopped' = stopped \union {c}
          /\ UNCHANGED faults
       \/ /\ op[t] = "restart"
          /\ Goto(t, "run")
          /\ UNCHANGED <<stopped, faults>>
       \/ /\ Fault
          /\ Finish(t)
          /\ UNCHANGED stopped
    /\ UNCHANGED <<known, quiet, cursor, port, user, docker, crashes>>

\* POST .../containers/:id/{stop,restart}: an unknown container is answered 500.
Call(u, m, c) ==
    /\ pc[u] = "idle"
    /\ c \in known
    /\ Begin(u, m, c, "stop")
    /\ UNCHANGED <<memory, port, user, docker, history>>

-----------------------------------------------------------------------------
(* Health monitoring. *)

Unhealthy(c) == status[c] = "running" /\ quiet[c]
Ahead(k) == {c \in known : port[c] > cursor[k]}

\* Restart the containers of S, those not yet looked at, from the first on: the
\* map keeps the order of creation, which is the order of the ports.
Visit(k, S) ==
    \/ \E c \in S :
        /\ \A d \in S : port[c] <= port[d]
        /\ Begin(k, "restart", c, "stop")
        /\ cursor' = [cursor EXCEPT ![k] = port[c]]
    \/ /\ S = {}
       /\ pc[k] = "scan"
       /\ pc' = [pc EXCEPT ![k] = "idle"]
       /\ cursor' = [cursor EXCEPT ![k] = NoPort]
       /\ UNCHANGED <<op, on>>

\* Mutant of Tick: the loop ends at the first container that is not running.
TickReturning(k) ==
    /\ pc[k] \in {"idle", "scan"}
    /\ Visit(k, {c \in Ahead(k) : Unhealthy(c) /\
                    \A d \in Ahead(k) : port[d] < port[c] => status[d] = "running"})
    /\ UNCHANGED <<known, status, quiet, port, user, docker, history>>

\* The interval fires, or a tick resumes: on to the next container that is running
\* and whose last health check is more than two minutes old, or missing.
Tick(k) ==
    /\ pc[k] \in {"idle", "scan"}
    /\ Visit(k, {c \in Ahead(k) : Unhealthy(c)})
    /\ UNCHANGED <<known, status, quiet, port, user, docker, history>>

\* The HEALTH_CHECK command of a container that is up.  A restart does not touch
\* lastHealthCheck.
RecordHealthCheck(c) ==
    /\ c \in known /\ docker[c] = "up" /\ quiet[c]
    /\ quiet' = [quiet EXCEPT ![c] = FALSE]
    /\ UNCHANGED <<known, status, cursor, tasks, port, user, docker, history>>

\* Two minutes pass without a health check.
FallQuiet(c) ==
    /\ ~quiet[c]
    /\ quiet' = [quiet EXCEPT ![c] = TRUE]
    /\ UNCHANGED <<known, status, cursor, tasks, port, user, docker, history>>

-----------------------------------------------------------------------------
\* The orchestrator dies and starts again with an empty map: nothing reads the
\* containers back from Redis or from Docker, and nothing stops them.
Crash ==
    /\ faults + crashes < MaxFailures
    /\ crashes' = crashes + 1
    /\ known' = {}
    /\ status' = [c \in Containers |-> "none"]
    /\ quiet' = [c \in Containers |-> TRUE]
    /\ pc' = [t \in Tasks |-> "idle"]
    /\ op' = [t \in Tasks |-> "none"]
    /\ on' = [t \in Tasks |-> None]
    /\ cursor' = [k \in Ticks |-> NoPort]
    /\ overtaken' = {}
    /\ UNCHANGED <<port, user, docker, stopped, faults>>

Step(t) ==
    \/ DockerRun(t)
    \/ DockerStop(t)
    \/ DockerRm(t)
    \/ Started(t)
    \/ Removed(t)
    \/ NotStarted(t)

Next ==
    \/ \E c \in Containers :
        \/ Create(c)
        \/ Exit(c)
        \/ RecordHealthCheck(c)
        \/ FallQuiet(c)
    \/ \E u \in Calls, m \in {"stop", "restart"}, c \in Containers : Call(u, m, c)
    \/ \E k \in Ticks : Tick(k)
    \/ \E t \in Tasks : Step(t)
    \/ Crash

Spec == Init /\ [][Next]_vars

\* The interval fires for ever, docker and Redis answer each command, time passes,
\* and the event loop resumes what has its answer.
FairSpec ==
    /\ Spec
    /\ \A t \in Tasks : WF_vars(Step(t))
    /\ \A k \in Ticks : WF_vars(Tick(k))
    /\ \A c \in Containers : WF_vars(FallQuiet(c))

-----------------------------------------------------------------------------
(* Properties. *)

TypeOK ==
    /\ known \subseteq Containers
    /\ status \in [Containers -> Statuses]
    /\ quiet \in [Containers -> BOOLEAN]
    /\ pc \in [Tasks -> {"idle", "scan"} \union AtWork]
    /\ op \in [Tasks -> {"none", "create", "stop", "restart"}]
    /\ on \in [Tasks -> Containers \union {None}]
    /\ cursor \in [Ticks -> Ports \union {NoPort}]
    /\ port \in [Containers -> Ports \union {NoPort}]
    /\ user \in [Containers -> {"none", "creating", "running", "error"}]
    /\ docker \in [Containers -> {"absent", "down", "up"}]
    /\ stopped \subseteq Containers
    /\ overtaken \subseteq Containers
    /\ faults \in Nat
    /\ crashes \in Nat

\* restartContainer and stopContainer look at nobody else's work, and ticks and
\* calls pile up on one container.  All the same the right to run it is had by one
\* at a time: by the task whose docker rm succeeded, by Docker, or by nobody for
\* ever, once a stop was answered with success.
OneHolder ==
    \A c \in Containers :
        /\ \A t, u \in Tasks : Holds(t, c) /\ Holds(u, c) => t = u
        /\ docker[c] # "absent" => \A t \in Tasks : ~Holds(t, c)
        /\ c \in stopped => docker[c] = "absent" /\ \A t \in Tasks : ~Holds(t, c)

\* And the right is not lost: a container that was created and is not in Docker is
\* about to be run, or was stopped on request, or a command failed or the
\* orchestrator died at a bad time.
HolderNotLost ==
    \A c \in Containers :
        port[c] # NoPort /\ docker[c] = "absent" =>
            \/ \E t \in Tasks : Holds(t, c)
            \/ c \in stopped
            \/ faults > 0 \/ crashes > 0

\* getActiveCount counts containers that exist.  One that is not in Docker counts only
\* until the task that has removed it notes that, or if the removal overtook a task
\* whose docker run had succeeded and which sets the status when the removal has been
\* noted: then for as long as the container is not run again.
RunningExists ==
    \A c \in known :
        status[c] = "running" /\ docker[c] = "absent" =>
            c \in overtaken \/ \E t \in Tasks : on[t] = c /\ pc[t] = "removed"

\* "Allocates a unique port for a new container" (containerManager.ts:192): no two
\* containers that are in the map or up have the same port.
InUse(c) == port[c] # NoPort /\ (c \in known \/ docker[c] = "up")

UniquePorts ==
    \A c, d \in Containers : InUse(c) /\ InUse(d) /\ port[c] = port[d] => c = d

\* The same as long as the orchestrator has not been restarted.
PortsUniqueUntilRestart == crashes = 0 => UniquePorts

\* A container that has died is removed in the end, to be run again, or counts as
\* running no more: one slow or stopped container does not keep the tick from the
\* others.
DeadIsReplaced ==
    \A c \in Containers :
        c \in known /\ status[c] = "running" /\ docker[c] = "down"
            ~> docker[c] # "down" \/ status[c] # "running"

\* The right to run c, as Docker and the tasks have it.
Right(c) ==
    IF docker[c] # "absent" THEN "docker"
    ELSE IF \E t \in Tasks : Holds(t, c) THEN "task"
    ELSE IF port[c] = NoPort THEN "nobody"
    ELSE "ended"

Life == INSTANCE RunRight WITH right <- [c \in Containers |-> Right(c)]

\* Every container leads the life of RunRight: created once, run by one at a time,
\* its stop answered only by who has taken it out of Docker, and never run again
\* after that, nor after a command has failed or the orchestrator has died at the
\* wrong time.
LeadsOneLife == Life!Spec

=============================================================================
