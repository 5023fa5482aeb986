-------------------------- MODULE ContainersProofs --------------------------
(***************************************************************************)
(* Proofs about Containers, for every set of containers, calls, ticks and  *)
(* ports, and any number of failures.                                      *)
(***************************************************************************)
EXTENDS Containers, TLAPS

\* A container is worked on only while it is in the map, where it has a port; one
\* without a port has never been anywhere.
Registered ==
    /\ \A c \in known : port[c] # NoPort
    /\ \A c \in Containers : port[c] = NoPort => docker[c] = "absent" /\ c \notin stopped
    /\ \A t \in Tasks : pc[t] \in AtWork => on[t] \in known
    /\ \A c \in Containers : pc[c] \in AtWork => on[c] = c
    /\ crashes = 0 => \A c \in Containers : port[c] # NoPort => c \in known

\* A container is overtaken while a task has still to note that it has run it, and it
\* is in Docker no more.
OvertakesSeen ==
    \A t \in Tasks : pc[t] = "ran" /\ docker[on[t]] = "absent" => on[t] \in overtaken

ContainersInv ==
    /\ TypeOK
    /\ Registered
    /\ OneHolder
    /\ PortsUniqueUntilRestart
    /\ HolderNotLost
    /\ OvertakesSeen
    /\ RunningExists

-----------------------------------------------------------------------------
LEMMA ContainersInvInit == Init => ContainersInv
  <1> SUFFICES ASSUME Init
               PROVE  ContainersInv
    OBVIOUS
  <1> USE ContainersAssumption DEF Init
  <1>1. TypeOK
    BY DEF TypeOK, Statuses
  <1>2. Registered /\ OneHolder /\ OvertakesSeen
    BY DEF Registered, OneHolder, OvertakesSeen, Holds, AtWork, Tasks
  <1>3. PortsUniqueUntilRestart /\ HolderNotLost /\ RunningExists
    BY DEF PortsUniqueUntilRestart, UniquePorts, InUse, HolderNotLost, RunningExists
  <1> QED BY <1>1, <1>2, <1>3 DEF ContainersInv

LEMMA ContainersInvCreate ==
  ASSUME ContainersInv, NEW c \in Containers, Create(c)
  PROVE  ContainersInv'
  <1> USE ContainersAssumption DEF ContainersInv
  <1>1. PICK p \in Ports : p \notin UsedPorts /\ port' = [port EXCEPT ![c] = p]
    BY DEF Create, Register, LeastFree
  <1>2. /\ p # NoPort /\ port[c] = NoPort
        /\ c \in Tasks /\ c \notin known /\ docker[c] = "absent" /\ c \notin stopped
    BY DEF Registered, Tasks, Create, Register
  <1>3. (\A t \in Tasks : pc[t] \in AtWork => on[t] # c) /\ pc[c] \notin AtWork
    BY <1>2 DEF Registered
  <1>4. \/ /\ pc' = [pc EXCEPT ![c] = "run"] /\ on' = [on EXCEPT ![c] = c]
           /\ op' = [op EXCEPT ![c] = "create"]
           /\ faults' = faults /\ user' = [user EXCEPT ![c] = "creating"]
        \/ /\ faults' = faults + 1 /\ pc' = pc /\ on' = on /\ op' = op /\ user' = user
    BY DEF Create, Register, Begin, Fault, tasks
  <1>5. overtaken' = overtaken
    BY DEF Create, Register
  <1>6. /\ known' = known \union {c}
        /\ status' = [status EXCEPT ![c] = "creating"]
        /\ quiet' = quiet /\ cursor' = cursor /\ docker' = docker
        /\ stopped' = stopped /\ crashes' = crashes
    BY DEF Create, Register
  <1>7. /\ port'[c] = p
        /\ status'[c] = "creating"
        /\ \A d \in Containers \ {c} : port'[d] = port[d] /\ status'[d] = status[d]
        /\ \A t \in Tasks \ {c} : pc'[t] = pc[t] /\ on'[t] = on[t]
        /\ \/ pc'[c] = "run" /\ on'[c] = c
           \/ pc'[c] = pc[c] /\ on'[c] = on[c] /\ faults' > 0
    BY <1>1, <1>2, <1>4, <1>6 DEF TypeOK
  <1>8. TypeOK'
    BY <1>1, <1>4, <1>5, <1>6 DEF TypeOK, AtWork, Statuses
  <1>9. Registered'
    BY <1>2, <1>6, <1>7 DEF TypeOK, Registered, Tasks, AtWork
  <1>10. OneHolder'
    BY <1>2, <1>3, <1>6, <1>7 DEF OneHolder, Holds, AtWork
  <1>11. PortsUniqueUntilRestart'
    <2> SUFFICES ASSUME crashes = 0, NEW d \in Containers, NEW e \in Containers,
                        InUse(d)', InUse(e)', port'[d] = port'[e], d # e
                 PROVE  FALSE
      BY <1>6 DEF PortsUniqueUntilRestart, UniquePorts
    <2>1. \A f \in Containers \ {c} : InUse(f)' => InUse(f) /\ port'[f] = port[f] /\ f \in known
      BY <1>6, <1>7 DEF InUse, Registered
    <2>2. d # c /\ e # c
      BY <1>1, <1>7, <2>1 DEF UsedPorts
    <2> QED BY <2>1, <2>2 DEF PortsUniqueUntilRestart, UniquePorts
  <1>12. HolderNotLost'
    <2> SUFFICES ASSUME NEW d \in Containers, port'[d] # NoPort, docker[d] = "absent",
                        d \notin stopped, ~(faults' > 0), ~(crashes > 0)
                 PROVE  \E t \in Tasks : Holds(t, d)'
      BY <1>6 DEF HolderNotLost
    <2>1. CASE d = c
      BY <1>2, <1>7, <2>1 DEF Holds
    <2>2. CASE d # c
      <3>1. ~(faults > 0)
        BY <1>4 DEF TypeOK
      <3>2. PICK t \in Tasks : Holds(t, d)
        BY <1>7, <2>2, <3>1 DEF HolderNotLost
      <3>3. Holds(t, d)'
        BY <1>3, <1>7, <3>1, <3>2 DEF Holds, AtWork, TypeOK
      <3> QED BY <3>3
    <2> QED BY <2>1, <2>2
  <1>13. OvertakesSeen'
    BY <1>2, <1>3, <1>5, <1>6, <1>7 DEF OvertakesSeen, AtWork
  <1>14. RunningExists'
    <2> SUFFICES ASSUME NEW d \in Containers, d \in known', status'[d] = "running",
                        docker[d] = "absent", d \notin overtaken
                 PROVE  \E t \in Tasks : on'[t] = d /\ pc'[t] = "removed"
      BY <1>5, <1>6, <1>8 DEF RunningExists, TypeOK
    <2>1. d # c /\ d \in known /\ status[d] = "running"
      BY <1>6, <1>7
    <2>2. PICK t \in Tasks : on[t] = d /\ pc[t] = "removed"
      BY <2>1 DEF RunningExists
    <2>3. on'[t] = d /\ pc'[t] = "removed"
      BY <1>1, <1>4, <1>7, <2>2 DEF Registered, AtWork, Create, Register, TypeOK
    <2> QED BY <2>3
  <1> QED BY <1>8, <1>9, <1>10, <1>11, <1>12, <1>13, <1>14

-----------------------------------------------------------------------------
(* The docker commands of task t, which works on c. *)

LEMMA WorksOnKnown ==
  ASSUME ContainersInv, NEW t \in Tasks, pc[t] \in AtWork
  PROVE  on[t] \in Containers /\ on[t] \in known /\ port[on[t]] \in Ports \ {NoPort}
  BY ContainersAssumption DEF ContainersInv, TypeOK, Registered

\* What a task does at its end: it holds nothing.
LEMMA FinishReleases ==
  ASSUME TypeOK, NEW t \in Tasks, Finish(t)
  PROVE  /\ pc' \in [Tasks -> {"idle", "scan"} \union AtWork]
         /\ op' \in [Tasks -> {"none", "create", "stop", "restart"}]
         /\ on' \in [Tasks -> Containers \union {None}]
         /\ pc'[t] \notin AtWork
         /\ \A u \in Tasks \ {t} : pc'[u] = pc[u] /\ on'[u] = on[u] /\ op'[u] = op[u]
  BY DEF TypeOK, Finish, AtWork

LEMMA ContainersInvDockerRun ==
  ASSUME ContainersInv, NEW t \in Tasks, DockerRun(t)
  PROVE  ContainersInv'
  <1> DEFINE c == on[t]
  <1> USE ContainersAssumption DEF ContainersInv
  <1>1. /\ c \in Containers /\ c \in known /\ port[c] # NoPort /\ pc[t] = "run" /\ Holds(t, c)
        /\ t \in Containers => c = t
    BY WorksOnKnown DEF DockerRun, Holds, AtWork, Registered
  <1>2. docker[c] = "absent" /\ c \notin stopped /\ \A u \in Tasks \ {t} : ~Holds(u, c)
    BY <1>1 DEF OneHolder
  <1>3. /\ known' = known /\ status' = status /\ quiet' = quiet /\ cursor' = cursor
        /\ port' = port /\ user' = user /\ stopped' = stopped
        /\ overtaken' = overtaken /\ crashes' = crashes
    BY DEF DockerRun, memory
  <1>4. PortTaken(c) => crashes > 0
    <2> SUFFICES ASSUME NEW d \in Containers \ {c}, docker[d] = "up", port[d] = port[c], crashes = 0
                 PROVE  FALSE
      BY DEF PortTaken, TypeOK
    <2> QED BY <1>1 DEF PortsUniqueUntilRestart, UniquePorts, InUse
  <1>5. \/ /\ docker' = [docker EXCEPT ![c] = "up"] /\ faults' = faults
           /\ Goto(t, "ran")
        \/ /\ \E left \in {"absent", "down"} : docker' = [docker EXCEPT ![c] = left]
           /\ RunThrows(t)
           /\ \/ PortTaken(c) /\ faults' = faults
              \/ faults' = faults + 1
    BY <1>2 DEF DockerRun, Fault
  <1>6. \A d \in Containers \ {c} : docker'[d] = docker[d]
    BY <1>1, <1>5 DEF TypeOK
  <1>7. /\ pc' \in [Tasks -> {"idle", "scan"} \union AtWork]
        /\ op' \in [Tasks -> {"none", "create", "stop", "restart"}]
        /\ on' \in [Tasks -> Containers \union {None}]
        /\ \A u \in Tasks \ {t} : pc'[u] = pc[u] /\ on'[u] = on[u]
    BY <1>5, FinishReleases DEF TypeOK, RunThrows, Goto, AtWork
  <1>8. \/ docker'[c] = "up" /\ pc'[t] = "ran" /\ on'[t] = c
        \/ /\ docker'[c] \in {"absent", "down"}
           /\ faults' > 0 \/ crashes > 0
           /\ \/ pc'[t] = "failed" /\ on'[t] = c
              \/ pc'[t] \notin AtWork
    BY <1>1, <1>4, <1>5, FinishReleases DEF TypeOK, RunThrows, Goto
  <1>9. TypeOK'
    BY <1>1, <1>3, <1>5, <1>7 DEF TypeOK
  <1>10. Registered'
    BY <1>1, <1>3, <1>6, <1>7, <1>8 DEF TypeOK, Registered, AtWork, Tasks
  <1>11. \A u \in Tasks, d \in Containers : Holds(u, d)' => u # t /\ d # c /\ Holds(u, d)
    BY <1>2, <1>7, <1>8 DEF Holds, AtWork
  <1>12. OneHolder'
    BY <1>2, <1>3, <1>6, <1>11 DEF OneHolder
  <1>13. PortsUniqueUntilRestart'
    <2>1. \A d \in Containers : InUse(d)' => InUse(d)
      BY <1>1, <1>3, <1>6 DEF InUse
    <2> QED BY <1>3, <2>1 DEF PortsUniqueUntilRestart, UniquePorts
  <1>14. HolderNotLost'
    <2> SUFFICES ASSUME NEW d \in Containers, port[d] # NoPort, docker'[d] = "absent",
                        d \notin stopped, ~(faults' > 0), ~(crashes > 0)
                 PROVE  \E u \in Tasks : Holds(u, d)'
      BY <1>3 DEF HolderNotLost
    <2>1. d # c /\ docker[d] = "absent" /\ ~(faults > 0)
      BY <1>5, <1>6, <1>8 DEF TypeOK
    <2>2. PICK u \in Tasks : Holds(u, d)
      BY <2>1 DEF HolderNotLost
    <2>3. u # t /\ Holds(u, d)'
      BY <1>7, <2>1, <2>2 DEF Holds
    <2> QED BY <2>3
  <1>15. OvertakesSeen'
    <2> SUFFICES ASSUME NEW u \in Tasks, pc'[u] = "ran", docker'[on'[u]] = "absent"
                 PROVE  on'[u] \in overtaken'
      BY DEF OvertakesSeen
    <2>1. u # t
      BY <1>8 DEF AtWork
    <2>2. pc[u] = "ran" /\ on'[u] = on[u] /\ on[u] \in Containers
      BY <1>7, <2>1, WorksOnKnown DEF AtWork
    <2>3. docker[on[u]] = "absent"
      BY <1>2, <1>6, <2>2
    <2> QED BY <1>3, <2>2, <2>3 DEF OvertakesSeen
  <1>16. RunningExists'
    <2> SUFFICES ASSUME NEW d \in known, status[d] = "running", docker'[d] = "absent",
                        d \notin overtaken
                 PROVE  \E u \in Tasks : on'[u] = d /\ pc'[u] = "removed"
      BY <1>3 DEF RunningExists
    <2>1. d \in Containers /\ docker[d] = "absent"
      BY <1>2, <1>6 DEF TypeOK
    <2>2. PICK u \in Tasks : on[u] = d /\ pc[u] = "removed"
      BY <2>1 DEF RunningExists
    <2>3. u # t
      BY <1>1, <2>2
    <2> QED BY <1>7, <2>2, <2>3
  <1> QED BY <1>9, <1>10, <1>12, <1>13, <1>14, <1>15, <1>16

\* docker stop: nobody's right changes, and no container disappears.
LEMMA ContainersInvDockerStop ==
  ASSUME ContainersInv, NEW t \in Tasks, DockerStop(t)
  PROVE  ContainersInv'
  <1> DEFINE c == on[t]
  <1> USE ContainersAssumption DEF ContainersInv
  <1>1. c \in Containers /\ c \in known /\ pc[t] = "stop" /\ (t \in Containers => c = t)
    BY WorksOnKnown DEF DockerStop, AtWork, Registered
  <1>2. /\ known' = known /\ status' = status /\ quiet' = quiet /\ cursor' = cursor
        /\ port' = port /\ user' = user /\ stopped' = stopped
        /\ overtaken' = overtaken /\ crashes' = crashes
    BY DEF DockerStop, memory
  <1>3. /\ docker' \in [Containers -> {"absent", "down", "up"}]
        /\ \A d \in Containers : docker'[d] = "absent" <=> docker[d] = "absent"
        /\ \A d \in Containers : docker'[d] = "up" => docker[d] = "up"
    BY <1>1 DEF DockerStop, TypeOK
  <1>4. faults' \in Nat /\ (faults > 0 => faults' > 0)
    BY DEF DockerStop, Fault, TypeOK
  <1>5. /\ pc' \in [Tasks -> {"idle", "scan"} \union AtWork]
        /\ op' \in [Tasks -> {"none", "create", "stop", "restart"}]
        /\ on' \in [Tasks -> Containers \union {None}]
        /\ \/ pc'[t] = "rm" /\ on'[t] = c
           \/ pc'[t] \notin AtWork
        /\ \A u \in Tasks \ {t} : pc'[u] = pc[u] /\ on'[u] = on[u]
    BY FinishReleases DEF DockerStop, TypeOK, Goto, AtWork
  <1>6. TypeOK'
    BY <1>2, <1>3, <1>4, <1>5 DEF TypeOK
  <1>7. Registered'
    BY <1>1, <1>2, <1>3, <1>5 DEF TypeOK, Registered, AtWork, Tasks
  <1>8. \A u \in Tasks, d \in Containers : Holds(u, d)' <=> Holds(u, d)
    BY <1>1, <1>5 DEF Holds, AtWork
  <1>9. OneHolder'
    BY <1>2, <1>3, <1>8 DEF OneHolder
  <1>10. PortsUniqueUntilRestart'
    BY <1>2, <1>3 DEF PortsUniqueUntilRestart, UniquePorts, InUse
  <1>11. HolderNotLost'
    BY <1>2, <1>3, <1>4, <1>8 DEF HolderNotLost
  <1>12. OvertakesSeen'
    BY <1>1, <1>2, <1>3, <1>5, WorksOnKnown DEF OvertakesSeen, AtWork
  <1>13. RunningExists'
    BY <1>1, <1>2, <1>3, <1>5 DEF RunningExists, TypeOK
  <1> QED BY <1>6, <1>7, <1>9, <1>10, <1>11, <1>12, <1>13

\* docker rm: the container was there, so nobody had the right to run it and its
\* stop was not answered; now t has it.
LEMMA ContainersInvDockerRm ==
  ASSUME ContainersInv, NEW t \in Tasks, DockerRm(t)
  PROVE  ContainersInv'
  <1> DEFINE c == on[t]
  <1> USE ContainersAssumption DEF ContainersInv
  <1>1. c \in Containers /\ c \in known /\ pc[t] = "rm" /\ (t \in Containers => c = t)
    BY WorksOnKnown DEF DockerRm, AtWork, Registered
  <1>2. /\ known' = known /\ status' = status /\ quiet' = quiet /\ cursor' = cursor
        /\ port' = port /\ user' = user /\ stopped' = stopped /\ crashes' = crashes
    BY DEF DockerRm, memory
  <1>3. /\ docker' \in [Containers -> {"absent", "down", "up"}]
        /\ \A d \in Containers \ {c} : docker'[d] = docker[d]
        /\ \A d \in Containers : docker'[d] = "up" => docker[d] = "up"
    BY <1>1 DEF DockerRm, TypeOK
  <1>4. faults' \in Nat /\ (faults > 0 => faults' > 0)
    BY DEF DockerRm, Fault, TypeOK
  <1>5. /\ pc' \in [Tasks -> {"idle", "scan"} \union AtWork]
        /\ op' \in [Tasks -> {"none", "create", "stop", "restart"}]
        /\ on' \in [Tasks -> Containers \union {None}]
        /\ \A u \in Tasks \ {t} : pc'[u] = pc[u] /\ on'[u] = on[u]
    BY FinishReleases DEF DockerRm, TypeOK, Goto, AtWork
  <1>6. \/ /\ docker[c] = "down" /\ docker'[c] = "absent"
           /\ pc'[t] = "removed" /\ on'[t] = c /\ Overtake(c)
        \/ docker'[c] = docker[c] /\ pc'[t] \notin AtWork /\ overtaken' = overtaken
    BY <1>1, FinishReleases DEF DockerRm, TypeOK, Goto
  <1>6a. /\ overtaken' \subseteq Containers
         /\ \A d \in Containers \ {c} : d \in overtaken' <=> d \in overtaken
    BY <1>1, <1>6 DEF Overtake, TypeOK
  <1>7. TypeOK'
    BY <1>2, <1>3, <1>4, <1>5, <1>6a DEF TypeOK
  <1>8. Registered'
    BY <1>1, <1>2, <1>3, <1>5, <1>6 DEF TypeOK, Registered, AtWork, Tasks
  <1>9. /\ \A u \in Tasks \ {t}, d \in Containers : Holds(u, d)' <=> Holds(u, d)
        /\ \A d \in Containers : ~Holds(t, d)
        /\ \A d \in Containers : Holds(t, d)' => d = c /\ docker[c] = "down" /\ docker'[c] = "absent"
    BY <1>1, <1>5, <1>6 DEF Holds, AtWork
  <1>10. docker[c] = "down" => c \notin stopped /\ \A u \in Tasks : ~Holds(u, c)
    BY <1>1 DEF OneHolder
  <1>11. OneHolder'
    <2> SUFFICES ASSUME NEW d \in Containers
                 PROVE  /\ \A u, v \in Tasks : Holds(u, d)' /\ Holds(v, d)' => u = v
                        /\ docker'[d] # "absent" => \A u \in Tasks : ~Holds(u, d)'
                        /\ d \in stopped => docker'[d] = "absent" /\ \A u \in Tasks : ~Holds(u, d)'
      BY <1>2 DEF OneHolder
    <2>1. CASE d = c
      BY <1>1, <1>6, <1>9, <1>10, <2>1 DEF OneHolder
    <2>2. CASE d # c
      BY <1>3, <1>9, <2>2 DEF OneHolder
    <2> QED BY <2>1, <2>2
  <1>12. PortsUniqueUntilRestart'
    BY <1>2, <1>3 DEF PortsUniqueUntilRestart, UniquePorts, InUse
  <1>13. HolderNotLost'
    <2> SUFFICES ASSUME NEW d \in Containers, port[d] # NoPort, docker'[d] = "absent",
                        d \notin stopped, ~(faults' > 0), ~(crashes > 0)
                 PROVE  \E u \in Tasks : Holds(u, d)'
      BY <1>2 DEF HolderNotLost
    <2>1. CASE docker[d] = "absent"
      BY <1>2, <1>4, <1>9, <2>1 DEF HolderNotLost
    <2>2. CASE docker[d] # "absent"
      <3>1. d = c /\ Holds(t, d)'
        BY <1>3, <1>6, <2>2 DEF Holds
      <3> QED BY <3>1
    <2> QED BY <2>1, <2>2
  <1>14. OvertakesSeen'
    <2> SUFFICES ASSUME NEW u \in Tasks, pc'[u] = "ran", docker'[on'[u]] = "absent"
                 PROVE  on'[u] \in overtaken'
      BY DEF OvertakesSeen
    <2>1. u # t /\ pc[u] = "ran" /\ on'[u] = on[u]
      BY <1>5, <1>6 DEF AtWork
    <2>2. CASE on[u] = c
      BY <1>6, <2>1, <2>2 DEF OvertakesSeen, Overtake
    <2>3. CASE on[u] # c
      BY <1>3, <1>6a, <2>1, <2>3, WorksOnKnown DEF OvertakesSeen, AtWork
    <2> QED BY <2>2, <2>3
  <1>15. RunningExists'
    <2> SUFFICES ASSUME NEW d \in known, status[d] = "running", docker'[d] = "absent",
                        d \notin overtaken'
                 PROVE  \E u \in Tasks : on'[u] = d /\ pc'[u] = "removed"
      BY <1>2 DEF RunningExists
    <2>1. CASE pc'[t] = "removed" /\ d = c
      BY <1>6, <2>1 DEF AtWork
    <2>2. CASE ~(pc'[t] = "removed" /\ d = c)
      <3>1. d \in Containers /\ docker[d] = "absent" /\ d \notin overtaken
        BY <1>1, <1>3, <1>6, <1>6a, <2>2 DEF TypeOK
      <3> QED BY <1>1, <1>5, <3>1 DEF RunningExists
    <2> QED BY <2>1, <2>2
  <1> QED BY <1>7, <1>8, <1>11, <1>12, <1>13, <1>14, <1>15

-----------------------------------------------------------------------------
(* The tasks between the commands. *)

\* A creation or a restart ends after docker run.
LEMMA ContainersInvRunEnds ==
  ASSUME ContainersInv, NEW t \in Tasks, Started(t) \/ NotStarted(t)
  PROVE  ContainersInv'
  <1> DEFINE c == on[t]
  <1> USE ContainersAssumption DEF ContainersInv
  <1>1. c \in Containers /\ pc[t] \in {"ran", "failed"} /\ Finish(t)
    BY WorksOnKnown DEF Started, NotStarted, AtWork
  <1>2. /\ known' = known /\ quiet' = quiet /\ cursor' = cursor
        /\ port' = port /\ docker' = docker /\ stopped' = stopped
        /\ overtaken' = overtaken /\ faults' = faults /\ crashes' = crashes
    BY DEF Started, NotStarted, history
  <1>3. /\ status' \in [Containers -> Statuses]
        /\ user' \in [Containers -> {"none", "creating", "running", "error"}]
        /\ \A d \in Containers :
            status'[d] = "running" => status[d] = "running" \/ (d = c /\ pc[t] = "ran")
    BY <1>1 DEF Started, NotStarted, TypeOK, Statuses
  <1>4. /\ pc' \in [Tasks -> {"idle", "scan"} \union AtWork]
        /\ op' \in [Tasks -> {"none", "create", "stop", "restart"}]
        /\ on' \in [Tasks -> Containers \union {None}]
        /\ pc'[t] \notin AtWork
        /\ \A u \in Tasks \ {t} : pc'[u] = pc[u] /\ on'[u] = on[u]
    BY <1>1, FinishReleases
  <1>5. TypeOK'
    BY <1>2, <1>3, <1>4 DEF TypeOK
  <1>6. Registered'
    BY <1>2, <1>4 DEF Registered, Tasks
  <1>7. \A u \in Tasks, d \in Containers : Holds(u, d)' <=> Holds(u, d)
    BY <1>1, <1>4 DEF Holds, AtWork
  <1>8. OneHolder' /\ HolderNotLost'
    BY <1>2, <1>7 DEF OneHolder, HolderNotLost
  <1>9. PortsUniqueUntilRestart'
    BY <1>2 DEF PortsUniqueUntilRestart, UniquePorts, InUse
  <1>10. OvertakesSeen'
    BY <1>2, <1>4 DEF OvertakesSeen, AtWork
  <1>11. RunningExists'
    <2> SUFFICES ASSUME NEW d \in known, status'[d] = "running", docker[d] = "absent",
                        d \notin overtaken
                 PROVE  \E u \in Tasks : on'[u] = d /\ pc'[u] = "removed"
      BY <1>2 DEF RunningExists
    <2>1. ~(d = c /\ pc[t] = "ran")
      BY DEF OvertakesSeen
    <2>2. d \in Containers /\ status[d] = "running"
      BY <1>3, <2>1 DEF TypeOK
    <2>3. PICK u \in Tasks : on[u] = d /\ pc[u] = "removed"
      BY <2>2 DEF RunningExists
    <2> QED BY <1>1, <1>4, <2>3
  <1> QED BY <1>5, <1>6, <1>8, <1>9, <1>10, <1>11

\* The right to run the container goes on to docker run, ends in an answered stop,
\* or is lost with the failing write to Redis.
LEMMA ContainersInvRemoved ==
  ASSUME ContainersInv, NEW t \in Tasks, Removed(t)
  PROVE  ContainersInv'
  <1> DEFINE c == on[t]
  <1> USE ContainersAssumption DEF ContainersInv
  <1>1. /\ c \in Containers /\ c \in known /\ pc[t] = "removed" /\ Holds(t, c)
        /\ t \in Containers => c = t
    BY WorksOnKnown DEF Removed, AtWork, Holds, Registered
  <1>2. docker[c] = "absent" /\ c \notin stopped /\ \A u \in Tasks \ {t} : ~Holds(u, c)
    BY <1>1 DEF OneHolder
  <1>3. /\ known' = known /\ quiet' = quiet /\ cursor' = cursor
        /\ port' = port /\ user' = user /\ docker' = docker /\ crashes' = crashes
        /\ status' = [status EXCEPT ![c] = "stopped"]
        /\ Overtake(c)
    BY DEF Removed
  <1>4. /\ pc' \in [Tasks -> {"idle", "scan"} \union AtWork]
        /\ op' \in [Tasks -> {"none", "create", "stop", "restart"}]
        /\ on' \in [Tasks -> Containers \union {None}]
        /\ \A u \in Tasks \ {t} : pc'[u] = pc[u] /\ on'[u] = on[u]
    BY FinishReleases DEF Removed, TypeOK, Goto, AtWork
  <1>5. \/ /\ pc'[t] \notin AtWork
           /\ stopped' = stopped \union {c} /\ faults' = faults
        \/ /\ pc'[t] = "run" /\ on'[t] = c
           /\ stopped' = stopped /\ faults' = faults
        \/ /\ pc'[t] \notin AtWork
           /\ stopped' = stopped /\ faults' = faults + 1
    BY FinishReleases DEF Removed, TypeOK, Goto, Fault
  <1>6. TypeOK'
    BY <1>1, <1>3, <1>4, <1>5 DEF TypeOK, Overtake, Statuses
  <1>7. Registered'
    BY <1>1, <1>3, <1>4, <1>5 DEF TypeOK, Registered, AtWork, Tasks
  <1>8. /\ \A u \in Tasks \ {t}, d \in Containers : Holds(u, d)' <=> Holds(u, d)
        /\ \A d \in Containers : Holds(t, d)' => d = c /\ stopped' = stopped
    BY <1>4, <1>5 DEF Holds, AtWork
  <1>9. OneHolder'
    <2> SUFFICES ASSUME NEW d \in Containers
                 PROVE  /\ \A u, v \in Tasks : Holds(u, d)' /\ Holds(v, d)' => u = v
                        /\ docker[d] # "absent" => \A u \in Tasks : ~Holds(u, d)'
                        /\ d \in stopped' => docker[d] = "absent" /\ \A u \in Tasks : ~Holds(u, d)'
      BY <1>3 DEF OneHolder
    <2>1. CASE d = c
      BY <1>2, <1>5, <1>8, <2>1
    <2>2. CASE d # c
      BY <1>5, <1>8, <2>2 DEF OneHolder
    <2> QED BY <2>1, <2>2
  <1>10. PortsUniqueUntilRestart'
    BY <1>3 DEF PortsUniqueUntilRestart, UniquePorts, InUse
  <1>11. HolderNotLost'
    <2> SUFFICES ASSUME NEW d \in Containers, port[d] # NoPort, docker[d] = "absent",
                        d \notin stopped', ~(faults' > 0), ~(crashes > 0)
                 PROVE  \E u \in Tasks : Holds(u, d)'
      BY <1>3 DEF HolderNotLost
    <2>1. faults' = faults /\ stopped \subseteq stopped'
      BY <1>5 DEF TypeOK
    <2>2. PICK u \in Tasks : Holds(u, d)
      BY <2>1 DEF HolderNotLost
    <2>3. CASE u = t
      <3>1. d = c /\ pc'[t] = "run" /\ on'[t] = c
        BY <1>5, <2>1, <2>2, <2>3 DEF Holds, TypeOK
      <3> QED BY <3>1 DEF Holds
    <2>4. CASE u # t
      BY <1>8, <2>2, <2>4
    <2> QED BY <2>3, <2>4
  <1>12. OvertakesSeen'
    BY <1>1, <1>3, <1>4, <1>5 DEF OvertakesSeen, Overtake, AtWork
  <1>13. RunningExists'
    BY <1>1, <1>3, <1>4 DEF RunningExists, Overtake, TypeOK
  <1> QED BY <1>6, <1>7, <1>9, <1>10, <1>11, <1>12, <1>13

\* A call or a tick takes up container c, at docker stop.
LEMMA ContainersInvBegin ==
  ASSUME ContainersInv, NEW t \in Tasks \ Containers, NEW c \in known,
         NEW m \in {"stop", "restart"}, pc[t] \notin AtWork, Begin(t, m, c, "stop"),
         cursor' \in [Ticks -> Ports \union {NoPort}],
         UNCHANGED <<known, status, quiet, port, user, docker, history>>
  PROVE  ContainersInv'
  <1> USE ContainersAssumption DEF ContainersInv, history
  <1>1. c \in Containers /\ t \in Tasks
    BY DEF TypeOK
  <1>2. /\ pc' = [pc EXCEPT ![t] = "stop"] /\ on' = [on EXCEPT ![t] = c]
        /\ op' = [op EXCEPT ![t] = m]
    BY DEF Begin
  <1>3. /\ pc'[t] = "stop" /\ on'[t] = c
        /\ \A u \in Tasks \ {t} : pc'[u] = pc[u] /\ on'[u] = on[u]
    BY <1>1, <1>2 DEF TypeOK
  <1>4. TypeOK'
    BY <1>1, <1>2 DEF TypeOK, AtWork
  <1>5. Registered'
    BY <1>1, <1>3 DEF Registered, Tasks
  <1>6. \A u \in Tasks, d \in Containers : Holds(u, d)' <=> Holds(u, d)
    BY <1>1, <1>3 DEF Holds, AtWork
  <1>7. OneHolder' /\ HolderNotLost'
    BY <1>6 DEF OneHolder, HolderNotLost
  <1>8. PortsUniqueUntilRestart'
    BY DEF PortsUniqueUntilRestart, UniquePorts, InUse
  <1>9. OvertakesSeen'
    BY <1>1, <1>3 DEF OvertakesSeen, AtWork
  <1>10. RunningExists'
    BY <1>1, <1>3 DEF RunningExists, AtWork
  <1> QED BY <1>4, <1>5, <1>7, <1>8, <1>9, <1>10

-----------------------------------------------------------------------------
LEMMA ContainersInvTick ==
  ASSUME ContainersInv, NEW k \in Ticks, Tick(k)
  PROVE  ContainersInv'
  <1> USE ContainersAssumption DEF ContainersInv, history
  <1>1. k \in Tasks \ Containers /\ pc[k] \notin AtWork
    BY DEF Tasks, Tick, AtWork
  <1>2. CASE \E c \in known :
                /\ Begin(k, "restart", c, "stop")
                /\ cursor' = [cursor EXCEPT ![k] = port[c]]
    <2>1. PICK c \in known :
            /\ Begin(k, "restart", c, "stop")
            /\ cursor' = [cursor EXCEPT ![k] = port[c]]
      BY <1>2
    <2>2. cursor' \in [Ticks -> Ports \union {NoPort}]
      BY <2>1 DEF TypeOK
    <2> QED BY <1>1, <2>1, <2>2, ContainersInvBegin DEF Tick
  <1>3. CASE /\ pc' = [pc EXCEPT ![k] = "idle"]
             /\ cursor' = [cursor EXCEPT ![k] = NoPort]
             /\ UNCHANGED <<op, on>>
    <2>1. /\ pc'[k] \notin AtWork
          /\ \A u \in Tasks : u # k => pc'[u] = pc[u]
          /\ UNCHANGED <<known, status, quiet, port, user, docker, history>>
      BY <1>1, <1>3 DEF Tick, TypeOK, AtWork
    <2>2. TypeOK'
      BY <1>3, <2>1 DEF TypeOK
    <2>3. Registered'
      BY <1>3, <2>1 DEF Registered, Tasks
    <2>4. \A u \in Tasks, d \in Containers : Holds(u, d)' <=> Holds(u, d)
      BY <1>1, <1>3, <2>1 DEF Holds, AtWork
    <2>5. OneHolder' /\ HolderNotLost'
      BY <2>1, <2>4 DEF OneHolder, HolderNotLost
    <2>6. PortsUniqueUntilRestart'
      BY <2>1 DEF PortsUniqueUntilRestart, UniquePorts, InUse
    <2>7. OvertakesSeen'
      BY <1>3, <2>1 DEF OvertakesSeen, AtWork
    <2>8. RunningExists'
      BY <1>1, <1>3, <2>1 DEF RunningExists, AtWork
    <2> QED BY <2>2, <2>3, <2>5, <2>6, <2>7, <2>8
  <1> QED BY <1>2, <1>3 DEF Tick, Visit, Ahead

\* Containers die, report, and fall quiet; the orchestrator dies.
LEMMA ContainersInvAround ==
  ASSUME ContainersInv,
         \/ \E c \in Containers : Exit(c) \/ RecordHealthCheck(c) \/ FallQuiet(c)
         \/ Crash
  PROVE  ContainersInv'
  <1> USE ContainersAssumption DEF ContainersInv
  <1>1. CASE \E c \in Containers : Exit(c) \/ RecordHealthCheck(c) \/ FallQuiet(c)
    <2>1. /\ known' = known /\ status' = status /\ cursor' = cursor /\ pc' = pc /\ op' = op
          /\ on' = on /\ port' = port /\ user' = user /\ stopped' = stopped
          /\ overtaken' = overtaken /\ faults' = faults /\ crashes' = crashes
      BY <1>1 DEF Exit, RecordHealthCheck, FallQuiet, memory, tasks, history
    <2>2. /\ quiet' \in [Containers -> BOOLEAN]
          /\ docker' \in [Containers -> {"absent", "down", "up"}]
          /\ \A d \in Containers : docker'[d] = "absent" <=> docker[d] = "absent"
          /\ \A d \in Containers : docker'[d] = "up" => docker[d] = "up"
      BY <1>1 DEF Exit, RecordHealthCheck, FallQuiet, TypeOK, memory
    <2>3. TypeOK'
      BY <2>1, <2>2 DEF TypeOK
    <2>4. Registered' /\ OneHolder' /\ HolderNotLost'
      BY <2>1, <2>2 DEF Registered, OneHolder, HolderNotLost, Holds
    <2>5. PortsUniqueUntilRestart'
      BY <2>1, <2>2 DEF PortsUniqueUntilRestart, UniquePorts, InUse
    <2>6. OvertakesSeen'
      BY <2>1, <2>2, WorksOnKnown DEF OvertakesSeen, AtWork
    <2>7. RunningExists'
      BY <2>1, <2>2 DEF RunningExists, TypeOK
    <2> QED BY <2>3, <2>4, <2>5, <2>6, <2>7
  <1>2. CASE Crash
    <2> USE <1>2 DEF Crash
    <2>1. crashes' > 0 /\ crashes' \in Nat /\ \A t \in Tasks : pc'[t] = "idle"
      BY DEF TypeOK
    <2>2. TypeOK'
      BY <2>1 DEF TypeOK, Statuses
    <2>3. Registered' /\ OneHolder'
      BY <2>1 DEF Registered, OneHolder, Holds, AtWork, Tasks
    <2>4. PortsUniqueUntilRestart' /\ HolderNotLost'
      BY <2>1 DEF PortsUniqueUntilRestart, HolderNotLost
    <2>5. OvertakesSeen' /\ RunningExists'
      BY <2>1 DEF OvertakesSeen, RunningExists, AtWork
    <2> QED BY <2>2, <2>3, <2>4, <2>5
  <1> QED BY <1>1, <1>2

LEMMA ContainersInvStep == ContainersInv /\ [Next]_vars => ContainersInv'
  <1> SUFFICES ASSUME ContainersInv, [Next]_vars
               PROVE  ContainersInv'
    OBVIOUS
  <1>1. CASE \E c \in Containers : Create(c)
    BY <1>1, ContainersInvCreate
  <1>2. CASE \E t \in Tasks : Step(t)
    BY <1>2, ContainersInvDockerRun, ContainersInvDockerStop, ContainersInvDockerRm,
       ContainersInvRunEnds, ContainersInvRemoved DEF Step
  <1>3. CASE \E u \in Calls, m \in {"stop", "restart"}, c \in Containers : Call(u, m, c)
    <2>1. PICK u \in Calls, m \in {"stop", "restart"}, c \in Containers : Call(u, m, c)
      BY <1>3
    <2>2. u \in Tasks \ Containers /\ pc[u] \notin AtWork
      BY <2>1, ContainersAssumption DEF Call, Tasks, AtWork
    <2>3. /\ cursor' \in [Ticks -> Ports \union {NoPort}]
          /\ UNCHANGED <<known, status, quiet, port, user, docker, history>>
      BY <2>1 DEF Call, memory, history, ContainersInv, TypeOK
    <2> QED BY <2>1, <2>2, <2>3, ContainersInvBegin DEF Call
  <1>4. CASE \E k \in Ticks : Tick(k)
    BY <1>4, ContainersInvTick
  <1>5. CASE \/ \E c \in Containers : Exit(c) \/ RecordHealthCheck(c) \/ FallQuiet(c)
             \/ Crash
    BY <1>5, ContainersInvAround
  <1>6. CASE UNCHANGED vars
    BY <1>6 DEF vars, memory, tasks, history, ContainersInv, TypeOK, Registered, OneHolder,
       PortsUniqueUntilRestart, UniquePorts, InUse, HolderNotLost, OvertakesSeen,
       RunningExists, Holds
  <1> QED BY <1>1, <1>2, <1>3, <1>4, <1>5, <1>6 DEF Next

LEMMA ContainersInvHolds == Spec => []ContainersInv
  BY ContainersInvInit, ContainersInvStep, PTL DEF Spec

-----------------------------------------------------------------------------
\* The variables keep their types.
THEOREM ContainersTypeCorrect == Spec => []TypeOK
  BY ContainersInvHolds, PTL DEF ContainersInv

\* However many calls and ticks work on a container at a time, at most one of them
\* has its next docker run before it, and after an answered stop none ever has.
THEOREM OneHolderHolds == Spec => []OneHolder
  BY ContainersInvHolds, PTL DEF ContainersInv

\* A created container is missing from Docker only on its way up, after an answered
\* stop, or through a failure.
THEOREM HolderNotLostHolds == Spec => []HolderNotLost
  BY ContainersInvHolds, PTL DEF ContainersInv

\* A container counted as active exists, but while its removal is still to be noted, or
\* when the removal overtook the task that had run it.
THEOREM RunningExistsHolds == Spec => []RunningExists
  BY ContainersInvHolds, PTL DEF ContainersInv

\* Until the orchestrator restarts, ports are unique among the containers in use.
THEOREM PortsUniqueUntilRestartHolds == Spec => []PortsUniqueUntilRestart
  BY ContainersInvHolds, PTL DEF ContainersInv

-----------------------------------------------------------------------------
(* The manager implements RunRight. *)

\* A step that changes nobody's right is a stutter of the container's life.
LEMMA LifeStutters ==
  ASSUME \A c \in Containers : Right(c)' = Right(c), stopped' = stopped
  PROVE  UNCHANGED Life!vars
  BY DEF Life!vars

\* A right is not affected where Docker, the port and the holders stay.
LEMMA RightStays ==
  ASSUME NEW c \in Containers, docker'[c] = docker[c], port'[c] = port[c],
         \A t \in Tasks : Holds(t, c)' <=> Holds(t, c)
  PROVE  Right(c)' = Right(c)
  BY DEF Right

\* A task at work affects no right but the one to its own container.
LEMMA OthersKeepRight ==
  ASSUME NEW t \in Tasks, pc[t] \in AtWork,
         on'[t] = on[t] \/ pc'[t] \notin AtWork,
         \A u \in Tasks \ {t} : pc'[u] = pc[u] /\ on'[u] = on[u],
         port' = port,
         \A d \in Containers \ {on[t]} : docker'[d] = docker[d]
  PROVE  \A d \in Containers \ {on[t]} : Right(d)' = Right(d)
  <1> SUFFICES ASSUME NEW d \in Containers \ {on[t]}
               PROVE  Right(d)' = Right(d)
    OBVIOUS
  <1>1. \A u \in Tasks : Holds(u, d)' <=> Holds(u, d)
    BY DEF Holds, AtWork
  <1> QED BY <1>1, RightStays

\* One right that moves is a step of the container's life, if it moves along it.
LEMMA LifeMoves ==
  ASSUME NEW c \in Containers, \A d \in Containers \ {c} : Right(d)' = Right(d),
         \/ Right(c) = "nobody" /\ Right(c)' \in {"task", "ended"} /\ stopped' = stopped
         \/ Right(c) = "task" /\ Right(c)' \in {"docker", "ended"} /\ stopped' = stopped
         \/ Right(c) = "docker" /\ Right(c)' = "task" /\ stopped' = stopped
         \/ Right(c) = "task" /\ Right(c)' = "ended" /\ stopped' = stopped \union {c}
  PROVE  [Life!Next]_Life!vars
  <1> DEFINE right == [d \in Containers |-> Right(d)]
  <1>1. \A v : Right(c)' = v => right' = [right EXCEPT ![c] = v]
    OBVIOUS
  <1>2. CASE Right(c) = "nobody" /\ Right(c)' \in {"task", "ended"} /\ stopped' = stopped
    <2>1. Life!Create(c)
      BY <1>1, <1>2 DEF Life!Create, Life!Move
    <2> QED BY <2>1 DEF Life!Next
  <1>3. CASE Right(c) = "task" /\ Right(c)' = "docker" /\ stopped' = stopped
    <2>1. Life!Run(c)
      BY <1>1, <1>3 DEF Life!Run, Life!Move
    <2> QED BY <2>1 DEF Life!Next
  <1>4. CASE Right(c) = "task" /\ Right(c)' = "ended" /\ stopped' = stopped
    <2>1. Life!Lose({c})
      BY <1>4 DEF Life!Lose
    <2> QED BY <2>1 DEF Life!Next
  <1>5. CASE Right(c) = "docker" /\ Right(c)' = "task" /\ stopped' = stopped
    <2>1. Life!Take(c)
      BY <1>1, <1>5 DEF Life!Take, Life!Move
    <2> QED BY <2>1 DEF Life!Next
  <1>6. CASE Right(c) = "task" /\ Right(c)' = "ended" /\ stopped' = stopped \union {c}
    <2>1. Life!Stop(c)
      BY <1>1, <1>6 DEF Life!Stop, Life!Move
    <2> QED BY <2>1 DEF Life!Next
  <1> QED BY <1>2, <1>3, <1>4, <1>5, <1>6

-----------------------------------------------------------------------------
LEMMA LifeInit == Init => Life!Init
  <1> SUFFICES ASSUME Init
               PROVE  \A c \in Containers : Right(c) = "nobody"
    BY DEF Life!Init, Init
  <1> QED BY DEF Init, Right, Holds

LEMMA LifeCreate ==
  ASSUME ContainersInv, NEW c \in Containers, Create(c)
  PROVE  [Life!Next]_Life!vars
  <1> USE ContainersAssumption DEF ContainersInv
  <1>1. PICK p \in Ports : port' = [port EXCEPT ![c] = p]
    BY DEF Create, Register, LeastFree
  <1>2. /\ port[c] = NoPort /\ port'[c] # NoPort /\ docker[c] = "absent"
        /\ \A t \in Tasks : ~Holds(t, c)
        /\ c \in Tasks /\ pc[c] \notin AtWork
    BY <1>1 DEF Create, Register, Registered, Tasks, TypeOK, Holds, AtWork
  <1>3. /\ docker' = docker /\ stopped' = stopped
        /\ \/ pc' = [pc EXCEPT ![c] = "run"] /\ on' = [on EXCEPT ![c] = c]
           \/ pc' = pc /\ on' = on
    BY DEF Create, Register, Begin, tasks
  <1>4. Right(c) = "nobody" /\ Right(c)' \in {"task", "ended"}
    BY <1>2, <1>3 DEF Right
  <1>5. ASSUME NEW d \in Containers \ {c}
        PROVE  Right(d)' = Right(d)
    <2>1. \A t \in Tasks : Holds(t, d)' <=> Holds(t, d)
      BY <1>2, <1>3 DEF Holds, TypeOK, AtWork
    <2>2. port'[d] = port[d]
      BY <1>1 DEF TypeOK
    <2> QED BY <1>3, <2>1, <2>2, RightStays
  <1> QED BY <1>3, <1>4, <1>5, LifeMoves

\* docker run: the right goes to Docker, or ends.
LEMMA LifeDockerRun ==
  ASSUME ContainersInv, NEW t \in Tasks, DockerRun(t)
  PROVE  [Life!Next]_Life!vars
  <1> USE ContainersAssumption DEF ContainersInv
  <1>1. PICK c \in Containers : c = on[t] /\ port[c] # NoPort /\ pc[t] = "run" /\ Holds(t, c)
    BY WorksOnKnown DEF DockerRun, Holds, AtWork
  <1>2. docker[c] = "absent" /\ \A u \in Tasks \ {t} : ~Holds(u, c)
    BY <1>1 DEF OneHolder
  <1>3. /\ port' = port /\ stopped' = stopped
        /\ \E new \in {"up", "down", "absent"} : docker' = [docker EXCEPT ![c] = new]
        /\ Goto(t, "ran") \/ RunThrows(t)
    BY <1>1, <1>2 DEF DockerRun
  <1>4. /\ \A u \in Tasks \ {t} : pc'[u] = pc[u] /\ on'[u] = on[u]
        /\ pc'[t] \notin {"run", "removed"}
        /\ on'[t] = c \/ pc'[t] \notin AtWork
    BY <1>1, <1>3, FinishReleases DEF TypeOK, RunThrows, Goto, AtWork
  <1>5. \A d \in Containers \ {c} : Right(d)' = Right(d)
    BY <1>1, <1>3, <1>4, OthersKeepRight DEF AtWork, TypeOK
  <1>6. \A u \in Tasks : ~Holds(u, c)'
    BY <1>2, <1>4 DEF Holds
  <1>7. Right(c) = "task" /\ Right(c)' \in {"docker", "ended"}
    BY <1>1, <1>2, <1>3, <1>6 DEF Right
  <1> QED BY <1>1, <1>3, <1>5, <1>7, LifeMoves

\* docker stop leaves the container in Docker; docker rm takes it out, for t.
LEMMA LifeDockerStop ==
  ASSUME ContainersInv, NEW t \in Tasks, DockerStop(t)
  PROVE  UNCHANGED Life!vars
  <1> USE ContainersAssumption DEF ContainersInv
  <1>1. PICK c \in Containers : c = on[t] /\ pc[t] = "stop"
    BY WorksOnKnown DEF DockerStop, AtWork
  <1>2. /\ port' = port /\ stopped' = stopped
        /\ docker' \in {docker, [docker EXCEPT ![c] = IF @ = "up" THEN "down" ELSE @]}
        /\ Goto(t, "rm") \/ Finish(t)
    BY <1>1 DEF DockerStop
  <1>3. /\ \A u \in Tasks \ {t} : pc'[u] = pc[u] /\ on'[u] = on[u]
        /\ pc'[t] \notin {"run", "removed"}
        /\ on'[t] = c \/ pc'[t] \notin AtWork
    BY <1>1, <1>2, FinishReleases DEF TypeOK, Goto, AtWork
  <1>4. \A d \in Containers \ {c} : Right(d)' = Right(d)
    BY <1>1, <1>2, <1>3, OthersKeepRight DEF AtWork, TypeOK
  <1>5. \A u \in Tasks : Holds(u, c)' <=> Holds(u, c)
    BY <1>1, <1>3 DEF Holds
  <1>6. docker'[c] = "absent" <=> docker[c] = "absent"
    BY <1>1, <1>2 DEF TypeOK
  <1>7. Right(c)' = Right(c)
    BY <1>2, <1>5, <1>6 DEF Right
  <1> QED BY <1>2, <1>4, <1>7, LifeStutters

LEMMA LifeDockerRm ==
  ASSUME ContainersInv, NEW t \in Tasks, DockerRm(t)
  PROVE  [Life!Next]_Life!vars
  <1> USE ContainersAssumption DEF ContainersInv
  <1>1. PICK c \in Containers : c = on[t] /\ pc[t] = "rm"
    BY WorksOnKnown DEF DockerRm, AtWork
  <1>2. /\ port' = port /\ stopped' = stopped
        /\ \/ docker[c] = "down" /\ docker' = [docker EXCEPT ![c] = "absent"] /\ Goto(t, "removed")
           \/ docker' = docker /\ Finish(t)
    BY <1>1 DEF DockerRm
  <1>3. /\ \A u \in Tasks \ {t} : pc'[u] = pc[u] /\ on'[u] = on[u]
        /\ on'[t] = c \/ pc'[t] \notin AtWork
    BY <1>1, <1>2, FinishReleases DEF TypeOK, Goto
  <1>4. \A d \in Containers \ {c} : Right(d)' = Right(d)
    BY <1>1, <1>2, <1>3, OthersKeepRight DEF AtWork, TypeOK
  <1>5. CASE docker[c] = "down" /\ docker' = [docker EXCEPT ![c] = "absent"] /\ Goto(t, "removed")
    <2>1. docker'[c] = "absent" /\ Holds(t, c)'
      BY <1>1, <1>5 DEF Goto, Holds, TypeOK
    <2>2. Right(c) = "docker" /\ Right(c)' = "task"
      BY <1>5, <2>1 DEF Right
    <2> QED BY <1>1, <1>2, <1>4, <2>2, LifeMoves
  <1>6. CASE docker' = docker /\ Finish(t)
    <2>1. \A u \in Tasks : Holds(u, c)' <=> Holds(u, c)
      BY <1>1, <1>3, <1>6, FinishReleases DEF Holds, AtWork
    <2>2. Right(c)' = Right(c)
      BY <1>1, <1>2, <1>6, <2>1, RightStays
    <2> QED BY <1>2, <1>4, <2>2, LifeStutters
  <1> QED BY <1>2, <1>5, <1>6

LEMMA LifeRunEnds ==
  ASSUME ContainersInv, NEW t \in Tasks, Started(t) \/ NotStarted(t)
  PROVE  UNCHANGED Life!vars
  <1>1. /\ port' = port /\ docker' = docker /\ stopped' = stopped
        /\ pc[t] \in {"ran", "failed"} /\ Finish(t)
    BY DEF Started, NotStarted, history
  <1>2. \A u \in Tasks, d \in Containers : Holds(u, d)' <=> Holds(u, d)
    BY <1>1, FinishReleases DEF ContainersInv, Holds, AtWork
  <1> QED BY <1>1, <1>2, RightStays, LifeStutters

\* After docker rm the right ends with the answered stop or a failure, or stays with
\* the restart.
LEMMA LifeRemoved ==
  ASSUME ContainersInv, NEW t \in Tasks, Removed(t)
  PROVE  [Life!Next]_Life!vars
  <1> USE ContainersAssumption DEF ContainersInv
  <1>1. PICK c \in Containers : c = on[t] /\ port[c] # NoPort /\ pc[t] = "removed" /\ Holds(t, c)
    BY WorksOnKnown DEF Removed, AtWork, Holds
  <1>2. docker[c] = "absent" /\ \A u \in Tasks \ {t} : ~Holds(u, c)
    BY <1>1 DEF OneHolder
  <1>3. /\ port' = port /\ docker' = docker
        /\ \/ Finish(t) /\ stopped' = stopped \union {c}
           \/ Goto(t, "run") /\ stopped' = stopped
           \/ Finish(t) /\ stopped' = stopped
    BY <1>1 DEF Removed
  <1>4. /\ \A u \in Tasks \ {t} : pc'[u] = pc[u] /\ on'[u] = on[u]
        /\ on'[t] = c \/ pc'[t] \notin AtWork
    BY <1>1, <1>3, FinishReleases DEF TypeOK, Goto
  <1>5. \A d \in Containers \ {c} : Right(d)' = Right(d)
    BY <1>1, <1>3, <1>4, OthersKeepRight DEF AtWork
  <1>6. Right(c) = "task"
    BY <1>1, <1>2 DEF Right
  <1>7. CASE Finish(t)
    <2>1. \A u \in Tasks : ~Holds(u, c)'
      BY <1>2, <1>4, <1>7, FinishReleases DEF Holds, AtWork
    <2>2. Right(c)' = "ended"
      BY <1>1, <1>2, <1>3, <2>1 DEF Right
    <2>3. stopped' = stopped \/ stopped' = stopped \union {c}
      BY <1>3
    <2> QED BY <1>1, <1>5, <1>6, <2>2, <2>3, LifeMoves
  <1>8. CASE Goto(t, "run") /\ stopped' = stopped
    <2>1. Holds(t, c)'
      BY <1>1, <1>8 DEF Goto, Holds, TypeOK
    <2>2. Right(c)' = "task"
      BY <1>2, <1>3, <2>1 DEF Right
    <2> QED BY <1>5, <1>6, <1>8, <2>2, LifeStutters
  <1> QED BY <1>3, <1>7, <1>8

\* A call or a tick that begins, and a tick that ends, hold nothing.
LEMMA LifeBegin ==
  ASSUME ContainersInv,
         \/ \E u \in Calls, m \in {"stop", "restart"}, c \in Containers : Call(u, m, c)
         \/ \E k \in Ticks : Tick(k)
  PROVE  UNCHANGED Life!vars
  <1>1. /\ UNCHANGED <<port, docker, stopped>>
        /\ \E t \in Tasks :
            /\ pc[t] \notin AtWork
            /\ \E stage \in {"stop", "idle"} : pc' = [pc EXCEPT ![t] = stage]
            /\ \E c : on' = [on EXCEPT ![t] = c]
    <2>1. CASE \E u \in Calls, m \in {"stop", "restart"}, c \in Containers : Call(u, m, c)
      BY <2>1 DEF Call, Begin, Tasks, AtWork, history
    <2>2. CASE \E k \in Ticks : Tick(k)
      <3>1. PICK k \in Ticks : Tick(k)
        BY <2>2
      <3>2. on = [on EXCEPT ![k] = on[k]]
        BY DEF ContainersInv, TypeOK
      <3>3. UNCHANGED <<port, docker, stopped>> /\ k \in Tasks /\ pc[k] \notin AtWork
        BY <3>1 DEF Tick, Tasks, AtWork, history
      <3> QED BY <3>1, <3>2, <3>3 DEF Tick, Visit, Begin
    <2> QED BY <2>1, <2>2
  <1>2. \A u \in Tasks, d \in Containers : Holds(u, d)' <=> Holds(u, d)
    BY <1>1 DEF ContainersInv, TypeOK, Holds, AtWork
  <1> QED BY <1>1, <1>2, RightStays, LifeStutters

\* What happens around the tasks; a crash takes every right a task had.
LEMMA LifeAround ==
  ASSUME ContainersInv,
         \/ \E c \in Containers : Exit(c) \/ RecordHealthCheck(c) \/ FallQuiet(c)
         \/ Crash
  PROVE  [Life!Next]_Life!vars
  <1>1. CASE \E c \in Containers : Exit(c) \/ RecordHealthCheck(c) \/ FallQuiet(c)
    <2>1. UNCHANGED <<pc, on, port, stopped>>
      BY <1>1 DEF Exit, RecordHealthCheck, FallQuiet, tasks, history
    <2>2. \A d \in Containers : docker'[d] = "absent" <=> docker[d] = "absent"
      BY <1>1 DEF Exit, RecordHealthCheck, FallQuiet, ContainersInv, TypeOK
    <2>3. \A d \in Containers : Right(d)' = Right(d)
      BY <2>1, <2>2 DEF Right, Holds
    <2> QED BY <2>1, <2>3, LifeStutters
  <1>2. CASE Crash
    <2> DEFINE L == {c \in Containers : Right(c) = "task"}
    <2>1. \A t \in Tasks, d \in Containers : ~Holds(t, d)'
      BY <1>2 DEF Crash, Holds
    <2>2. UNCHANGED <<port, docker, stopped>>
      BY <1>2 DEF Crash
    <2>3. ASSUME NEW d \in Containers
          PROVE  Right(d)' = IF d \in L THEN "ended" ELSE Right(d)
      <3>1. CASE Right(d) = "task"
        <4>1. port[d] # NoPort /\ docker[d] = "absent"
          <5>1. docker[d] = "absent" /\ \E t \in Tasks : Holds(t, d)
            BY <3>1 DEF Right
          <5>2. PICK t \in Tasks : on[t] = d /\ pc[t] \in AtWork
            BY <5>1 DEF Holds, AtWork
          <5> QED BY <5>1, <5>2, WorksOnKnown
        <4> QED BY <2>1, <2>2, <3>1, <4>1 DEF Right
      <3>2. CASE Right(d) # "task"
        BY <2>1, <2>2, <3>2 DEF Right
      <3> QED BY <3>1, <3>2
    <2>4. Life!Lose(L)
      BY <2>2, <2>3 DEF Life!Lose
    <2> QED BY <2>4 DEF Life!Next
  <1> QED BY <1>1, <1>2

LEMMA LifeNext == ContainersInv /\ [Next]_vars => [Life!Next]_Life!vars
  <1> SUFFICES ASSUME ContainersInv, [Next]_vars
               PROVE  [Life!Next]_Life!vars
    OBVIOUS
  <1>1. CASE \E t \in Tasks : Step(t)
    BY <1>1, LifeDockerRun, LifeDockerStop, LifeDockerRm, LifeRunEnds, LifeRemoved DEF Step
  <1>2. CASE UNCHANGED vars
    <2>1. \A c \in Containers : Right(c)' = Right(c)
      BY <1>2 DEF vars, tasks, Right, Holds
    <2> QED BY <1>2, <2>1, LifeStutters DEF vars, history
  <1> QED BY <1>1, <1>2, LifeCreate, LifeBegin, LifeAround DEF Next

\* The container manager implements RunRight: created once, run by one at a time,
\* ended for good by an answered stop or a failure.
THEOREM LeadsOneLifeHolds == Spec => LeadsOneLife
  BY LifeInit, LifeNext, ContainersInvHolds, PTL DEF Spec, LeadsOneLife, Life!Spec

=============================================================================
