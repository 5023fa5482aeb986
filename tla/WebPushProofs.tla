--------------------------- MODULE WebPushProofs ---------------------------
(***************************************************************************)
(* Proofs about WebPush, for every set of endpoints, push services, calls, *)
(* syncs, senders and broadcasts, and any number of failures.              *)
(***************************************************************************)
EXTENDS WebPush, TLAPS

\* A request whose endpoint is not in doubt says what the browser wants, unless it
\* is a sync's and the endpoint came back from a file that had not been written.
Meant ==
    \A t \in Tasks :
        pc[t] = "forward" =>
            /\ op[t] \in {"subscribe", "unsubscribe"}
            /\ on[t] \notin unsure /\ op[t] = "unsubscribe" => want[on[t]] = "off"
            /\ on[t] \notin unsure /\ op[t] = "subscribe" => want[on[t]] = "on" \/ unsaved

\* The Map and the file hold what was subscribed and not unsubscribed.
Wanted == \A e \in subs \union saved : want[e] = "on" \/ unsaved

\* Nothing is known of an endpoint no browser has asked about.
Asked ==
    \A e \in Endpoints :
        want[e] = "none" =>
            /\ e \notin subs /\ e \notin saved
            /\ \A t \in Tasks : on[t] # e
            /\ \A n \in Senders : e \notin todo[n]

Collided(e) == \E f \in Endpoints \ {e} : Id(f) = Id(e) /\ want[f] # "none"

\* LostOnlyToCollision, for the file as well.
Kept ==
    \A e \in Endpoints :
        want[e] = "on" /\ e \notin dead /\ ~unsaved =>
            (e \in subs /\ e \in saved) \/ Collided(e)

WebPushInv ==
    /\ TypeOK
    /\ Meant
    /\ Wanted
    /\ Asked
    /\ Kept
    /\ LastWordWins

-----------------------------------------------------------------------------
LEMMA WebPushInvInit == Init => WebPushInv
  <1> SUFFICES ASSUME Init
               PROVE  WebPushInv
    OBVIOUS
  <1> USE WebPushAssumption DEF Init
  <1>1. TypeOK
    BY DEF TypeOK, OnePerId
  <1>2. Meant /\ Wanted /\ Asked /\ Kept
    BY DEF Meant, Wanted, Asked, Kept
  <1>3. LastWordWins
    BY DEF LastWordWins
  <1> QED BY <1>1, <1>2, <1>3 DEF WebPushInv

LEMMA IdIsService == \A e \in Endpoints : Id(e) \in Services
  BY WebPushAssumption DEF Id

LEMMA RevisitType ==
  ASSUME TypeOK, NEW e \in Endpoints
  PROVE  Revisit(e) \in [Tasks -> SUBSET Services]
  <1>1. \A t \in Tasks : seen[t] \ {Id(e)} \in SUBSET Services
    BY DEF TypeOK
  <1> QED BY <1>1 DEF Revisit

\* A write leaves the file as it should be, or is known to have gone wrong.
LEMMA SaveEffect ==
  ASSUME TypeOK, NEW S \in SUBSET Endpoints, Save(S)
  PROVE  /\ saved' \subseteq Endpoints /\ unsaved' \in BOOLEAN /\ failures' \in Nat
         /\ unsaved => unsaved'
         /\ saved' \subseteq saved \union S
         /\ OnePerId(S) => OnePerId(saved')
         /\ ~unsaved' => saved' = S
  <1>1. CASE saved' = S /\ unsaved' = unsaved /\ failures' = failures
    BY <1>1 DEF TypeOK, OnePerId
  <1>2. CASE (saved' = saved \/ saved' = {}) /\ unsaved' = TRUE /\ failures' = failures + 1
    <2>1. saved' \subseteq saved
      BY <1>2
    <2> QED BY <1>2, <2>1 DEF TypeOK, OnePerId
  <1> QED BY <1>1, <1>2 DEF Save, Fault

\* One endpoint's requests and doubts change when a task sends one.
LEMMA SendEffect ==
  ASSUME TypeOK, NEW t \in Tasks, NEW m \in {"subscribe", "unsubscribe"},
         NEW e \in Endpoints, pc[t] # "forward", Send(t, m, e)
  PROVE  /\ pc' \in [Tasks -> {"idle", "forward", "scan", "push"}]
         /\ op' \in [Tasks -> {"none", "subscribe", "unsubscribe", "notify", "test"}]
         /\ on' \in [Tasks -> Endpoints \union {None}]
         /\ unsure' \subseteq Endpoints
         /\ pc'[t] = "forward" /\ op'[t] = m /\ on'[t] = e
         /\ \A u \in Tasks \ {t} : pc'[u] = pc[u] /\ op'[u] = op[u] /\ on'[u] = on[u]
         /\ \A f \in Endpoints \ {e} :
                (f \in unsure' <=> f \in unsure) /\ Requests(f)' = Requests(f)
         /\ Requests(e)' # {}
         /\ \A u \in Tasks \ {t} :
                pc[u] = "forward" /\ on[u] = e /\ e \notin unsure' =>
                    op[u] = m /\ e \notin unsure
  <1>1. /\ pc' = [pc EXCEPT ![t] = "forward"]
        /\ op' = [op EXCEPT ![t] = m]
        /\ on' = [on EXCEPT ![t] = e]
    BY DEF Send
  <1>2. /\ pc'[t] = "forward" /\ op'[t] = m /\ on'[t] = e
        /\ \A u \in Tasks \ {t} : pc'[u] = pc[u] /\ op'[u] = op[u] /\ on'[u] = on[u]
    BY <1>1 DEF TypeOK
  <1>3. unsure' \subseteq Endpoints /\ \A f \in Endpoints \ {e} : f \in unsure' <=> f \in unsure
    BY DEF Send, TypeOK
  <1>4. Requests(e)' # {} /\ \A f \in Endpoints \ {e} : Requests(f)' = Requests(f)
    BY <1>2 DEF Requests
  <1>5. \A u \in Tasks \ {t} :
            pc[u] = "forward" /\ on[u] = e /\ e \notin unsure' => op[u] = m /\ e \notin unsure
    BY DEF Send, Requests
  <1>6. /\ pc' \in [Tasks -> {"idle", "forward", "scan", "push"}]
        /\ op' \in [Tasks -> {"none", "subscribe", "unsubscribe", "notify", "test"}]
        /\ on' \in [Tasks -> Endpoints \union {None}]
    BY <1>1 DEF TypeOK
  <1> QED BY <1>2, <1>3, <1>4, <1>5, <1>6

\* A task that resumes asks for nothing.
LEMMA ResumeEffect ==
  ASSUME TypeOK, NEW t \in Tasks, Resume(t)
  PROVE  /\ pc' \in [Tasks -> {"idle", "forward", "scan", "push"}]
         /\ op' \in [Tasks -> {"none", "subscribe", "unsubscribe", "notify", "test"}]
         /\ on' \in [Tasks -> Endpoints \union {None}]
         /\ pc'[t] \notin {"forward", "push"} /\ on'[t] = None
         /\ \A u \in Tasks \ {t} : pc'[u] = pc[u] /\ op'[u] = op[u] /\ on'[u] = on[u]
         /\ \A e \in Endpoints : Requests(e)' = Requests(e) \ {t}
  <1>1. /\ pc' = [pc EXCEPT ![t] = IF t \in Calls THEN "idle" ELSE "scan"]
        /\ op' = [op EXCEPT ![t] = IF t \in Calls THEN "none" ELSE @]
        /\ on' = [on EXCEPT ![t] = None]
    BY DEF Resume
  <1>2. /\ pc'[t] \notin {"forward", "push"} /\ on'[t] = None
        /\ \A u \in Tasks \ {t} : pc'[u] = pc[u] /\ op'[u] = op[u] /\ on'[u] = on[u]
    BY <1>1 DEF TypeOK
  <1>3. \A e \in Endpoints : Requests(e)' = Requests(e) \ {t}
    BY <1>2, WebPushAssumption DEF Requests
  <1>4. /\ pc' \in [Tasks -> {"idle", "forward", "scan", "push"}]
        /\ op' \in [Tasks -> {"none", "subscribe", "unsubscribe", "notify", "test"}]
        /\ on' \in [Tasks -> Endpoints \union {None}]
    BY <1>1 DEF TypeOK
  <1> QED BY <1>2, <1>3, <1>4

-----------------------------------------------------------------------------
(* The browser's requests. *)

LEMMA WebPushInvSubscribe ==
  ASSUME WebPushInv, NEW u \in Calls, NEW e \in Endpoints, Subscribe(u, e)
  PROVE  WebPushInv'
  <1> USE WebPushAssumption DEF WebPushInv
  <1>1. /\ u \in Tasks /\ u \notin Senders /\ pc[u] = "idle"
        /\ subs' = Without(subs, e) \union {e}
        /\ want' = [want EXCEPT ![e] = "on"]
        /\ seen' = seen /\ todo' = todo /\ failed' = failed
        /\ rows' = rows /\ pushing' = pushing /\ dead' = dead
    BY DEF Subscribe, Tasks
  <1>2. /\ pc' \in [Tasks -> {"idle", "forward", "scan", "push"}]
        /\ op' \in [Tasks -> {"none", "subscribe", "unsubscribe", "notify", "test"}]
        /\ on' \in [Tasks -> Endpoints \union {None}]
        /\ unsure' \subseteq Endpoints
        /\ pc'[u] = "forward" /\ op'[u] = "subscribe" /\ on'[u] = e
        /\ \A t \in Tasks \ {u} : pc'[t] = pc[t] /\ op'[t] = op[t] /\ on'[t] = on[t]
        /\ \A f \in Endpoints \ {e} :
               (f \in unsure' <=> f \in unsure) /\ Requests(f)' = Requests(f)
        /\ Requests(e)' # {}
        /\ \A t \in Tasks \ {u} :
               pc[t] = "forward" /\ on[t] = e /\ e \notin unsure' =>
                   op[t] = "subscribe" /\ e \notin unsure
    BY <1>1, SendEffect DEF Subscribe
  <1>3. /\ saved' \subseteq Endpoints /\ unsaved' \in BOOLEAN /\ failures' \in Nat
        /\ unsaved => unsaved'
        /\ saved' \subseteq saved \union subs'
        /\ OnePerId(subs') => OnePerId(saved')
        /\ ~unsaved' => saved' = subs'
    <2>1. subs' \in SUBSET Endpoints
      BY <1>1 DEF Without, TypeOK
    <2> QED BY <2>1, SaveEffect DEF Subscribe
  <1>4. /\ want'[e] = "on" /\ \A f \in Endpoints \ {e} : want'[f] = want[f]
        /\ e \in subs' /\ \A f \in Endpoints \ {e} : f \in subs' <=> f \in subs /\ Id(f) # Id(e)
    BY <1>1 DEF TypeOK, Without
  <1>5. TypeOK'
    <2>1. subs' \subseteq Endpoints /\ OnePerId(subs')
      BY <1>1, <1>4 DEF TypeOK, OnePerId, Without
    <2> QED BY <1>1, <1>2, <1>3, <1>4, <2>1 DEF TypeOK
  <1>6. Meant'
    BY <1>2, <1>3, <1>4 DEF Meant, TypeOK
  <1>7. Wanted' /\ Asked'
    BY <1>1, <1>2, <1>3, <1>4 DEF Wanted, Asked, TypeOK
  <1>8. Kept'
    <2> SUFFICES ASSUME NEW f \in Endpoints, want'[f] = "on", f \notin dead, ~unsaved', f \notin subs'
                 PROVE  Collided(f)'
      BY <1>1, <1>3 DEF Kept
    <2>1. f # e /\ (f \notin subs \/ Id(e) = Id(f))
      BY <1>4
    <2>2. \A g \in Endpoints : want[g] # "none" => want'[g] # "none"
      BY <1>4
    <2>3. f \notin subs => Collided(f)
      BY <1>3, <1>4, <2>1 DEF Kept
    <2>4. Id(e) = Id(f) => Collided(f)'
      BY <1>4, <2>1 DEF Collided, Id
    <2> QED BY <2>1, <2>2, <2>3, <2>4 DEF Collided, Id
  <1>9. LastWordWins'
    BY <1>1, <1>2, <1>3, <1>4 DEF LastWordWins
  <1> QED BY <1>5, <1>6, <1>7, <1>8, <1>9

LEMMA WebPushInvUnsubscribe ==
  ASSUME WebPushInv, NEW u \in Calls, NEW e \in Endpoints, Unsubscribe(u, e)
  PROVE  WebPushInv'
  <1> USE WebPushAssumption DEF WebPushInv
  <1>1. /\ u \in Tasks /\ u \notin Senders /\ pc[u] = "idle"
        /\ subs' = Without(subs, e)
        /\ want' = [want EXCEPT ![e] = "off"]
        /\ seen' = Revisit(e) /\ todo' = todo /\ failed' = failed
        /\ rows' = rows /\ pushing' = pushing /\ dead' = dead
    BY DEF Unsubscribe, Tasks
  <1>2. /\ pc' \in [Tasks -> {"idle", "forward", "scan", "push"}]
        /\ op' \in [Tasks -> {"none", "subscribe", "unsubscribe", "notify", "test"}]
        /\ on' \in [Tasks -> Endpoints \union {None}]
        /\ unsure' \subseteq Endpoints
        /\ pc'[u] = "forward" /\ op'[u] = "unsubscribe" /\ on'[u] = e
        /\ \A t \in Tasks \ {u} : pc'[t] = pc[t] /\ op'[t] = op[t] /\ on'[t] = on[t]
        /\ \A f \in Endpoints \ {e} :
               (f \in unsure' <=> f \in unsure) /\ Requests(f)' = Requests(f)
        /\ Requests(e)' # {}
        /\ \A t \in Tasks \ {u} :
               pc[t] = "forward" /\ on[t] = e /\ e \notin unsure' =>
                   op[t] = "unsubscribe" /\ e \notin unsure
    BY <1>1, SendEffect DEF Unsubscribe
  <1>3. /\ saved' \subseteq Endpoints /\ unsaved' \in BOOLEAN /\ failures' \in Nat
        /\ unsaved => unsaved'
        /\ saved' \subseteq saved \union subs'
        /\ OnePerId(subs') => OnePerId(saved')
        /\ ~unsaved' => saved' = subs'
    <2>1. subs' \in SUBSET Endpoints
      BY <1>1 DEF Without, TypeOK
    <2> QED BY <2>1, SaveEffect DEF Unsubscribe
  <1>4. /\ want'[e] = "off" /\ \A f \in Endpoints \ {e} : want'[f] = want[f]
        /\ e \notin subs' /\ \A f \in Endpoints \ {e} : f \in subs' <=> f \in subs /\ Id(f) # Id(e)
    BY <1>1 DEF TypeOK, Without
  <1>5. TypeOK'
    <2>1. seen' \in [Tasks -> SUBSET Services]
      BY <1>1, RevisitType
    <2>2. subs' \subseteq Endpoints /\ OnePerId(subs')
      BY <1>1, <1>4 DEF TypeOK, OnePerId, Without
    <2> QED BY <1>1, <1>2, <1>3, <1>4, <2>1, <2>2 DEF TypeOK
  <1>6. Meant'
    BY <1>2, <1>3, <1>4 DEF Meant, TypeOK
  <1>7. Wanted' /\ Asked'
    BY <1>1, <1>2, <1>3, <1>4 DEF Wanted, Asked, TypeOK
  <1>8. Kept'
    <2> SUFFICES ASSUME NEW f \in Endpoints, want'[f] = "on", f \notin dead, ~unsaved', f \notin subs'
                 PROVE  Collided(f)'
      BY <1>1, <1>3 DEF Kept
    <2>1. f # e /\ (f \notin subs \/ Id(e) = Id(f))
      BY <1>4
    <2>2. \A g \in Endpoints : want[g] # "none" => want'[g] # "none"
      BY <1>4
    <2>3. f \notin subs => Collided(f)
      BY <1>3, <1>4, <2>1 DEF Kept
    <2>4. Id(e) = Id(f) => Collided(f)'
      BY <1>4, <2>1 DEF Collided, Id
    <2> QED BY <2>1, <2>2, <2>3, <2>4 DEF Collided, Id
  <1>9. LastWordWins'
    BY <1>1, <1>2, <1>3, <1>4 DEF LastWordWins
  <1> QED BY <1>5, <1>6, <1>7, <1>8, <1>9

-----------------------------------------------------------------------------
(* The main server. *)

LEMMA WebPushInvHandled ==
  ASSUME WebPushInv, NEW t \in Tasks, Handled(t)
  PROVE  WebPushInv'
  <1> USE WebPushAssumption DEF WebPushInv
  <1>1. /\ subs' = subs /\ saved' = saved /\ seen' = seen /\ todo' = todo /\ failed' = failed
        /\ pushing' = pushing /\ dead' = dead /\ want' = want /\ unsure' = unsure
        /\ unsaved' = unsaved /\ failures' = failures
    BY DEF Handled, history
  <1>2. /\ pc' \in [Tasks -> {"idle", "forward", "scan", "push"}]
        /\ op' \in [Tasks -> {"none", "subscribe", "unsubscribe", "notify", "test"}]
        /\ on' \in [Tasks -> Endpoints \union {None}]
        /\ pc'[t] \notin {"forward", "push"} /\ on'[t] = None
        /\ \A u \in Tasks \ {t} : pc'[u] = pc[u] /\ op'[u] = op[u] /\ on'[u] = on[u]
        /\ \A e \in Endpoints : Requests(e)' = Requests(e) \ {t}
    BY ResumeEffect DEF Handled
  <1>3. /\ pc[t] = "forward" /\ on[t] \in Endpoints
        /\ (op[t] = "unsubscribe" /\ rows' = rows \ {on[t]})
           \/ (op[t] = "subscribe" /\ rows' = rows \union {on[t]})
    BY DEF Handled, TypeOK, Meant
  <1>4. TypeOK'
    BY <1>1, <1>2, <1>3 DEF TypeOK, OnePerId, Id
  <1>5. Meant' /\ Wanted' /\ Asked' /\ Kept'
    BY <1>1, <1>2 DEF Meant, Wanted, Asked, Kept, Collided, Id
  <1>6. LastWordWins'
    <2> SUFFICES ASSUME NEW e \in Endpoints, e \notin unsure, Requests(e)' = {}
                 PROVE  /\ want[e] = "on" /\ e \notin dead => e \in rows'
                        /\ want[e] = "off" /\ ~unsaved => e \notin rows'
      BY <1>1 DEF LastWordWins
    <2>1. CASE on[t] = e
      BY <1>3, <2>1 DEF Meant
    <2>2. CASE on[t] # e
      <3>1. Requests(e) = {} /\ (e \in rows' <=> e \in rows)
        BY <1>2, <1>3, <2>2 DEF Requests
      <3> QED BY <3>1 DEF LastWordWins
    <2> QED BY <2>1, <2>2
  <1> QED BY <1>4, <1>5, <1>6

LEMMA WebPushInvLost ==
  ASSUME WebPushInv, NEW t \in Tasks, Lost(t)
  PROVE  WebPushInv'
  <1> USE WebPushAssumption DEF WebPushInv
  <1>1. /\ subs' = subs /\ saved' = saved /\ seen' = seen /\ todo' = todo /\ failed' = failed
        /\ pushing' = pushing /\ dead' = dead /\ want' = want
        /\ unsure' = unsure \union {on[t]}
        /\ unsaved' = unsaved /\ failures' \in Nat
    BY DEF Lost, Fault, TypeOK
  <1>2. /\ pc' \in [Tasks -> {"idle", "forward", "scan", "push"}]
        /\ op' \in [Tasks -> {"none", "subscribe", "unsubscribe", "notify", "test"}]
        /\ on' \in [Tasks -> Endpoints \union {None}]
        /\ pc'[t] \notin {"forward", "push"} /\ on'[t] = None
        /\ \A u \in Tasks \ {t} : pc'[u] = pc[u] /\ op'[u] = op[u] /\ on'[u] = on[u]
        /\ \A e \in Endpoints : Requests(e)' = Requests(e) \ {t}
    BY ResumeEffect DEF Lost
  <1>3. /\ pc[t] = "forward" /\ on[t] \in Endpoints
        /\ rows' = rows \/ rows' = rows \ {on[t]}
    BY DEF Lost, TypeOK
  <1>4. TypeOK'
    BY <1>1, <1>2, <1>3 DEF TypeOK, OnePerId, Id
  <1>5. Meant' /\ Wanted' /\ Asked' /\ Kept'
    BY <1>1, <1>2 DEF Meant, Wanted, Asked, Kept, Collided, Id
  <1>6. LastWordWins'
    <2> SUFFICES ASSUME NEW e \in Endpoints, e \notin unsure', Requests(e)' = {}
                 PROVE  /\ want[e] = "on" /\ e \notin dead => e \in rows'
                        /\ want[e] = "off" /\ ~unsaved => e \notin rows'
      BY <1>1 DEF LastWordWins
    <2>1. e # on[t] /\ e \notin unsure
      BY <1>1
    <2>2. Requests(e) = {} /\ (e \in rows' <=> e \in rows)
      BY <1>2, <1>3, <2>1 DEF Requests
    <2> QED BY <2>1, <2>2 DEF LastWordWins
  <1> QED BY <1>4, <1>5, <1>6

\* What the main server and the push services do changes the table for dead
\* endpoints only.
LEMMA WebPushInvPush ==
  ASSUME WebPushInv,
         \/ \E b \in Broadcasts : Broadcast(b) \/ \E e \in Endpoints : Pushed(b, e)
         \/ \E e \in Endpoints : Expire(e)
  PROVE  WebPushInv'
  <1> USE WebPushAssumption DEF WebPushInv
  <1>1. /\ subs' = subs /\ saved' = saved /\ pc' = pc /\ op' = op /\ on' = on
        /\ seen' = seen /\ todo' = todo /\ failed' = failed
        /\ want' = want /\ unsure' = unsure /\ unsaved' = unsaved /\ failures' = failures
    BY DEF Broadcast, Pushed, Expire, tasks, history
  <1>2. /\ pushing' \in [Broadcasts -> SUBSET Endpoints]
        /\ rows' \subseteq rows /\ rows \ rows' \subseteq dead
        /\ dead \subseteq dead' /\ dead' \subseteq Endpoints
    BY DEF Broadcast, Pushed, Expire, TypeOK
  <1>3. TypeOK'
    BY <1>1, <1>2 DEF TypeOK, OnePerId, Id
  <1>4. Meant' /\ Wanted' /\ Asked' /\ Kept'
    BY <1>1, <1>2 DEF Meant, Wanted, Asked, Kept, Collided, Id
  <1>5. LastWordWins'
    BY <1>1, <1>2 DEF LastWordWins, Requests
  <1> QED BY <1>3, <1>4, <1>5

-----------------------------------------------------------------------------
(* The loops of the dashboard. *)

\* A loop that starts, or goes on to push, asks the main server for nothing.
LEMMA WebPushInvLoop ==
  ASSUME WebPushInv,
         \/ \E s \in Syncs : Start(s, "subscribe")
         \/ \E n \in Senders :
               \/ Start(n, "notify")
               \/ Test(n)
               \/ \E e \in Endpoints : SendNext(n, e)
  PROVE  WebPushInv'
  <1> USE WebPushAssumption DEF WebPushInv
  <1>1. /\ subs' = subs /\ saved' = saved /\ failed' = failed
        /\ rows' = rows /\ pushing' = pushing /\ dead' = dead
        /\ want' = want /\ unsure' = unsure /\ unsaved' = unsaved /\ failures' = failures
    BY DEF Start, Test, SendNext, history
  <1>2. /\ op' \in [Tasks -> {"none", "subscribe", "unsubscribe", "notify", "test"}]
        /\ seen' \in [Tasks -> SUBSET Services]
    BY IdIsService DEF Start, Test, SendNext, Tasks, TypeOK
  <1>3. PICK t \in Tasks :
            /\ pc[t] # "forward"
            /\ \/ /\ pc' = [pc EXCEPT ![t] = "scan"]
                  /\ on' = on
               \/ /\ pc' = [pc EXCEPT ![t] = "push"]
                  /\ \E e \in Endpoints : on' = [on EXCEPT ![t] = e] /\ want[e] # "none"
            /\ \A u \in Tasks \ {t} : op'[u] = op[u]
    <2>1. ASSUME NEW t \in Tasks, NEW m, Start(t, m)
          PROVE  /\ pc[t] # "forward"
                 /\ pc' = [pc EXCEPT ![t] = "scan"] /\ on' = on
                 /\ \A u \in Tasks \ {t} : op'[u] = op[u]
      BY <2>1 DEF Start, TypeOK
    <2>2. ASSUME NEW n \in Senders, Test(n)
          PROVE  /\ pc[n] # "forward"
                 /\ pc' = [pc EXCEPT ![n] = "scan"] /\ on' = on
                 /\ \A u \in Tasks \ {n} : op'[u] = op[u]
      BY <2>2 DEF Test, TypeOK
    <2>3. ASSUME NEW n \in Senders, NEW e \in Endpoints, SendNext(n, e)
          PROVE  /\ pc[n] # "forward"
                 /\ pc' = [pc EXCEPT ![n] = "push"]
                 /\ on' = [on EXCEPT ![n] = e] /\ want[e] # "none"
                 /\ \A u \in Tasks \ {n} : op'[u] = op[u]
      BY <2>3 DEF SendNext, Asked, Unseen
    <2>4. Syncs \subseteq Tasks /\ Senders \subseteq Tasks
      BY DEF Tasks
    <2>5. CASE \E s \in Syncs : Start(s, "subscribe")
      <3>1. PICK s \in Syncs : Start(s, "subscribe")
        BY <2>5
      <3>2. s \in Tasks
        BY <2>4
      <3> QED BY <2>1, <3>1, <3>2
    <2>6. CASE \E n \in Senders : Start(n, "notify") \/ Test(n)
      <3>1. PICK n \in Senders : Start(n, "notify") \/ Test(n)
        BY <2>6
      <3>2. n \in Tasks
        BY <2>4
      <3>3. /\ pc[n] # "forward"
            /\ pc' = [pc EXCEPT ![n] = "scan"] /\ on' = on
            /\ \A u \in Tasks \ {n} : op'[u] = op[u]
        BY <2>1, <2>2, <3>1, <3>2
      <3> QED BY <3>2, <3>3
    <2>7. CASE \E n \in Senders, e \in Endpoints : SendNext(n, e)
      BY <2>3, <2>4, <2>7
    <2> QED BY <2>5, <2>6, <2>7
  <1>4. /\ pc' \in [Tasks -> {"idle", "forward", "scan", "push"}]
        /\ on' \in [Tasks -> Endpoints \union {None}]
        /\ pc'[t] # "forward" /\ (pc'[t] = "push" => on'[t] \in Endpoints)
        /\ \A u \in Tasks \ {t} : pc'[u] = pc[u] /\ on'[u] = on[u]
        /\ on'[t] = on[t] \/ want[on'[t]] # "none"
    BY <1>3 DEF TypeOK
  <1>5. /\ todo' \in [Senders -> SUBSET Endpoints]
        /\ \A n \in Senders : todo'[n] \subseteq todo[n] \union subs
    BY DEF Start, Test, SendNext, TypeOK
  <1>6. \A e \in Endpoints : Requests(e)' = Requests(e)
    BY <1>3, <1>4 DEF Requests
  <1>7. TypeOK'
    BY <1>1, <1>2, <1>4, <1>5 DEF TypeOK, OnePerId, Id
  <1>8. Meant' /\ Wanted' /\ Asked' /\ Kept'
    BY <1>1, <1>3, <1>4, <1>5 DEF Meant, Wanted, Asked, Kept, Collided, Id
  <1>9. LastWordWins'
    BY <1>1, <1>6 DEF LastWordWins
  <1> QED BY <1>7, <1>8, <1>9

\* A sync forwards what the Map holds at the time.
LEMMA WebPushInvSyncNext ==
  ASSUME WebPushInv, NEW s \in Syncs, NEW e \in Endpoints, SyncNext(s, e)
  PROVE  WebPushInv'
  <1> USE WebPushAssumption DEF WebPushInv
  <1>1. /\ s \in Tasks /\ pc[s] = "scan" /\ e \in subs
        /\ subs' = subs /\ saved' = saved /\ todo' = todo /\ failed' = failed
        /\ rows' = rows /\ pushing' = pushing /\ dead' = dead
        /\ want' = want /\ unsaved' = unsaved /\ failures' = failures
        /\ seen' = [seen EXCEPT ![s] = @ \union {Id(e)}]
    BY DEF SyncNext, Unseen, Tasks
  <1>2. /\ pc' \in [Tasks -> {"idle", "forward", "scan", "push"}]
        /\ op' \in [Tasks -> {"none", "subscribe", "unsubscribe", "notify", "test"}]
        /\ on' \in [Tasks -> Endpoints \union {None}]
        /\ unsure' \subseteq Endpoints
        /\ pc'[s] = "forward" /\ op'[s] = "subscribe" /\ on'[s] = e
        /\ \A t \in Tasks \ {s} : pc'[t] = pc[t] /\ op'[t] = op[t] /\ on'[t] = on[t]
        /\ \A f \in Endpoints \ {e} :
               (f \in unsure' <=> f \in unsure) /\ Requests(f)' = Requests(f)
        /\ Requests(e)' # {}
        /\ \A t \in Tasks \ {s} :
               pc[t] = "forward" /\ on[t] = e /\ e \notin unsure' =>
                   op[t] = "subscribe" /\ e \notin unsure
    BY <1>1, SendEffect DEF SyncNext
  <1>3. TypeOK'
    <2>1. seen' \in [Tasks -> SUBSET Services]
      BY <1>1, IdIsService DEF TypeOK
    <2> QED BY <1>1, <1>2, <2>1 DEF TypeOK, OnePerId, Id
  <1>4. want[e] = "on" \/ unsaved
    BY <1>1 DEF Wanted
  <1>5. Meant'
    BY <1>1, <1>2, <1>4 DEF Meant, TypeOK
  <1>6. Wanted' /\ Asked' /\ Kept'
    BY <1>1, <1>2 DEF Wanted, Asked, Kept, Collided, Id
  <1>7. LastWordWins'
    BY <1>1, <1>2 DEF LastWordWins
  <1> QED BY <1>3, <1>5, <1>6, <1>7

\* The entry a refused push takes from the Map is dead, or shadowed by a dead one.
LEMMA WebPushInvAnswered ==
  ASSUME WebPushInv, NEW n \in Senders, Answered(n)
  PROVE  WebPushInv'
  <1> USE WebPushAssumption DEF WebPushInv
  <1>1. /\ n \in Tasks /\ pc[n] = "push" /\ on[n] \in Endpoints
        /\ todo' = todo /\ rows' = rows /\ pushing' = pushing /\ dead' = dead
        /\ want' = want /\ unsure' = unsure
    BY DEF Answered, Tasks, TypeOK
  <1>2. /\ pc' \in [Tasks -> {"idle", "forward", "scan", "push"}]
        /\ op' \in [Tasks -> {"none", "subscribe", "unsubscribe", "notify", "test"}]
        /\ on' \in [Tasks -> Endpoints \union {None}]
        /\ pc'[n] \notin {"forward", "push"} /\ on'[n] = None
        /\ \A u \in Tasks \ {n} : pc'[u] = pc[u] /\ op'[u] = op[u] /\ on'[u] = on[u]
        /\ \A e \in Endpoints : Requests(e)' = Requests(e) \ {n}
    BY <1>1, ResumeEffect DEF Answered
  <1>3. \A e \in Endpoints : Requests(e)' = Requests(e)
    BY <1>1, <1>2 DEF Requests
  <1>4. failed' \in [Senders -> BOOLEAN]
    BY DEF Answered, TypeOK
  <1>5. subs' = subs \/ (on[n] \in dead /\ subs' = Without(subs, on[n]))
    BY DEF Answered
  <1>6. /\ saved' \subseteq Endpoints /\ unsaved' \in BOOLEAN /\ failures' \in Nat
        /\ unsaved => unsaved'
        /\ saved' \subseteq saved \union subs
        /\ OnePerId(saved')
        /\ ~unsaved' => saved' = saved \/ saved' = subs'
    <2>1. CASE saved' = saved /\ unsaved' = unsaved /\ failures' = failures
      BY <2>1 DEF TypeOK
    <2>2. CASE on[n] \in dead /\ subs' = Without(subs, on[n]) /\ Save(subs')
      <3>1. subs' \in SUBSET Endpoints /\ subs' \subseteq subs /\ OnePerId(subs')
        BY <2>2 DEF Without, TypeOK, OnePerId
      <3> QED BY <2>2, <3>1, SaveEffect
    <2> QED BY <2>1, <2>2 DEF Answered
  <1>7. seen' \in [Tasks -> SUBSET Services]
    BY <1>1, RevisitType DEF Answered, TypeOK
  <1>8. subs' \subseteq subs
    BY <1>5 DEF Without
  <1>9. TypeOK'
    BY <1>1, <1>2, <1>4, <1>6, <1>7, <1>8 DEF TypeOK, OnePerId, Id
  <1>10. Meant' /\ Wanted' /\ Asked'
    BY <1>1, <1>2, <1>6, <1>8 DEF Meant, Wanted, Asked, TypeOK
  <1>11. Kept'
    <2> SUFFICES ASSUME NEW f \in Endpoints, want[f] = "on", f \notin dead, ~unsaved',
                        f \notin subs' \/ f \notin saved'
                 PROVE  Collided(f)
      BY <1>1 DEF Kept, Collided, Id
    <2>1. CASE f \notin subs \/ f \notin saved
      BY <1>6, <2>1 DEF Kept
    <2>2. CASE f \in subs /\ f \in saved
      <3>1. f \notin subs' /\ on[n] \in dead /\ Id(f) = Id(on[n])
        BY <1>5, <1>6, <2>2 DEF Without
      <3>2. want[on[n]] # "none"
        BY <1>1 DEF Asked
      <3> QED BY <1>1, <3>1, <3>2 DEF Collided
    <2> QED BY <2>1, <2>2
  <1>12. LastWordWins'
    BY <1>1, <1>3, <1>6 DEF LastWordWins
  <1> QED BY <1>9, <1>10, <1>11, <1>12

LEMMA WebPushInvDone ==
  ASSUME WebPushInv, NEW t \in Syncs \union Senders, Done(t)
  PROVE  WebPushInv'
  <1> USE WebPushAssumption DEF WebPushInv
  <1>1. /\ t \in Tasks /\ pc[t] = "scan"
        /\ subs' = subs /\ on' = on /\ todo' = todo
        /\ rows' = rows /\ pushing' = pushing /\ dead' = dead
        /\ want' = want /\ unsure' = unsure
        /\ pc' = [pc EXCEPT ![t] = "idle"]
        /\ op' = [op EXCEPT ![t] = "none"]
        /\ seen' = [seen EXCEPT ![t] = {}]
    BY DEF Done, Tasks
  <1>2. /\ pc'[t] = "idle"
        /\ \A u \in Tasks \ {t} : pc'[u] = pc[u] /\ op'[u] = op[u]
        /\ \A e \in Endpoints : Requests(e)' = Requests(e)
    BY <1>1 DEF TypeOK, Requests
  <1>3. failed' \in [Senders -> BOOLEAN]
    BY DEF Done, TypeOK
  <1>4. /\ saved' \subseteq Endpoints /\ unsaved' \in BOOLEAN /\ failures' \in Nat
        /\ unsaved => unsaved'
        /\ saved' \subseteq saved \union subs
        /\ OnePerId(saved')
        /\ ~unsaved' => saved' = saved \/ saved' = subs
    <2>1. CASE saved' = saved /\ unsaved' = unsaved /\ failures' = failures
      BY <2>1 DEF TypeOK
    <2>2. CASE Save(subs)
      <3>1. subs \in SUBSET Endpoints /\ OnePerId(subs)
        BY DEF TypeOK
      <3> QED BY <2>2, <3>1, SaveEffect
    <2> QED BY <2>1, <2>2 DEF Done
  <1>5. TypeOK'
    BY <1>1, <1>2, <1>3, <1>4 DEF TypeOK, OnePerId, Id
  <1>6. Meant' /\ Wanted' /\ Asked' /\ Kept'
    BY <1>1, <1>2, <1>4 DEF Meant, Wanted, Asked, Kept, Collided, Id, TypeOK
  <1>7. LastWordWins'
    BY <1>1, <1>2, <1>4 DEF LastWordWins
  <1> QED BY <1>5, <1>6, <1>7

LEMMA WebPushInvCrash == WebPushInv /\ Crash => WebPushInv'
  <1> SUFFICES ASSUME WebPushInv, Crash
               PROVE  WebPushInv'
    OBVIOUS
  <1> USE WebPushAssumption DEF WebPushInv
  <1>1. /\ subs' = saved' /\ (saved' = saved \/ (saved' = {} /\ saved' # saved))
        /\ unsaved' = (unsaved \/ saved' # saved)
        /\ unsure' = unsure \union {e \in Endpoints : Requests(e) # {}}
        /\ pc' = [t \in Tasks |-> "idle"]
        /\ op' = [t \in Tasks |-> "none"]
        /\ on' = [t \in Tasks |-> None]
        /\ seen' = [t \in Tasks |-> {}]
        /\ todo' = [n \in Senders |-> {}]
        /\ failed' = [n \in Senders |-> FALSE]
        /\ rows' = rows /\ pushing' = pushing /\ dead' = dead /\ want' = want
    BY DEF Crash
  <1>2. failures' \in Nat
    <2>1. Fault
      BY DEF Crash
    <2> QED BY <2>1 DEF Fault, TypeOK
  <1>3. TypeOK'
    <2>1. subs' \subseteq subs \union saved /\ saved' \subseteq saved
      BY <1>1
    <2>2. unsaved' \in BOOLEAN /\ unsure' \subseteq Endpoints
      BY <1>1 DEF TypeOK
    <2>3. OnePerId(saved') /\ OnePerId(subs')
      BY <1>1 DEF TypeOK, OnePerId
    <2>4. /\ rows' = rows /\ pushing' = pushing /\ dead' = dead /\ want' = want
          /\ subs' \subseteq Endpoints /\ saved' \subseteq Endpoints
      BY <1>1, <2>1 DEF TypeOK
    <2> QED BY <1>1, <1>2, <2>2, <2>3, <2>4 DEF TypeOK
  <1>4. Meant' /\ Asked'
    BY <1>1 DEF Meant, Asked, TypeOK
  <1>5. Wanted'
    BY <1>1 DEF Wanted
  <1>6. Kept'
    <2> SUFFICES ASSUME NEW f \in Endpoints, want[f] = "on", f \notin dead, ~unsaved', ~Collided(f)
                 PROVE  f \in subs' /\ f \in saved'
      BY <1>1 DEF Kept, Collided, Id
    <2>1. saved' = saved /\ ~unsaved
      BY <1>1
    <2> QED BY <1>1, <2>1 DEF Kept
  <1>7. LastWordWins'
    BY <1>1 DEF LastWordWins, Requests, TypeOK
  <1> QED BY <1>3, <1>4, <1>5, <1>6, <1>7

-----------------------------------------------------------------------------
THEOREM WebPushInvAlways == Spec => []WebPushInv
  <1>1. WebPushInv /\ [Next]_vars => WebPushInv'
    <2> SUFFICES ASSUME WebPushInv, [Next]_vars
                 PROVE  WebPushInv'
      OBVIOUS
    <2>1. CASE UNCHANGED vars
      BY <2>1 DEF vars, tasks, history, WebPushInv, TypeOK, OnePerId, Meant, Wanted, Asked, Kept,
         Collided, Id, LastWordWins, Requests
    <2>2. ASSUME NEW u \in Calls, NEW e \in Endpoints, Subscribe(u, e) \/ Unsubscribe(u, e)
          PROVE  WebPushInv'
      BY <2>2, WebPushInvSubscribe, WebPushInvUnsubscribe
    <2>3. ASSUME NEW s \in Syncs, NEW e \in Endpoints, SyncNext(s, e)
          PROVE  WebPushInv'
      BY <2>3, WebPushInvSyncNext
    <2>4. ASSUME NEW n \in Senders, Answered(n)
          PROVE  WebPushInv'
      BY <2>4, WebPushInvAnswered
    <2>5. ASSUME NEW t \in Syncs \union Senders, Done(t)
          PROVE  WebPushInv'
      BY <2>5, WebPushInvDone
    <2>6. ASSUME NEW t \in Tasks, Handled(t) \/ Lost(t)
          PROVE  WebPushInv'
      BY <2>6, WebPushInvHandled, WebPushInvLost
    <2>7. CASE Crash
      BY <2>7, WebPushInvCrash
    <2> QED BY <2>1, <2>2, <2>3, <2>4, <2>5, <2>6, <2>7, WebPushInvPush, WebPushInvLoop
            DEF Next
  <1> QED BY WebPushInvInit, <1>1, PTL DEF Spec

\* The variables have their types; the Map has one value for an id.
THEOREM WebPushTypeCorrect == Spec => []TypeOK
  <1>1. WebPushInv => TypeOK
    BY DEF WebPushInv
  <1> QED BY WebPushInvAlways, <1>1, PTL

\* The table follows the browser's last request, unless it failed or was passed.
THEOREM LastWordWinsHolds == Spec => []LastWordWins
  <1>1. WebPushInv => LastWordWins
    BY DEF WebPushInv
  <1> QED BY WebPushInvAlways, <1>1, PTL

\* The dashboard loses a live endpoint only to another one of its push service.
THEOREM LostOnlyToCollisionHolds == Spec => []LostOnlyToCollision
  <1>1. WebPushInv => LostOnlyToCollision
    BY DEF WebPushInv, Kept, Collided, LostOnlyToCollision
  <1> QED BY WebPushInvAlways, <1>1, PTL

=============================================================================
