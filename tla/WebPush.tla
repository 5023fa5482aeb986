------------------------------ MODULE WebPush ------------------------------
(***************************************************************************)
(* Web push subscriptions, which are kept twice: by the web dashboard, in  *)
(* a Map that it writes to a file, and by the main server, in a table.     *)
(*                                                                         *)
(* A browser subscribes and unsubscribes at the dashboard, which forwards  *)
(* each request to the main server; a sync forwards the whole Map.  Both   *)
(* processes send notifications on their own, and each drops, from its own *)
(* store, what the push service calls gone.  The requests are tasks of the *)
(* dashboard's process: they interleave wherever they wait for the main    *)
(* server or for the push service.                                         *)
(***************************************************************************)
EXTENDS Naturals, FiniteSets

CONSTANTS
    Endpoints,      \* what a push service calls a browser's subscription
    Services,       \* the push services
    Service,        \* Service[e]: the push service of e
    Calls,          \* subscribe and unsubscribe requests under way at a time
    Syncs,          \* syncs under way at a time
    Senders,        \* /api/notify and /api/test-notification under way at a time
    Broadcasts,     \* notifications the main server is sending at a time
    None,           \* no endpoint
    MaxFailures     \* bound on lost requests, failed writes and restarts, together

ASSUME WebPushAssumption ==
    /\ Service \in [Endpoints -> Services]
    /\ None \notin Endpoints
    /\ Calls \intersect Syncs = {}
    /\ Calls \intersect Senders = {}
    /\ Syncs \intersect Senders = {}
    /\ MaxFailures \in Nat

\* The key in the Map is 24 bytes of the endpoint, which all endpoints of a push
\* service begin with: "https://fcm.googleapis.c", "https://updates.push.ser".
Id(e) == Service[e]

Tasks == Calls \union Syncs \union Senders

VARIABLES
    (* the dashboard *)
    subs,       \* the values of its Map
    saved,      \* the values a start would read from the file
    pc,         \* pc[t]: what task t waits for
    op,         \* op[t]: what task t does
    on,         \* on[t]: the endpoint task t has sent something about
    seen,       \* seen[t]: ids the loop of t over the live Map has been at
    todo,       \* todo[n]: endpoints a test has still to push to
    failed,     \* failed[n]: a push of notify n has failed
    (* the main server *)
    rows,       \* endpoints in the table
    pushing,    \* pushing[b]: endpoints whose push broadcast b waits for
    (* the push services *)
    dead,       \* endpoints that expired or that the browser gave up
    (* history *)
    want,       \* want[e]: what the browser asked for last
    unsure,     \* endpoints whose last request may not have had its way: it did
                \* not reach the table, or passed one that asked for the opposite
    unsaved,    \* a write of the file has failed, or was cut short
    failures

tasks == <<pc, op, on, seen, todo, failed>>
history == <<want, unsure, unsaved, failures>>
vars == <<subs, saved, tasks, rows, pushing, dead, history>>

-----------------------------------------------------------------------------
Init ==
    /\ subs = {}
    /\ saved = {}
    /\ pc = [t \in Tasks |-> "idle"]
    /\ op = [t \in Tasks |-> "none"]
    /\ on = [t \in Tasks |-> None]
    /\ seen = [t \in Tasks |-> {}]
    /\ todo = [n \in Senders |-> {}]
    /\ failed = [n \in Senders |-> FALSE]
    /\ rows = {}
    /\ pushing = [b \in Broadcasts |-> {}]
    /\ dead = {}
    /\ want = [e \in Endpoints |-> "none"]
    /\ unsure = {}
    /\ unsaved = FALSE
    /\ failures = 0

Fault ==
    /\ failures < MaxFailures
    /\ failures' = failures + 1

\* Requests about e on their way to the main server.
Requests(e) == {t \in Tasks : pc[t] = "forward" /\ on[t] = e}

\* Task t sends request m about e.  Sent while no other is under way, it settles
\* what e is to be; sent while the opposite is, nobody knows which comes second.
Send(t, m, e) ==
    /\ pc' = [pc EXCEPT ![t] = "forward"]
    /\ op' = [op EXCEPT ![t] = m]
    /\ on' = [on EXCEPT ![t] = e]
    /\ unsure' = IF Requests(e) = {} THEN unsure \ {e}
                 ELSE IF \E u \in Requests(e) : op[u] # m THEN unsure \union {e}
                 ELSE unsure

\* The task returns; a loop goes on.
Resume(t) ==
    /\ pc' = [pc EXCEPT ![t] = IF t \in Calls THEN "idle" ELSE "scan"]
    /\ op' = [op EXCEPT ![t] = IF t \in Calls THEN "none" ELSE @]
    /\ on' = [on EXCEPT ![t] = None]

\* saveSubscriptions: an error is logged only, and may leave a truncated file,
\* which a start cannot parse.
Save(S) ==
    \/ /\ saved' = S
       /\ UNCHANGED <<unsaved, failures>>
    \/ /\ saved' \in {saved, {}}
       /\ unsaved' = TRUE
       /\ Fault

\* What is left of S when the Map's entry for e is removed, whoever it is for.
Without(S, e) == {f \in S : Id(f) # Id(e)}

\* An entry that is added again comes last: the loops over the Map get there again.
Revisit(e) == [t \in Tasks |-> seen[t] \ {Id(e)}]

-----------------------------------------------------------------------------
(* POST /api/subscribe and /api/unsubscribe. *)

\* Mutant of Subscribe: the subscription is appended, not set under its id.
SubscribeAppending(u, e) ==
    /\ pc[u] = "idle"
    /\ subs' = subs \union {e}
    /\ Save(subs')
    /\ Send(u, "subscribe", e)
    /\ want' = [want EXCEPT ![e] = "on"]
    /\ UNCHANGED <<seen, todo, failed, rows, pushing, dead>>

\* The Map is set and saved before the first await.
Subscribe(u, e) ==
    /\ pc[u] = "idle"
    /\ subs' = Without(subs, e) \union {e}
    /\ Save(subs')
    /\ Send(u, "subscribe", e)
    /\ want' = [want EXCEPT ![e] = "on"]
    /\ UNCHANGED <<seen, todo, failed, rows, pushing, dead>>

Unsubscribe(u, e) ==
    /\ pc[u] = "idle"
    /\ subs' = Without(subs, e)
    /\ Save(subs')
    /\ Send(u, "unsubscribe", e)
    /\ seen' = Revisit(e)
    /\ want' = [want EXCEPT ![e] = "off"]
    /\ UNCHANGED <<todo, failed, rows, pushing, dead>>

-----------------------------------------------------------------------------
(* The main server. *)

\* registerSubscription or unregisterSubscription, and the answer.
Handled(t) ==
    /\ pc[t] = "forward"
    /\ rows' = IF op[t] = "unsubscribe" THEN rows \ {on[t]} ELSE rows \union {on[t]}
    /\ Resume(t)
    /\ UNCHANGED <<subs, saved, seen, todo, failed, pushing, dead, history>>

\* The main server cannot be reached; or it stops, or the INSERT fails, after the
\* DELETE with which storePushSubscription begins.  The dashboard logs a warning.
Lost(t) ==
    /\ pc[t] = "forward"
    /\ \/ UNCHANGED rows
       \/ op[t] = "subscribe" /\ rows' = rows \ {on[t]}
    /\ unsure' = unsure \union {on[t]}
    /\ Fault
    /\ Resume(t)
    /\ UNCHANGED <<subs, saved, seen, todo, failed, pushing, dead, want, unsaved>>

\* sendWebPushToAll: all rows are read, and pushed to in parallel.
Broadcast(b) ==
    /\ pushing[b] = {}
    /\ pushing' = [pushing EXCEPT ![b] = rows]
    /\ UNCHANGED <<subs, saved, tasks, rows, dead, history>>

\* Mutant of Pushed: a push that fails for any reason deletes the row.
PushedOrDropped(b, e) ==
    /\ e \in pushing[b]
    /\ pushing' = [pushing EXCEPT ![b] = @ \ {e}]
    /\ rows' \in {rows, rows \ {e}}
    /\ UNCHANGED <<subs, saved, tasks, dead, history>>

\* 404 and 410 delete the row; another error, and a restart meanwhile, do not.
Pushed(b, e) ==
    /\ e \in pushing[b]
    /\ pushing' = [pushing EXCEPT ![b] = @ \ {e}]
    /\ \/ UNCHANGED rows
       \/ e \in dead /\ rows' = rows \ {e}
    /\ UNCHANGED <<subs, saved, tasks, dead, history>>

-----------------------------------------------------------------------------
(* The dashboard's loops.  The order of the Map is left open. *)

\* syncSubscriptionsToRMD, by request or three seconds after a start, and the other
\* loop over the live Map, /api/notify.
Start(t, m) ==
    /\ pc[t] = "idle"
    /\ pc' = [pc EXCEPT ![t] = "scan"]
    /\ op' = [op EXCEPT ![t] = m]
    /\ UNCHANGED <<subs, saved, on, seen, todo, failed, rows, pushing, dead, history>>

\* /api/test-notification, for one subscription or for an array of them all.
Test(n) ==
    /\ pc[n] = "idle"
    /\ pc' = [pc EXCEPT ![n] = "scan"]
    /\ op' = [op EXCEPT ![n] = "test"]
    /\ \E S \in {subs} \union {{e} : e \in subs} : todo' = [todo EXCEPT ![n] = S]
    /\ UNCHANGED <<subs, saved, on, seen, failed, rows, pushing, dead, history>>

Unseen(t) == {e \in subs : Id(e) \notin seen[t]}

SyncNext(s, e) ==
    /\ pc[s] = "scan"
    /\ e \in Unseen(s)
    /\ Send(s, "subscribe", e)
    /\ seen' = [seen EXCEPT ![s] = @ \union {Id(e)}]
    /\ UNCHANGED <<subs, saved, todo, failed, rows, pushing, dead, want, unsaved, failures>>

SendNext(n, e) ==
    /\ pc[n] = "scan"
    /\ \/ /\ op[n] = "notify"
          /\ e \in Unseen(n)
          /\ seen' = [seen EXCEPT ![n] = @ \union {Id(e)}]
          /\ UNCHANGED todo
       \/ /\ op[n] = "test"
          /\ e \in todo[n]
          /\ todo' = [todo EXCEPT ![n] = @ \ {e}]
          /\ UNCHANGED seen
    /\ pc' = [pc EXCEPT ![n] = "push"]
    /\ on' = [on EXCEPT ![n] = e]
    /\ UNCHANGED <<subs, saved, op, failed, rows, pushing, dead, history>>

\* Mutant of Answered: a push that fails for any reason deletes the entry.
AnsweredOrDropped(n) ==
    /\ pc[n] = "push"
    /\ subs' = Without(subs, on[n])
    /\ seen' = Revisit(on[n])
    /\ Save(subs')
    /\ Resume(n)
    /\ UNCHANGED <<todo, failed, rows, pushing, dead, want, unsure>>

\* 404 and 410 delete the Map's entry with the id of the endpoint pushed to.  A test
\* saves at once, notify at the end.
Answered(n) ==
    /\ pc[n] = "push"
    /\ \/ /\ on[n] \in dead
          /\ subs' = Without(subs, on[n])
          /\ seen' = Revisit(on[n])
          /\ failed' = [failed EXCEPT ![n] = op[n] = "notify"]
          /\ IF op[n] = "test" THEN Save(subs') ELSE UNCHANGED <<saved, unsaved, failures>>
       \/ /\ \E other \in {failed[n], op[n] = "notify"} : failed' = [failed EXCEPT ![n] = other]
          /\ UNCHANGED <<subs, saved, seen, unsaved, failures>>
    /\ Resume(n)
    /\ UNCHANGED <<todo, rows, pushing, dead, want, unsure>>

\* The loop ends.
Done(t) ==
    /\ pc[t] = "scan"
    /\ IF op[t] = "test" THEN todo[t] = {} ELSE Unseen(t) = {}
    /\ IF t \in Senders /\ failed[t]
       THEN Save(subs) /\ failed' = [failed EXCEPT ![t] = FALSE]
       ELSE UNCHANGED <<saved, failed, unsaved, failures>>
    /\ pc' = [pc EXCEPT ![t] = "idle"]
    /\ op' = [op EXCEPT ![t] = "none"]
    /\ seen' = [seen EXCEPT ![t] = {}]
    /\ UNCHANGED <<subs, on, todo, rows, pushing, dead, want, unsure>>

-----------------------------------------------------------------------------
\* A subscription expires, or the browser gives it up; push services do not give the
\* endpoint out again.
Expire(e) ==
    /\ e \notin dead
    /\ dead' = dead \union {e}
    /\ UNCHANGED <<subs, saved, tasks, rows, pushing, history>>

\* The dashboard dies, maybe while it writes the file, and loadSubscriptions reads
\* what is left.  The requests that have not been handled die with it.
Crash ==
    /\ saved' \in {saved, {}}
    /\ unsaved' = (unsaved \/ saved' # saved)
    /\ subs' = saved'
    /\ unsure' = unsure \union {e \in Endpoints : Requests(e) # {}}
    /\ Fault
    /\ pc' = [t \in Tasks |-> "idle"]
    /\ op' = [t \in Tasks |-> "none"]
    /\ on' = [t \in Tasks |-> None]
    /\ seen' = [t \in Tasks |-> {}]
    /\ todo' = [n \in Senders |-> {}]
    /\ failed' = [n \in Senders |-> FALSE]
    /\ UNCHANGED <<rows, pushing, dead, want>>

Next ==
    \/ \E u \in Calls, e \in Endpoints : Subscribe(u, e) \/ Unsubscribe(u, e)
    \/ \E s \in Syncs : Start(s, "subscribe") \/ \E e \in Endpoints : SyncNext(s, e)
    \/ \E n \in Senders :
        \/ Start(n, "notify")
        \/ Test(n)
        \/ Answered(n)
        \/ \E e \in Endpoints : SendNext(n, e)
    \/ \E t \in Syncs \union Senders : Done(t)
    \/ \E t \in Tasks : Handled(t) \/ Lost(t)
    \/ \E b \in Broadcasts : Broadcast(b) \/ \E e \in Endpoints : Pushed(b, e)
    \/ \E e \in Endpoints : Expire(e)
    \/ Crash

Spec == Init /\ [][Next]_vars

-----------------------------------------------------------------------------
(* Properties. *)

\* A Map has one value for an id.
OnePerId(S) == \A e, f \in S : Id(e) = Id(f) => e = f

TypeOK ==
    /\ subs \subseteq Endpoints /\ OnePerId(subs)
    /\ saved \subseteq Endpoints /\ OnePerId(saved)
    /\ pc \in [Tasks -> {"idle", "forward", "scan", "push"}]
    /\ op \in [Tasks -> {"none", "subscribe", "unsubscribe", "notify", "test"}]
    /\ on \in [Tasks -> Endpoints \union {None}]
    /\ \A t \in Tasks : pc[t] \in {"forward", "push"} => on[t] \in Endpoints
    /\ seen \in [Tasks -> SUBSET Services]
    /\ todo \in [Senders -> SUBSET Endpoints]
    /\ failed \in [Senders -> BOOLEAN]
    /\ rows \subseteq Endpoints
    /\ pushing \in [Broadcasts -> SUBSET Endpoints]
    /\ dead \subseteq Endpoints
    /\ want \in [Endpoints -> {"none", "on", "off"}]
    /\ unsure \subseteq Endpoints
    /\ unsaved \in BOOLEAN
    /\ failures \in Nat

\* The browser has the last word in the table the notifications are sent from,
\* whatever syncs, restarts, collisions in the Map and refused pushes come after it:
\* a live endpoint that was subscribed is there, and one that was unsubscribed is
\* not.  The exceptions are a request that failed or raced its opposite, and a file
\* that was not written, from which a sync can bring an endpoint back.
LastWordWins ==
    \A e \in Endpoints :
        e \notin unsure /\ Requests(e) = {} =>
            /\ want[e] = "on" /\ e \notin dead => e \in rows
            /\ want[e] = "off" /\ ~unsaved => e \notin rows

\* The dashboard's own store loses a live endpoint to no error of the push service,
\* to no restart and to no loop, but only to another endpoint of the same push
\* service, or with a file that was not written.
LostOnlyToCollision ==
    \A e \in Endpoints :
        want[e] = "on" /\ e \notin dead /\ ~unsaved =>
            \/ e \in subs
            \/ \E f \in Endpoints \ {e} : Id(f) = Id(e) /\ want[f] # "none"

\* "Send notification to all (used by RMD service)" (webapp/server.ts:218): whoever
\* has subscribed is in the Map that /api/notify sends to.
NotifyReachesAll ==
    \A e \in Endpoints : want[e] = "on" /\ e \notin dead /\ failures = 0 => e \in subs

=============================================================================
