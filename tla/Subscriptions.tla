--------------------------- MODULE Subscriptions ---------------------------
(***************************************************************************)
(* The notification service of the orchestrator: the push subscriptions of *)
(* a user, kept in memory and in a Redis list.  Users are independent, so  *)
(* one is modelled.  A subscription is named by its endpoint.              *)
(*                                                                         *)
(* The service is one Node.js process with one Redis connection, so that   *)
(* Redis executes commands in the order they are issued and an answer      *)
(* only resumes the run that waits for it.  The loops of the code iterate  *)
(* over arrays that a registration may still extend: todo and rewrite hold *)
(* what a loop has left, and while its array is the one in the map, what a *)
(* registration appends to the map reaches the loop as well.  An array     *)
(* that was replaced in the map never changes again.                       *)
(*                                                                         *)
(* A list is modelled as the bag of its endpoints: nothing here depends on *)
(* its order, so a loop takes any of what it has left.                     *)
(***************************************************************************)
EXTENDS Naturals

CONSTANTS
    Endpoints,  \* push endpoints
    Runs,       \* calls of sendToUser
    MaxRegistrations, \* bound on the registrations
    MaxFaults,  \* bound on the Redis commands that fail
    MaxCrashes  \* bound on the process restarts

ASSUME SubscriptionsAssumption ==
    /\ MaxRegistrations \in Nat
    /\ MaxFaults \in Nat
    /\ MaxCrashes \in Nat

VARIABLES
    redis,          \* the list push:subscription:<user>
    (* process memory *)
    load,           \* loadSubscriptions: "down", "keys", "range" or "done"
    answer,         \* what Redis has answered to its last command
    subscriptions,  \* the array in the map
    pc,             \* pc[r]: "idle", "push" or "redis", what run r awaits, or "done"
    todo,           \* todo[r]: the subscriptions run r has still to push to
    sharesTodo,     \* runs whose array is the one in the map
    rewrite,        \* rewrite[r]: what removeSubscription has still to write back
    sharesRewrite,  \* runs whose filtered array is the one in the map
    (* history *)
    held,           \* endpoints registered and not removed since
    early,          \* a request came before loadSubscriptions had ended
    mixed,          \* this process got a registration or a removal early or during a removal
    cutShort,       \* the process ended before a removal had written all back
    registrations, faults, crashes

loops == <<pc, todo, sharesTodo, rewrite, sharesRewrite>>
history == <<held, early, mixed, cutShort, registrations, faults, crashes>>
vars == <<redis, load, answer, subscriptions, loops, history>>

Bag == [Endpoints -> Nat]
Empty == [e \in Endpoints |-> 0]
Has(list, e) == list[e] > 0
Plus(list, e) == [list EXCEPT ![e] = @ + 1]
Minus(list, e) == [list EXCEPT ![e] = @ - 1]
Without(list, e) == [list EXCEPT ![e] = 0]

Init ==
    /\ redis = Empty
    /\ load = "down"
    /\ answer = Empty
    /\ subscriptions = Empty
    /\ pc = [r \in Runs |-> "idle"]
    /\ todo = [r \in Runs |-> Empty]
    /\ sharesTodo = {}
    /\ rewrite = [r \in Runs |-> Empty]
    /\ sharesRewrite = {}
    /\ held = {}
    /\ early = FALSE
    /\ mixed = FALSE
    /\ cutShort = FALSE
    /\ registrations = 0
    /\ faults = 0
    /\ crashes = 0

Rewriting == {r \in Runs : pc[r] = "redis"}

\* The list in Redis is not all of what the last removal leaves.
Incomplete == \E r \in sharesRewrite : rewrite[r] # Empty

Fault ==
    /\ faults < MaxFaults
    /\ faults' = faults + 1

-----------------------------------------------------------------------------
(* The constructor and loadSubscriptions, which nothing waits for. *)

\* KEYS is issued as the service is constructed.
Start ==
    /\ load = "down"
    /\ load' = "keys"
    /\ answer' = redis
    /\ UNCHANGED <<redis, subscriptions, loops, history>>

\* The key is there if its list is not empty; then LRANGE is issued.
KeysAnswered ==
    /\ load = "keys"
    /\ load' = IF answer = Empty THEN "done" ELSE "range"
    /\ answer' = redis
    /\ UNCHANGED <<redis, subscriptions, loops, history>>

\* The list replaces whatever the map has by now.
RangeAnswered ==
    /\ load = "range"
    /\ load' = "done"
    /\ subscriptions' = answer
    /\ sharesTodo' = {}
    /\ sharesRewrite' = {}
    /\ UNCHANGED <<redis, answer, pc, todo, rewrite, history>>

LoadFails ==
    /\ load \in {"keys", "range"}
    /\ Fault
    /\ load' = "done"
    /\ UNCHANGED <<redis, answer, subscriptions, loops, held, early, mixed, cutShort, registrations, crashes>>

\* Requests are served from the start.
Serving ==
    /\ load # "down"
    /\ early' = (early \/ load # "done")

\* A registration or a removal begins.
Mix == mixed' = (mixed \/ Rewriting # {} \/ load # "done")

-----------------------------------------------------------------------------
(* registerSubscription *)

\* The loops that run over the array in the map see an appended endpoint.
Extend(loop, sharing, e) ==
    [r \in Runs |-> IF r \in sharing THEN Plus(loop[r], e) ELSE loop[r]]

\* Mutant of Known: the check is forgotten.
KnownNever(e) == FALSE

Known(e) == Has(subscriptions, e)

\* A known endpoint changes nothing.  A new one is pushed to the array in the
\* map, and RPUSH is issued, which may fail.
RegisterSubscription(e) ==
    /\ Serving
    /\ registrations < MaxRegistrations
    /\ registrations' = registrations + 1
    /\ held' = held \union {e}
    /\ \/ /\ Known(e)
          /\ UNCHANGED <<redis, subscriptions, todo, rewrite, mixed, faults>>
       \/ /\ ~Known(e)
          /\ subscriptions' = Plus(subscriptions, e)
          /\ todo' = Extend(todo, sharesTodo, e)
          /\ rewrite' = Extend(rewrite, sharesRewrite, e)
          /\ Mix
          /\ \/ redis' = Plus(redis, e) /\ UNCHANGED faults
             \/ redis' = redis /\ Fault
    /\ UNCHANGED <<load, answer, pc, sharesTodo, sharesRewrite, cutShort, crashes>>

-----------------------------------------------------------------------------
(* sendToUser, with removeSubscription inside. *)

SendToUser(r) ==
    /\ Serving
    /\ pc[r] = "idle"
    /\ subscriptions # Empty
    /\ pc' = [pc EXCEPT ![r] = "push"]
    /\ todo' = [todo EXCEPT ![r] = subscriptions]
    /\ sharesTodo' = sharesTodo \union {r}
    /\ UNCHANGED <<redis, load, answer, subscriptions, rewrite, sharesRewrite,
                   held, mixed, cutShort, registrations, faults, crashes>>

\* Mutant of Proceed: the end of the array is not noticed.
ProceedEndless(r) ==
    /\ pc' = [pc EXCEPT ![r] = "push"]
    /\ UNCHANGED sharesTodo

\* The loop goes on to the next subscription, or the run ends.
Proceed(r) ==
    IF todo'[r] = Empty
    THEN /\ pc' = [pc EXCEPT ![r] = "done"]
         /\ sharesTodo' = sharesTodo \ {r}
    ELSE /\ pc' = [pc EXCEPT ![r] = "push"]
         /\ UNCHANGED sharesTodo

\* The push was delivered, or failed for a reason other than an expired endpoint.
PushAnswered(r, e) ==
    /\ pc[r] = "push"
    /\ Has(todo[r], e)
    /\ todo' = [todo EXCEPT ![r] = Minus(@, e)]
    /\ Proceed(r)
    /\ UNCHANGED <<redis, load, answer, subscriptions, rewrite, sharesRewrite, history>>

\* The push shows that the endpoint has expired: a filtered array replaces the
\* one in the map.
Remove(r, e) ==
    /\ pc[r] = "push"
    /\ Has(todo[r], e)
    /\ subscriptions' = Without(subscriptions, e)
    /\ held' = held \ {e}
    /\ sharesTodo' = {}

\* Mutant of PushExpired: the list in Redis is not deleted first.
PushExpiredNoDel(r, e) ==
    /\ Remove(r, e)
    /\ redis' = redis
    /\ rewrite' = [rewrite EXCEPT ![r] = Without(subscriptions, e)]
    /\ sharesRewrite' = {r}
    /\ pc' = [pc EXCEPT ![r] = "redis"]
    /\ todo' = [todo EXCEPT ![r] = Minus(@, e)]
    /\ Mix
    /\ UNCHANGED <<load, answer, early, cutShort, registrations, faults, crashes>>

\* The removal issues DEL and awaits its answer.
PushExpired(r, e) ==
    /\ Remove(r, e)
    /\ redis' = Empty
    /\ rewrite' = [rewrite EXCEPT ![r] = Without(subscriptions, e)]
    /\ sharesRewrite' = {r}
    /\ pc' = [pc EXCEPT ![r] = "redis"]
    /\ todo' = [todo EXCEPT ![r] = Minus(@, e)]
    /\ Mix
    /\ UNCHANGED <<load, answer, early, cutShort, registrations, faults, crashes>>

\* DEL fails: the exception leaves sendToUser.
DelFails(r, e) ==
    /\ Remove(r, e)
    /\ Fault
    /\ sharesRewrite' = {}
    /\ pc' = [pc EXCEPT ![r] = "done"]
    /\ todo' = [todo EXCEPT ![r] = Empty]
    /\ UNCHANGED <<redis, load, answer, rewrite, early, mixed, cutShort, registrations, crashes>>

\* Mutant of WriteBack: an element is skipped.
WriteBackSkipping(r, e) ==
    /\ pc[r] = "redis"
    /\ Has(rewrite[r], e)
    /\ rewrite' = [rewrite EXCEPT ![r] = Minus(@, e)]
    /\ UNCHANGED <<redis, load, answer, subscriptions, pc, todo, sharesTodo, sharesRewrite, history>>

\* Redis has answered: the next element of the filtered array is written back.
WriteBack(r, e) ==
    /\ pc[r] = "redis"
    /\ Has(rewrite[r], e)
    /\ redis' = Plus(redis, e)
    /\ rewrite' = [rewrite EXCEPT ![r] = Minus(@, e)]
    /\ UNCHANGED <<load, answer, subscriptions, pc, todo, sharesTodo, sharesRewrite, history>>

\* Redis has answered the last command: removeSubscription returns.
WrittenBack(r) ==
    /\ pc[r] = "redis"
    /\ rewrite[r] = Empty
    /\ sharesRewrite' = sharesRewrite \ {r}
    /\ UNCHANGED todo
    /\ Proceed(r)
    /\ UNCHANGED <<redis, load, answer, subscriptions, rewrite, history>>

\* RPUSH fails: the rest is not written, and the exception leaves sendToUser.
WriteBackFails(r) ==
    /\ pc[r] = "redis"
    /\ rewrite[r] # Empty
    /\ Fault
    /\ pc' = [pc EXCEPT ![r] = "done"]
    /\ todo' = [todo EXCEPT ![r] = Empty]
    /\ rewrite' = [rewrite EXCEPT ![r] = Empty]
    /\ sharesRewrite' = sharesRewrite \ {r}
    /\ UNCHANGED <<redis, load, answer, subscriptions, sharesTodo,
                   held, early, mixed, cutShort, registrations, crashes>>

\* The orchestrator dies: everything in memory is gone.
Crash ==
    /\ load # "down"
    /\ crashes < MaxCrashes
    /\ crashes' = crashes + 1
    /\ load' = "down"
    /\ answer' = Empty
    /\ subscriptions' = Empty
    /\ pc' = [r \in Runs |-> IF pc[r] = "idle" THEN "idle" ELSE "done"]
    /\ todo' = [r \in Runs |-> Empty]
    /\ sharesTodo' = {}
    /\ rewrite' = [r \in Runs |-> Empty]
    /\ sharesRewrite' = {}
    /\ mixed' = FALSE
    /\ cutShort' = (cutShort \/ Incomplete)
    /\ UNCHANGED <<redis, held, early, registrations, faults>>

-----------------------------------------------------------------------------
Load == Start \/ KeysAnswered \/ RangeAnswered \/ LoadFails

Send(r) ==
    \/ SendToUser(r)
    \/ \E e \in Endpoints :
        \/ PushAnswered(r, e)
        \/ PushExpired(r, e)
        \/ DelFails(r, e)
        \/ WriteBack(r, e)
    \/ WrittenBack(r)
    \/ WriteBackFails(r)

Next ==
    \/ Load
    \/ \E e \in Endpoints : RegisterSubscription(e)
    \/ \E r \in Runs : Send(r)
    \/ Crash

Spec == Init /\ [][Next]_vars

-----------------------------------------------------------------------------
(* Properties. *)

TypeOK ==
    /\ redis \in Bag
    /\ load \in {"down", "keys", "range", "done"}
    /\ answer \in Bag
    /\ subscriptions \in Bag
    /\ pc \in [Runs -> {"idle", "push", "redis", "done"}]
    /\ todo \in [Runs -> Bag]
    /\ \A r \in Runs :
        IF pc[r] = "push" THEN todo[r] # Empty
        ELSE pc[r] # "redis" => todo[r] = Empty
    /\ sharesTodo \subseteq {r \in Runs : pc[r] = "push"}
    /\ rewrite \in [Runs -> Bag]
    /\ sharesRewrite \subseteq Rewriting
    /\ held \subseteq Endpoints
    /\ early \in BOOLEAN
    /\ mixed \in BOOLEAN
    /\ cutShort \in BOOLEAN
    /\ registrations \in Nat
    /\ faults \in Nat
    /\ crashes \in Nat

Distinct(list) == \A e \in Endpoints : list[e] <= 1

\* "Check if already registered" (orchestrator/notificationService.ts:74): no
\* endpoint is in the user's subscriptions twice, which would push every
\* notification to it twice.  Not an invariant: a registration that comes before
\* loading has ended, or during a removal, breaks it at the next load.
RegisteredOnce == Distinct(subscriptions)

\* The same, for the loops under way too, until the process is restarted.
OnceUntilRestart ==
    crashes = 0 => RegisteredOnce /\ \A r \in Runs : Distinct(todo[r])

\* However sends, removals and registrations overlap, a subscription that was
\* registered and not removed is in memory once loading has ended, and in Redis
\* or still to be written back there: unless Redis has failed, a request came before
\* loading had ended, or the process ended before a removal had written all back.
NothingLost ==
    faults = 0 /\ ~early /\ ~cutShort =>
        \A e \in held :
            /\ load = "done" => Has(subscriptions, e)
            /\ Has(redis, e) \/ \E r \in sharesRewrite : Has(rewrite[r], e)

\* Redis has exactly what memory has whenever no removal is under
\* way, unless a removal or a registration came early or fell into another removal,
\* or Redis has failed.  A restart makes them agree again.
AgreeUnlessMixed ==
    load = "done" /\ faults = 0 /\ ~mixed /\ Rewriting = {} => redis = subscriptions

=============================================================================
