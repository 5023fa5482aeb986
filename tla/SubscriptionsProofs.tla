------------------------ MODULE SubscriptionsProofs ------------------------
(***************************************************************************)
(* Proofs about Subscriptions, for any endpoints and runs and any number   *)
(* of registrations, faults and restarts.                                  *)
(***************************************************************************)
EXTENDS Subscriptions, TLAPS

LEMMA EmptyBag == Empty \in Bag /\ \A e \in Endpoints : ~Has(Empty, e)
  BY DEF Empty, Bag, Has

LEMMA PlusBag ==
  ASSUME NEW list \in Bag, NEW e \in Endpoints
  PROVE  /\ Plus(list, e) \in Bag
         /\ Plus(list, e) # Empty
         /\ Plus(list, e)[e] = list[e] + 1
         /\ \A f \in Endpoints \ {e} : Plus(list, e)[f] = list[f]
  BY DEF Plus, Bag, Empty

LEMMA MinusBag ==
  ASSUME NEW list \in Bag, NEW e \in Endpoints, Has(list, e)
  PROVE  /\ Minus(list, e) \in Bag
         /\ Minus(list, e)[e] = list[e] - 1
         /\ \A f \in Endpoints \ {e} : Minus(list, e)[f] = list[f]
  BY DEF Minus, Bag, Has

LEMMA WithoutBag ==
  ASSUME NEW list \in Bag, NEW e \in Endpoints
  PROVE  /\ Without(list, e) \in Bag
         /\ Without(list, e)[e] = 0
         /\ \A f \in Endpoints \ {e} : Without(list, e)[f] = list[f]
  BY DEF Without, Bag

LEMMA SameBag ==
  ASSUME NEW list \in Bag, NEW other \in Bag, \A e \in Endpoints : list[e] = other[e]
  PROVE  list = other
  BY DEF Bag

-----------------------------------------------------------------------------
(* Type correctness. *)

LEMMA ExtendType ==
  ASSUME NEW loop \in [Runs -> Bag], NEW sharing, NEW e \in Endpoints
  PROVE  /\ Extend(loop, sharing, e) \in [Runs -> Bag]
         /\ \A r \in Runs : Extend(loop, sharing, e)[r] =
                IF r \in sharing THEN Plus(loop[r], e) ELSE loop[r]
  <1>1. \A r \in Runs : loop[r] \in Bag /\ Plus(loop[r], e) \in Bag
    BY PlusBag
  <1> QED BY <1>1, Zenon DEF Extend

LEMMA TypeOKInit == Init => TypeOK
  <1> SUFFICES ASSUME Init
               PROVE  TypeOK
    OBVIOUS
  <1>1. todo \in [Runs -> Bag] /\ rewrite \in [Runs -> Bag]
    BY EmptyBag DEF Init
  <1>2. \A r \in Runs : pc[r] = "idle" /\ todo[r] = Empty
    BY DEF Init
  <1>3. redis \in Bag /\ answer \in Bag /\ subscriptions \in Bag
    BY EmptyBag DEF Init
  <1> HIDE DEF Empty
  <1> QED BY <1>1, <1>2, <1>3 DEF Init, TypeOK, Rewriting

LEMMA TypeOKLoad ==
  ASSUME TypeOK, Load
  PROVE  TypeOK'
  BY SubscriptionsAssumption
     DEF TypeOK, Load, Start, KeysAnswered, RangeAnswered, LoadFails, Fault, Rewriting, loops, history

LEMMA TypeOKRegister ==
  ASSUME TypeOK, NEW e \in Endpoints, RegisterSubscription(e)
  PROVE  TypeOK'
  <1> USE SubscriptionsAssumption DEF TypeOK, RegisterSubscription, Serving
  <1>1. CASE Known(e)
    BY <1>1 DEF Rewriting
  <1>2. CASE ~Known(e)
    <2>1. /\ redis' \in Bag /\ subscriptions' \in Bag /\ faults' \in Nat
          /\ mixed' \in BOOLEAN /\ early' \in BOOLEAN
      <3>1. redis' \in Bag /\ subscriptions' \in Bag
        BY <1>2, PlusBag
      <3>2. faults' \in Nat
        BY <1>2 DEF Fault
      <3>3. mixed' \in BOOLEAN /\ early' \in BOOLEAN
        BY <1>2 DEF Mix
      <3> QED BY <3>1, <3>2, <3>3
    <2>2. todo' \in [Runs -> Bag] /\ rewrite' \in [Runs -> Bag]
      BY <1>2, ExtendType
    <2>3. ASSUME NEW r \in Runs
          PROVE  IF pc[r] = "push" THEN todo'[r] # Empty
                 ELSE pc[r] # "redis" => todo'[r] = Empty
      <3>1. CASE r \in sharesTodo
        BY <1>2, <3>1, ExtendType, PlusBag
      <3>2. CASE r \notin sharesTodo
        BY <1>2, <3>2, ExtendType
      <3> QED BY <3>1, <3>2
    <2> QED BY <1>2, <2>1, <2>2, <2>3 DEF Rewriting
  <1> QED BY <1>1, <1>2

LEMMA ProceedType ==
  ASSUME TypeOK, NEW r \in Runs, todo' \in [Runs -> Bag],
         \A q \in Runs \ {r} : todo'[q] = todo[q], Proceed(r)
  PROVE  /\ pc' \in [Runs -> {"idle", "push", "redis", "done"}]
         /\ \A q \in Runs \ {r} : pc'[q] = pc[q]
         /\ pc'[r] = IF todo'[r] = Empty THEN "done" ELSE "push"
         /\ sharesTodo' \subseteq sharesTodo
         /\ sharesTodo' \subseteq {q \in Runs : pc'[q] = "push"}
  BY DEF TypeOK, Proceed

LEMMA TypeOKSend ==
  ASSUME TypeOK, NEW r \in Runs, Send(r)
  PROVE  TypeOK'
  <1> USE SubscriptionsAssumption DEF TypeOK
  <1>1. CASE SendToUser(r)
    BY <1>1 DEF SendToUser, Serving, Rewriting
  <1>2. ASSUME NEW e \in Endpoints, PushAnswered(r, e)
        PROVE  TypeOK'
    <2>1. todo' \in [Runs -> Bag] /\ \A q \in Runs \ {r} : todo'[q] = todo[q]
      BY <1>2, MinusBag DEF PushAnswered
    <2>2. Proceed(r) /\ pc[r] = "push"
      BY <1>2 DEF PushAnswered
    <2> HIDE DEF TypeOK
    <2>3. /\ pc' \in [Runs -> {"idle", "push", "redis", "done"}]
          /\ \A q \in Runs \ {r} : pc'[q] = pc[q]
          /\ pc'[r] = IF todo'[r] = Empty THEN "done" ELSE "push"
          /\ sharesTodo' \subseteq {q \in Runs : pc'[q] = "push"}
      BY <2>1, <2>2, ProceedType
    <2> QED BY <1>2, <2>1, <2>2, <2>3 DEF TypeOK, PushAnswered, Rewriting, history
  <1>3. ASSUME NEW e \in Endpoints, PushExpired(r, e)
        PROVE  TypeOK'
    <2>1. subscriptions' \in Bag /\ redis' \in Bag /\ rewrite' \in [Runs -> Bag]
      BY <1>3, WithoutBag, EmptyBag DEF PushExpired, Remove
    <2>2. todo' \in [Runs -> Bag] /\ \A q \in Runs \ {r} : todo'[q] = todo[q]
      BY <1>3, MinusBag DEF PushExpired, Remove
    <2> QED BY <1>3, <2>1, <2>2 DEF PushExpired, Remove, Rewriting, Mix
  <1>4. ASSUME NEW e \in Endpoints, DelFails(r, e)
        PROVE  TypeOK'
    <2>1. subscriptions' \in Bag
      BY <1>4, WithoutBag DEF DelFails, Remove
    <2> QED BY <1>4, <2>1, EmptyBag DEF DelFails, Remove, Rewriting, Fault
  <1>5. ASSUME NEW e \in Endpoints, WriteBack(r, e)
        PROVE  TypeOK'
    <2>1. redis' \in Bag /\ rewrite' \in [Runs -> Bag]
      BY <1>5, PlusBag, MinusBag DEF WriteBack
    <2> QED BY <1>5, <2>1 DEF WriteBack, Rewriting, history
  <1>6. CASE WrittenBack(r)
    <2>1. Proceed(r) /\ pc[r] = "redis" /\ todo' = todo
      BY <1>6 DEF WrittenBack
    <2> HIDE DEF TypeOK
    <2>2. todo' \in [Runs -> Bag]
      BY <2>1 DEF TypeOK
    <2>3. /\ pc' \in [Runs -> {"idle", "push", "redis", "done"}]
          /\ \A q \in Runs \ {r} : pc'[q] = pc[q]
          /\ pc'[r] = IF todo'[r] = Empty THEN "done" ELSE "push"
          /\ sharesTodo' \subseteq {q \in Runs : pc'[q] = "push"}
      BY <2>1, <2>2, ProceedType
    <2> QED BY <1>6, <2>1, <2>2, <2>3 DEF TypeOK, WrittenBack, Rewriting, history
  <1>7. CASE WriteBackFails(r)
    BY <1>7, EmptyBag DEF WriteBackFails, Rewriting, Fault
  <1> QED BY <1>1, <1>2, <1>3, <1>4, <1>5, <1>6, <1>7 DEF Send

LEMMA TypeOKCrash ==
  ASSUME TypeOK, Crash
  PROVE  TypeOK'
  <1>1. cutShort' \in BOOLEAN /\ pc' \in [Runs -> {"idle", "push", "redis", "done"}]
    BY DEF TypeOK, Crash
  <1>2. todo' \in [Runs -> Bag] /\ rewrite' \in [Runs -> Bag]
    BY EmptyBag DEF TypeOK, Crash
  <1>3. \A r \in Runs : pc'[r] \in {"idle", "done"} /\ todo'[r] = Empty
    BY DEF TypeOK, Crash
  <1>4. redis' \in Bag /\ answer' \in Bag /\ subscriptions' \in Bag
    BY EmptyBag DEF TypeOK, Crash
  <1>5. load' = "down" /\ sharesTodo' = {} /\ sharesRewrite' = {} /\ mixed' = FALSE
    BY DEF Crash
  <1>6. /\ held' \subseteq Endpoints /\ early' \in BOOLEAN
        /\ registrations' \in Nat /\ faults' \in Nat /\ crashes' \in Nat
    BY SubscriptionsAssumption DEF TypeOK, Crash
  <1> QED BY <1>1, <1>2, <1>3, <1>4, <1>5, <1>6 DEF TypeOK

LEMMA TypeOKStep == TypeOK /\ [Next]_vars => TypeOK'
  <1> SUFFICES ASSUME TypeOK, [Next]_vars
               PROVE  TypeOK'
    OBVIOUS
  <1>1. CASE UNCHANGED vars
    BY <1>1 DEF TypeOK, vars, loops, history, Rewriting
  <1> QED BY <1>1, TypeOKLoad, TypeOKRegister, TypeOKSend, TypeOKCrash DEF Next

\* Every variable has its type in every reachable state: the bags stay bags
\* through every removal, and a run pushes only while something is left to push to
\* (sendToUser, orchestrator/notificationService.ts:134-150).
THEOREM TypeCorrect == Spec => []TypeOK
  BY TypeOKInit, TypeOKStep, PTL DEF Spec

-----------------------------------------------------------------------------
(* No endpoint twice, until the process is restarted. *)

\* Before the first restart the load finds nothing, and a loop that runs over the
\* array in the map has no endpoint left that the array has not.
FirstProcess ==
    /\ load = "down" => redis = Empty /\ \A r \in Runs : pc[r] \in {"idle", "done"}
    /\ load = "keys" => answer = Empty
    /\ load # "range"
    /\ Distinct(subscriptions)
    /\ \A r \in Runs : Distinct(todo[r])
    /\ \A r \in sharesTodo, e \in Endpoints : todo[r][e] <= subscriptions[e]

OnceInv == TypeOK /\ (crashes = 0 => FirstProcess)

LEMMA EmptyDistinct == Distinct(Empty)
  BY DEF Distinct, Empty

LEMMA OnceInvInit == Init => OnceInv
  <1> SUFFICES ASSUME Init
               PROVE  FirstProcess
    BY TypeOKInit DEF OnceInv
  <1>1. \A r \in Runs : todo[r] = Empty /\ pc[r] = "idle"
    BY DEF Init
  <1> QED BY <1>1, EmptyDistinct DEF Init, FirstProcess

LEMMA OnceInvLoad ==
  ASSUME TypeOK, FirstProcess, Load
  PROVE  FirstProcess'
  <1>1. CASE Start
    BY <1>1 DEF Start, FirstProcess, Distinct, loops
  <1>2. CASE KeysAnswered
    BY <1>2 DEF KeysAnswered, FirstProcess, Distinct, loops
  <1>3. CASE RangeAnswered
    BY <1>3 DEF RangeAnswered, FirstProcess
  <1>4. CASE LoadFails
    BY <1>4 DEF LoadFails, FirstProcess, Distinct, loops
  <1> QED BY <1>1, <1>2, <1>3, <1>4 DEF Load

LEMMA OnceInvRegister ==
  ASSUME TypeOK, FirstProcess, NEW e \in Endpoints, RegisterSubscription(e)
  PROVE  FirstProcess'
  <1> USE DEF RegisterSubscription, Serving
  <1>1. CASE Known(e)
    BY <1>1 DEF FirstProcess, Distinct
  <1>2. CASE ~Known(e)
    <2>1. /\ subscriptions \in Bag /\ subscriptions' = Plus(subscriptions, e)
          /\ subscriptions[e] = 0
      BY <1>2 DEF TypeOK, Known, Has, Bag
    <2>2. Distinct(subscriptions')
      BY <2>1, PlusBag DEF FirstProcess, Distinct
    <2>3. ASSUME NEW r \in Runs
          PROVE  /\ Distinct(todo'[r])
                 /\ r \in sharesTodo => \A f \in Endpoints : todo'[r][f] <= subscriptions'[f]
      <3>1. todo[r] \in Bag /\ todo \in [Runs -> Bag]
        BY DEF TypeOK
      <3>2. CASE r \in sharesTodo
        <4>1. todo'[r] = Plus(todo[r], e)
          BY <1>2, <3>1, <3>2, ExtendType
        <4>2. todo[r][e] = 0
          BY <2>1, <3>1, <3>2 DEF FirstProcess, Bag
        <4>3. \A f \in Endpoints : todo[r][f] <= 1 /\ todo[r][f] <= subscriptions[f]
          BY <3>2 DEF FirstProcess, Distinct
        <4> HIDE DEF RegisterSubscription
        <4> QED BY <2>1, <3>1, <4>1, <4>2, <4>3, PlusBag DEF Distinct, Bag
      <3>3. CASE r \notin sharesTodo
        BY <1>2, <3>1, <3>3, ExtendType DEF FirstProcess
      <3> QED BY <3>2, <3>3
    <2> QED BY <1>2, <2>2, <2>3 DEF FirstProcess, TypeOK
  <1> QED BY <1>1, <1>2

\* What a loop has left, one push less.
LEMMA MinusDistinct ==
  ASSUME NEW list \in Bag, NEW e \in Endpoints, Has(list, e), Distinct(list)
  PROVE  /\ Distinct(Minus(list, e))
         /\ \A f \in Endpoints : Minus(list, e)[f] <= list[f]
  BY MinusBag DEF Distinct, Bag

LEMMA OnceInvSend ==
  ASSUME TypeOK, FirstProcess, NEW r \in Runs, Send(r)
  PROVE  FirstProcess'
  <1>1. CASE SendToUser(r)
    BY <1>1 DEF SendToUser, Serving, FirstProcess, TypeOK, Bag
  <1>2. ASSUME NEW e \in Endpoints, PushAnswered(r, e)
        PROVE  FirstProcess'
    <2>1. /\ todo[r] \in Bag /\ Has(todo[r], e) /\ todo'[r] = Minus(todo[r], e)
          /\ \A q \in Runs \ {r} : todo'[q] = todo[q]
          /\ sharesTodo' \subseteq sharesTodo /\ sharesTodo \subseteq Runs
          /\ subscriptions' = subscriptions /\ subscriptions \in Bag
          /\ UNCHANGED <<redis, load, answer>>
      BY <1>2 DEF PushAnswered, Proceed, TypeOK
    <2>2. \A q \in Runs : Distinct(todo'[q]) /\ \A f \in Endpoints : todo'[q][f] <= todo[q][f]
      BY <2>1, MinusDistinct DEF FirstProcess, TypeOK, Bag
    <2>3. \A q \in sharesTodo', f \in Endpoints : todo'[q][f] <= subscriptions'[f]
      <3> SUFFICES ASSUME NEW q \in sharesTodo', NEW f \in Endpoints
                   PROVE  todo'[q][f] <= subscriptions'[f]
        OBVIOUS
      <3>1. q \in Runs /\ todo'[q][f] <= todo[q][f] /\ todo[q][f] <= subscriptions[f]
        BY <2>1, <2>2 DEF FirstProcess
      <3>2. todo[q][f] \in Nat /\ subscriptions[f] \in Nat /\ todo'[q][f] \in Nat
        <4>1. todo[q] \in Bag
          BY <3>1 DEF TypeOK
        <4>2. todo'[q] \in Bag
          BY <2>1, <3>1, <4>1, MinusBag
        <4> QED BY <2>1, <4>1, <4>2 DEF Bag
      <3> QED BY <2>1, <3>1, <3>2
    <2> QED BY <1>2, <2>1, <2>2, <2>3 DEF FirstProcess, PushAnswered, Distinct
  <1>3. ASSUME NEW e \in Endpoints, Remove(r, e), UNCHANGED <<load, answer>>,
               todo' = [todo EXCEPT ![r] = Empty] \/ todo' = [todo EXCEPT ![r] = Minus(@, e)]
        PROVE  FirstProcess'
    <2>1. load # "down" /\ todo[r] \in Bag /\ Has(todo[r], e) /\ sharesTodo' = {}
      BY <1>3 DEF Remove, TypeOK, FirstProcess
    <2>2. Distinct(subscriptions')
      <3>1. subscriptions \in Bag /\ subscriptions' = Without(subscriptions, e)
        BY <1>3 DEF Remove, TypeOK
      <3> QED BY <3>1, WithoutBag DEF FirstProcess, Distinct
    <2>3. \A q \in Runs : Distinct(todo'[q])
      BY <1>3, <2>1, MinusDistinct, EmptyDistinct DEF FirstProcess, TypeOK
    <2> QED BY <1>3, <2>1, <2>2, <2>3 DEF FirstProcess
  <1>4. ASSUME NEW e \in Endpoints, PushExpired(r, e)
        PROVE  FirstProcess'
    BY <1>3, <1>4 DEF PushExpired
  <1>5. ASSUME NEW e \in Endpoints, DelFails(r, e)
        PROVE  FirstProcess'
    BY <1>3, <1>5 DEF DelFails
  <1>6. ASSUME pc[r] = "redis", UNCHANGED <<load, answer, subscriptions>>,
               todo' = todo \/ todo' = [todo EXCEPT ![r] = Empty],
               sharesTodo' \subseteq sharesTodo \ {r}
        PROVE  FirstProcess'
    <2>1. load # "down" /\ sharesTodo \subseteq Runs
      BY <1>6 DEF TypeOK, FirstProcess
    <2>2. \A q \in Runs : Distinct(todo'[q])
      BY <1>6, EmptyDistinct DEF FirstProcess, TypeOK
    <2>3. \A q \in sharesTodo' : q \in sharesTodo /\ todo'[q] = todo[q]
      BY <1>6, <2>1 DEF TypeOK
    <2> QED BY <1>6, <2>1, <2>2, <2>3 DEF FirstProcess, Distinct
  <1>7. pc[r] = "redis" => r \notin sharesTodo
    BY DEF TypeOK
  <1>8. ASSUME NEW e \in Endpoints, WriteBack(r, e)
        PROVE  FirstProcess'
    BY <1>6, <1>7, <1>8 DEF WriteBack
  <1>9. CASE WrittenBack(r)
    BY <1>6, <1>7, <1>9 DEF WrittenBack, Proceed
  <1>10. CASE WriteBackFails(r)
    BY <1>6, <1>7, <1>10 DEF WriteBackFails
  <1> QED BY <1>1, <1>2, <1>4, <1>5, <1>8, <1>9, <1>10 DEF Send

LEMMA OnceInvStep == OnceInv /\ [Next]_vars => OnceInv'
  <1> SUFFICES ASSUME OnceInv, [Next]_vars
               PROVE  OnceInv'
    OBVIOUS
  <1>1. TypeOK'
    BY TypeOKStep DEF OnceInv
  <1>2. ASSUME crashes' = 0
        PROVE  crashes = 0
    <2>1. CASE Crash
      BY <1>2, <2>1 DEF Crash, OnceInv, TypeOK
    <2>2. CASE Load
      BY <1>2, <2>2 DEF Load, Start, KeysAnswered, RangeAnswered, LoadFails, history
    <2>3. ASSUME NEW e \in Endpoints, RegisterSubscription(e)
          PROVE  crashes = 0
      BY <1>2, <2>3 DEF RegisterSubscription
    <2>4. ASSUME NEW r \in Runs, Send(r)
          PROVE  crashes = 0
      BY <1>2, <2>4 DEF Send, SendToUser, PushAnswered, PushExpired, DelFails, WriteBack,
                        WrittenBack, WriteBackFails, history
    <2>5. CASE UNCHANGED vars
      BY <1>2, <2>5 DEF vars, history
    <2> QED BY <2>1, <2>2, <2>3, <2>4, <2>5 DEF Next
  <1>3. ASSUME crashes' = 0
        PROVE  FirstProcess'
    <2>1. TypeOK /\ FirstProcess
      BY <1>2, <1>3 DEF OnceInv
    <2>2. CASE Crash
      BY <1>3, <2>1, <2>2 DEF Crash, TypeOK
    <2>3. CASE UNCHANGED vars
      BY <2>1, <2>3 DEF vars, loops, FirstProcess, Distinct
    <2> QED BY <2>1, <2>2, <2>3, OnceInvLoad, OnceInvRegister, OnceInvSend DEF Next
  <1> QED BY <1>1, <1>3 DEF OnceInv

\* "Check if already registered" (orchestrator/notificationService.ts:74) keeps
\* every endpoint from being pushed to twice, for as long as the process lives that
\* has seen every registration.
THEOREM Once == Spec => []OnceUntilRestart
  <1>1. OnceInv => OnceUntilRestart
    BY DEF OnceInv, FirstProcess, OnceUntilRestart, RegisteredOnce
  <1> QED BY <1>1, OnceInvInit, OnceInvStep, PTL DEF Spec

-----------------------------------------------------------------------------
(* Nothing is lost. *)

\* What a removal has emptied in Redis is still to be written back.
InRedis(e) == Has(redis, e) \/ \E r \in sharesRewrite : Has(rewrite[r], e)

\* While loading goes on nothing else does, so that it finds what Redis has had
\* all the time; and what is held is in memory, what is in memory is in Redis.
Kept ==
    /\ load # "done" => /\ \A r \in Runs : pc[r] \in {"idle", "done"}
                        /\ subscriptions = Empty
    /\ load \in {"keys", "range"} => answer = redis
    /\ load = "done" => \A e \in held : Has(subscriptions, e)
    /\ \A e \in Endpoints : e \in held \/ Has(subscriptions, e) => InRedis(e)

Undisturbed == faults = 0 /\ ~early /\ ~cutShort

KeptInv == TypeOK /\ (Undisturbed => Kept)

LEMMA KeptInit == Init => KeptInv
  <1> SUFFICES ASSUME Init
               PROVE  Kept
    BY TypeOKInit DEF KeptInv
  <1> QED BY EmptyBag DEF Init, Kept

LEMMA KeptLoad ==
  ASSUME TypeOK, Kept, Load, faults' = 0
  PROVE  Kept'
  <1>1. CASE Start
    BY <1>1 DEF Start, Kept, InRedis, loops, history
  <1>2. CASE KeysAnswered
    BY <1>2, EmptyBag DEF KeysAnswered, Kept, InRedis, loops, history, TypeOK, Rewriting
  <1>3. CASE RangeAnswered
    <2>1. sharesRewrite = {} /\ answer = redis /\ held \subseteq Endpoints
      BY <1>3 DEF RangeAnswered, Kept, TypeOK, Rewriting
    <2> QED BY <1>3, <2>1 DEF RangeAnswered, Kept, InRedis, history
  <1>4. CASE LoadFails
    BY <1>4 DEF LoadFails, Fault, TypeOK
  <1> QED BY <1>1, <1>2, <1>3, <1>4 DEF Load

\* A list that grew has what it had.
LEMMA PlusHas ==
  ASSUME NEW list \in Bag, NEW e \in Endpoints, NEW f \in Endpoints
  PROVE  Has(Plus(list, e), f) <=> Has(list, f) \/ f = e
  BY PlusBag DEF Has, Bag

LEMMA KeptRegister ==
  ASSUME TypeOK, Kept, NEW e \in Endpoints, RegisterSubscription(e), Undisturbed'
  PROVE  Kept'
  <1>1. load = "done" /\ load' = "done" /\ held' = held \union {e} /\ held \subseteq Endpoints
    BY DEF RegisterSubscription, Serving, Undisturbed, TypeOK
  <1>2. CASE Known(e)
    <2>1. UNCHANGED <<redis, subscriptions, rewrite, sharesRewrite>>
      BY <1>2 DEF RegisterSubscription
    <2> QED BY <1>1, <1>2, <2>1 DEF Kept, Known, InRedis
  <1>3. CASE ~Known(e)
    <2>1. /\ subscriptions' = Plus(subscriptions, e) /\ subscriptions \in Bag
          /\ redis' = Plus(redis, e) /\ redis \in Bag
          /\ rewrite' = Extend(rewrite, sharesRewrite, e) /\ rewrite \in [Runs -> Bag]
          /\ sharesRewrite' = sharesRewrite /\ sharesRewrite \subseteq Runs
      BY <1>3 DEF RegisterSubscription, Fault, Undisturbed, TypeOK, Rewriting
    <2>2. \A f \in Endpoints :
            /\ Has(subscriptions', f) <=> Has(subscriptions, f) \/ f = e
            /\ Has(redis', f) <=> Has(redis, f) \/ f = e
            /\ \A r \in sharesRewrite : Has(rewrite[r], f) => Has(rewrite'[r], f)
      BY <2>1, PlusHas, ExtendType
    <2> QED BY <1>1, <2>1, <2>2 DEF Kept, InRedis
  <1> QED BY <1>2, <1>3

LEMMA KeptSend ==
  ASSUME TypeOK, Kept, NEW r \in Runs, Send(r), Undisturbed'
  PROVE  Kept'
  <1>0. /\ held \subseteq Endpoints /\ sharesRewrite \subseteq Runs
        /\ subscriptions \in Bag /\ redis \in Bag /\ rewrite \in [Runs -> Bag]
    BY DEF TypeOK, Rewriting
  <1>1. CASE SendToUser(r)
    BY <1>1 DEF SendToUser, Serving, Undisturbed, Kept, InRedis
  <1>2. ASSUME pc[r] \in {"push", "redis"}
        PROVE  load = "done"
    BY <1>2 DEF Kept
  <1>3. ASSUME NEW e \in Endpoints, PushAnswered(r, e)
        PROVE  Kept'
    BY <1>2, <1>3 DEF PushAnswered, Kept, InRedis, history
  <1>4. ASSUME NEW e \in Endpoints, PushExpired(r, e)
        PROVE  Kept'
    <2>1. /\ load = "done" /\ load' = "done" /\ held' = held \ {e}
          /\ subscriptions' = Without(subscriptions, e)
          /\ sharesRewrite' = {r} /\ rewrite'[r] = subscriptions'
      BY <1>0, <1>2, <1>4 DEF PushExpired, Remove
    <2>2. \A f \in Endpoints : Has(subscriptions', f) <=> Has(subscriptions, f) /\ f # e
      BY <1>0, <2>1, WithoutBag DEF Has
    <2> QED BY <1>0, <2>1, <2>2 DEF Kept, InRedis
  <1>5. ASSUME NEW e \in Endpoints, WriteBack(r, e)
        PROVE  Kept'
    <2>1. /\ load = "done" /\ UNCHANGED <<load, held, subscriptions, sharesRewrite>>
          /\ redis' = Plus(redis, e) /\ Has(rewrite[r], e)
          /\ rewrite' = [rewrite EXCEPT ![r] = Minus(@, e)]
      BY <1>2, <1>5 DEF WriteBack, history
    <2>2. ASSUME NEW f \in Endpoints, InRedis(f)
          PROVE  InRedis(f)'
      <3>1. CASE Has(redis, f) \/ f = e
        BY <1>0, <2>1, <3>1, PlusHas DEF InRedis
      <3>2. CASE f # e /\ \E q \in sharesRewrite : Has(rewrite[q], f)
        <4>1. \A q \in Runs : Has(rewrite[q], f) => Has(rewrite'[q], f)
          BY <1>0, <2>1, <3>2, MinusBag DEF Has
        <4> QED BY <1>0, <2>1, <3>2, <4>1 DEF InRedis
      <3> QED BY <2>2, <3>1, <3>2 DEF InRedis
    <2> QED BY <1>0, <2>1, <2>2 DEF Kept
  <1>6. CASE WrittenBack(r)
    <2>1. /\ load = "done" /\ UNCHANGED <<load, held, subscriptions, redis, rewrite>>
          /\ sharesRewrite' = sharesRewrite \ {r} /\ rewrite[r] = Empty
      BY <1>2, <1>6 DEF WrittenBack, history
    <2>2. \A f \in Endpoints : InRedis(f) => InRedis(f)'
      BY <2>1, EmptyBag DEF InRedis
    <2> QED BY <1>0, <2>1, <2>2 DEF Kept
  <1>7. ~WriteBackFails(r) /\ \A e \in Endpoints : ~DelFails(r, e)
    BY DEF WriteBackFails, DelFails, Fault, Undisturbed, TypeOK
  <1> QED BY <1>1, <1>3, <1>4, <1>5, <1>6, <1>7 DEF Send

LEMMA KeptCrash ==
  ASSUME TypeOK, Kept, Crash, ~cutShort'
  PROVE  Kept'
  <1>1. \A r \in sharesRewrite : rewrite[r] = Empty
    BY DEF Crash, Incomplete
  <1>2. \A e \in held : Has(redis, e)
    BY <1>1, EmptyBag DEF Kept, InRedis, TypeOK
  <1>3. \A r \in Runs : pc'[r] \in {"idle", "done"}
    BY DEF Crash
  <1> QED BY <1>2, <1>3, EmptyBag DEF Crash, Kept, InRedis

LEMMA KeptInvStep == KeptInv /\ [Next]_vars => KeptInv'
  <1> SUFFICES ASSUME KeptInv, [Next]_vars
               PROVE  KeptInv'
    OBVIOUS
  <1>1. TypeOK /\ TypeOK'
    BY TypeOKStep DEF KeptInv
  <1>2. ASSUME Undisturbed'
        PROVE  Undisturbed
    <2>1. CASE Crash
      BY <1>2, <2>1 DEF Crash, Undisturbed
    <2>2. CASE Load
      BY <1>1, <1>2, <2>2
         DEF Load, Start, KeysAnswered, RangeAnswered, LoadFails, Fault, history, Undisturbed, TypeOK
    <2>3. ASSUME NEW e \in Endpoints, RegisterSubscription(e)
          PROVE  Undisturbed
      BY <1>1, <1>2, <2>3 DEF RegisterSubscription, Serving, Fault, Undisturbed, TypeOK
    <2>4. ASSUME NEW r \in Runs, Send(r)
          PROVE  Undisturbed
      BY <1>1, <1>2, <2>4
         DEF Send, SendToUser, Serving, PushAnswered, PushExpired, DelFails, WriteBack, WrittenBack,
             WriteBackFails, Fault, history, Undisturbed, TypeOK
    <2>5. CASE UNCHANGED vars
      BY <1>2, <2>5 DEF vars, history, Undisturbed
    <2> QED BY <2>1, <2>2, <2>3, <2>4, <2>5 DEF Next
  <1>3. ASSUME Undisturbed'
        PROVE  Kept'
    <2>1. Kept
      BY <1>2, <1>3 DEF KeptInv
    <2>2. CASE Crash
      BY <1>1, <1>3, <2>1, <2>2, KeptCrash DEF Undisturbed
    <2>3. CASE Load
      BY <1>1, <1>3, <2>1, <2>3, KeptLoad DEF Undisturbed
    <2>4. CASE UNCHANGED vars
      BY <2>1, <2>4 DEF vars, loops, history, Kept, InRedis
    <2> QED BY <1>1, <1>3, <2>1, <2>2, <2>3, <2>4, KeptRegister, KeptSend DEF Next
  <1> QED BY <1>1, <1>3 DEF KeptInv

\* removeSubscription deletes the list in Redis before it writes the rest back
\* (orchestrator/notificationService.ts:104-110), and yet no overlap of removals,
\* sends and registrations loses a subscription: the removal writes back what was
\* registered meanwhile too.
THEOREM Lossless == Spec => []NothingLost
  <1>1. KeptInv => NothingLost
    BY DEF KeptInv, Kept, InRedis, Undisturbed, NothingLost, TypeOK
  <1> QED BY <1>1, KeptInit, KeptInvStep, PTL DEF Spec

-----------------------------------------------------------------------------
(* Redis and memory agree. *)

\* In a process whose registrations and removals never met, loading finds memory
\* empty, one removal at a time has a part of the list to write back, and Redis
\* has all the rest.
Apart ==
    /\ load # "done" => /\ \A r \in Runs : pc[r] \in {"idle", "done"}
                        /\ subscriptions = Empty
    /\ load \in {"keys", "range"} => answer = redis
    /\ load = "done" /\ Rewriting = {} => redis = subscriptions
    /\ \A r, q \in Rewriting : r = q
    /\ \A r \in Rewriting, e \in Endpoints : redis[e] + rewrite[r][e] = subscriptions[e]

ApartInv == TypeOK /\ (faults = 0 /\ ~mixed => Apart)

LEMMA ApartInit == Init => ApartInv
  <1> SUFFICES ASSUME Init
               PROVE  Apart
    BY TypeOKInit DEF ApartInv
  <1> QED BY DEF Init, Apart, Rewriting

LEMMA ApartLoad ==
  ASSUME TypeOK, Apart, Load, faults' = 0
  PROVE  Apart'
  <1>1. CASE Start
    BY <1>1 DEF Start, Apart, Rewriting, loops
  <1>2. CASE KeysAnswered
    BY <1>2 DEF KeysAnswered, Apart, Rewriting, loops
  <1>3. CASE RangeAnswered
    BY <1>3 DEF RangeAnswered, Apart, Rewriting
  <1>4. CASE LoadFails
    BY <1>4 DEF LoadFails, Fault, TypeOK
  <1> QED BY <1>1, <1>2, <1>3, <1>4 DEF Load

LEMMA ApartRegister ==
  ASSUME TypeOK, Apart, NEW e \in Endpoints, RegisterSubscription(e), faults' = 0, ~mixed'
  PROVE  Apart'
  <1>1. CASE Known(e)
    BY <1>1 DEF RegisterSubscription, Apart, Rewriting
  <1>2. CASE ~Known(e)
    <2>1. Rewriting = {} /\ Rewriting' = {} /\ load = "done" /\ load' = "done"
      BY <1>2 DEF RegisterSubscription, Mix, Rewriting
    <2>2. redis' = Plus(redis, e) /\ subscriptions' = Plus(subscriptions, e)
      BY <1>2 DEF RegisterSubscription, Fault, TypeOK
    <2> QED BY <2>1, <2>2 DEF Apart
  <1> QED BY <1>1, <1>2

LEMMA ApartSend ==
  ASSUME TypeOK, Apart, NEW r \in Runs, Send(r), faults' = 0, ~mixed'
  PROVE  Apart'
  <1>0. /\ subscriptions \in Bag /\ redis \in Bag /\ rewrite \in [Runs -> Bag]
        /\ pc \in [Runs -> {"idle", "push", "redis", "done"}]
        /\ TypeOK'
    BY TypeOKSend DEF TypeOK
  <1>1. ASSUME pc[r] \in {"push", "redis"}
        PROVE  load = "done"
    BY <1>1 DEF Apart
  <1>2. CASE SendToUser(r)
    <2>1. load = "done" /\ load' = "done" /\ Rewriting' = Rewriting
      BY <1>0, <1>2 DEF SendToUser, Apart, Rewriting
    <2> QED BY <1>2, <2>1 DEF SendToUser, Apart
  <1>3. ASSUME NEW e \in Endpoints, PushAnswered(r, e)
        PROVE  Apart'
    <2>1. load = "done" /\ load' = "done" /\ Rewriting' = Rewriting
      BY <1>0, <1>1, <1>3 DEF PushAnswered, Proceed, Rewriting
    <2> QED BY <1>3, <2>1 DEF PushAnswered, Apart
  <1>4. ASSUME NEW e \in Endpoints, PushExpired(r, e)
        PROVE  Apart'
    <2>1. /\ load = "done" /\ load' = "done" /\ Rewriting = {} /\ Rewriting' = {r}
          /\ redis' = Empty /\ rewrite'[r] = subscriptions'
      BY <1>0, <1>1, <1>4 DEF PushExpired, Remove, Mix, Rewriting
    <2>2. subscriptions' \in Bag
      BY <1>0 DEF TypeOK
    <2> QED BY <2>1, <2>2 DEF Apart, Empty, Bag
  <1>5. ASSUME NEW e \in Endpoints, WriteBack(r, e)
        PROVE  Apart'
    <2>1. /\ load = "done" /\ load' = "done" /\ Rewriting' = Rewriting /\ r \in Rewriting
          /\ redis' = Plus(redis, e) /\ Has(rewrite[r], e)
          /\ rewrite'[r] = Minus(rewrite[r], e) /\ rewrite[r] \in Bag
          /\ subscriptions' = subscriptions
      BY <1>0, <1>1, <1>5 DEF WriteBack, Rewriting
    <2>2. \A q \in Rewriting : q = r
      BY <2>1 DEF Apart
    <2>3. \A f \in Endpoints : redis[f] + rewrite[r][f] = subscriptions[f]
      BY <2>1 DEF Apart
    <2>4. \A f \in Endpoints : redis'[f] + rewrite'[r][f] = subscriptions[f]
      <3>1. redis'[e] = redis[e] + 1 /\ \A f \in Endpoints \ {e} : redis'[f] = redis[f]
        BY <1>0, <2>1, PlusBag
      <3>2. /\ rewrite'[r][e] = rewrite[r][e] - 1
            /\ \A f \in Endpoints \ {e} : rewrite'[r][f] = rewrite[r][f]
        BY <2>1, MinusBag
      <3>3. redis[e] \in Nat /\ rewrite[r][e] \in Nat
        BY <1>0, <2>1 DEF Bag
      <3> QED BY <2>3, <3>1, <3>2, <3>3
    <2>5. \A q \in Rewriting', f \in Endpoints : redis'[f] + rewrite'[q][f] = subscriptions'[f]
      BY <2>1, <2>2, <2>4
    <2>6. Rewriting' # {} /\ \A p, q \in Rewriting' : p = q
      BY <2>1, <2>2
    <2> QED BY <2>1, <2>5, <2>6 DEF Apart
  <1>6. CASE WrittenBack(r)
    <2>1. /\ load = "done" /\ load' = "done" /\ r \in Rewriting
          /\ Rewriting' = Rewriting \ {r}
          /\ rewrite[r] = Empty
          /\ redis' = redis /\ subscriptions' = subscriptions
      BY <1>0, <1>1, <1>6 DEF WrittenBack, Proceed, Rewriting
    <2>2. Rewriting' = {}
      BY <2>1 DEF Apart
    <2>3. \A e \in Endpoints : redis[e] = subscriptions[e]
      BY <1>0, <2>1 DEF Apart, Empty, Bag
    <2>4. redis = subscriptions
      BY <1>0, <2>3, SameBag
    <2> QED BY <2>1, <2>2, <2>4 DEF Apart
  <1>7. ~WriteBackFails(r) /\ \A e \in Endpoints : ~DelFails(r, e)
    BY DEF WriteBackFails, DelFails, Fault, TypeOK
  <1> QED BY <1>2, <1>3, <1>4, <1>5, <1>6, <1>7 DEF Send

LEMMA ApartCrash ==
  ASSUME Crash
  PROVE  Apart'
  BY DEF Crash, Apart, Rewriting

\* What a process has mixed stays mixed until it ends.
LEMMA ApartInvStep == ApartInv /\ [Next]_vars => ApartInv'
  <1> SUFFICES ASSUME ApartInv, [Next]_vars
               PROVE  ApartInv'
    OBVIOUS
  <1>1. TypeOK /\ TypeOK'
    BY TypeOKStep DEF ApartInv
  <1>2. ASSUME faults' = 0, ~mixed', ~Crash
        PROVE  faults = 0 /\ ~mixed
    <2>2. CASE Load
      BY <1>1, <1>2, <2>2
         DEF Load, Start, KeysAnswered, RangeAnswered, LoadFails, Fault, history, TypeOK
    <2>3. ASSUME NEW e \in Endpoints, RegisterSubscription(e)
          PROVE  faults = 0 /\ ~mixed
      <3>1. CASE Known(e)
        BY <1>2, <2>3, <3>1 DEF RegisterSubscription
      <3>2. CASE ~Known(e)
        BY <1>1, <1>2, <2>3, <3>2 DEF RegisterSubscription, Mix, Fault, TypeOK
      <3> QED BY <3>1, <3>2
    <2>4. ASSUME NEW r \in Runs, Send(r)
          PROVE  faults = 0 /\ ~mixed
      <3>1. ASSUME NEW e \in Endpoints, PushExpired(r, e)
            PROVE  faults = 0 /\ ~mixed
        BY <1>2, <3>1 DEF PushExpired, Mix
      <3>2. ~WriteBackFails(r) /\ \A e \in Endpoints : ~DelFails(r, e)
        BY <1>1, <1>2 DEF WriteBackFails, DelFails, Fault, TypeOK
      <3> QED BY <1>2, <2>4, <3>1, <3>2
              DEF Send, SendToUser, PushAnswered, WriteBack, WrittenBack, history
    <2>5. CASE UNCHANGED vars
      BY <1>2, <2>5 DEF vars, history
    <2> QED BY <1>2, <2>2, <2>3, <2>4, <2>5 DEF Next
  <1>3. ASSUME faults' = 0, ~mixed'
        PROVE  Apart'
    <2>1. CASE Crash
      BY <2>1, ApartCrash
    <2>2. CASE ~Crash
      <3>1. Apart
        BY <1>2, <1>3, <2>2 DEF ApartInv
      <3>2. CASE UNCHANGED vars
        BY <3>1, <3>2 DEF vars, loops, Apart, Rewriting
      <3> QED BY <1>1, <1>3, <2>2, <3>1, <3>2, ApartLoad, ApartRegister, ApartSend DEF Next
    <2> QED BY <2>1, <2>2
  <1> QED BY <1>1, <1>3 DEF ApartInv

\* Once its removals are done, a process in which no two of them met, and no
\* registration met one, leaves in Redis exactly what it has in memory
\* (orchestrator/notificationService.ts:82-89, 98-110).
THEOREM Agreement == Spec => []AgreeUnlessMixed
  <1>1. ApartInv => AgreeUnlessMixed
    BY DEF ApartInv, Apart, AgreeUnlessMixed
  <1> QED BY <1>1, ApartInit, ApartInvStep, PTL DEF Spec

=============================================================================
