----------------------------- MODULE DedupProofs -----------------------------
(***************************************************************************)
(* Deduplication, for every set of messages and runs and every bound.  It  *)
(* is proved one message at a time and for every behaviour: a run that is  *)
(* not in unguarded has its message to itself and finds it without an      *)
(* event, and from this the message path implements Ingestion.  A message  *)
(* whose runs never lose their entry in recentlyProcessed has no unguarded *)
(* run at all, whatever happens to the others.                             *)
(***************************************************************************)
EXTENDS PipelineProofs

Guarded == Runs \ unguarded

\* A guarded run's message is still in the window, or came through the test endpoint.
InWindow(m) ==
    \A r \in Guarded : Live(r) /\ msg[r] = m => m \in recentlyProcessed \/ m \in TestMessages

\* No other run works on a guarded run's message.
Alone(m) ==
    \A r \in Guarded, q \in Runs : Live(q) /\ Live(r) /\ msg[q] = m /\ msg[r] = m => q = r

\* A guarded run that may still store an event works on a message that has none.
NoEventYet(m) ==
    \A r \in Guarded, e \in Runs : pc[r] \in BeforeStore /\ msg[r] = m => source[e] # m

\* Once a guarded run has stored its event no run is left that would store another.
EventStands(m) ==
    \A d \in Guarded, r \in Runs : source[d] = m /\ pc[r] \in BeforeStore => msg[r] # m

OneGuardedEvent(m) == \A d \in Guarded, e \in Runs : source[d] = m /\ source[e] = m => d = e

CompletedOnceIdle(m) == m \in completed => \A r \in Guarded : Live(r) => msg[r] # m

\* The event a live run has stored is one of its message.
OwnEvent(m) == \A r \in Runs : Live(r) /\ source[r] = m => msg[r] = m

Once(m) ==
    /\ InWindow(m)
    /\ Alone(m)
    /\ NoEventYet(m)
    /\ EventStands(m)
    /\ OneGuardedEvent(m)
    /\ CompletedOnceIdle(m)
    /\ OwnEvent(m)

DedupInv == StoreInv /\ \A m \in Messages : Once(m)

\* The message m is in the hands of unguarded runs only, if of any, and has no event.
Untouched(m) ==
    /\ \A q \in Runs : Live(q) /\ msg[q] = m => q \in unguarded
    /\ \A e \in Runs : source[e] # m

-----------------------------------------------------------------------------
LEMMA OnceInit == ASSUME NEW m \in Messages PROVE Init => Once(m)
  BY PipelineAssumption
  DEF Init, Once, Guarded, InWindow, Alone, NoEventYet, EventStands, OneGuardedEvent,
      CompletedOnceIdle, OwnEvent, Live, Waiting, BeforeStore

\* Neither entry point starts a run on a message a guarded run has, or that has an event.
LEMMA AcceptedUntouched ==
  ASSUME StoreInv, NEW m \in Messages, Once(m), NEW r \in Runs,
         DeliverAccepted(m, r) \/ SubmitTest(m, r)
  PROVE  Untouched(m)
  <1> USE PipelineAssumption DEF StoreInv, Untouched
  <1>1. CASE DeliverAccepted(m, r)
    BY <1>1, Origins DEF DeliverAccepted, Answer, HasEvent, EventsOf, Once, Guarded, InWindow,
       EventsHaveOrigin
  <1>2. CASE SubmitTest(m, r)
    <2>1. m \notin messages /\ \A q \in Runs : Live(q) => msg[q] # m
      BY <1>2 DEF SubmitTest, TestIdsFresh
    <2> QED BY <2>1, Origins DEF EventsHaveOrigin, TypeOK
  <1> QED BY <1>1, <1>2

\* Deliveries of m, and of the other messages, n.
LEMMA OnceDeliver ==
  ASSUME StoreInv, NEW m \in Messages, Once(m), NEW n \in Messages, Deliver(n)
  PROVE  Once(m)'
  <1> USE PipelineAssumption DEF Once, Guarded, InWindow, Alone, NoEventYet, EventStands,
        OneGuardedEvent, CompletedOnceIdle, OwnEvent, Live
  <1>1. CASE DeliverDuplicate(n) \/ DeliverFails(n) \/ DeliverProcessed(n) \/ DeliverSkipped(n)
    BY <1>1 DEF DeliverDuplicate, DeliverFails, DeliverProcessed, DeliverSkipped,
       database, records, locals, window
  <1>2. ASSUME NEW r \in Runs, DeliverAccepted(n, r) \/ SubmitTest(n, r)
        PROVE  Once(m)'
    <2>1. n = m => Untouched(m)
      BY <1>2, AcceptedUntouched
    <2>2. /\ pc[r] = "idle"
          /\ recentlyProcessed \subseteq recentlyProcessed'
          /\ n \in recentlyProcessed' \/ n \in TestMessages
          /\ source' = source
          /\ source[r] = None
          /\ unguarded \subseteq unguarded'
          /\ pc \in [Runs -> {"idle"} \union Waiting \union Ended]
          /\ msg \in [Runs -> Messages \union {None}]
      BY <1>2 DEF DeliverAccepted, SubmitTest, Begin, StoreInv, TypeOK, FreshIds, Fresh
    <2>3. CASE BeginStored(n, r) /\ unguarded' = unguarded \union BesideUnguarded(n, r)
      <3>1. r \in unguarded' \/ \A q \in unguarded : Live(q) => msg[q] # n
        BY <2>3 DEF BesideUnguarded
      <3> QED BY <2>1, <2>2, <2>3, <3>1 DEF BeginStored, Untouched, Waiting, BeforeStore
    <2>4. CASE BeginFails(n, r)
      BY <2>1, <2>2, <2>4 DEF BeginFails, Untouched, Waiting, BeforeStore
    <2> QED BY <1>2, <2>3, <2>4 DEF DeliverAccepted, SubmitTest, Begin
  <1> QED BY <1>1, <1>2 DEF Deliver

LEMMA OnceProactive ==
  ASSUME StoreInv, NEW m \in Messages, Once(m), NEW r \in Runs,
         SelectMatches(r) \/ GeminiAnswers(r) \/ ReminderSent(r) \/ MarkFails(r)
  PROVE  Once(m)'
  <1>1. /\ pc[r] \in BeforeStore /\ pc'[r] \in BeforeStore
        /\ \A q \in Runs : q # r => pc'[q] = pc[q]
        /\ UNCHANGED <<completed, source, recentlyProcessed, unguarded, msg>>
    BY RemindsBeforeStore DEF window
  <1>2. \A q \in Runs : (Live(q)' <=> Live(q)) /\ (pc'[q] \in BeforeStore <=> pc[q] \in BeforeStore)
    BY <1>1 DEF Live, Waiting, BeforeStore
  <1> QED BY <1>1, <1>2 DEF Once, Guarded, InWindow, Alone, NoEventYet, EventStands,
        OneGuardedEvent, CompletedOnceIdle, OwnEvent, Live

LEMMA OnceStages ==
  ASSUME StoreInv, NEW m \in Messages, Once(m), NEW r \in Runs,
         \/ HeuristicGate(r) \/ ExtractNothing(r) \/ StoreEvent(r) \/ IndexEvent(r)
         \/ FinishStore(r) \/ DueReminderSent(r) \/ Abort(r)
  PROVE  Once(m)'
  <1> USE DEF Once, Guarded, InWindow, Alone, NoEventYet, EventStands,
        OneGuardedEvent, CompletedOnceIdle, OwnEvent, Live, database,
        records, window, Elsewhere
  <1>0. /\ pc \in [Runs -> {"idle"} \union Waiting \union Ended]
        /\ msg \in [Runs -> Messages \union {None}]
        /\ source \in [Runs -> Messages \union {None}]
        /\ messages \subseteq Messages
    BY DEF StoreInv, TypeOK
  <1>1. ASSUME Live(r),
               \/ Complete(r, "dropped") \/ Complete(r, "completed")
               \/ (End(r, "dropped") \/ End(r, "error")) /\ UNCHANGED <<records, indexed>>,
               Elsewhere
        PROVE  Once(m)'
    BY <1>0, <1>1 DEF Complete, End, Waiting, BeforeStore
  <1>2. CASE HeuristicGate(r)
    BY <1>0, <1>1, <1>2 DEF HeuristicGate, Proceed, Waiting, BeforeStore
  <1>3. CASE ExtractNothing(r)
    BY <1>1, <1>3 DEF ExtractNothing, Waiting
  <1>4. CASE StoreEvent(r)
    BY <1>0, <1>4, PipelineAssumption
    DEF StoreEvent, Proceed, Waiting, BeforeStore, StoreInv, LiveLogged, TypeOK
  <1>5. CASE IndexEvent(r)
    BY <1>0, <1>5 DEF IndexEvent, Proceed, Waiting, BeforeStore
  <1>6. CASE FinishStore(r)
    BY <1>0, <1>1, <1>6 DEF FinishStore, Proceed, Waiting, BeforeStore
  <1>7. CASE DueReminderSent(r)
    BY <1>1, <1>7 DEF DueReminderSent, Waiting
  <1>8. CASE Abort(r)
    BY <1>1, <1>8 DEF Abort, Waiting
  <1> QED BY <1>2, <1>3, <1>4, <1>5, <1>6, <1>7, <1>8

LEMMA OnceOutside ==
  ASSUME StoreInv, NEW m \in Messages, Once(m),
         \/ \E e \in Runs : UserStep(e)
         \/ \E c \in Chats : DeleteContact(c)
         \/ CleanupTestData \/ CleanupRecentlyProcessed \/ Crash \/ UNCHANGED vars
  PROVE  Once(m)'
  <1> USE PipelineAssumption DEF Once, Guarded, InWindow, Alone, NoEventYet, EventStands,
        OneGuardedEvent, CompletedOnceIdle, OwnEvent, Live, vars, database, records,
        locals, window, history
  <1>1. ASSUME NEW e \in Runs, NEW s \in UserStatuses, UpdateEventStatus(e, s)
        PROVE  Once(m)'
    BY <1>1 DEF UpdateEventStatus
  <1>2. ASSUME NEW S \in SUBSET Runs, EraseEvents(S), completed' \subseteq completed,
               UNCHANGED <<window, locals>>
        PROVE  Once(m)'
    BY <1>2 DEF EraseEvents, StoreInv, TypeOK, LiveLogged, BeforeStore, Waiting
  <1>3. ASSUME NEW c \in Chats, DeleteContact(c)
        PROVE  Once(m)'
    BY <1>2, <1>3 DEF DeleteContact, EraseMessages, EventsOfChats
  <1>4. CASE CleanupTestData
    <2>1. PICK titled \in SUBSET {e \in Runs : source[e] # None} :
             /\ EraseEvents(titled \union EventsOfChats(TestChats))
             /\ completed' \subseteq completed
             /\ UNCHANGED <<window, locals>>
      BY <1>4 DEF CleanupTestData, EraseMessages
    <2> QED BY <1>2, <2>1 DEF EventsOfChats
  <1>5. ASSUME NEW e \in Runs, DeleteEvent(e)
        PROVE  Once(m)'
    BY <1>5, <1>2 DEF DeleteEvent
  <1>6. CASE CleanupRecentlyProcessed
    BY <1>6 DEF CleanupRecentlyProcessed
  <1>7. CASE Crash
    <2>1. \A r \in Runs : ~Live(r)' /\ pc'[r] \notin BeforeStore
      BY <1>7 DEF Crash, Waiting, BeforeStore
    <2> QED BY <1>7, <2>1 DEF Crash
  <1>8. CASE UNCHANGED vars
    BY <1>8
  <1> QED BY <1>1, <1>3, <1>4, <1>5, <1>6, <1>7, <1>8 DEF UserStep

LEMMA OnceNext ==
  ASSUME NEW m \in Messages
  PROVE  StoreInv /\ Once(m) /\ [Next]_vars => Once(m)'
  BY OnceDeliver, OnceProactive, OnceStages, OnceOutside DEF Next, ServiceStep, PushStep

LEMMA DedupInvInit == Init => DedupInv
  BY StoreInvInit, OnceInit DEF DedupInv

LEMMA DedupInvNext == DedupInv /\ [Next]_vars => DedupInv'
  BY StoreInvNext, OnceNext DEF DedupInv

LEMMA DedupOneEvent == DedupInv => OneEventPerMessage
  BY PipelineAssumption
  DEF DedupInv, StoreInv, TypeOK, Once, Guarded, OneGuardedEvent, OneEventPerMessage

LEMMA DedupSettled == DedupInv => CompletedIsSettled
  BY DEF DedupInv, StoreInv, TypeOK, Once, Guarded, CompletedOnceIdle, CompletedIsSettled

\* Deduplication prevents double processing: for any deliveries, faults and crashes, the
\* event of a run that did not outlive its entry in the window, nor began beside one
\* that did, is the only event of its message.
THEOREM Deduplicated == Spec => []OneEventPerMessage
  BY DedupOneEvent, DedupInvInit, DedupInvNext, PTL DEF Spec

\* pipeline_completed is never up while such a run works on the message.
THEOREM Settled == Spec => []CompletedIsSettled
  BY DedupSettled, DedupInvInit, DedupInvNext, PTL DEF Spec

-----------------------------------------------------------------------------
(* The message path implements Ingestion. *)

\* A step that leaves the rows the promise is about alone is a stutter.
LEMMA Stutters ==
  ASSUME UNCHANGED <<messages, completed, source, unguarded>>
  PROVE  UNCHANGED Promise!vars
  BY DEF Promise!vars, EventsOf

LEMMA PromiseInit == Init => Promise!Init
  BY PipelineAssumption DEF Init, Promise!Init, EventsOf

LEMMA PromiseDeliver ==
  ASSUME DedupInv, NEW m \in Messages, Deliver(m)
  PROVE  [Promise!Next]_Promise!vars
  <1>1. CASE DeliverDuplicate(m) \/ DeliverFails(m) \/ DeliverProcessed(m) \/ DeliverSkipped(m)
    BY <1>1, Stutters DEF DeliverDuplicate, DeliverFails, DeliverProcessed, DeliverSkipped,
       database, records, window
  <1>2. ASSUME NEW r \in Runs, DeliverAccepted(m, r) \/ SubmitTest(m, r)
        PROVE  [Promise!Next]_Promise!vars
    <2>1. EventsOf(m) = {} /\ UNCHANGED source
      BY <1>2, AcceptedUntouched
      DEF DedupInv, Untouched, EventsOf, DeliverAccepted, SubmitTest, Begin
    <2>2. \A n \in Messages : EventsOf(n)' = EventsOf(n)
      BY <2>1 DEF EventsOf
    <2>3. CASE BeginStored(m, r)
      <3>1. Promise!Start(m)
        BY <1>2, <2>1, <2>2, <2>3
        DEF Promise!Start, BeginStored, DeliverAccepted, SubmitTest, Begin
      <3> QED BY <3>1 DEF Promise!Next
    <2>4. CASE BeginFails(m, r) /\ UNCHANGED unguarded
      <3>1. completed' \in {completed, completed \union ({m} \intersect messages)}
        BY <2>4 DEF BeginFails
      <3>2. CASE completed' = completed
        BY <2>1, <2>4, <3>2, Stutters DEF BeginFails
      <3>3. CASE m \in messages /\ completed' = completed \union {m}
        <4>1. Promise!Finish(m)
          BY <2>2, <2>4, <3>3 DEF Promise!Finish, BeginFails
        <4> QED BY <4>1 DEF Promise!Next
      <3> QED BY <3>1, <3>2, <3>3
    <2> QED BY <1>2, <2>3, <2>4 DEF DeliverAccepted, SubmitTest, Begin
  <1> QED BY <1>1, <1>2 DEF Deliver

LEMMA PromiseStages ==
  ASSUME DedupInv, NEW r \in Runs,
         \/ HeuristicGate(r) \/ ExtractNothing(r) \/ StoreEvent(r) \/ IndexEvent(r)
         \/ FinishStore(r) \/ DueReminderSent(r) \/ Abort(r)
  PROVE  [Promise!Next]_Promise!vars
  <1> USE DEF database, records, window, Elsewhere
  <1>0. Live(r) => msg[r] \in Messages
    BY DEF DedupInv, StoreInv, LiveLogged
  <1>1. ASSUME Live(r), Complete(r, "dropped") \/ Complete(r, "completed"), UNCHANGED unguarded
        PROVE  [Promise!Next]_Promise!vars
    <2>1. CASE msg[r] \in messages
      <3>1. Promise!Finish(msg[r])
        BY <1>1, <2>1 DEF Promise!Finish, Complete, EventsOf
      <3> QED BY <1>0, <1>1, <3>1 DEF Promise!Next
    <2>2. CASE msg[r] \notin messages
      BY <1>1, <2>2, Stutters DEF Complete
    <2> QED BY <2>1, <2>2
  <1>2. CASE HeuristicGate(r)
    BY <1>1, <1>2, Stutters DEF HeuristicGate, Live, Waiting
  <1>3. CASE ExtractNothing(r)
    BY <1>1, <1>3 DEF ExtractNothing, Live, Waiting
  <1>4. CASE StoreEvent(r)
    <2> DEFINE m == msg[r]
    <2>1. m \in Messages /\ m \in messages /\ source[r] = None
      BY <1>0, <1>4
      DEF StoreEvent, DedupInv, Live, Waiting, StoreInv, LiveLogged, TypeOK, FreshIds, Fresh,
          BeforeStore
    <2>2. (m \notin completed /\ EventsOf(m) = {}) \/ r \in unguarded
      BY <1>4, <2>1, DedupSettled
      DEF StoreEvent, DedupInv, CompletedIsSettled, Once, Guarded, NoEventYet, Live, Waiting,
          BeforeStore, EventsOf
    <2>3. \A n \in Messages : r \notin EventsOf(n)
      BY <2>1, PipelineAssumption DEF EventsOf
    <2>4. \A n \in Messages : EventsOf(n)' = IF n = m THEN EventsOf(n) \union {r} ELSE EventsOf(n)
      BY <1>4, <2>1, <2>3 DEF StoreEvent, EventsOf, DedupInv, StoreInv, TypeOK
    <2>5. Promise!Create(m, r)
      BY <1>4, <2>1, <2>2, <2>3, <2>4 DEF Promise!Create, StoreEvent
    <2> QED BY <2>1, <2>5 DEF Promise!Next
  <1>5. CASE IndexEvent(r)
    BY <1>5, Stutters DEF IndexEvent
  <1>6. CASE FinishStore(r)
    BY <1>1, <1>6, Stutters DEF FinishStore, Live, Waiting
  <1>7. CASE DueReminderSent(r)
    BY <1>1, <1>7 DEF DueReminderSent, Live, Waiting
  <1>8. CASE Abort(r)
    BY <1>1, <1>8, Stutters DEF Abort, Live, Waiting
  <1> QED BY <1>2, <1>3, <1>4, <1>5, <1>6, <1>7, <1>8

\* Erasing the messages in M, none of which has an event, and the events in S.
LEMMA PromiseErase ==
  ASSUME DedupInv, NEW S \in SUBSET Runs, EraseEvents(S),
         NEW M \in SUBSET Messages, \A m \in M : EventsOf(m) = {},
         messages' = messages \ M, completed' = completed \ M, UNCHANGED unguarded
  PROVE  [Promise!Next]_Promise!vars
  <1>1. \A n \in Messages : EventsOf(n)' = EventsOf(n) \ S
    BY PipelineAssumption DEF EraseEvents, EventsOf, DedupInv, StoreInv, TypeOK
  <1>2. Promise!Remove(S, M)
    BY <1>1 DEF Promise!Remove
  <1> QED BY <1>2 DEF Promise!Next

LEMMA PromiseUser ==
  ASSUME DedupInv,
         \/ \E e \in Runs : DeleteEvent(e)
         \/ \E c \in Chats : DeleteContact(c)
         \/ CleanupTestData
  PROVE  [Promise!Next]_Promise!vars
  <1>1. ASSUME NEW e \in Runs, DeleteEvent(e)
        PROVE  [Promise!Next]_Promise!vars
    <2> DEFINE S == {e}
               M == {}
    <2>1. S \in SUBSET Runs /\ EraseEvents(S)
      BY <1>1 DEF DeleteEvent
    <2>2. /\ M \in SUBSET Messages /\ \A m \in M : EventsOf(m) = {}
          /\ messages' = messages \ M /\ completed' = completed \ M
          /\ UNCHANGED unguarded
      BY <1>1 DEF DeleteEvent, window
    <2> HIDE DEF S, M
    <2> QED BY <2>1, <2>2, PromiseErase
  <1>2. ASSUME NEW M \in SUBSET messages, M \intersect logged = {}
        PROVE  M \in SUBSET Messages /\ \A m \in M : EventsOf(m) = {}
    BY <1>2, PipelineAssumption
    DEF DedupInv, StoreInv, TypeOK, EventsLogged, EventsOf
  <1>3. ASSUME NEW c \in Chats, DeleteContact(c)
        PROVE  [Promise!Next]_Promise!vars
    <2>1. MessagesOf({c}) \in SUBSET messages /\ EventsOfChats({c}) \in SUBSET Runs
      BY DEF MessagesOf, EventsOfChats
    <2> QED BY <1>2, <1>3, <2>1, PromiseErase DEF DeleteContact, EraseMessages, window
  <1>4. CASE CleanupTestData
    <2> DEFINE M == MessagesOf(TestChats) \union (messages \intersect TestTexts)
    <2>1. PICK titled \in SUBSET {e \in Runs : source[e] # None} :
             /\ M \intersect logged = {}
             /\ EraseEvents(titled \union EventsOfChats(TestChats))
             /\ EraseMessages(M, TestChats)
      BY <1>4 DEF CleanupTestData
    <2>2. M \in SUBSET messages /\ titled \union EventsOfChats(TestChats) \in SUBSET Runs
      BY DEF MessagesOf, EventsOfChats
    <2>3. M \in SUBSET Messages /\ \A m \in M : EventsOf(m) = {}
      BY <1>2, <2>1, <2>2
    <2>4. messages' = messages \ M /\ completed' = completed \ M /\ UNCHANGED unguarded
      BY <2>1 DEF EraseMessages, window
    <2> HIDE DEF M
    <2> QED BY <2>1, <2>2, <2>3, <2>4, PromiseErase
  <1> QED BY <1>1, <1>3, <1>4

LEMMA PromiseNext == DedupInv /\ [Next]_vars => [Promise!Next]_Promise!vars
  <1> SUFFICES ASSUME DedupInv, [Next]_vars
               PROVE  [Promise!Next]_Promise!vars
    OBVIOUS
  <1>1. ASSUME NEW r \in Runs,
               SelectMatches(r) \/ GeminiAnswers(r) \/ ReminderSent(r) \/ MarkFails(r)
        PROVE  [Promise!Next]_Promise!vars
    BY <1>1, RemindsBeforeStore, Stutters DEF DedupInv, window
  <1>2. ASSUME NEW e \in Runs, NEW s \in UserStatuses, UpdateEventStatus(e, s)
        PROVE  [Promise!Next]_Promise!vars
    BY <1>2, Stutters DEF UpdateEventStatus, window
  <1>3. CASE CleanupRecentlyProcessed
    <2>1. PICK S \in SUBSET Runs : unguarded' = unguarded \union S
      BY <1>3 DEF CleanupRecentlyProcessed
    <2>2. Promise!Forget(S)
      BY <1>3, <2>1 DEF CleanupRecentlyProcessed, Promise!Forget, EventsOf, database, records
    <2> QED BY <2>2 DEF Promise!Next
  <1>4. CASE Crash \/ UNCHANGED vars
    BY <1>4, Stutters DEF Crash, vars, database, records, window
  <1> QED BY <1>1, <1>2, <1>3, <1>4, PromiseDeliver, PromiseStages, PromiseUser
          DEF Next, ServiceStep, PushStep, UserStep

\* The whole message path implements Ingestion: work only starts on messages
\* without an event, and what a guarded run stores is the first event of an
\* unfinished message.
THEOREM Implements == Spec => KeepsPromise
  BY PromiseInit, PromiseNext, DedupInvInit, DedupInvNext, PTL DEF Spec, KeepsPromise, Promise!Spec

-----------------------------------------------------------------------------
(* One message at a time. *)

\* The step does not take from the window the message of a run that goes on.
KeepsEntry(m) ==
    m \in recentlyProcessed /\ m \in LiveMessages' => m \in recentlyProcessed'

OneEvent(m) == \A d, e \in Runs : source[d] = m /\ source[e] = m => d = e

\* No run of m, and no run that made an event of m, is unguarded.
AllGuarded(m) ==
    \A r \in unguarded : pc[r] # "idle" /\ source[r] # m /\ (Live(r) => msg[r] # m)

LEMMA AllGuardedInit == ASSUME NEW m \in Messages PROVE Init => AllGuarded(m)
  BY DEF Init, AllGuarded

LEMMA AllGuardedNext ==
  ASSUME NEW m \in Messages
  PROVE  StoreInv /\ Once(m) /\ AllGuarded(m) /\ [Next]_vars /\ [KeepsEntry(m)]_vars
           => AllGuarded(m)'
  <1> SUFFICES ASSUME StoreInv, Once(m), AllGuarded(m), [Next]_vars, [KeepsEntry(m)]_vars
               PROVE  AllGuarded(m)'
    OBVIOUS
  <1> USE PipelineAssumption DEF AllGuarded, Live, database, records, locals, window, history
  <1>0. /\ pc \in [Runs -> {"idle"} \union Waiting \union Ended]
        /\ msg \in [Runs -> Messages \union {None}]
        /\ source \in [Runs -> Messages \union {None}]
        /\ unguarded \subseteq Runs
    BY DEF StoreInv, TypeOK
  <1>1. ASSUME NEW n \in Messages,
               DeliverDuplicate(n) \/ DeliverFails(n) \/ DeliverProcessed(n) \/ DeliverSkipped(n)
        PROVE  AllGuarded(m)'
    BY <1>1 DEF DeliverDuplicate, DeliverFails, DeliverProcessed, DeliverSkipped
  <1>2. ASSUME NEW n \in Messages, NEW r \in Runs, DeliverAccepted(n, r) \/ SubmitTest(n, r)
        PROVE  AllGuarded(m)'
    <2>1. pc[r] = "idle" /\ source[r] = None /\ UNCHANGED source
      BY <1>2 DEF DeliverAccepted, SubmitTest, Begin, StoreInv, FreshIds, Fresh
    <2>2. CASE BeginStored(n, r) /\ unguarded' = unguarded \union BesideUnguarded(n, r)
      BY <1>0, <2>1, <2>2 DEF BeginStored, BesideUnguarded, Waiting
    <2>3. CASE BeginFails(n, r) /\ UNCHANGED unguarded
      BY <1>0, <2>1, <2>3 DEF BeginFails, Waiting
    <2> QED BY <1>2, <2>2, <2>3 DEF DeliverAccepted, SubmitTest, Begin
  <1>3. ASSUME NEW r \in Runs,
               SelectMatches(r) \/ GeminiAnswers(r) \/ ReminderSent(r) \/ MarkFails(r)
        PROVE  AllGuarded(m)'
    <2>1. /\ pc[r] \in BeforeStore /\ pc'[r] \in BeforeStore
          /\ \A q \in Runs : q # r => pc'[q] = pc[q]
          /\ UNCHANGED <<source, unguarded, msg>>
      BY <1>3, RemindsBeforeStore
    <2>2. \A q \in Runs : (Live(q)' <=> Live(q)) /\ (pc'[q] = "idle" <=> pc[q] = "idle")
      BY <2>1 DEF BeforeStore, Waiting
    <2> QED BY <1>0, <2>1, <2>2
  <1>4. ASSUME NEW r \in Runs,
               \/ HeuristicGate(r) \/ ExtractNothing(r) \/ IndexEvent(r) \/ FinishStore(r)
               \/ DueReminderSent(r) \/ Abort(r)
        PROVE  AllGuarded(m)'
    <2>1. /\ Live(r) /\ UNCHANGED <<source, unguarded>>
          /\ \A q \in Runs \ {r} : pc'[q] = pc[q] /\ msg'[q] = msg[q]
      BY <1>0, <1>4 DEF HeuristicGate, ExtractNothing, IndexEvent, FinishStore,
         DueReminderSent, Abort, Complete, End, Proceed, Elsewhere, Waiting
    <2>2. pc'[r] # "idle" /\ (Live(r)' => msg'[r] = msg[r])
      BY <1>0, <1>4 DEF HeuristicGate, ExtractNothing, IndexEvent, FinishStore,
         DueReminderSent, Abort, Complete, End, Proceed, Elsewhere, Waiting
    <2> QED BY <1>0, <2>1, <2>2
  <1>5. ASSUME NEW r \in Runs, StoreEvent(r)
        PROVE  AllGuarded(m)'
    BY <1>0, <1>5 DEF StoreEvent, Proceed, Elsewhere, Waiting
  <1>6. ASSUME NEW S, EraseEvents(S), UNCHANGED <<window, locals>>
        PROVE  AllGuarded(m)'
    BY <1>0, <1>6 DEF EraseEvents
  <1>7. ASSUME \/ \E e \in Runs : UserStep(e)
               \/ \E c \in Chats : DeleteContact(c)
               \/ CleanupTestData
        PROVE  AllGuarded(m)'
    <2>1. CASE \E e \in Runs, s \in UserStatuses : UpdateEventStatus(e, s)
      BY <2>1 DEF UpdateEventStatus
    <2> QED BY <1>6, <1>7, <2>1
           DEF UserStep, DeleteEvent, DeleteContact, CleanupTestData, EraseMessages
  <1>8. CASE CleanupRecentlyProcessed
    <2>1. PICK old \in SUBSET recentlyProcessed :
             /\ recentlyProcessed' = recentlyProcessed \ old
             /\ unguarded' = unguarded \union {r \in Runs : Live(r) /\ msg[r] \in old}
             /\ UNCHANGED <<database, locals>>
      BY <1>8 DEF CleanupRecentlyProcessed
    <2>2. m \in old => m \notin LiveMessages
      BY <2>1 DEF KeepsEntry, LiveMessages, vars
    <2>3. \A r \in Runs : Live(r) /\ msg[r] \in old => pc[r] # "idle" /\ msg[r] # m /\ source[r] # m
      BY <2>2 DEF LiveMessages, Waiting, Once, OwnEvent
    <2> QED BY <2>1, <2>3
  <1>9. CASE Crash \/ UNCHANGED vars
    BY <1>0, <1>9 DEF Crash, vars, Waiting
  <1> QED BY <1>1, <1>2, <1>3, <1>4, <1>5, <1>7, <1>8, <1>9
          DEF Next, Deliver, ServiceStep, PushStep

\* Deduplication of one message, whatever the runs of the others do: if no run of it
\* outlives its entry in the window, it never has two events, for any deliveries,
\* faults and crashes.  The hypothesis is about this message alone, so a slow run
\* of one message costs no other message its guarantee.
THEOREM WindowProtects ==
  ASSUME NEW m \in Messages
  PROVE  Spec /\ [][KeepsEntry(m)]_vars => []OneEvent(m)
  <1>1. Init => Once(m) /\ AllGuarded(m)
    BY OnceInit, AllGuardedInit
  <1>2. StoreInv /\ Once(m) /\ AllGuarded(m) /\ [Next]_vars /\ [KeepsEntry(m)]_vars
          => Once(m)' /\ AllGuarded(m)'
    BY OnceNext, AllGuardedNext
  <1>3. Once(m) /\ AllGuarded(m) => OneEvent(m)
    BY DEF Once, OneGuardedEvent, Guarded, AllGuarded, OneEvent
  <1> QED BY <1>1, <1>2, <1>3, StoreInvInit, StoreInvNext, PTL DEF Spec

=============================================================================
