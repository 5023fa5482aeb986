--------------------------- MODULE PipelineProofs ---------------------------
(***************************************************************************)
(* Proofs about Pipeline, for every set of messages and runs and every     *)
(* bound.  The parts of the inductive invariant come first, each with the  *)
(* steps that rely on it.                                                  *)
(***************************************************************************)
EXTENDS Pipeline, TLAPS

\* A run that has not stored an event yet has not used its event id.
Fresh(r) == pc[r] = "idle" \/ pc[r] \in BeforeStore

FreshIds == \A r \in Runs : Fresh(r) => source[r] = None

\* A live run has a message; past the gate the message has a log, which keeps the
\* user from deleting it.
LiveLogged ==
    \A r \in Runs :
        /\ Live(r) => msg[r] \in Messages
        /\ pc[r] \in {"extract", "vector", "stored", "notify"} => msg[r] \in logged

\* So does the message of every event.
EventsLogged == \A e \in Runs : source[e] # None => source[e] \in logged

\* The foreign key of messages: a stored message's chat is a contact.
MessagesHaveContact == \A m \in messages : ChatOf[m] \in contacts

\* The test endpoint's ids are not used before it draws them.
TestIdsFresh ==
    \A m \in TestMessages : deliveries[m] = 0 =>
        m \notin messages /\ \A r \in Runs : Live(r) => msg[r] # m

\* What holds however runs overlap.
StoreInv ==
    /\ TypeOK
    /\ FreshIds
    /\ LiveLogged
    /\ EventsLogged
    /\ MessagesHaveContact
    /\ TestIdsFresh

\* Logs refer to messages and messages to contacts: so do events.
LEMMA Origins == StoreInv => EventsHaveOrigin
  BY DEF StoreInv, TypeOK, EventsLogged, MessagesHaveContact, EventsHaveOrigin

-----------------------------------------------------------------------------
LEMMA StoreInvInit == Init => StoreInv
  BY PipelineAssumption
  DEF Init, StoreInv, TypeOK, FreshIds, LiveLogged, EventsLogged, MessagesHaveContact,
      TestIdsFresh, Live, Waiting, Statuses

LEMMA StoreInvDeliver ==
  ASSUME StoreInv, NEW m \in Messages, Deliver(m)
  PROVE  StoreInv'
  <1> USE PipelineAssumption DEF StoreInv, FreshIds, LiveLogged, EventsLogged,
        MessagesHaveContact, TestIdsFresh, Live, Fresh, Answer, vars, database, records, locals,
        window, history
  <1>1. CASE DeliverDuplicate(m)
    BY <1>1 DEF DeliverDuplicate, TypeOK, Answers
  <1>2. CASE DeliverFails(m)
    BY <1>2 DEF DeliverFails, TypeOK, Answers
  <1>3. CASE DeliverProcessed(m)
    BY <1>3 DEF DeliverProcessed, TypeOK, Answers
  <1>4. CASE DeliverSkipped(m)
    BY <1>4 DEF DeliverSkipped, TypeOK, Answers
  <1>5. ASSUME NEW r \in Runs, Begin(m, r),
               deliveries' = [deliveries EXCEPT ![m] = @ + 1],
               answers' \in [Messages -> SUBSET Answers],
               recentlyProcessed' \subseteq Messages
        PROVE  StoreInv'
    <2>0. unguarded' \subseteq Runs
      BY <1>5 DEF Begin, BesideUnguarded, TypeOK
    <2>1. CASE BeginStored(m, r)
      BY <1>5, <2>0, <2>1 DEF Begin, BeginStored, UpsertContact, Throws, Cost, TypeOK, Waiting,
         BeforeStore, Ended
    <2>2. CASE BeginFails(m, r)
      BY <1>5, <2>0, <2>2 DEF Begin, BeginFails, UpsertContact, Throws, Cost, TypeOK, Waiting,
         BeforeStore, Ended
    <2> QED BY <1>5, <2>1, <2>2 DEF Begin
  <1>6. ASSUME NEW r \in Runs, DeliverAccepted(m, r)
        PROVE  StoreInv'
    BY <1>5, <1>6 DEF DeliverAccepted, TypeOK, Answers
  <1>7. ASSUME NEW r \in Runs, SubmitTest(m, r)
        PROVE  StoreInv'
    BY <1>5, <1>7 DEF SubmitTest, TypeOK
  <1> QED BY <1>1, <1>2, <1>3, <1>4, <1>6, <1>7 DEF Deliver

LEMMA RemindTypes ==
  ASSUME TypeOK, NEW r \in Runs, NEW S \in SUBSET Runs, Remind(r, S)
  PROVE  /\ pc' \in [Runs -> {"idle"} \union Waiting \union Ended]
         /\ matches' \in [Runs -> SUBSET Runs]
         /\ sending' \in [Runs -> Runs \union {None}]
         /\ notified' \in [Runs -> Nat]
         /\ pc'[r] \in {"gate", "send"}
         /\ \A q \in Runs : q # r => pc'[q] = pc[q]
  BY DEF TypeOK, Remind, Waiting, Ended

LEMMA OfferTypes ==
  ASSUME TypeOK, NEW r \in Runs, NEW S \in SUBSET Runs, Offer(r, S)
  PROVE  /\ pc' \in [Runs -> {"idle"} \union Waiting \union Ended]
         /\ matches' \in [Runs -> SUBSET Runs]
         /\ pc'[r] = "gemini"
         /\ \A q \in Runs : q # r => pc'[q] = pc[q]
         /\ UNCHANGED <<sending, notified>>
  BY DEF TypeOK, Offer, Waiting

\* Logs are only added, and only to messages that are there.
LEMMA LogGrows ==
  ASSUME TypeOK, NEW r \in Runs, Log(r) \/ UNCHANGED logged
  PROVE  logged \subseteq logged' /\ logged' \subseteq messages
  BY DEF TypeOK, Log

\* The outcomes of the search: open events are reminded of or offered to Gemini.
LEMMA SelectOutcomes ==
  ASSUME TypeOK, NEW r \in Runs, SelectMatches(r)
  PROVE  /\ pc[r] = "embed"
         /\ \E S \in SUBSET OpenEvents : Remind(r, S) \/ Offer(r, S)
         /\ logged \subseteq logged' /\ logged' \subseteq messages
         /\ UNCHANGED <<records, indexed, window, msg, answers, deliveries, deleted,
                        faults, crashes>>
  <1>1. Log(r) \/ UNCHANGED logged
    BY DEF SelectMatches
  <1> QED BY <1>1, LogGrows DEF SelectMatches

LEMMA StoreInvProactive ==
  ASSUME StoreInv, NEW r \in Runs,
         SelectMatches(r) \/ GeminiAnswers(r) \/ ReminderSent(r) \/ MarkFails(r)
  PROVE  StoreInv'
  <1> USE PipelineAssumption DEF StoreInv, FreshIds, LiveLogged, EventsLogged,
        MessagesHaveContact, TestIdsFresh, Live, Fresh, vars, database, records, locals, window,
        history
  <1>1. CASE SelectMatches(r)
    <2> USE <1>1, SelectOutcomes
    <2>1. ASSUME NEW S \in SUBSET Runs, Remind(r, S)
          PROVE  StoreInv'
      BY <2>1, RemindTypes DEF TypeOK, Waiting, BeforeStore
    <2>2. ASSUME NEW S \in SUBSET Runs, Offer(r, S)
          PROVE  StoreInv'
      BY <2>2, OfferTypes DEF TypeOK, Waiting, BeforeStore
    <2> QED BY <2>1, <2>2 DEF OpenEvents
  <1>2. CASE GeminiAnswers(r)
    <2>1. PICK S \in SUBSET Runs : Remind(r, S)
      BY <1>2 DEF GeminiAnswers, TypeOK
    <2> QED BY <1>2, <2>1, RemindTypes DEF GeminiAnswers, TypeOK, Waiting, BeforeStore
  <1>3. CASE ReminderSent(r)
    <2>1. Remind(r, matches[r]) /\ matches[r] \in SUBSET Runs
      BY <1>3 DEF ReminderSent, TypeOK
    <2>2. triggerCount' \in [Runs -> Nat]
      <3>1. triggerCount \in [Runs -> Nat] /\ MarkTriggered(sending[r])
        BY <1>3 DEF ReminderSent, TypeOK
      <3>2. \A x : [triggerCount EXCEPT ![x] = @ + 1]
                       = [y \in Runs |-> IF y = x THEN triggerCount[x] + 1 ELSE triggerCount[y]]
        BY <3>1, Zenon
      <3>3. \A x, y : y \in Runs /\ y = x => triggerCount[x] + 1 \in Nat
        BY <3>1
      <3> QED BY <3>1, <3>2, <3>3 DEF MarkTriggered
    <2> QED BY <1>3, <2>1, <2>2, RemindTypes DEF ReminderSent, TypeOK, Waiting, BeforeStore
  <1>4. CASE MarkFails(r)
    <2>1. Remind(r, {}) /\ {} \in SUBSET Runs
      BY <1>4 DEF MarkFails
    <2>2. faults' \in Nat
      BY <1>4 DEF MarkFails, Throws, TypeOK
    <2> QED BY <1>4, <2>1, <2>2, RemindTypes DEF MarkFails, TypeOK, Waiting, BeforeStore
  <1> QED BY <1>1, <1>2, <1>3, <1>4

\* The proactive check keeps its run before the store and touches neither the
\* runs' messages nor the events' origins.
LEMMA RemindsBeforeStore ==
  ASSUME StoreInv, NEW r \in Runs,
         SelectMatches(r) \/ GeminiAnswers(r) \/ ReminderSent(r) \/ MarkFails(r)
  PROVE  /\ pc[r] \in BeforeStore /\ pc'[r] \in BeforeStore
         /\ \A q \in Runs : q # r => pc'[q] = pc[q]
         /\ UNCHANGED <<contacts, messages, completed, source, window, msg>>
  <1> USE DEF database, records, BeforeStore
  <1>1. OpenEvents \in SUBSET Runs /\ \A S \in SUBSET matches[r] : S \in SUBSET Runs
    BY DEF OpenEvents, StoreInv, TypeOK
  <1>2. CASE SelectMatches(r)
    <2>1. PICK S \in SUBSET Runs : Remind(r, S) \/ Offer(r, S)
      BY <1>1, <1>2, SelectOutcomes DEF StoreInv
    <2> QED BY <1>2, <2>1, SelectOutcomes, RemindTypes, OfferTypes DEF StoreInv
  <1>3. CASE GeminiAnswers(r)
    BY <1>1, <1>3, RemindTypes DEF GeminiAnswers, StoreInv
  <1>4. CASE ReminderSent(r)
    BY <1>1, <1>4, RemindTypes DEF ReminderSent, StoreInv
  <1>5. CASE MarkFails(r)
    BY <1>5, RemindTypes DEF MarkFails, StoreInv
  <1> QED BY <1>2, <1>3, <1>4, <1>5

LEMMA StoreInvStages ==
  ASSUME StoreInv, NEW r \in Runs,
         \/ HeuristicGate(r) \/ ExtractNothing(r) \/ StoreEvent(r) \/ IndexEvent(r)
         \/ FinishStore(r) \/ DueReminderSent(r) \/ Abort(r)
  PROVE  StoreInv'
  <1> USE PipelineAssumption DEF StoreInv, FreshIds, LiveLogged, EventsLogged,
        MessagesHaveContact, TestIdsFresh, Live, Fresh, database, records, window, Elsewhere
  <1>1. ASSUME Live(r),
               \/ Complete(r, "dropped") \/ Complete(r, "completed")
               \/ /\ End(r, "dropped") \/ End(r, "error")
                  /\ UNCHANGED <<records, indexed>>,
               Log(r) \/ UNCHANGED logged, Elsewhere, faults' \in Nat
        PROVE  StoreInv'
    BY <1>1, LogGrows DEF Complete, End, TypeOK, Waiting, BeforeStore, Ended
  <1>2. CASE HeuristicGate(r)
    <2>1. CASE Log(r) /\ Proceed(r, "extract") /\ UNCHANGED <<records, indexed>>
      <3>1. msg[r] \in logged' /\ logged \subseteq logged' /\ logged' \subseteq messages
        BY <2>1, LogGrows DEF Log
      <3> QED BY <1>2, <2>1, <3>1 DEF HeuristicGate, Proceed, TypeOK, Waiting, BeforeStore
    <2>2. Live(r) /\ faults' \in Nat
      BY <1>2 DEF HeuristicGate, TypeOK, Waiting
    <2> QED BY <1>1, <1>2, <2>1, <2>2 DEF HeuristicGate
  <1>3. CASE ExtractNothing(r)
    BY <1>1, <1>3 DEF ExtractNothing, TypeOK, Waiting
  <1>4. CASE StoreEvent(r)
    BY <1>4 DEF StoreEvent, Proceed, TypeOK, Waiting, BeforeStore, Statuses
  <1>5. CASE IndexEvent(r)
    BY <1>5 DEF IndexEvent, Proceed, TypeOK, Waiting, BeforeStore
  <1>6. CASE FinishStore(r)
    BY <1>1, <1>6 DEF FinishStore, Proceed, TypeOK, Waiting, BeforeStore
  <1>7. CASE DueReminderSent(r)
    BY <1>1, <1>7 DEF DueReminderSent, TypeOK, Waiting
  <1>8. CASE Abort(r)
    BY <1>1, <1>8 DEF Abort, Throws, TypeOK, Waiting
  <1> QED BY <1>2, <1>3, <1>4, <1>5, <1>6, <1>7, <1>8

LEMMA StoreInvOutside ==
  ASSUME StoreInv,
         \/ \E e \in Runs : UserStep(e)
         \/ \E c \in Chats : DeleteContact(c)
         \/ CleanupTestData \/ CleanupRecentlyProcessed \/ Crash \/ UNCHANGED vars
  PROVE  StoreInv'
  <1> USE PipelineAssumption DEF StoreInv, FreshIds, LiveLogged, EventsLogged,
        MessagesHaveContact, TestIdsFresh, Live, Fresh, vars, database, records, locals, window,
        history
  <1>1. ASSUME NEW e \in Runs, NEW s \in UserStatuses, UpdateEventStatus(e, s)
        PROVE  StoreInv'
    BY <1>1 DEF UpdateEventStatus, TypeOK, Statuses
  <1>2. ASSUME NEW e \in Runs, DeleteEvent(e)
        PROVE  StoreInv'
    BY <1>2 DEF DeleteEvent, EraseEvents, TypeOK, Statuses
  <1>3. ASSUME NEW M \in SUBSET Messages, NEW C \in SUBSET Chats, NEW S \in SUBSET Runs,
               EraseEvents(S), EraseMessages(M, C),
               M \intersect logged = {}, MessagesOf(C) \subseteq M
        PROVE  StoreInv'
    BY <1>3 DEF EraseEvents, EraseMessages, MessagesOf, TypeOK, Statuses
  <1>4. ASSUME NEW c \in Chats, DeleteContact(c)
        PROVE  StoreInv'
    <2>1. MessagesOf({c}) \in SUBSET Messages /\ EventsOfChats({c}) \in SUBSET Runs
      BY DEF MessagesOf, EventsOfChats, TypeOK
    <2> QED BY <1>3, <1>4, <2>1 DEF DeleteContact
  <1>5. CASE CleanupTestData
    <2>1. PICK titled \in SUBSET {e \in Runs : source[e] # None} :
             LET M == MessagesOf(TestChats) \union (messages \intersect TestTexts)
             IN  /\ M \intersect logged = {}
                 /\ EraseEvents(titled \union EventsOfChats(TestChats))
                 /\ EraseMessages(M, TestChats)
      BY <1>5 DEF CleanupTestData
    <2> DEFINE M == MessagesOf(TestChats) \union (messages \intersect TestTexts)
               S == titled \union EventsOfChats(TestChats)
    <2>2. M \in SUBSET Messages /\ S \in SUBSET Runs
      BY DEF MessagesOf, EventsOfChats, TypeOK
    <2>3. MessagesOf(TestChats) \subseteq M
      OBVIOUS
    <2> QED BY <1>3, <2>1, <2>2, <2>3
  <1>6. CASE CleanupRecentlyProcessed
    BY <1>6 DEF CleanupRecentlyProcessed, TypeOK
  <1>7. CASE Crash
    BY <1>7 DEF Crash, TypeOK, Waiting, BeforeStore, Ended
  <1>8. CASE UNCHANGED vars
    BY <1>8 DEF TypeOK
  <1> QED BY <1>1, <1>2, <1>4, <1>5, <1>6, <1>7, <1>8 DEF UserStep

LEMMA StoreInvNext == StoreInv /\ [Next]_vars => StoreInv'
  BY StoreInvDeliver, StoreInvProactive, StoreInvStages, StoreInvOutside
  DEF Next, ServiceStep, PushStep

\* However runs overlap, fail and crash, the state keeps its types.
THEOREM TypeCorrect == Spec => []TypeOK
  <1>1. StoreInv => TypeOK
    BY DEF StoreInv
  <1> QED BY <1>1, StoreInvInit, StoreInvNext, PTL DEF Spec

\* An event's message and its chat's contact are never missing (the foreign keys
\* of the events table), with any number of runs, faults and crashes.
THEOREM OriginKept == Spec => []EventsHaveOrigin
  BY Origins, StoreInvInit, StoreInvNext, PTL DEF Spec

-----------------------------------------------------------------------------
(* What faults and crashes can and cannot cost, for any overlap of runs: the
   acknowledged messages, the completion flags and the marks of reminders. *)


\* While no statement has thrown, what is in the window is stored or was deleted.
WindowStored == recentlyProcessed \subseteq messages \union deleted \union Skipped

AckInv ==
    /\ StoreInv
    /\ faults = 0 => WindowStored /\ AllMessagesStored

SettleInv ==
    /\ StoreInv
    /\ IncompleteNeedsCrash

\* An event that has no row yet has not been reminded of, nor is it about to be.
FreshUnseen ==
    \A e \in Runs : Fresh(e) =>
        /\ notified[e] = 0
        /\ \A r \in Runs : e \notin matches[r] /\ sending[r] # e

\* A run sends a reminder exactly while it waits for the push.
SendingAtPush == \A r \in Runs : sending[r] # None => pc[r] = "send"

RemindInv ==
    /\ StoreInv
    /\ FreshUnseen
    /\ SendingAtPush
    /\ ReminderIsMarked

-----------------------------------------------------------------------------
(* Acknowledged messages. *)

LEMMA AckInvInit == Init => AckInv
  BY StoreInvInit DEF Init, AckInv, WindowStored, AllMessagesStored, Acknowledged

LEMMA AckInvNext == AckInv /\ [Next]_vars => AckInv'
  <1> SUFFICES ASSUME AckInv, [Next]_vars, faults' = 0
               PROVE  WindowStored' /\ AllMessagesStored'
    BY StoreInvNext DEF AckInv
  <1> USE PipelineAssumption DEF WindowStored, AllMessagesStored, Acknowledged
  <1>0. /\ TypeOK /\ TypeOK'
        /\ faults' = faults + 1 \/ faults' = faults + 2 => FALSE
    BY StoreInvNext DEF AckInv, StoreInv, TypeOK
  <1>1. ASSUME NEW m \in Messages, Deliver(m)
        PROVE  WindowStored' /\ AllMessagesStored'
    <2>1. CASE DeliverDuplicate(m)
      BY <1>0, <2>1 DEF DeliverDuplicate, Answer, AckInv, TypeOK, database, records, window
    <2>2. CASE DeliverFails(m)
      BY <1>0, <2>2 DEF DeliverFails
    <2>3. CASE DeliverProcessed(m)
      BY <1>0, <2>3 DEF DeliverProcessed, Answer, AckInv, TypeOK, database, records
    <2>4. CASE DeliverSkipped(m)
      BY <1>0, <2>4 DEF DeliverSkipped, Answer, AckInv, TypeOK, database, records
    <2>5. ASSUME NEW r \in Runs, Begin(m, r)
          PROVE  faults = 0 /\ messages' = messages \union {m} /\ deleted' = deleted
      <3>1. CASE BeginStored(m, r)
        BY <1>0, <2>5, <3>1 DEF Begin, BeginStored, Throws, Cost, TypeOK
      <3>2. CASE BeginFails(m, r)
        <4>1. PICK contactOK \in BOOLEAN, caught \in BOOLEAN :
                 /\ UpsertContact(m, contactOK)
                 /\ Throws(Cost(contactOK) + Cost(ChatOf[m] \notin contacts') + Cost(caught))
          BY <3>2 DEF BeginFails
        <4>2. Cost(contactOK) = 1 \/ Cost(ChatOf[m] \notin contacts') = 1
          BY <4>1 DEF UpsertContact, Cost
        <4>3. \A b : Cost(b) \in {0, 1}
          BY DEF Cost
        <4> QED BY <1>0, <4>1, <4>2, <4>3 DEF Throws, TypeOK
      <3> QED BY <2>5, <3>1, <3>2 DEF Begin
    <2>6. ASSUME NEW r \in Runs, DeliverAccepted(m, r)
          PROVE  WindowStored' /\ AllMessagesStored'
      BY <1>0, <2>5, <2>6 DEF DeliverAccepted, Answer, AckInv, TypeOK
    <2>7. ASSUME NEW r \in Runs, SubmitTest(m, r)
          PROVE  WindowStored' /\ AllMessagesStored'
      BY <1>0, <2>5, <2>7 DEF SubmitTest, AckInv, TypeOK
    <2> QED BY <1>1, <2>1, <2>2, <2>3, <2>4, <2>6, <2>7 DEF Deliver
  <1>2. ASSUME messages \union deleted \subseteq messages' \union deleted',
               UNCHANGED answers, faults' # 0 \/ faults' = faults,
               recentlyProcessed' \subseteq recentlyProcessed
        PROVE  WindowStored' /\ AllMessagesStored'
    BY <1>2 DEF AckInv
  <1>3. ASSUME NEW r \in Runs, ServiceStep(r) \/ PushStep(r)
        PROVE  WindowStored' /\ AllMessagesStored'
    <2>1. UNCHANGED <<messages, deleted, answers, recentlyProcessed>>
      BY <1>3 DEF ServiceStep, PushStep, SelectMatches, GeminiAnswers, ReminderSent, MarkFails,
         HeuristicGate, ExtractNothing, StoreEvent, IndexEvent, FinishStore, DueReminderSent, Abort,
         Complete, Elsewhere, database, records, window
    <2>2. faults' = faults \/ faults' = faults + 1 \/ faults' = faults + 2
      BY <1>3 DEF ServiceStep, PushStep, SelectMatches, GeminiAnswers, ReminderSent, MarkFails,
         HeuristicGate, ExtractNothing, StoreEvent, IndexEvent, FinishStore, DueReminderSent, Abort,
         Throws
    <2> QED BY <1>0, <1>2, <2>1, <2>2
  <1>4. CASE (\E e \in Runs : UserStep(e)) \/ CleanupRecentlyProcessed \/ Crash \/ UNCHANGED vars
    BY <1>2, <1>4 DEF UserStep, UpdateEventStatus, DeleteEvent, CleanupRecentlyProcessed, Crash,
       vars, database, records, window, history
  <1>5. ASSUME NEW M, NEW C, EraseMessages(M, C)
        PROVE  WindowStored' /\ AllMessagesStored'
    BY <1>2, <1>5 DEF EraseMessages, window
  <1>6. CASE (\E c \in Chats : DeleteContact(c)) \/ CleanupTestData
    BY <1>5, <1>6 DEF DeleteContact, CleanupTestData
  <1> QED BY <1>1, <1>3, <1>4, <1>6 DEF Next

\* Without a throwing statement, every message the webhook acknowledged is stored
\* until the user deletes it, whatever crashes, duplicates and redeliveries there are.
THEOREM NothingLost == Spec => []StoredUnlessFault
  <1>1. AckInv => StoredUnlessFault
    BY DEF AckInv, StoredUnlessFault
  <1> QED BY <1>1, AckInvInit, AckInvNext, PTL DEF Spec

-----------------------------------------------------------------------------
(* Completion flags. *)

LEMMA SettleInvInit == Init => SettleInv
  BY StoreInvInit DEF Init, SettleInv, IncompleteNeedsCrash

LEMMA SettleInvNext == SettleInv /\ [Next]_vars => SettleInv'
  <1> SUFFICES ASSUME SettleInv, [Next]_vars
               PROVE  IncompleteNeedsCrash'
    BY StoreInvNext DEF SettleInv
  <1> USE DEF IncompleteNeedsCrash, LiveMessages, Live
  <1>0. TypeOK /\ TypeOK'
    BY StoreInvNext DEF SettleInv, StoreInv
  <1>1. ASSUME UNCHANGED messages, completed \subseteq completed',
               faults' >= faults, crashes' >= crashes,
               \A q \in Runs : Live(q) => Live(q)' /\ msg'[q] = msg[q]
        PROVE  IncompleteNeedsCrash'
    BY <1>0, <1>1 DEF SettleInv, TypeOK
  <1>2. ASSUME NEW m \in Messages, Deliver(m)
        PROVE  IncompleteNeedsCrash'
    <2>1. CASE DeliverDuplicate(m) \/ DeliverFails(m) \/ DeliverProcessed(m) \/ DeliverSkipped(m)
      BY <1>0, <1>1, <2>1 DEF DeliverDuplicate, DeliverFails, DeliverProcessed, DeliverSkipped,
         database, records, locals, TypeOK
    <2>2. ASSUME NEW r \in Runs, Begin(m, r)
          PROVE  IncompleteNeedsCrash'
      <3>1. CASE BeginStored(m, r)
        <4>1. Live(r)' /\ msg'[r] = m
          BY <1>0, <3>1 DEF BeginStored, TypeOK, Waiting
        <4>2. \A q \in Runs : Live(q) => Live(q)' /\ msg'[q] = msg[q]
          BY <1>0, <2>2, <3>1 DEF Begin, BeginStored, TypeOK, Waiting
        <4>3. faults' >= faults /\ crashes' = crashes
          BY <1>0, <2>2, <3>1 DEF Begin, BeginStored, Throws, Cost, TypeOK
        <4> QED BY <1>0, <3>1, <4>1, <4>2, <4>3 DEF BeginStored, SettleInv, TypeOK
      <3>2. CASE BeginFails(m, r)
        BY <1>0, <1>1, <2>2, <3>2 DEF Begin, BeginFails, Throws, Cost, TypeOK, Waiting
      <3> QED BY <2>2, <3>1, <3>2 DEF Begin
    <2> QED BY <1>2, <2>1, <2>2 DEF Deliver, DeliverAccepted, SubmitTest
  <1>3. ASSUME NEW r \in Runs,
               SelectMatches(r) \/ GeminiAnswers(r) \/ ReminderSent(r) \/ MarkFails(r)
        PROVE  IncompleteNeedsCrash'
    <2>1. \A q \in Runs : Live(q) => Live(q)'
      BY <1>3, RemindsBeforeStore DEF SettleInv, BeforeStore, Waiting
    <2>2. faults' >= faults /\ crashes' = crashes
      BY <1>0, <1>3 DEF SelectMatches, GeminiAnswers, ReminderSent, MarkFails, Throws, TypeOK
    <2> QED BY <1>0, <1>1, <1>3, <2>1, <2>2, RemindsBeforeStore DEF SettleInv, TypeOK
  <1>4. ASSUME NEW r \in Runs,
               \/ HeuristicGate(r) \/ ExtractNothing(r) \/ StoreEvent(r) \/ IndexEvent(r)
               \/ FinishStore(r) \/ DueReminderSent(r) \/ Abort(r)
        PROVE  IncompleteNeedsCrash'
    <2> USE DEF Elsewhere, database, records
    <2>1. ASSUME NEW stage \in Waiting, Proceed(r, stage), Elsewhere,
                 UNCHANGED <<messages, completed, faults>>
          PROVE  IncompleteNeedsCrash'
      BY <1>0, <1>1, <2>1 DEF Proceed, TypeOK
    <2>2. ASSUME Complete(r, "dropped") \/ Complete(r, "completed"), Elsewhere, faults' >= faults
          PROVE  IncompleteNeedsCrash'
      BY <1>0, <2>2 DEF Complete, End, TypeOK, SettleInv
    <2>3. ASSUME End(r, "error"), UNCHANGED records, Elsewhere, Throws(2)
          PROVE  IncompleteNeedsCrash'
      BY <1>0, <2>3 DEF Throws, TypeOK
    <2>4. ASSUME End(r, "dropped"), msg[r] \notin messages, UNCHANGED <<records, faults>>,
                 Elsewhere
          PROVE  IncompleteNeedsCrash'
      BY <1>0, <2>4 DEF End, TypeOK, SettleInv
    <2>5. CASE HeuristicGate(r)
      <3>1. UNCHANGED faults /\ faults' >= faults
        BY <1>0, <2>5 DEF HeuristicGate, TypeOK
      <3> QED BY <2>1, <2>2, <2>5, <2>4, <3>1 DEF HeuristicGate, Waiting
    <2>6. CASE ExtractNothing(r) \/ DueReminderSent(r)
      BY <1>0, <2>2, <2>6 DEF ExtractNothing, DueReminderSent, TypeOK
    <2>7. CASE StoreEvent(r)
      BY <2>1, <2>7 DEF StoreEvent, Waiting
    <2>8. CASE IndexEvent(r)
      BY <2>1, <2>8 DEF IndexEvent, Waiting
    <2>9. CASE FinishStore(r)
      BY <1>0, <2>1, <2>2, <2>9 DEF FinishStore, Waiting, TypeOK
    <2>10. CASE Abort(r)
      <3>1. Throws(1) => faults' >= faults
        BY <1>0 DEF Throws, TypeOK
      <3> QED BY <2>2, <2>3, <2>10, <3>1 DEF Abort
    <2> QED BY <1>4, <2>5, <2>6, <2>7, <2>8, <2>9, <2>10
  <1>5. CASE (\E e \in Runs : UserStep(e)) \/ CleanupRecentlyProcessed \/ UNCHANGED vars
    <2>1. UNCHANGED <<messages, completed, pc, msg, faults, crashes>>
      BY <1>5 DEF UserStep, UpdateEventStatus, DeleteEvent, CleanupRecentlyProcessed,
         vars, database, records, locals, window, history
    <2> QED BY <1>0, <1>1, <2>1 DEF TypeOK
  <1>6. CASE Crash
    BY <1>0, <1>6 DEF Crash, TypeOK
  <1>7. CASE (\E c \in Chats : DeleteContact(c)) \/ CleanupTestData
    <2>1. PICK M, C : EraseMessages(M, C)
      BY <1>7 DEF DeleteContact, CleanupTestData
    <2> QED BY <1>0, <2>1 DEF EraseMessages, locals, SettleInv, TypeOK
  <1> QED BY <1>2, <1>3, <1>4, <1>5, <1>6, <1>7 DEF Next, ServiceStep, PushStep

\* A stored message stays incomplete with no run on it only after a crash or after
\* two throwing statements: no path of the pipeline forgets the flag.
THEOREM FlagNotForgotten == Spec => []IncompleteNeedsCrash
  <1>1. SettleInv => IncompleteNeedsCrash
    BY DEF SettleInv
  <1> QED BY <1>1, SettleInvInit, SettleInvNext, PTL DEF Spec

-----------------------------------------------------------------------------
(* Marks of proactive reminders. *)

LEMMA RemindInvInit == Init => RemindInv
  BY StoreInvInit, PipelineAssumption
  DEF Init, RemindInv, FreshUnseen, SendingAtPush, ReminderIsMarked

\* Going on to the next reminder disturbs nothing, if the last one is marked or
\* its mark is lost to a fault, and S holds events with a row only.
LEMMA RemindNext ==
  ASSUME StoreInv, StoreInv', FreshUnseen, SendingAtPush, ReminderIsMarked,
         NEW r \in Runs, NEW S \in SUBSET Runs, Remind(r, S), pc[r] \in BeforeStore,
         \A e \in S : ~Fresh(e),
         UNCHANGED <<source, crashes>>, faults' >= faults,
         triggerCount' \in [Runs -> Nat],
         \A e \in Runs : triggerCount[e] > 0 => triggerCount'[e] > 0,
         \/ faults' > 0
         \/ sending[r] = None
         \/ sending[r] # None /\ source[sending[r]] # None => triggerCount'[sending[r]] > 0
  PROVE  FreshUnseen' /\ SendingAtPush' /\ ReminderIsMarked'
  <1> USE PipelineAssumption
  <1>0. TypeOK /\ TypeOK'
    BY DEF StoreInv
  <1>1. \A q \in Runs : (Fresh(q)' <=> Fresh(q)) /\ (Live(q)' <=> Live(q))
    BY <1>0 DEF Remind, TypeOK, Fresh, Live, BeforeStore, Waiting
  <1>2. FreshUnseen'
    BY <1>0, <1>1 DEF FreshUnseen, Remind, TypeOK
  <1>3. SendingAtPush'
    BY <1>0 DEF SendingAtPush, Remind, TypeOK
  <1>4. ASSUME NEW e \in Runs, source[e] # None, notified'[e] > 0, triggerCount'[e] = 0,
               faults' = 0, crashes' = 0
        PROVE  \E q \in Runs : Live(q)' /\ sending'[q] = e
    <2>1. faults = 0 /\ crashes = 0 /\ triggerCount[e] = 0
      BY <1>0, <1>4 DEF TypeOK
    <2>2. CASE notified[e] > 0
      <3>1. PICK q \in Runs : Live(q) /\ sending[q] = e
        BY <1>4, <2>1, <2>2 DEF ReminderIsMarked
      <3>2. q # r
        BY <1>0, <1>4, <3>1 DEF TypeOK
      <3> QED BY <1>0, <1>1, <3>1, <3>2 DEF Remind, TypeOK
    <2>3. CASE ~(notified[e] > 0)
      <3>1. pc'[r] = "send" /\ sending'[r] = e
        BY <1>0, <1>4, <2>3 DEF Remind, TypeOK
      <3> QED BY <3>1 DEF Live, Waiting
    <2> QED BY <2>2, <2>3
  <1>5. ReminderIsMarked'
    BY <1>0, <1>4 DEF ReminderIsMarked, TypeOK
  <1> QED BY <1>2, <1>3, <1>5

LEMMA RemindInvNext == RemindInv /\ [Next]_vars => RemindInv'
  <1> SUFFICES ASSUME RemindInv, [Next]_vars
               PROVE  FreshUnseen' /\ SendingAtPush' /\ ReminderIsMarked'
    BY StoreInvNext DEF RemindInv
  <1> USE PipelineAssumption DEF RemindInv
  <1>0. StoreInv' /\ TypeOK /\ TypeOK'
    BY StoreInvNext DEF StoreInv
  <1>1. ASSUME UNCHANGED <<source, triggerCount, matches, sending, notified>>,
               faults' >= faults, crashes' = crashes,
               \A q \in Runs : /\ Fresh(q)' => Fresh(q)
                               /\ Live(q) => Live(q)' \/ sending[q] = None
                               /\ sending[q] # None => pc'[q] = pc[q]
        PROVE  FreshUnseen' /\ SendingAtPush' /\ ReminderIsMarked'
    BY <1>0, <1>1 DEF FreshUnseen, SendingAtPush, ReminderIsMarked, TypeOK
  <1>2. ASSUME NEW m \in Messages, Deliver(m)
        PROVE  FreshUnseen' /\ SendingAtPush' /\ ReminderIsMarked'
    <2>1. CASE DeliverDuplicate(m) \/ DeliverFails(m) \/ DeliverProcessed(m) \/ DeliverSkipped(m)
      BY <1>0, <1>1, <2>1 DEF DeliverDuplicate, DeliverFails, DeliverProcessed, DeliverSkipped,
         database, records, locals, TypeOK, Fresh, Live
    <2>2. ASSUME NEW r \in Runs, Begin(m, r)
          PROVE  FreshUnseen' /\ SendingAtPush' /\ ReminderIsMarked'
      <3>1. sending[r] = None
        BY <2>2 DEF Begin, SendingAtPush
      <3>2. CASE BeginStored(m, r)
        BY <1>0, <1>1, <2>2, <3>1, <3>2 DEF Begin, BeginStored, Throws, Cost, TypeOK, Fresh, Live,
           Waiting, BeforeStore
      <3>3. CASE BeginFails(m, r)
        BY <1>0, <1>1, <2>2, <3>1, <3>3 DEF Begin, BeginFails, Throws, Cost, TypeOK, Fresh, Live,
           Waiting, BeforeStore
      <3> QED BY <2>2, <3>2, <3>3 DEF Begin
    <2> QED BY <1>2, <2>1, <2>2 DEF Deliver, DeliverAccepted, SubmitTest
  <1>3. ASSUME NEW r \in Runs, NEW S \in SUBSET OpenEvents, pc[r] = "embed",
               SelectMatches(r), Remind(r, S)
        PROVE  FreshUnseen' /\ SendingAtPush' /\ ReminderIsMarked'
    <2>1. S \in SUBSET Runs /\ \A e \in S : ~Fresh(e)
      BY DEF OpenEvents, StoreInv, FreshIds
    <2>2. sending[r] = None /\ pc[r] \in BeforeStore
      BY <1>3 DEF SendingAtPush, BeforeStore
    <2> QED BY <1>0, <1>3, <2>1, <2>2, RemindNext, SelectOutcomes DEF records, TypeOK
  <1>4. ASSUME NEW r \in Runs, NEW S \in SUBSET OpenEvents, pc[r] = "embed",
               SelectMatches(r), Offer(r, S)
        PROVE  FreshUnseen' /\ SendingAtPush' /\ ReminderIsMarked'
    <2>1. S \in SUBSET Runs /\ \A e \in S : ~Fresh(e)
      BY DEF OpenEvents, StoreInv, FreshIds
    <2>2. \A q \in Runs : /\ Fresh(q)' <=> Fresh(q)
                          /\ Live(q)' <=> Live(q)
                          /\ pc'[q] = pc[q] \/ q = r
      BY <1>0, <1>4 DEF Offer, TypeOK, Fresh, Live, Waiting, BeforeStore
    <2>3. sending[r] = None
      BY <1>4 DEF SendingAtPush
    <2>4. UNCHANGED <<source, triggerCount, sending, notified, faults, crashes>>
      BY <1>0, <1>4, SelectOutcomes DEF Offer, records
    <2>5. FreshUnseen'
      BY <1>0, <1>4, <2>1, <2>2, <2>4 DEF FreshUnseen, Offer, TypeOK
    <2> QED BY <1>0, <2>2, <2>3, <2>4, <2>5 DEF SendingAtPush, ReminderIsMarked
  <1>5. ASSUME NEW r \in Runs, SelectMatches(r)
        PROVE  FreshUnseen' /\ SendingAtPush' /\ ReminderIsMarked'
    BY <1>0, <1>3, <1>4, <1>5, SelectOutcomes
  <1>6. \A r \in Runs : matches[r] \in SUBSET Runs /\ \A e \in matches[r] : ~Fresh(e)
    BY <1>0 DEF FreshUnseen, TypeOK
  <1>7. ASSUME NEW r \in Runs, GeminiAnswers(r)
        PROVE  FreshUnseen' /\ SendingAtPush' /\ ReminderIsMarked'
    <2>1. PICK S \in SUBSET matches[r] : Remind(r, S)
      BY <1>7 DEF GeminiAnswers
    <2>2. sending[r] = None /\ pc[r] \in BeforeStore
      BY <1>7 DEF GeminiAnswers, SendingAtPush, BeforeStore
    <2> QED BY <1>0, <1>6, <1>7, <2>1, <2>2, RemindNext DEF GeminiAnswers, database, records, TypeOK
  <1>8. ASSUME NEW r \in Runs, ReminderSent(r)
        PROVE  FreshUnseen' /\ SendingAtPush' /\ ReminderIsMarked'
    <2>1. /\ Remind(r, matches[r]) /\ pc[r] \in BeforeStore
          /\ UNCHANGED <<source, crashes, faults>>
      BY <1>8 DEF ReminderSent, BeforeStore
    <2>2. /\ \A e \in Runs : triggerCount[e] > 0 => triggerCount'[e] > 0
          /\ sending[r] # None /\ source[sending[r]] # None => triggerCount'[sending[r]] > 0
      BY <1>0, <1>8 DEF ReminderSent, MarkTriggered, TypeOK
    <2> QED BY <1>0, <1>6, <2>1, <2>2, RemindNext DEF TypeOK
  <1>9. ASSUME NEW r \in Runs, MarkFails(r)
        PROVE  FreshUnseen' /\ SendingAtPush' /\ ReminderIsMarked'
    <2>1. /\ Remind(r, {}) /\ pc[r] \in BeforeStore
          /\ UNCHANGED <<source, triggerCount, crashes>>
          /\ faults' > 0 /\ faults' >= faults
      BY <1>0, <1>9 DEF MarkFails, Throws, BeforeStore, database, records, TypeOK
    <2> QED BY <1>0, <2>1, RemindNext DEF TypeOK
  <1>10. ASSUME NEW r \in Runs,
               \/ HeuristicGate(r) \/ ExtractNothing(r) \/ IndexEvent(r)
               \/ FinishStore(r) \/ DueReminderSent(r) \/ Abort(r)
         PROVE  FreshUnseen' /\ SendingAtPush' /\ ReminderIsMarked'
    <2> USE DEF Elsewhere, Complete, End, Proceed, database, records
    <2>1. sending[r] = None
      BY <1>10 DEF HeuristicGate, ExtractNothing, IndexEvent, FinishStore, DueReminderSent, Abort,
         SendingAtPush
    <2>2. /\ UNCHANGED <<source, triggerCount, matches, sending, notified>>
          /\ crashes' = crashes
          /\ \A q \in Runs : q # r => pc'[q] = pc[q]
      BY <1>0, <1>10 DEF HeuristicGate, ExtractNothing, IndexEvent, FinishStore, DueReminderSent,
         Abort, TypeOK
    <2>3. faults' >= faults
      BY <1>0, <1>10 DEF HeuristicGate, ExtractNothing, IndexEvent, FinishStore, DueReminderSent,
         Abort, Throws, TypeOK
    <2>4. Fresh(r)' => Fresh(r)
      BY <1>0, <1>10 DEF HeuristicGate, ExtractNothing, IndexEvent, FinishStore, DueReminderSent,
         Abort, Fresh, BeforeStore, TypeOK
    <2> QED BY <1>1, <2>1, <2>2, <2>3, <2>4 DEF Fresh, Live
  <1>11. ASSUME NEW r \in Runs, StoreEvent(r)
         PROVE  FreshUnseen' /\ SendingAtPush' /\ ReminderIsMarked'
    <2> USE DEF Elsewhere, Proceed
    <2>1. Fresh(r) /\ sending[r] = None
      BY <1>11 DEF StoreEvent, SendingAtPush, Fresh, BeforeStore
    <2>2. notified[r] = 0
      BY <2>1 DEF FreshUnseen
    <2>3. /\ UNCHANGED <<matches, sending, notified, crashes, faults>>
          /\ pc'[r] = "vector"
          /\ \A q \in Runs : q # r => /\ pc'[q] = pc[q]
                                      /\ source'[q] = source[q]
                                      /\ triggerCount'[q] = triggerCount[q]
      BY <1>0, <1>11 DEF StoreEvent, TypeOK
    <2>4. \A q \in Runs : (Fresh(q)' => Fresh(q)) /\ (Live(q) => Live(q)')
      BY <2>1, <2>3 DEF Fresh, Live, Waiting, BeforeStore
    <2> QED BY <1>0, <2>1, <2>2, <2>3, <2>4
            DEF FreshUnseen, SendingAtPush, ReminderIsMarked, TypeOK
  <1>12. ASSUME NEW S \in SUBSET Runs, EraseEvents(S),
                UNCHANGED <<locals, notified, faults, crashes>>
         PROVE  FreshUnseen' /\ SendingAtPush' /\ ReminderIsMarked'
    BY <1>0, <1>12 DEF EraseEvents, locals, TypeOK, Fresh, Live,
       FreshUnseen, SendingAtPush, ReminderIsMarked
  <1>13. ASSUME NEW e \in Runs, UserStep(e)
         PROVE  FreshUnseen' /\ SendingAtPush' /\ ReminderIsMarked'
    <2>1. CASE \E s \in UserStatuses : UpdateEventStatus(e, s)
      BY <1>0, <1>1, <2>1 DEF UpdateEventStatus, locals, window, history, TypeOK, Fresh, Live
    <2>2. CASE DeleteEvent(e)
      BY <1>12, <2>2 DEF DeleteEvent, window, history
    <2> QED BY <1>13, <2>1, <2>2 DEF UserStep
  <1>14. CASE (\E c \in Chats : DeleteContact(c)) \/ CleanupTestData
    BY <1>12, <1>14 DEF DeleteContact, CleanupTestData, EraseMessages, EventsOfChats
  <1>15. CASE CleanupRecentlyProcessed \/ UNCHANGED vars
    BY <1>0, <1>1, <1>15 DEF CleanupRecentlyProcessed, vars, database, records, locals, window,
       history,
       TypeOK, Fresh, Live
  <1>16. CASE Crash
    <2>1. \A q \in Runs : Fresh(q)' => Fresh(q)
      BY <1>0, <1>16 DEF Crash, Fresh, Live, Waiting, BeforeStore, TypeOK
    <2> QED BY <1>0, <1>16, <2>1 DEF Crash, FreshUnseen, SendingAtPush, ReminderIsMarked, TypeOK
  <1> QED BY <1>2, <1>5, <1>7, <1>8, <1>9, <1>10, <1>11, <1>13, <1>14, <1>15, <1>16
          DEF Next, ServiceStep, PushStep

\* A proactive reminder that was pushed counts against its event as soon as the
\* push is answered, unless a fault or a crash loses the mark.
THEOREM RemindersMarked == Spec => []ReminderIsMarked
  <1>1. RemindInv => ReminderIsMarked
    BY DEF RemindInv
  <1> QED BY <1>1, RemindInvInit, RemindInvNext, PTL DEF Spec

-----------------------------------------------------------------------------
(* Runs make progress: no run ever goes back, or starts over. *)

Stage(s) ==
    CASE s = "idle" -> 0
      [] s = "embed" -> 1
      [] s = "gemini" -> 2
      [] s = "send" -> 3
      [] s = "gate" -> 4
      [] s = "extract" -> 5
      [] s = "vector" -> 6
      [] s = "stored" -> 7
      [] s = "notify" -> 8
      [] OTHER -> 9

\* A live run that goes on works on the same message.
SameMessage(r) == Live(r) /\ Live(r)' => msg'[r] = msg[r]

\* The run goes on to the next of the reminders it has left.
NextReminder(r) ==
    /\ pc[r] = "send" /\ pc'[r] = "send"
    /\ sending'[r] \in matches[r]
    /\ matches'[r] = matches[r] \ {sending'[r]}

Rests(r) ==
    /\ pc'[r] = pc[r]
    /\ Live(r) => matches'[r] = matches[r] /\ sending'[r] = sending[r]

Advances(r) ==
    /\ Stage(pc[r]) < Stage(pc'[r]) \/ NextReminder(r) \/ Rests(r)
    /\ SameMessage(r)

\* Every step of the system leaves a run where it is, takes it to a later stage, or to
\* the next of finitely many reminders.  So a run, and a run's name, is never used twice,
\* a run reminds of an event once, and only an await without an answer holds it up:
\* the safety side of the completion of stored messages.
RunsAdvance == [][\A r \in Runs : Advances(r)]_vars

LEMMA AdvanceRemind ==
  ASSUME TypeOK, NEW r \in Runs, NEW S \in SUBSET Runs, Remind(r, S), UNCHANGED msg,
         pc[r] \in {"embed", "gemini"} \/ (pc[r] = "send" /\ S \in {matches[r], {}})
  PROVE  \A q \in Runs : Advances(q)
  <1>1. \A q \in Runs : q # r => pc'[q] = pc[q] /\ matches'[q] = matches[q] /\ sending'[q] = sending[q]
    BY DEF Remind, TypeOK
  <1>2. Stage(pc[r]) < 4 /\ Stage("gate") = 4 /\ Stage("send") = 3
        /\ (pc[r] # "send" => Stage(pc[r]) < 3)
    BY DEF Stage
  <1>3. CASE S = {} /\ pc'[r] = "gate"
    BY <1>1, <1>2, <1>3 DEF Advances, SameMessage, Rests
  <1>4. CASE S # {} \/ pc'[r] # "gate"
    <2>1. PICK e \in S : pc'[r] = "send" /\ matches'[r] = S \ {e} /\ sending'[r] = e
      BY <1>4 DEF Remind, TypeOK
    <2>2. pc[r] = "send" => S = matches[r]
      BY <2>1
    <2> QED BY <1>1, <1>2, <2>1, <2>2 DEF Advances, SameMessage, Rests, NextReminder
  <1> QED BY <1>3, <1>4

LEMMA AdvanceProactive ==
  ASSUME TypeOK, NEW r \in Runs,
         SelectMatches(r) \/ GeminiAnswers(r) \/ ReminderSent(r) \/ MarkFails(r)
  PROVE  \A q \in Runs : Advances(q)
  <1>1. OpenEvents \in SUBSET Runs /\ matches[r] \in SUBSET Runs
    BY DEF OpenEvents, TypeOK
  <1>2. CASE SelectMatches(r)
    <2>1. PICK S \in SUBSET OpenEvents : Remind(r, S) \/ Offer(r, S)
      BY <1>2, SelectOutcomes
    <2>0. S \in SUBSET Runs
      BY <1>1, <2>1
    <2>2. CASE Offer(r, S)
      <3>1. Stage(pc[r]) < Stage(pc'[r])
        BY <1>2, <2>0, <2>2, SelectOutcomes, OfferTypes DEF Stage
      <3>2. UNCHANGED <<msg, sending>> /\ \A q \in Runs : q # r => matches'[q] = matches[q]
        BY <1>2, <2>2, SelectOutcomes DEF Offer, TypeOK
      <3> QED BY <2>0, <2>2, <3>1, <3>2, OfferTypes DEF Advances, SameMessage, Rests
    <2> QED BY <1>2, <2>0, <2>1, <2>2, SelectOutcomes, AdvanceRemind
  <1>3. CASE GeminiAnswers(r)
    BY <1>1, <1>3, AdvanceRemind DEF GeminiAnswers
  <1>4. CASE ReminderSent(r)
    BY <1>1, <1>4, AdvanceRemind DEF ReminderSent
  <1>5. CASE MarkFails(r)
    BY <1>5, AdvanceRemind DEF MarkFails
  <1> QED BY <1>2, <1>3, <1>4, <1>5

LEMMA AdvanceStages ==
  ASSUME TypeOK, NEW r \in Runs,
         \/ HeuristicGate(r) \/ ExtractNothing(r) \/ StoreEvent(r) \/ IndexEvent(r)
         \/ FinishStore(r) \/ DueReminderSent(r) \/ Abort(r)
  PROVE  \A q \in Runs : Advances(q)
  <1>1. pc[r] \in {"gate", "extract", "vector", "stored", "notify"} /\ UNCHANGED <<matches, sending>>
    BY DEF HeuristicGate, ExtractNothing, StoreEvent, IndexEvent, FinishStore, DueReminderSent,
       Abort, Elsewhere
  <1>2. ASSUME NEW how \in {"completed", "dropped", "error"}, End(r, how)
        PROVE  \A q \in Runs : Advances(q)
    BY <1>1, <1>2 DEF End, TypeOK, Advances, SameMessage, Rests, Stage, Live, Waiting
  <1>3. ASSUME NEW s, Proceed(r, s), Stage(pc[r]) < Stage(s)
        PROVE  \A q \in Runs : Advances(q)
    BY <1>1, <1>3 DEF Proceed, TypeOK, Advances, SameMessage, Rests
  <1>4. CASE HeuristicGate(r)
    BY <1>2, <1>3, <1>4 DEF HeuristicGate, Complete, Stage
  <1>5. CASE ExtractNothing(r) \/ DueReminderSent(r)
    BY <1>2, <1>5 DEF ExtractNothing, DueReminderSent, Complete
  <1>6. CASE StoreEvent(r)
    BY <1>3, <1>6 DEF StoreEvent, Stage
  <1>7. CASE IndexEvent(r)
    BY <1>3, <1>7 DEF IndexEvent, Stage
  <1>8. CASE FinishStore(r)
    BY <1>2, <1>3, <1>8 DEF FinishStore, Complete, Stage
  <1>9. CASE Abort(r)
    BY <1>2, <1>9 DEF Abort, Complete
  <1> QED BY <1>4, <1>5, <1>6, <1>7, <1>8, <1>9

LEMMA AdvanceDeliver ==
  ASSUME TypeOK, NEW m \in Messages, Deliver(m)
  PROVE  \A q \in Runs : Advances(q)
  <1> USE DEF Advances, SameMessage, Rests
  <1>1. CASE DeliverDuplicate(m) \/ DeliverFails(m) \/ DeliverProcessed(m) \/ DeliverSkipped(m)
    BY <1>1 DEF DeliverDuplicate, DeliverFails, DeliverProcessed, DeliverSkipped, locals
  <1>2. ASSUME NEW r \in Runs, Begin(m, r)
        PROVE  \A q \in Runs : Advances(q)
    <2>1. /\ \A q \in Runs : q # r => pc'[q] = pc[q] /\ msg'[q] = msg[q]
          /\ pc'[r] \in {"embed", "gate", "dropped", "error"}
      BY <1>2 DEF Begin, BeginStored, BeginFails, TypeOK
    <2>2. pc[r] = "idle" /\ ~Live(r) /\ UNCHANGED <<matches, sending>>
      BY <1>2 DEF Begin, Live, Waiting
    <2>3. Stage(pc[r]) = 0 /\ Stage(pc'[r]) \in {1, 4, 9}
      BY <2>1, <2>2 DEF Stage
    <2> QED BY <2>1, <2>2, <2>3
  <1> QED BY <1>1, <1>2 DEF Deliver, DeliverAccepted, SubmitTest

LEMMA AdvanceNext ==
  ASSUME TypeOK, [Next]_vars
  PROVE  \A q \in Runs : Advances(q)
  <1>1. CASE \/ \E e \in Runs : UserStep(e)
             \/ \E c \in Chats : DeleteContact(c)
             \/ CleanupTestData \/ CleanupRecentlyProcessed \/ UNCHANGED vars
    <2>1. UNCHANGED locals
      BY <1>1 DEF UserStep, UpdateEventStatus, DeleteEvent, DeleteContact, CleanupTestData,
         CleanupRecentlyProcessed, EraseMessages, vars, locals
    <2> QED BY <2>1 DEF locals, Advances, SameMessage, Rests
  <1>2. CASE Crash
    <2>1. \A q \in Runs : pc'[q] = IF Live(q) THEN "crashed" ELSE pc[q]
      BY <1>2 DEF Crash
    <2>2. \A q \in Runs : Live(q) => Stage(pc[q]) < Stage("crashed")
      BY DEF Live, Waiting, Stage
    <2> QED BY <2>1, <2>2 DEF Advances, SameMessage, Rests, Live, Waiting
  <1> QED BY <1>1, <1>2, AdvanceDeliver, AdvanceProactive, AdvanceStages
          DEF Next, ServiceStep, PushStep

\* No run loops, however runs, faults, crashes and deletions interleave.
THEOREM NoRunLoops == Spec => RunsAdvance
  <1>1. TypeOK /\ [Next]_vars => [\A r \in Runs : Advances(r)]_vars
    BY AdvanceNext
  <1> QED BY <1>1, TypeCorrect, PTL DEF Spec, RunsAdvance

-----------------------------------------------------------------------------
(* What a log row holds in place. *)

\* Once one message of a chat is logged, its contact and the message are kept whatever
\* the user deletes: neither the deletion of the contact nor that of the test data
\* ever gets through again.  It is what pipeline_contact shows on one instance, and
\* the reason EventsHaveOrigin survives deletions.
LoggedIsKept ==
    [][\A m \in logged :
        /\ m \in logged' /\ m \in messages' /\ ChatOf[m] \in contacts'
        /\ ~DeleteContact(ChatOf[m])
        /\ m \in TestTexts \/ ChatOf[m] \in TestChats => ~CleanupTestData]_vars

LEMMA LogsStay == StoreInv /\ [Next]_vars => logged \subseteq logged'
  <1> SUFFICES ASSUME StoreInv, [Next]_vars
               PROVE  logged \subseteq logged'
    OBVIOUS
  <1> USE DEF Log, database, records
  <1>1. ASSUME NEW m \in Messages, Deliver(m)
        PROVE  UNCHANGED logged
    BY <1>1 DEF Deliver, DeliverDuplicate, DeliverFails, DeliverProcessed, DeliverSkipped,
       DeliverAccepted, SubmitTest, Begin
  <1>2. ASSUME NEW r \in Runs, ServiceStep(r) \/ PushStep(r)
        PROVE  logged \subseteq logged'
    BY <1>2 DEF ServiceStep, PushStep, SelectMatches, GeminiAnswers, ReminderSent, MarkFails,
       HeuristicGate, ExtractNothing, StoreEvent, IndexEvent, FinishStore, DueReminderSent, Abort
  <1>3. ASSUME \/ \E e \in Runs : UserStep(e)
               \/ \E c \in Chats : DeleteContact(c)
               \/ CleanupTestData \/ CleanupRecentlyProcessed \/ Crash \/ UNCHANGED vars
        PROVE  UNCHANGED logged
    BY <1>3 DEF UserStep, UpdateEventStatus, DeleteEvent, DeleteContact, CleanupTestData,
       EraseMessages, CleanupRecentlyProcessed, Crash, vars
  <1> QED BY <1>1, <1>2, <1>3 DEF Next

\* The deletion of a contact with a logged message never succeeds, for any messages,
\* chats, runs and bounds.
THEOREM LogsHold == Spec => LoggedIsKept
  <1>1. ASSUME StoreInv, [Next]_vars, NEW m \in logged
        PROVE  /\ m \in logged' /\ m \in messages' /\ ChatOf[m] \in contacts'
               /\ ~DeleteContact(ChatOf[m])
               /\ m \in TestTexts \/ ChatOf[m] \in TestChats => ~CleanupTestData
    <2>1. m \in messages /\ m \in logged'
      BY <1>1, LogsStay DEF StoreInv, TypeOK
    <2>2. m \in messages' /\ ChatOf[m] \in contacts'
      BY <1>1, <2>1, StoreInvNext DEF StoreInv, TypeOK, MessagesHaveContact
    <2> QED BY <2>1, <2>2 DEF DeleteContact, CleanupTestData, MessagesOf
  <1>2. StoreInv /\ [Next]_vars =>
          [\A m \in logged :
              /\ m \in logged' /\ m \in messages' /\ ChatOf[m] \in contacts'
              /\ ~DeleteContact(ChatOf[m])
              /\ m \in TestTexts \/ ChatOf[m] \in TestChats => ~CleanupTestData]_vars
    BY <1>1
  <1> QED BY <1>2, StoreInvInit, StoreInvNext, PTL DEF Spec, LoggedIsKept

=============================================================================
